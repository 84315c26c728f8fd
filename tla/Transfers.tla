------------------------------ MODULE Transfers ------------------------------
(***************************************************************************)
(* What a ledger promises: money only moves, at one instant from where it  *)
(* was to where it goes, and never more of it than there is, except to the *)
(* holdings where anything is taken.  To move less than nothing is to move *)
(* money the other way.  A ledger that changes one place after the other   *)
(* may break between the two; then nothing is promised until it is mended. *)
(***************************************************************************)
EXTENDS Integers

CONSTANTS
  Holding,      \* where money can be
  Limited,      \* the holdings that are asked whether they have what is moved
  Free,         \* the holdings money is moved to, or comes from, unasked
  Amount        \* how much may be moved, less than nothing included

VARIABLES
  balance,      \* how much is on every holding
  broken        \* the ledger was interrupted, or misinformed

vars == <<balance, broken>>

Init ==
  /\ balance \in [Holding -> Int]
  /\ \A h \in Limited : balance[h] >= 0
  /\ broken = FALSE

Transfer(from, to, amount) ==
  /\ to \in Free \/ amount <= balance[from]
  /\ balance' = [h \in Holding |-> balance[h] + (IF h = to THEN amount ELSE 0)
                                              - (IF h = from THEN amount ELSE 0)]
  /\ UNCHANGED broken

Break ==
  /\ broken' = TRUE
  /\ balance' \in [Holding -> Int]

Mend ==
  /\ broken' = FALSE
  /\ UNCHANGED balance

Next ==
  \/ \E from \in Limited, to \in Holding \ Limited, amount \in Amount :
       Transfer(from, to, amount)
  \/ Break \/ Mend

Spec == Init /\ [][Next]_vars
=============================================================================
