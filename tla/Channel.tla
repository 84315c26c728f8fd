------------------------------ MODULE Channel ------------------------------
(***************************************************************************)
(* What a connection promises the applications at its ends, one direction  *)
(* each: messages are handed over one at a time, whole, in the order in    *)
(* which they were sent, none twice and none skipped.  That they arrive is *)
(* not promised: what is under way when an end closes is lost.             *)
(***************************************************************************)
EXTENDS Sequences

CONSTANTS
  Ends,         \* the two ends
  Message,      \* what may be sent
  None          \* nothing was heard yet

VARIABLES
  underway,     \* what was sent to each end and not handed over, oldest first
  heard         \* what was handed over to each end last

vars == <<underway, heard>>

Init ==
  /\ underway = [e \in Ends |-> <<>>]
  /\ heard = [e \in Ends |-> None]

\* Send is never refused: the sender does not learn that an end is closed.
Send(e, m) ==
  /\ underway' = [underway EXCEPT ![e] = Append(@, m)]
  /\ UNCHANGED heard

Receive(e) ==
  /\ underway[e] # <<>>
  /\ heard' = [heard EXCEPT ![e] = Head(underway[e])]
  /\ underway' = [underway EXCEPT ![e] = Tail(@)]

Next == \E e \in Ends : Receive(e) \/ \E m \in Message : Send(e, m)

Spec == Init /\ [][Next]_vars
=============================================================================
