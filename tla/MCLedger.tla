------------------------------ MODULE MCLedger ------------------------------
(* One user and his cards.                                                 *)
EXTENDS Ledger
=============================================================================
