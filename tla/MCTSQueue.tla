----------------------------- MODULE MCTSQueue -----------------------------
(* The queue with two pushing threads, two messages and room for two, so   *)
(* that pushes contend with each other and with every operation.           *)
EXTENDS TSQueue
=============================================================================
