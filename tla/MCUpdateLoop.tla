---------------------------- MODULE MCUpdateLoop ----------------------------
(* The server: one asio thread, one main thread.                           *)
EXTENDS UpdateLoop
=============================================================================
