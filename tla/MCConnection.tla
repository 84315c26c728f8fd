---------------------------- MODULE MCConnection ----------------------------
(* One client, one server; ServerAccept and two more messages one way, one  *)
(* the other way.                                                          *)
EXTENDS Connection
=============================================================================
