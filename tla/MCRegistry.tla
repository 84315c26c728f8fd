----------------------------- MODULE MCRegistry -----------------------------
(* Three connections and two broadcasts: one asks, one listens, one comes  *)
(* or goes meanwhile.                                                      *)
EXTENDS Registry
=============================================================================
