------------------------------ MODULE MCSession ------------------------------
(* Two machines that may be used by the same user or by two.                 *)
EXTENDS Session, TLC

CONSTANTS m1, m2, A, B, c1, c2
Symmetry ==
  Permutations({m1, m2}) \cup Permutations({A, B}) \cup Permutations({c1, c2})
=============================================================================
