---------------------------- MODULE MCOverview ----------------------------
(* A dashboard opened in the months at which the six months before wrap    *)
(* around the end of a year, or just do not, with up to two transactions.  *)
EXTENDS Overview

FinancesOfUser == {"card", "Cash"}
\* January and May; a month may pass.
MonthsOfInterest == {25, 29}
\* This month, the first of the six, the one before, a namesake.
AgesOfInterest == {0, 5, 6, 12}
=============================================================================
