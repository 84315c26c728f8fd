----------------------------- MODULE MCDailyJobs -----------------------------
(* Three days: a first evening, a second one and the midnights between them. *)
(* The one recurring row is due on the second day, so that the server may    *)
(* also start on days without a row, and go on from one to the other.        *)
EXTENDS DailyJobs

CONSTANT r1
RowDays == [r \in {r1} |-> 2]
=============================================================================
