SPECIFICATION Spec
CONSTANTS
  r1 = r1
  Absent = Absent
  MaxDay = 3
  MaxFaults = 2
  Subscribers = {u1, u2}
  Rows = {r1}
  DayOfMonth <- RowDays
  Owners = {u1}
INVARIANTS
  TypeOK
  NotTwice
  FilesTellTruth
  HistoryIsTrue
PROPERTIES
  NothingForgotten
  ServesAgain
CHECK_DEADLOCK FALSE
