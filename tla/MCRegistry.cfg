SPECIFICATION Spec
CONSTANTS
  Conn = {c1, c2, c3}
  Null = Null
  MaxBroadcasts = 2
INVARIANTS
  BroadcastReachesAll
  NoNullsLeft
  GoneIsRemoved
CHECK_DEADLOCK FALSE
