SPECIFICATION Spec
CONSTANTS
  Producers = {p1, p2}
  Consumer = c
  Item = {m1, m2}
  None = None
  QueueBound = 2
INVARIANTS
  PopsAreSafe
  LockOrder
PROPERTIES
  QueueSpec
