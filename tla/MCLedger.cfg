SPECIFICATION Spec
CONSTANTS
  Cards = {c1, c2}
  InitialCards = {c1}
  Attentive = TRUE
  MaxAmount = 1
  MaxRequests = 3
  MaxFaults = 2
INVARIANTS
  TypeOK
  MoneyConserved
  WithdrawalsAreCovered
  CacheIsCurrent
PROPERTIES
  TransfersSpec
CHECK_DEADLOCK FALSE
