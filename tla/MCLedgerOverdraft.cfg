SPECIFICATION Spec
CONSTANTS
  Cards = {c1, c2, c3}
  InitialCards = {c1, c2}
  Attentive = FALSE
  MaxAmount = 2
  MaxRequests = 3
  MaxFaults = 0
INVARIANTS
  WithdrawalsAreCovered
CHECK_DEADLOCK FALSE
