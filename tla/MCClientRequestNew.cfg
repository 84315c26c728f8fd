SPECIFICATION Spec
CONSTANTS
  Remembered = FALSE
  QueriesExecute = TRUE
  Buttons <- NewUserButtons
  MaxClicks = 2
  MaxItems = 1
INVARIANTS
  OwnAnswer
CHECK_DEADLOCK FALSE
