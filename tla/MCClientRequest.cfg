SPECIFICATION Spec
CONSTANTS
  Remembered = TRUE
  QueriesExecute = TRUE
  Buttons <- RememberedButtons
  MaxClicks = 3
  MaxItems = 2
INVARIANTS
  TypeOK
  OwnAnswer
  Quiescent
  AcceptedIsPerformed
  ReadAsWritten
  AskedInAName
PROPERTIES
  HandlersReturn
CHECK_DEADLOCK FALSE
