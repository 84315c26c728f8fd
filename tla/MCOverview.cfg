SPECIFICATION Spec
CONSTANTS
  Finances <- FinancesOfUser
  Months <- MonthsOfInterest
  Ages <- AgesOfInterest
  MaxLoaded = 2
  MaxPassed = 1
  MaxClicks = 4
INVARIANTS
  TypeOK
  ListIsFiltered
  StatisticsAreRight
CHECK_DEADLOCK FALSE
