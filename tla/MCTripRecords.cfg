SPECIFICATION LiveSpec
CONSTANTS
  MaxRides = 3
  Tours <- MCTours
  None = None
INVARIANTS TypeOK ScreenFollows MoneyAddsUp
PROPERTY ScreensSettle
CHECK_DEADLOCK FALSE
