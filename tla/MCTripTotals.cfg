SPECIFICATION Spec
CONSTANTS
  MaxRides = 3
  Tours <- MCTours
  None = None
INVARIANT ViewsTellTheSame
CHECK_DEADLOCK FALSE
