SPECIFICATION Spec
CONSTANTS
    Routes = {"r"}
    MaxRides = 1
    MaxRedispatch = 0
    Tours <- MCTours
INVARIANTS
    RatingStands
CHECK_DEADLOCK FALSE
