SPECIFICATION Spec
CONSTANTS
    Routes = {"r", "q"}
    MaxRides = 1
    MaxRedispatch = 0
    Tours <- MCPlain
INVARIANT PricedForItsRoute
CHECK_DEADLOCK FALSE
