SPECIFICATION LiveSpec
CONSTANTS
    Routes = {"r"}
    MaxRides = 1
    MaxRedispatch = 0
    Tours <- MCTours
INVARIANTS
    TypeOK
    FeedbackConsistent
    SessionAgrees
PROPERTIES
    TrackingLeaves
CHECK_DEADLOCK FALSE
