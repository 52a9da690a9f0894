SPECIFICATION LiveSpec
CONSTANTS
    Routes = {"r"}
    MaxRides = 1
    MaxRedispatch = 0
    Tours <- MCPlain
PROPERTIES
    RefreshRecovers
CHECK_DEADLOCK FALSE
