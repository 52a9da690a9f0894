SPECIFICATION LiveSpec
CONSTANTS
    Guests = {"absent", "no", "yes"}
    MaxRides = 1
    SharedRides = 0
    MaxFaults = 1
    MaxCalls = 1
INVARIANTS
    TypeOK
    OperationsNeedApproval
    NeverAhead
PROPERTIES
    ScreensCatchUp
    SignedOutGoesOffline
CHECK_DEADLOCK FALSE
