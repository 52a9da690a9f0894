SPECIFICATION Spec
CONSTANTS
    Guests = {"no", "yes"}
    MaxRides = 1
    SharedRides = 1
    MaxFaults = 1
    MaxCalls = 1
INVARIANTS
    TypeOK
    OperationsNeedApproval
    NeverAhead
CHECK_DEADLOCK FALSE
