SPECIFICATION Spec
CONSTANTS
    Guests = {"absent", "no", "yes"}
    MaxRides = 0
    SharedRides = 0
    MaxFaults = 1
    MaxCalls = 1
INVARIANTS
    OnlyApprovedOperate
CHECK_DEADLOCK FALSE
