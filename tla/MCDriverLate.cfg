SPECIFICATION Spec
CONSTANTS
    Guests = {"absent"}
    MaxRides = 1
    SharedRides = 0
    MaxFaults = 0
    MaxCalls = 1
PROPERTIES
    LateAcceptShowsExpired
CHECK_DEADLOCK FALSE
