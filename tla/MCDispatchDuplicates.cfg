SPECIFICATION Spec
CONSTANTS
    r1 = r1
    r2 = r2
    d1 = d1
    d2 = d2
    s1 = s1
    s2 = s2
    Worker = worker
    NoRide = NoRide
    NoDriver = NoDriver
    Keep = Keep
    Absent = Absent
    Ride <- TwoRides
    Driver <- TwoDrivers
    Offer <- TwoOffers
    Session <- TwoSessions
    RequestKey <- SameKey
    RegionMatch <- NoRegions
    Kinds <- CreateKinds
    MaxRetries = 1
    Serial = FALSE
SYMMETRY DriversAndSessions
CHECK_DEADLOCK FALSE
INVARIANT NoDuplicateActiveRides
