SPECIFICATION Spec
CONSTANTS
    r1 = r1
    r2 = r2
    d1 = d1
    d2 = d2
    s1 = s1
    s2 = s2
    Worker = worker
    NoRide = NoRide
    NoDriver = NoDriver
    Keep = Keep
    Absent = Absent
    Ride <- OneRide
    Driver <- TwoDrivers
    Offer <- TwoOffers
    Session <- TwoSessions
    RequestKey <- OwnKeys
    RegionMatch <- NoRegions
    Kinds <- OverlapKinds
    MaxRetries = 1
    Serial = FALSE
SYMMETRY DriversAndSessions
CHECK_DEADLOCK FALSE
INVARIANT RetryCap
INVARIANT AssignedWasOffered
INVARIANT OffersOnlyToApproved
