SPECIFICATION Spec
CONSTANTS
    r1 = r1
    r2 = r2
    d1 = d1
    d2 = d2
    s1 = s1
    s2 = s2
    Worker = worker
    NoRide = NoRide
    NoDriver = NoDriver
    Keep = Keep
    Absent = Absent
    Ride <- OneRide
    Driver <- TwoDrivers
    Offer <- TwoOffers
    Session <- OneSession
    RequestKey <- OwnKeys
    RegionMatch <- NoRegions
    Kinds <- SerialKinds
    MaxRetries = 1
    Serial = TRUE
SYMMETRY DriversAndSessions
CHECK_DEADLOCK FALSE
PROPERTY OffersOnlyToEligible
