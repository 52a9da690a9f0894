SPECIFICATION FairSpec
CONSTANTS
    r1 = r1
    r2 = r2
    d1 = d1
    d2 = d2
    s1 = s1
    s2 = s2
    Worker = worker
    NoRide = NoRide
    NoDriver = NoDriver
    Keep = Keep
    Absent = Absent
    Ride <- OneRide
    Driver <- OneDriver
    Offer <- TwoOffers
    Session <- OneSession
    RequestKey <- OwnKeys
    RegionMatch <- NoRegions
    Kinds <- CrashKinds
    MaxRetries = 1
    Serial = FALSE
CHECK_DEADLOCK FALSE
PROPERTY OfferExpiryAutomatic
