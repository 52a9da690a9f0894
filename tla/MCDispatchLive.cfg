SPECIFICATION FairSpec
CONSTANTS
    r1 = r1
    r2 = r2
    d1 = d1
    d2 = d2
    s1 = s1
    s2 = s2
    Worker = worker
    NoRide = NoRide
    NoDriver = NoDriver
    Keep = Keep
    Absent = Absent
    Ride <- OneRide
    Driver <- OneDriver
    Offer <- FourOffers
    Session <- OneSession
    RequestKey <- OwnKeys
    RegionMatch <- NoRegions
    Kinds <- LiveKinds
    MaxRetries = 1
    Serial = FALSE
CHECK_DEADLOCK FALSE
INVARIANT RetryCap
INVARIANT AssignedWasOffered
INVARIANT OffersOnlyToApproved
PROPERTIES
    OfferResolved
    MatchingEnds
