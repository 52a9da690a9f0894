SPECIFICATION Spec
CONSTANTS
    r1 = r1
    r2 = r2
    d1 = d1
    d2 = d2
    s1 = s1
    s2 = s2
    Worker = worker
    NoRide = NoRide
    NoDriver = NoDriver
    Keep = Keep
    Absent = Absent
    Ride <- OneRide
    Driver <- TwoDrivers
    Offer <- FiveOffers
    Session <- OneSession
    RequestKey <- OwnKeys
    RegionMatch <- D1Local
    Kinds <- BudgetKinds
    MaxRetries = 1
    Serial = TRUE
CHECK_DEADLOCK FALSE
INVARIANT OfferBudget
