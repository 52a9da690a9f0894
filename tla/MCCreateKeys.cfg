SPECIFICATION FairSpec
CONSTANTS
    k1 = k1
    k2 = k2
    b1 = b1
    b2 = b2
    q1 = q1
    q2 = q2
    q3 = q3
    ride1 = ride1
    ride2 = ride2
    ride3 = ride3
    NoKey = NoKey
    NoBody = NoBody
    NoRide = NoRide
    Request <- TwoRequests
    Key <- TwoKeys
    Body <- TwoBodies
    Ride <- TwoRides
    MayFail <- FailingKeys
CHECK_DEADLOCK FALSE
INVARIANT TypeOK
INVARIANT OneRidePerKey
INVARIANT OneAnswerPerKey
PROPERTY KeepsPromise
PROPERTY RequestEnds
PROPERTY KeyResolves
