--------------------------- MODULE MCRideDispatch ---------------------------
(* Small instances of RideDispatch for TLC. *)
EXTENDS RideDispatch, TLC

CONSTANTS r1, r2, d1, d2, s1, s2

OneRide == {r1}
TwoRides == {r1, r2}
OneDriver == {d1}
TwoDrivers == {d1, d2}
TwoSessions == {s1, s2}
OneSession == {s1}

TwoOffers == 1..2
ThreeOffers == 1..3
FourOffers == 1..4
FiveOffers == 1..5

\* Every ride is requested with other addresses, or all with the same ones.
OwnKeys == [r \in Ride |-> r]
SameKey == [r \in Ride |-> r1]

\* No region is set anywhere: the region filter never selects anybody.
NoRegions == {}
\* d1 works in the region of every ride, the others elsewhere.
D1Local == Ride \X {d1}

AllKinds == {"create", "accept", "reject", "cancel", "status", "complete", "redispatch", "availability",
             "suspend", "presence", "approve", "worker", "lapse", "abort", "restart"}

\* The life of a ride and the worker; drivers toggle, and any step may fail.
SerialKinds == AllKinds \ {"suspend", "presence", "approve"}
\* Dispatch rounds only, over every way a driver becomes or stops being eligible.
BudgetKinds == AllKinds \ {"redispatch", "status", "complete"}
\* Two requests and the worker race for one ride.
OverlapKinds == {"create", "accept", "reject", "redispatch", "worker"}
\* A driver who answers or does not, and the worker.
LiveKinds == {"create", "accept", "reject", "cancel", "worker"}

CreateKinds == {"create"}
CrashKinds == {"create", "worker", "abort"}

DriversAndSessions == Permutations(Driver) \cup Permutations(Session)
=============================================================================
