------------------------- MODULE MCIdempotentCreate -------------------------
(* Small instances of IdempotentCreate for TLC. *)
EXTENDS IdempotentCreate, TLC, FiniteSets

CONSTANTS k1, k2, b1, b2, q1, q2, q3, ride1, ride2, ride3

OneKey == {k1}
TwoKeys == {k1, k2}
OneBody == {b1}
TwoBodies == {b1, b2}
TwoRequests == {q1, q2}
ThreeRequests == {q1, q2, q3}
TwoRides == {ride1, ride2}
ThreeRides == {ride1, ride2, ride3}

\* Requests under k1 and requests without a key may stop, those under k2 do not.
FailingKeys == {k1, NoKey}

Interchangeable == Permutations(Request) \cup Permutations(Ride)
=============================================================================
