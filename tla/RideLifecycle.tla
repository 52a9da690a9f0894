--------------------------- MODULE RideLifecycle ---------------------------
(***************************************************************************)
(* What rides and dispatch promise about one ride, without tables,         *)
(* sessions, commits or a worker: the stages a ride goes through, whom it  *)
(* is offered to, and who drives it.  A left-over offer of a cancelled     *)
(* ride still counts: whoever it names may take the ride up again.         *)
(* A driver who leaves and an expiry pass move several rides at once.      *)
(***************************************************************************)
EXTENDS Naturals

CONSTANTS
    Ride, Driver, Nobody,
    MaxRounds   \* further rounds of offers that dispatch may start for a ride

VARIABLE life   \* of each ride: its stage, the driver asked, the driver it has, the rounds started

\* Under way, each stage has one successor.
NextStage ==
    [DRIVER_ASSIGNED |-> "DRIVER_EN_ROUTE",
     DRIVER_EN_ROUTE |-> "DRIVER_ARRIVED",
     DRIVER_ARRIVED  |-> "RIDE_STARTED",
     RIDE_STARTED    |-> "RIDE_COMPLETED"]

Final == {"RIDE_COMPLETED", "CANCELLED"}
Stage == {"NONE", "REQUESTED", "MATCHING", "NO_DRIVERS_FOUND"} \cup DOMAIN NextStage \cup Final

Life == [stage: Stage, asked: Driver \cup {Nobody}, mate: Driver \cup {Nobody}, rounds: 0..MaxRounds]

NotRequested == [stage |-> "NONE", asked |-> Nobody, mate |-> Nobody, rounds |-> 0]
Fresh == [stage |-> "MATCHING", asked |-> Nobody, mate |-> Nobody, rounds |-> 0]

Init == life = [r \in Ride |-> NotRequested]

-----------------------------------------------------------------------------
(* The moves of one ride, from the life "l" to the life "m" *)

Idling(l) == l.stage = "MATCHING" /\ l.asked = Nobody

Request(l, m) == l.stage = "NONE" /\ m = Fresh

Ask(l, m) == Idling(l) /\ \E d \in Driver : m = [l EXCEPT !.asked = d]

\* The offer is rejected or expires.
Unanswered(l, m) == l.asked # Nobody /\ m = [l EXCEPT !.asked = Nobody]

Accept(l, m) ==
    /\ l.asked # Nobody
    /\ m = [stage |-> "DRIVER_ASSIGNED", asked |-> Nobody, mate |-> l.asked, rounds |-> l.rounds]

Round(l, m) == Idling(l) /\ l.rounds < MaxRounds /\ m = [l EXCEPT !.rounds = l.rounds + 1]

GiveUp(l, m) == Idling(l) /\ m = [l EXCEPT !.stage = "NO_DRIVERS_FOUND"]

Redispatch(l, m) == l.stage \in {"MATCHING", "NO_DRIVERS_FOUND"} /\ m = Fresh

Advance(l, m) == l.stage \in DOMAIN NextStage /\ m = [l EXCEPT !.stage = NextStage[l.stage]]

\* The driver asked, or the one the ride had, stays on record.
Cancel(l, m) == l.stage \notin Final \cup {"NONE"} /\ m = [l EXCEPT !.stage = "CANCELLED"]

Move(l, m) ==
    \/ Request(l, m) \/ Ask(l, m) \/ Unanswered(l, m) \/ Accept(l, m) \/ Round(l, m)
    \/ GiveUp(l, m) \/ Redispatch(l, m) \/ Advance(l, m) \/ Cancel(l, m)

Next ==
    /\ life' \in [Ride -> Life]
    /\ \A r \in Ride : life'[r] = life[r] \/ Move(life[r], life'[r])

Spec == Init /\ [][Next]_life

-----------------------------------------------------------------------------
(* What the promise implies *)

\* A ride waits for an answer only while it is matched, or after it was cancelled
\* meanwhile, and then it has no driver; nor has a ride that is being matched.
Courted ==
    \A r \in Ride :
        /\ life[r].asked # Nobody => life[r].stage \in {"MATCHING", "CANCELLED"} /\ life[r].mate = Nobody
        /\ life[r].stage \in {"NONE", "REQUESTED", "MATCHING", "NO_DRIVERS_FOUND"} => life[r].mate = Nobody

\* A ride is never taken from the driver it has, nor handed to another one, and a
\* completed ride never changes at all.
Kept ==
    \A r \in Ride :
        /\ life[r].mate # Nobody => life'[r].mate = life[r].mate
        /\ life[r].stage = "RIDE_COMPLETED" => life'[r] = life[r]

Faithful == [][Kept]_life
=============================================================================
