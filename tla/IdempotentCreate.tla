-------------------------- MODULE IdempotentCreate --------------------------
(***************************************************************************)
(* POST /api/v1/rides/request of one rider: IdempotencyService around      *)
(* RideService.create_ride.  The key's row is flushed in the transaction   *)
(* that the first commit inside create_ride ends, so the row becomes       *)
(* visible "in progress" before its answer is stored by a later commit.    *)
(* Every request is a session of its own; a crash or an exception at any   *)
(* await rolls back what the session has not committed.  Dispatch of the   *)
(* new ride, which runs before the answer is stored, is module             *)
(* RideDispatch.                                                           *)
(***************************************************************************)
EXTENDS FiniteSets, Naturals

CONSTANTS
    Request,  \* requests that may be in flight at once
    Key,      \* values of the Idempotency-Key header
    Body,     \* addresses and ride type of a request
    Ride,     \* ids that rides may get
    NoKey,    \* the header is missing
    MayFail,  \* keys whose requests may stop at any await
    NoBody, NoRide

VARIABLES
    rider,    \* the rider's row exists
    record,   \* marketplace_schema.idempotency_keys: committed rows
    rides,    \* marketplace_schema.rides; "key" is the key of the request that inserted the row
    answers,  \* the successful answers sent
    sess      \* the requests in flight

vars == <<rider, record, rides, answers, sess>>

ASSUME FailAssumption == MayFail \subseteq Key \cup {NoKey}
ASSUME NoneAssumption == NoKey \notin Key /\ NoBody \notin Body /\ NoRide \notin Ride

Header == Key \cup {NoKey}

\* body = NoBody: no such row.  ride = NoRide: response_json is null.
RecordRow == [body: Body \cup {NoBody}, ride: Ride \cup {NoRide}]
RideRow == [status: {"NONE", "OPEN", "CLOSED"}, body: Body \cup {NoBody}, key: Header]
Answer == [key: Header, body: Body, ride: Ride]
Session == [pc: {"idle", "flush", "rider", "addrider", "lookup", "insert", "complete"},
            key: Header, body: Body \cup {NoBody}, ride: Ride \cup {NoRide}]

NoRecord == [body |-> NoBody, ride |-> NoRide]
Idle == [pc |-> "idle", key |-> NoKey, body |-> NoBody, ride |-> NoRide]

Put(s, state) == sess' = [sess EXCEPT ![s] = state]
At(s, pc) == Put(s, [sess[s] EXCEPT !.pc = pc])

\* Where a request is once begin has returned.
Begun == {"rider", "addrider", "lookup", "insert", "complete"}

\* The key's row with what a commit of session s writes to it.
Stored(k, row) == IF k = NoKey THEN record ELSE [record EXCEPT ![k] = row]
InProgress(s) == Stored(sess[s].key, [body |-> sess[s].body, ride |-> NoRide])

\* Bound of the model: a request starts only while there is a ride id for it and
\* for every request in flight.
IdsLeft ==
    Cardinality({r \in Ride : rides[r].status = "NONE"}) > Cardinality({t \in Request : sess[t].pc # "idle"})

-----------------------------------------------------------------------------
(* IdempotencyService.begin *)

\* The look-up finds no row of the key.  A row in progress, or one of another
\* request, is refused: the request ends and nothing changes.
Begin(s, k, b) ==
    /\ sess[s].pc = "idle"
    /\ IdsLeft
    /\ \/ k = NoKey /\ Put(s, [pc |-> "rider", key |-> k, body |-> b, ride |-> NoRide])
       \/ /\ k # NoKey
          /\ record[k] = NoRecord
          /\ Put(s, [pc |-> "flush", key |-> k, body |-> b, ride |-> NoRide])
    /\ UNCHANGED <<rider, record, rides, answers>>

\* Mistake: the stored answer is returned without comparing the requests.
AnyAnswer(k, b) == record[k].ride # NoRide

\* Mistake: the row is enough, whether or not it holds an answer.
AnyRecord(k, b) == record[k].body = b

HasAnswer(k, b) == record[k].body = b /\ record[k].ride # NoRide

Replay(k, b) ==
    /\ HasAnswer(k, b)
    /\ answers' = answers \cup {[key |-> k, body |-> b, ride |-> record[k].ride]}
    /\ UNCHANGED <<rider, record, rides, sess>>

\* Mistake: the flush does not notice the row of another session.
Unguarded(s, k) == TRUE

\* PostgreSQL makes an insert wait while another open transaction holds the same
\* unique key.
Free(s, k) ==
    record[k] # NoRecord \/ \A t \in Request \ {s} : sess[t].key = k => sess[t].pc \notin Begun

\* Mistake: a row in progress is waited for and never refused.
Occupied(s, k) == FALSE

\* IntegrityError: "Duplicate request in progress".
Taken(s, k) == record[k] # NoRecord

Flush(s) ==
    LET k == sess[s].key
    IN  /\ sess[s].pc = "flush"
        /\ Free(s, k)
        /\ \/ Taken(s, k) /\ Put(s, Idle)
           \/ record[k] = NoRecord /\ At(s, "rider")
        /\ UNCHANGED <<rider, record, rides, answers>>

-----------------------------------------------------------------------------
(* create_ride and IdempotencyService.complete *)

FindRider(s) ==
    /\ sess[s].pc = "rider"
    /\ At(s, IF rider THEN "lookup" ELSE "addrider")
    /\ UNCHANGED <<rider, record, rides, answers>>

\* A rider's first request: the commit of the new row publishes the key as well.
\* The second of two first requests breaks the unique user id and is rolled back.
AddRider(s) ==
    /\ sess[s].pc = "addrider"
    /\ \/ /\ rider
          /\ Put(s, Idle)
          /\ UNCHANGED <<rider, record>>
       \/ /\ ~rider
          /\ rider' = TRUE
          /\ record' = InProgress(s)
          /\ At(s, "lookup")
    /\ UNCHANGED <<rides, answers>>

\* An open ride of the same request is the answer.
Duplicates(b) == {r \in Ride : rides[r].status = "OPEN" /\ rides[r].body = b}

LookUp(s) ==
    /\ sess[s].pc = "lookup"
    /\ \/ /\ Duplicates(sess[s].body) = {}
          /\ At(s, "insert")
       \/ \E r \in Duplicates(sess[s].body) : Put(s, [sess[s] EXCEPT !.pc = "complete", !.ride = r])
    /\ UNCHANGED <<rider, record, rides, answers>>

\* Mistake: the ride is committed and the key's row is left to complete.
Unpublished(s) == record

\* The key's row, if begin made one, is committed together with the ride.
Published(s) == InProgress(s)

InsertRide(s) ==
    /\ sess[s].pc = "insert"
    /\ \E r \in Ride :
          /\ rides[r].status = "NONE"
          /\ rides' = [rides EXCEPT ![r] = [status |-> "OPEN", body |-> sess[s].body, key |-> sess[s].key]]
          /\ record' = Published(s)
          /\ Put(s, [sess[s] EXCEPT !.pc = "complete", !.ride = r])
    /\ UNCHANGED <<rider, answers>>

\* Mistake: the answer is set on the row and not committed.
Unsaved(s) == record

Saved(s) == Stored(sess[s].key, [body |-> sess[s].body, ride |-> sess[s].ride])

Complete(s) ==
    LET me == sess[s]
    IN  /\ me.pc = "complete"
        /\ record' = Saved(s)
        /\ answers' = answers \cup {[key |-> me.key, body |-> me.body, ride |-> me.ride]}
        /\ Put(s, Idle)
        /\ UNCHANGED <<rider, rides>>

-----------------------------------------------------------------------------
(* Environment *)

\* The ride is completed or cancelled.
CloseRide(r) ==
    /\ rides[r].status = "OPEN"
    /\ rides' = [rides EXCEPT ![r].status = "CLOSED"]
    /\ UNCHANGED <<rider, record, answers, sess>>

Abort(s) ==
    /\ sess[s].key \in MayFail
    /\ sess[s].pc # "idle"
    /\ Put(s, Idle)
    /\ UNCHANGED <<rider, record, rides, answers>>

-----------------------------------------------------------------------------

Init ==
    /\ rider \in BOOLEAN
    /\ record = [k \in Key |-> NoRecord]
    /\ rides = [r \in Ride |-> [status |-> "NONE", body |-> NoBody, key |-> NoKey]]
    /\ answers = {}
    /\ sess = [s \in Request |-> Idle]

Proceed(s) ==
    Flush(s) \/ FindRider(s) \/ AddRider(s) \/ LookUp(s) \/ InsertRide(s) \/ Complete(s)

Next ==
    \/ \E s \in Request, k \in Header, b \in Body : Begin(s, k, b)
    \/ \E k \in Key, b \in Body : Replay(k, b)
    \/ \E s \in Request : Proceed(s)
    \/ \E r \in Ride : CloseRide(r)
    \/ \E s \in Request : Abort(s)

Spec == Init /\ [][Next]_vars

\* The event loop runs every request that can go on, and PostgreSQL wakes those
\* that wait for a unique key in the order they came.
FairSpec == Spec /\ \A s \in Request : WF_vars(Proceed(s)) /\ SF_vars(Flush(s))

-----------------------------------------------------------------------------
(* Properties *)

TypeOK ==
    /\ rider \in BOOLEAN
    /\ record \in [Key -> RecordRow]
    /\ rides \in [Ride -> RideRow]
    /\ answers \subseteq Answer
    /\ sess \in [Request -> Session]

\* However often a request is repeated under one key, also at the same time, after
\* a crash, or after its ride was closed, it inserts at most one ride (PRD.md:319).
OneRidePerKey ==
    \A q, r \in Ride : rides[q].key = rides[r].key /\ rides[r].key # NoKey => q = r

\* All answers ever sent for one key are the same answer to the same request, be
\* they the first one, a replay or the answer found by the duplicate look-up.
OneAnswerPerKey ==
    \A a, b \in answers : a.key = b.key /\ a.key # NoKey => a = b

\* What a key stands for: its stored answer, else the ride inserted under it.
Bound(k) ==
    IF record[k].ride # NoRide
    THEN {<<record[k].body, record[k].ride>>}
    ELSE {<<rides[r].body, r>> : r \in {q \in Ride : rides[q].key = k}}

Promise == INSTANCE RequestPromise WITH bound <- [k \in Key |-> Bound(k)], sent <- answers

\* The handlers of begin, create_ride and complete keep the rider's promise: a key
\* never changes the request or the ride it stands for, whatever is repeated or
\* lost between their commits.
KeepsPromise == Promise!Spec

\* No request waits for ever on the unique key of another one, and none is left
\* over: each is answered or refused, even if it loses a race for the key.
RequestEnds == \A s \in Request : sess[s].pc # "idle" ~> sess[s].pc = "idle"

\* A key whose own requests do not fail gets its answer, whatever the requests
\* under other keys do meanwhile.
KeyResolves ==
    \A k \in Key \ MayFail : record[k] # NoRecord ~> record[k].ride # NoRide

\* PRD.md:367: "Retry protection must exist for critical request paths."  A request
\* that stops between the first commit and complete leaves its key in progress
\* for ever; every retry under it is refused.
RetryIsAnswered == \A k \in Key : record[k] # NoRecord ~> record[k].ride # NoRide
=============================================================================
