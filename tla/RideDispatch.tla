---------------------------- MODULE RideDispatch ----------------------------
(***************************************************************************)
(* The ride and dispatch core of marketplace_service: RideService,         *)
(* DispatchService, the driver rows that DriverService and                 *)
(* DriverPresenceService write, and the offer-expiry worker.               *)
(*                                                                         *)
(* Every request (and the worker) owns one SQLAlchemy AsyncSession.  The   *)
(* session reads rows under READ COMMITTED, changes its in-memory objects  *)
(* and flushes, at commit, exactly the columns whose value differs from    *)
(* the one it loaded: an UPDATE by primary key with no version check.  A   *)
(* handler is therefore two kinds of step: an action that reads and fills  *)
(* the session's unit of work "tx", and Commit, which applies it to        *)
(* whatever the rows hold by then.  Any number of other sessions may run   *)
(* between the two.  expire_on_commit=False makes db.get return the object *)
(* the session already holds: "mem" is that identity map.                  *)
(***************************************************************************)
EXTENDS Naturals, FiniteSets

CONSTANTS
    Ride,         \* ids that create_ride may hand out
    Driver,
    Offer,        \* ids that driver_offers rows may take, handed out in order
    Session,      \* client requests that may be in flight at once
    Worker,       \* the task of workers/offer_expiry.py
    MaxRetries,   \* settings.max_dispatch_retries
    RequestKey,   \* rider, addresses and ride type of the request for a ride
    RegionMatch,  \* pairs <<ride, driver>> with the same region_id
    Kinds,        \* the operations that may start in this instance
    Serial,       \* TRUE: an operation starts only when none is in flight
    NoRide, NoDriver,
    Keep,         \* a column the unit of work does not change
    Absent        \* a row the identity map does not hold

VARIABLES
    ride,     \* marketplace_schema.rides
    offer,    \* marketplace_schema.driver_offers
    driver,   \* marketplace_schema.drivers
    overdue,  \* offers whose expires_at has passed
    cand,     \* Redis dispatch:candidates:{ride}; {} when empty or missing
    sess      \* the in-flight sessions

vars == <<ride, offer, driver, overdue, cand, sess>>

Actor == Session \cup {Worker}

ASSUME OfferAssumption == Offer \subseteq Nat
ASSUME WorkerAssumption == Worker \notin Session
ASSUME DriverAssumption == IsFiniteSet(Driver)
ASSUME RetriesAssumption == MaxRetries \in Nat
ASSUME SerialAssumption == Serial \in BOOLEAN
ASSUME KeyAssumption == DOMAIN RequestKey = Ride
ASSUME NullAssumption == /\ NoRide \notin Ride
                         /\ NoDriver \notin Driver

-----------------------------------------------------------------------------
(* Rows *)

Progressing == {"DRIVER_ASSIGNED", "DRIVER_EN_ROUTE", "DRIVER_ARRIVED", "RIDE_STARTED"}
Closed == {"RIDE_COMPLETED", "CANCELLED"}
Open == {"REQUESTED", "MATCHING", "NO_DRIVERS_FOUND"} \cup Progressing
RideStatus == Open \cup Closed
OfferStatus == {"PENDING", "ACCEPTED", "REJECTED", "EXPIRED"}
DriverStatus == {"PENDING_APPROVAL", "ACTIVE", "SUSPENDED"}

\* Status "NONE" stands for a row that has not been inserted.
RideRow == [status: RideStatus \cup {"NONE"}, driver: Driver \cup {NoDriver}, retries: Nat]
OfferRow == [status: OfferStatus \cup {"NONE"}, ride: Ride \cup {NoRide}, driver: Driver \cup {NoDriver}]
DriverRow == [status: DriverStatus, approved: BOOLEAN, online: BOOLEAN, available: BOOLEAN]

NoRideRow == [status |-> "NONE", driver |-> NoDriver, retries |-> 0]
NoOfferRow == [status |-> "NONE", ride |-> NoRide, driver |-> NoDriver]

\* The statuses RideService.transition lets a ride move to.
LegalTransitions ==
    [REQUESTED        |-> {"MATCHING", "CANCELLED"},
     MATCHING         |-> {"DRIVER_ASSIGNED", "NO_DRIVERS_FOUND", "CANCELLED"},
     NO_DRIVERS_FOUND |-> {"MATCHING", "CANCELLED"},
     DRIVER_ASSIGNED  |-> {"DRIVER_EN_ROUTE", "CANCELLED"},
     DRIVER_EN_ROUTE  |-> {"DRIVER_ARRIVED", "CANCELLED"},
     DRIVER_ARRIVED   |-> {"RIDE_STARTED", "CANCELLED"},
     RIDE_STARTED     |-> {"RIDE_COMPLETED", "CANCELLED"}]

\* transition accepts the move; a status without an entry allows CANCELLED.
MayMove(from, to) ==
    IF from \in DOMAIN LegalTransitions
    THEN to \in LegalTransitions[from]
    ELSE to = "CANCELLED"

PendingOffers(r) == {o \in Offer : offer[o].status = "PENDING" /\ offer[o].ride = r}
OffersOf(r) == {o \in Offer : offer[o].status # "NONE" /\ offer[o].ride = r}

\* Mistake: only offers that are still open count as an attempt.
OpenAttempts(r) == {offer[o].driver : o \in PendingOffers(r)}

\* Drivers that already hold some offer of the ride, whatever its outcome.
Attempted(r) == {offer[o].driver : o \in OffersOf(r)}

\* Drivers a retry round leaves out.
Blocking(r) == {offer[o].driver : o \in {p \in OffersOf(r) : offer[p].status \in {"PENDING", "ACCEPTED"}}}

\* Mistake: a list of refused statuses instead of the accepted one.
NotSuspended(d) == driver[d].status # "SUSPENDED"

EligibleDriver(d) ==
    /\ driver[d].approved
    /\ driver[d].online
    /\ driver[d].available
    /\ driver[d].status = "ACTIVE"

\* Region-matched drivers when there are any, otherwise all eligible ones.
Eligible(r) ==
    LET all == {d \in Driver : EligibleDriver(d)}
        near == {d \in all : <<r, d>> \in RegionMatch}
    IN  IF near # {} THEN near ELSE all

\* Mistake: the status filter of _cancel_driver_rides leaves out only one status.
NotCancelled(d) == {r \in Ride : ride[r].driver = d /\ ride[r].status # "CANCELLED"}

Unfinished(d) == {r \in Ride : ride[r].driver = d /\ ride[r].status \in Progressing}

-----------------------------------------------------------------------------
(* Units of work *)

RideWrite == [status: RideStatus \cup {Keep}, driver: Driver \cup {NoDriver, Keep}, retries: Nat \cup {Keep}]
DriverWrite == [status: DriverStatus \cup {Keep}, approved: BOOLEAN \cup {Keep},
                online: BOOLEAN \cup {Keep}, available: BOOLEAN \cup {Keep}]
Tx == [ride: [Ride -> RideWrite], driver: [Driver -> DriverWrite], offer: [Offer -> OfferStatus \cup {Keep}]]

\* Keep is no value that a column can hold.
ASSUME KeepAssumption ==
    /\ Keep \notin RideStatus \cup OfferStatus \cup DriverStatus
    /\ Keep \notin Driver \cup {NoDriver}
    /\ Keep \notin BOOLEAN
    /\ Keep \notin Nat

Column(old, new) == IF new = old THEN Keep ELSE new
\* Mistake: an UPDATE of every column, also of those the handler did not set.
Overwritten(current, write) == write

Stored(current, write) == IF write = Keep THEN current ELSE write

\* The columns of a row that differ between the loaded and the changed object.
RideDiff(old, new) ==
    [status |-> Column(old.status, new.status), driver |-> Column(old.driver, new.driver),
     retries |-> Column(old.retries, new.retries)]
DriverDiff(old, new) ==
    [status |-> Column(old.status, new.status), approved |-> Column(old.approved, new.approved),
     online |-> Column(old.online, new.online), available |-> Column(old.available, new.available)]

RideStored(row, w) ==
    [status |-> Stored(row.status, w.status), driver |-> Stored(row.driver, w.driver),
     retries |-> Stored(row.retries, w.retries)]
DriverStored(row, w) ==
    [status |-> Stored(row.status, w.status), approved |-> Stored(row.approved, w.approved),
     online |-> Stored(row.online, w.online), available |-> Stored(row.available, w.available)]

KeepRide == [status |-> Keep, driver |-> Keep, retries |-> Keep]
KeepDriver == [status |-> Keep, approved |-> Keep, online |-> Keep, available |-> Keep]
NoTx == [ride |-> [r \in Ride |-> KeepRide],
         driver |-> [d \in Driver |-> KeepDriver],
         offer |-> [o \in Offer |-> Keep]]

\* Changes added to a unit of work: offers answered, a ride or a driver assigned to.
Answer(tx, os, st) == [tx EXCEPT !.offer = [o \in Offer |-> IF o \in os THEN st ELSE tx.offer[o]]]
SetRide(tx, r, old, new) == [tx EXCEPT !.ride = [tx.ride EXCEPT ![r] = RideDiff(old, new)]]
SetDriver(tx, d, new) == [tx EXCEPT !.driver = [tx.driver EXCEPT ![d] = DriverDiff(driver[d], new)]]

-----------------------------------------------------------------------------
(* Sessions *)

Pc == {"idle", "dead", "create", "find", "next", "reselect", "insert", "commit", "loop", "recover"}

Cont == {"idle", "find", "next", "reselect", "loop"}

SessionState ==
    [pc: Pc,
     cont: Cont,                        \* where Commit continues
     last: {"idle", "recover"},         \* where the worker goes when "todo" is done
     ride: Ride \cup {NoRide},          \* the ride offer_next_candidate works on
     driver: Driver \cup {NoDriver},    \* next_driver_id
     cands: SUBSET Driver,              \* candidates left to a retry round
     mem: [Ride -> RideRow \cup {Absent}],
     tx: Tx,
     todo: SUBSET Ride]

Idle == [pc |-> "idle", cont |-> "idle", last |-> "idle", ride |-> NoRide, driver |-> NoDriver,
         cands |-> {}, mem |-> [r \in Ride |-> Absent], tx |-> NoTx, todo |-> {}]

Quiet(s) == sess[s].pc \in {"idle", "dead"}

\* A session may take up an operation of this kind.
MayStart(s, kind) ==
    /\ kind \in Kinds
    /\ sess[s].pc = "idle"
    /\ Serial => \A t \in Actor : Quiet(t)

Put(s, state) == sess' = [sess EXCEPT ![s] = state]

\* A request has read its rows and computed its writes; "cont" follows the commit.
Submit(s, tx, cont, r) == Put(s, [Idle EXCEPT !.pc = "commit", !.tx = tx, !.cont = cont, !.ride = r])

\* One call of offer_next_candidate returned: the request is over, the worker
\* takes its next ride or moves on.
Returned(s) ==
    IF sess[s].todo # {} THEN [sess[s] EXCEPT !.pc = "loop", !.ride = NoRide, !.driver = NoDriver, !.cands = {}, !.tx = NoTx, !.cont = "idle"]
    ELSE [Idle EXCEPT !.pc = sess[s].last]

\* db.get(Ride, ride_id): the held object, or a fresh row.
Loaded(s, r) == IF sess[s].mem[r] = Absent THEN ride[r] ELSE sess[s].mem[r]

-----------------------------------------------------------------------------
(* Rider, driver and admin requests *)

\* create_ride looks for an open ride of the same request and finds none.  The
\* row it will insert gets a fresh id; it is committed as MATCHING.
CreateRide(s, r) ==
    /\ MayStart(s, "create")
    /\ ride[r].status = "NONE"
    /\ \A t \in Session : sess[t].pc = "create" => sess[t].ride # r
    /\ \A q \in Ride : RequestKey[q] = RequestKey[r] => ride[q].status \notin Open
    /\ Put(s, [Idle EXCEPT !.pc = "create", !.ride = r])
    /\ UNCHANGED <<ride, offer, driver, overdue, cand>>

InsertRide(s) ==
    LET r == sess[s].ride
        row == [NoRideRow EXCEPT !.status = "MATCHING"]
    IN  /\ sess[s].pc = "create"
        /\ ride' = [ride EXCEPT ![r] = row]
        /\ Put(s, [sess[s] EXCEPT !.pc = "find", !.mem = [@ EXCEPT ![r] = row]])
        /\ UNCHANGED <<offer, driver, overdue, cand>>

\* Mistake: the refusal leaves out offers that were accepted before.
NotClosed(o) == offer[o].status \in {"PENDING", "ACCEPTED"}

\* Otherwise accept_offer and reject_offer refuse with "Offer already responded".
Answerable(o) == offer[o].status = "PENDING"

\* Mistake: the accepted offer itself keeps its status.
OthersExpired(o) == Answer(NoTx, PendingOffers(offer[o].ride) \ {o}, "EXPIRED")

\* The accepted offer, and every other pending offer of its ride.
Accepted(o) == Answer(Answer(NoTx, {o}, "ACCEPTED"), PendingOffers(offer[o].ride) \ {o}, "EXPIRED")

\* accept_offer of a pending offer: neither the ride's status nor the driver's
\* availability is looked at.  After expires_at it only marks the offer.
AcceptOffer(s, o) ==
    LET r == offer[o].ride
        d == offer[o].driver
        assigned == [ride[r] EXCEPT !.status = "DRIVER_ASSIGNED", !.driver = d]
        busy == [driver[d] EXCEPT !.available = FALSE]
    IN  /\ MayStart(s, "accept")
        /\ Answerable(o)
        /\ \/ /\ o \in overdue
              /\ Submit(s, Answer(NoTx, {o}, "EXPIRED"), "idle", r)
           \/ /\ o \notin overdue
              /\ Submit(s, SetDriver(SetRide(Accepted(o), r, ride[r], assigned), d, busy), "idle", r)
        /\ UNCHANGED <<ride, offer, driver, overdue, cand>>

RejectOffer(s, o) ==
    /\ MayStart(s, "reject")
    /\ Answerable(o)
    /\ Submit(s, Answer(NoTx, {o}, "REJECTED"), "next", offer[o].ride)
    /\ UNCHANGED <<ride, offer, driver, overdue, cand>>

\* cancel_ride by the rider, the driver or an admin.  Pending offers and the
\* ride's driver_id stay as they are.
CancelRide(s, r) ==
    LET d == ride[r].driver
        cancelled == [ride[r] EXCEPT !.status = "CANCELLED"]
        tx == SetRide(NoTx, r, ride[r], cancelled)
        released == [driver[d] EXCEPT !.available = TRUE, !.online = TRUE]
    IN  /\ MayStart(s, "cancel")
        /\ ride[r].status \in Open
        /\ MayMove(ride[r].status, "CANCELLED")
        /\ \/ /\ d = NoDriver
              /\ Submit(s, tx, "idle", r)
           \/ /\ d # NoDriver
              /\ Submit(s, SetDriver(tx, d, released), "idle", r)
        /\ UNCHANGED <<ride, offer, driver, overdue, cand>>

\* en-route, arrived and start, by the driver the ride names.
DriverStatusAction(s, r, to) ==
    /\ MayStart(s, "status")
    /\ ride[r].driver # NoDriver
    /\ MayMove(ride[r].status, to)
    /\ Submit(s, SetRide(NoTx, r, ride[r], [ride[r] EXCEPT !.status = to]), "idle", r)
    /\ UNCHANGED <<ride, offer, driver, overdue, cand>>

CompleteRide(s, r) ==
    LET d == ride[r].driver
        completed == [ride[r] EXCEPT !.status = "RIDE_COMPLETED"]
        released == [driver[d] EXCEPT !.available = TRUE, !.online = TRUE]
    IN  /\ MayStart(s, "complete")
        /\ d # NoDriver
        /\ MayMove(ride[r].status, "RIDE_COMPLETED")
        /\ Submit(s, SetDriver(SetRide(NoTx, r, ride[r], completed), d, released), "idle", r)
        /\ UNCHANGED <<ride, offer, driver, overdue, cand>>

\* The ride object stays in the session and is what dispatch works on next.
AdminRedispatch(s, r) ==
    LET fresh == [NoRideRow EXCEPT !.status = "MATCHING"]
    IN  /\ MayStart(s, "redispatch")
        /\ ride[r].status \in {"NO_DRIVERS_FOUND", "MATCHING"}
        /\ Put(s, [Idle EXCEPT
                      !.pc = "commit", !.cont = "find", !.ride = r, !.mem = [@ EXCEPT ![r] = fresh],
                      !.tx = SetRide(Answer(NoTx, PendingOffers(r), "EXPIRED"), r, ride[r], fresh)])
        /\ UNCHANGED <<ride, offer, driver, overdue, cand>>

\* The driver leaves: the row changes to "row" and the unfinished rides the
\* session found are cancelled.
Leave(s, d, row) ==
    LET cancel == [KeepRide EXCEPT !.status = "CANCELLED"]
        rides == [r \in Ride |-> IF r \in Unfinished(d) THEN cancel ELSE KeepRide]
    IN  Submit(s, SetDriver([NoTx EXCEPT !.ride = rides], d, row), "idle", NoRide)

\* update_availability: going available is not tied to having no ride.
UpdateAvailability(s, d, online, available) ==
    LET active == IF driver[d].approved THEN "ACTIVE" ELSE driver[d].status
        row == [driver[d] EXCEPT
                   !.online = online,
                   !.available = available /\ online /\ driver[d].approved,
                   !.status = active]
    IN  /\ MayStart(s, "availability")
        /\ online => driver[d].approved
        /\ driver[d].status # "SUSPENDED"
        /\ \/ /\ online
              /\ Submit(s, SetDriver(NoTx, d, row), "idle", NoRide)
           \/ /\ ~online
              /\ Leave(s, d, row)
        /\ UNCHANGED <<ride, offer, driver, overdue, cand>>

\* suspend touches neither the driver's rides nor the pending offers.
Suspend(s, d) ==
    LET row == [driver[d] EXCEPT !.status = "SUSPENDED", !.online = FALSE, !.available = FALSE]
    IN  /\ MayStart(s, "suspend")
        /\ Submit(s, SetDriver(NoTx, d, row), "idle", NoRide)
        /\ UNCHANGED <<ride, offer, driver, overdue, cand>>

\* reconcile_expired_presence took d's expired entry out of the Redis index.
PresenceTimeout(s, d) ==
    /\ MayStart(s, "presence")
    /\ driver[d].online
    /\ Leave(s, d, [driver[d] EXCEPT !.online = FALSE, !.available = FALSE])
    /\ UNCHANGED <<ride, offer, driver, overdue, cand>>

\* handle_onboarding_event on onboarding_approved.
ApproveDriver(d) ==
    /\ "approve" \in Kinds
    /\ Serial => \A t \in Actor : Quiet(t)
    /\ driver' = [driver EXCEPT ![d] = [@ EXCEPT !.approved = TRUE, !.status = "ACTIVE"]]
    /\ UNCHANGED <<ride, offer, overdue, cand, sess>>

-----------------------------------------------------------------------------
(* offer_next_candidate, in whichever session calls it *)

\* _refresh_candidates of find_candidates; a redispatch dropped the key first.
FindCandidates(s) ==
    LET r == sess[s].ride
    IN  /\ sess[s].pc = "find"
        /\ cand' = [cand EXCEPT ![r] = Eligible(r)]
        /\ Put(s, [sess[s] EXCEPT !.pc = "next"])
        /\ UNCHANGED <<ride, offer, driver, overdue>>

\* Statuses for which offer_next_candidate returns at once.
NotDispatched == {"NONE", "CANCELLED", "RIDE_COMPLETED", "DRIVER_ASSIGNED", "NO_DRIVERS_FOUND"}

\* Mistake: no look-up of a pending offer.
DispatchingAlways(s, r) == Loaded(s, r).status \notin NotDispatched

Dispatching(s, r) ==
    /\ Loaded(s, r).status \notin NotDispatched
    /\ PendingOffers(r) = {}

\* The list in Redis, refreshed when it is empty.
Candidates(r) == IF cand[r] = {} THEN Eligible(r) ELSE cand[r]

\* The ride needs no offer, already has a pending one, or nobody is eligible:
\* in the last case it stays MATCHING and its retry count does not move.
NothingToOffer(s) ==
    LET r == sess[s].ride
    IN  /\ sess[s].pc = "next"
        /\ Dispatching(s, r) => Candidates(r) = {}
        /\ Put(s, Returned(s))
        /\ UNCHANGED <<ride, offer, driver, overdue, cand>>

\* The first candidate without an offer of this ride; its eligibility is the one
\* it had when the list was made.
PickUntried(s) ==
    LET r == sess[s].ride
    IN  /\ sess[s].pc = "next"
        /\ Dispatching(s, r)
        /\ \E d \in Candidates(r) \ Attempted(r) :
              Put(s, [sess[s] EXCEPT !.pc = "insert", !.driver = d])
        /\ cand' = [cand EXCEPT ![r] = Candidates(r)]
        /\ UNCHANGED <<ride, offer, driver, overdue>>

AllTried(s, r) ==
    /\ sess[s].pc = "next"
    /\ Dispatching(s, r)
    /\ Candidates(r) # {}
    /\ Candidates(r) \subseteq Attempted(r)

\* Mistake: one round too many.
MayRetryAtCap(row) == row.retries <= MaxRetries

MayRetry(row) == row.retries < MaxRetries

\* A retry round: a new list, and the retry count of the loaded ride plus one.
StartRetry(s) ==
    LET r == sess[s].ride
        old == Loaded(s, r)
        new == [old EXCEPT !.retries = @ + 1]
    IN  /\ AllTried(s, r)
        /\ MayRetry(old)
        /\ cand' = [cand EXCEPT ![r] = Eligible(r)]
        /\ Put(s, [sess[s] EXCEPT
                      !.pc = "commit", !.cont = "reselect", !.cands = Eligible(r) \ Blocking(r),
                      !.tx = SetRide(NoTx, r, old, new)])
        /\ UNCHANGED <<ride, offer, driver, overdue>>

\* _mark_no_drivers_found on the ride object the session holds.
MarkNoDrivers(s, held) ==
    LET r == sess[s].ride
        none == [held EXCEPT !.status = "NO_DRIVERS_FOUND", !.driver = NoDriver]
    IN  \/ /\ held.status = "NO_DRIVERS_FOUND"
           /\ Put(s, Returned(s))
        \/ /\ held.status # "NO_DRIVERS_FOUND"
           /\ Put(s, [sess[s] EXCEPT
                         !.pc = "commit", !.cont = "idle",
                         !.tx = SetRide(NoTx, r, held, none)])

GiveUp(s) ==
    LET r == sess[s].ride
    IN  /\ AllTried(s, r)
        /\ ~MayRetry(Loaded(s, r))
        /\ MarkNoDrivers(s, Loaded(s, r))
        /\ UNCHANGED <<ride, offer, driver, overdue, cand>>

\* After the commit of a retry round: db.refresh(ride), then the first candidate
\* that held no pending or accepted offer when the round began.
Reselect(s) ==
    LET r == sess[s].ride
    IN  /\ sess[s].pc = "reselect"
        /\ \/ \E d \in sess[s].cands :
                 Put(s, [sess[s] EXCEPT !.pc = "insert", !.driver = d, !.cands = {}])
           \/ /\ sess[s].cands = {}
              /\ MarkNoDrivers(s, ride[r])
        /\ UNCHANGED <<ride, offer, driver, overdue, cand>>

InsertOffer(s) ==
    /\ sess[s].pc = "insert"
    /\ \E o \in Offer :
          /\ offer[o].status = "NONE"
          /\ \A p \in Offer : offer[p].status = "NONE" => o <= p
          /\ offer' = [offer EXCEPT ![o] = [status |-> "PENDING", ride |-> sess[s].ride, driver |-> sess[s].driver]]
    /\ Put(s, Returned(s))
    /\ UNCHANGED <<ride, driver, overdue, cand>>

\* db.commit(): the changed columns reach the rows as they are by now.
Commit(s) ==
    LET tx == sess[s].tx
    IN  /\ sess[s].pc = "commit"
        /\ ride' = [r \in Ride |-> RideStored(ride[r], tx.ride[r])]
        /\ driver' = [d \in Driver |-> DriverStored(driver[d], tx.driver[d])]
        /\ offer' = [o \in Offer |-> [offer[o] EXCEPT !.status = Stored(@, tx.offer[o])]]
        /\ Put(s, IF sess[s].cont = "idle" THEN Returned(s)
                  ELSE [sess[s] EXCEPT !.pc = sess[s].cont, !.cont = "idle", !.tx = NoTx])
        /\ UNCHANGED <<overdue, cand>>

-----------------------------------------------------------------------------
(* The worker: expire_elapsed_offers, then recover_stale_matching_rides *)

\* Mistake: offers of rides that are no longer matched are not expired.
ElapsedMatching == {o \in Offer : offer[o].status = "PENDING" /\ o \in overdue /\ ride[offer[o].ride].status = "MATCHING"}

Elapsed == {o \in Offer : offer[o].status = "PENDING" /\ o \in overdue}

\* Mistake: only rides that had no retry round are picked up.
NeverRetried == {r \in Ride : ride[r].status = "MATCHING" /\ ride[r].driver = NoDriver /\ ride[r].retries = 0}

Stale == {r \in Ride : ride[r].status = "MATCHING" /\ ride[r].driver = NoDriver}

ExpireElapsed ==
    /\ MayStart(Worker, "worker")
    /\ \/ /\ Elapsed = {}
          /\ Put(Worker, [Idle EXCEPT !.pc = "recover"])
       \/ /\ Elapsed # {}
          /\ Put(Worker, [Idle EXCEPT !.pc = "commit", !.cont = "loop", !.last = "recover",
                                      !.tx = Answer(NoTx, Elapsed, "EXPIRED"),
                                      !.todo = {offer[o].ride : o \in Elapsed}])
    /\ UNCHANGED <<ride, offer, driver, overdue, cand>>

\* The rides selected here stay in the session: later db.get calls of this pass
\* see them as they were.
RecoverStale ==
    /\ sess[Worker].pc = "recover"
    /\ \/ /\ Stale = {}
          /\ Put(Worker, Idle)
       \/ /\ Stale # {}
          /\ Put(Worker, [Idle EXCEPT !.pc = "loop", !.todo = Stale,
                                      !.mem = [r \in Ride |-> IF r \in Stale THEN ride[r] ELSE Absent]])
    /\ UNCHANGED <<ride, offer, driver, overdue, cand>>

NextRide ==
    /\ sess[Worker].pc = "loop"
    /\ \E r \in sess[Worker].todo :
          Put(Worker, [sess[Worker] EXCEPT !.pc = "next", !.ride = r, !.todo = @ \ {r}])
    /\ UNCHANGED <<ride, offer, driver, overdue, cand>>

-----------------------------------------------------------------------------
(* Environment *)

\* expires_at of a pending offer passes.
Elapse(o) ==
    /\ offer[o].status = "PENDING"
    /\ o \notin overdue
    /\ overdue' = overdue \cup {o}
    /\ UNCHANGED <<ride, offer, driver, cand, sess>>

\* The candidate list outlives its hour in Redis.
CandidatesLapse(r) ==
    /\ "lapse" \in Kinds
    /\ cand[r] # {}
    /\ cand' = [cand EXCEPT ![r] = {}]
    /\ UNCHANGED <<ride, offer, driver, overdue, sess>>

\* An exception or a crash: the unit of work is rolled back.  A request ends;
\* nothing restarts the worker task until the process is restarted.
Abort(s) ==
    /\ "abort" \in Kinds
    /\ ~Quiet(s)
    /\ Put(s, [Idle EXCEPT !.pc = IF s = Worker THEN "dead" ELSE "idle"])
    /\ UNCHANGED <<ride, offer, driver, overdue, cand>>

RestartWorker ==
    /\ "restart" \in Kinds
    /\ sess[Worker].pc = "dead"
    /\ Put(Worker, Idle)
    /\ UNCHANGED <<ride, offer, driver, overdue, cand>>

-----------------------------------------------------------------------------

\* A driver row is a fresh registration or a driver who went online.
InitialDriver ==
    {[status |-> "PENDING_APPROVAL", approved |-> FALSE, online |-> FALSE, available |-> FALSE],
     [status |-> "ACTIVE", approved |-> TRUE, online |-> TRUE, available |-> TRUE]}

Init ==
    /\ ride = [r \in Ride |-> NoRideRow]
    /\ offer = [o \in Offer |-> NoOfferRow]
    /\ driver \in [Driver -> InitialDriver]
    /\ overdue = {}
    /\ cand = [r \in Ride |-> {}]
    /\ sess = [s \in Actor |-> Idle]

RideRequest(s) ==
    \E r \in Ride :
        \/ CreateRide(s, r)
        \/ CancelRide(s, r)
        \/ \E to \in {"DRIVER_EN_ROUTE", "DRIVER_ARRIVED", "RIDE_STARTED"} : DriverStatusAction(s, r, to)
        \/ CompleteRide(s, r)
        \/ AdminRedispatch(s, r)

OfferRequest(s) == \E o \in Offer : AcceptOffer(s, o) \/ RejectOffer(s, o)

DriverRequest(s) ==
    \E d \in Driver :
        \/ \E online, available \in BOOLEAN : UpdateAvailability(s, d, online, available)
        \/ Suspend(s, d)
        \/ PresenceTimeout(s, d)

\* What an operation in flight does next.
Proceed(s) ==
    \/ InsertRide(s) \/ FindCandidates(s) \/ NothingToOffer(s) \/ PickUntried(s)
    \/ StartRetry(s) \/ GiveUp(s) \/ Reselect(s) \/ InsertOffer(s) \/ Commit(s)

WorkerPass == ExpireElapsed \/ RecoverStale \/ NextRide

Environment ==
    \/ \E o \in Offer : Elapse(o)
    \/ \E r \in Ride : CandidatesLapse(r)
    \/ \E d \in Driver : ApproveDriver(d)
    \/ \E s \in Actor : Abort(s)
    \/ RestartWorker

Next ==
    \/ \E s \in Session : RideRequest(s) \/ OfferRequest(s) \/ DriverRequest(s)
    \/ \E s \in Actor : Proceed(s)
    \/ WorkerPass
    \/ Environment

Spec == Init /\ [][Next]_vars

\* The event loop runs every ready coroutine, time passes, and the worker sleeps
\* for 15 seconds between two passes: nothing here depends on a client.
FairSpec ==
    /\ Spec
    /\ \A s \in Actor : WF_vars(Proceed(s))
    /\ WF_vars(WorkerPass)
    /\ \A o \in Offer : WF_vars(Elapse(o))

-----------------------------------------------------------------------------
(* Type invariant *)

TypeOK ==
    /\ ride \in [Ride -> RideRow]
    /\ offer \in [Offer -> OfferRow]
    /\ driver \in [Driver -> DriverRow]
    /\ overdue \subseteq Offer
    /\ cand \in [Ride -> SUBSET Driver]
    /\ sess \in [Actor -> SessionState]

-----------------------------------------------------------------------------
(* Properties of every interleaving *)

\* The dispatch retry count of a ride never passes the configured cap, although
\* the check, the increment and the commit of a retry round are separate steps
\* of sessions that may hold stale copies of the ride (SRD.md:349).
RetryCap == \A r \in Ride : ride[r].retries <= MaxRetries

\* Whoever a ride names as its driver, now or before it closed, answered an offer
\* of that very ride: a race of acceptances, expiries, cancellations and
\* redispatches may pick either of two drivers but never one who was not asked.
AssignedWasOffered ==
    \A r \in Ride : ride[r].driver # NoDriver =>
        \E o \in OffersOf(r) : offer[o].driver = ride[r].driver /\ offer[o].status # "PENDING"

\* No offer is ever made to a driver whom onboarding has not approved, however
\* old the candidate list it was taken from is (PRD.md:280, 323).
OffersOnlyToApproved ==
    \A o \in Offer : offer[o].status # "NONE" => driver[offer[o].driver].approved

-----------------------------------------------------------------------------
(* Properties when operations do not overlap *)

\* offer_next_candidate checks for a pending offer before it inserts one: while
\* operations do not overlap a ride has at most one.
OnePendingOffer ==
    Serial => \A r \in Ride : \A o, p \in PendingOffers(r) : o = p

\* A ride that has, or had, a driver under way is backed by that driver's
\* accepted offer, and a ride that is being matched or is unmatched names no
\* driver: accept_offer, expiry, retry, redispatch and departure keep the two
\* tables in step, also when a request stops between two of its commits.
AssignmentBacked ==
    Serial => \A r \in Ride :
        /\ ride[r].status \in Progressing \cup {"RIDE_COMPLETED"} =>
              \E o \in Offer : offer[o] = [status |-> "ACCEPTED", ride |-> r, driver |-> ride[r].driver]
        /\ ride[r].status \in {"MATCHING", "NO_DRIVERS_FOUND"} => ride[r].driver = NoDriver

\* An offer is left pending only while its ride is being matched, or after the
\* ride was cancelled under it: an assigned, completed or unmatched ride has none.
PendingOfferNotStale ==
    Serial => \A o \in Offer :
        offer[o].status = "PENDING" => ride[offer[o].ride].status \in {"MATCHING", "CANCELLED"}

\* A completed ride is final: no acceptance of a left-over offer, no worker pass,
\* no departure of its driver and no redispatch touches it again.
CompletedIsFinal ==
    [][Serial => \A r \in Ride : ride[r].status = "RIDE_COMPLETED" => ride'[r] = ride[r]]_vars

\* The driver whose answer a ride waits for.
Asked(r) ==
    IF PendingOffers(r) = {} THEN NoDriver ELSE offer[CHOOSE o \in PendingOffers(r) : TRUE].driver

Life(r) ==
    [stage |-> ride[r].status, asked |-> Asked(r), mate |-> ride[r].driver, rounds |-> ride[r].retries]

Lifecycle ==
    INSTANCE RideLifecycle WITH life <- [r \in Ride |-> Life(r)], Nobody <- NoDriver, MaxRounds <- MaxRetries

\* As long as operations do not overlap, requests, retry rounds, the worker and a
\* crash between any two commits make every ride live the life that RideLifecycle
\* describes: each commit, whatever it was computed from, is one legal move.
KeepsLifecycle == Lifecycle!Spec

\* Between two redispatches a ride sends out at most one offer per driver plus one
\* per retry round, also when rounds are cut short, lists lapse or drivers toggle
\* (SRD.md:349: no uncontrolled offer cycling).
OfferBudget ==
    Serial /\ "redispatch" \notin Kinds =>
        \A r \in Ride : Cardinality(OffersOf(r)) <= Cardinality(Driver) + ride[r].retries

-----------------------------------------------------------------------------
(* Liveness *)

\* Nobody has to answer: the worker expires every offer its driver ignores, also
\* an offer of a cancelled ride or one inserted while a pass was under way.
OfferResolved == \A o \in Offer : offer[o].status = "PENDING" ~> offer[o].status # "PENDING"

\* Dispatch does not cycle for ever: whatever drivers reject or ignore, a ride
\* being matched is eventually assigned, cancelled or NO_DRIVERS_FOUND.  The one
\* exception is in the code: with no eligible driver at all the ride stays
\* MATCHING, its retry count does not move (PRD.md:234-235, SRD.md:349).
MatchingEnds ==
    \A r \in Ride : ride[r].status = "MATCHING" ~>
        \/ ride[r].status # "MATCHING"
        \/ Candidates(r) = {}

-----------------------------------------------------------------------------
(* Statements of the documents and tests that the code does not keep *)

\* SRD.md:167: "The system shall reject invalid ride transitions."  accept_offer
\* assigns the status without asking RideService.transition.
RejectsInvalidTransitions ==
    [][\A r \in Ride : ride[r].status # "NONE" /\ ride'[r].status # ride[r].status =>
          MayMove(ride[r].status, ride'[r].status)]_vars

\* PRD.md:323: "Only approved, active, online, available drivers may receive
\* offers."  The candidate list is not filtered again when an offer is made.
OffersOnlyToEligible ==
    [][\A o \in Offer : offer[o].status = "NONE" /\ offer'[o].status = "PENDING" =>
          EligibleDriver(offer'[o].driver)]_vars

\* PRD.md:320: "A rider must not accidentally create duplicate active rides via
\* repeated submits."  The look-up and the insert of create_ride may be overtaken.
NoDuplicateActiveRides ==
    \A q, r \in Ride : ride[q].status \in Open /\ ride[r].status \in Open /\ RequestKey[q] = RequestKey[r] => q = r

\* SRD.md:181: "Offer expiry shall be handled automatically."  The worker task has
\* no handler: the first exception, or a lost connection, ends it for good.
OfferExpiryAutomatic == \A o \in Offer : o \in overdue ~> offer[o].status # "PENDING"
=============================================================================
