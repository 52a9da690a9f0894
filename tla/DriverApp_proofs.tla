-------------------------- MODULE DriverApp_proofs --------------------------
(***************************************************************************)
(* Proofs about DriverApp, for any number of rides, faults and calls: the  *)
(* types, that the screens of the operations open only to an approved      *)
(* driver, and that the stage which the tab shows is never ahead of the    *)
(* ride.                                                                   *)
(*                                                                         *)
(* The inductive invariant is stated of values rather than of variables:   *)
(* Good(d, g, rs) says that the tab fits the driver's row d, the           *)
(* colleague's approval g and the rides rs.                                *)
(* A step of the service is then a change of d and rs that keeps what the  *)
(* tab may already know (Kept), and a step of the tab is proved once for   *)
(* the rows that it finds.                                                 *)
(***************************************************************************)
EXTENDS DriverApp, TLAPS, WellFoundedInduction

Others == {"absent", "no", "yes"}
GuardState == [value : {"none", "no", "yes"}, whose : {"none", "driver", "guest"}, failed : BOOLEAN,
               asked : {"none", "nobody", "driver", "guest"}]
Kinds == {"availability", "accept", "reject", "stage", "cancel"}
Targets == Ride \cup {NoRide}
Args == Status \cup {"ONLINE", "OFFLINE"}
Codes == {0, 200, 401, 409, 500}
CallType == [kind : Kinds, ride : Targets, arg : Args, auth : BOOLEAN, code : Codes, mine : BOOLEAN, here : BOOLEAN]
RideRow == [status : Status, offer : {"none", "PENDING", "DUE", "ACCEPTED", "REJECTED", "EXPIRED"}]

\* A ride whose offer this driver has accepted has been assigned.
RowFine(row) == row \in RideRow /\ (row.offer = "ACCEPTED" => row.status \in Active \cup Closed)
World(d, rs) ==
    /\ d \in DriverRow
    /\ rs \in [Ride -> RideRow] /\ \A r \in Ride : RowFine(rs[r])

\* The driver's own ride r has reached stage s.
HasReached(rs, r, s) == rs[r].offer = "ACCEPTED" /\ s \in Reached(rs[r].status)

\* A call names a ride unless it is the switch; a stage that was confirmed has
\* been reached.
CallFine(c, rs) ==
    /\ c \in CallType
    /\ IF c.kind = "availability" THEN c.arg \in {"ONLINE", "OFFLINE"} ELSE c.ride \in Ride
    /\ c.kind = "stage" /\ c.code = 200 => HasReached(rs, c.ride, c.arg)
CallsFine(cs, rs) == \A c \in cs : CallFine(c, rs)

CacheFine(ca, rs) == ca \in CacheState /\ (ca.ride # NoRide => HasReached(rs, ca.ride, ca.stage))
\* The approval of w, of those who use the tab; a reading that says yes is true.
Cleared(w, d, o) == (w = "driver" /\ d.approved) \/ (w = "guest" /\ o = "yes")
GuardFine(g, d, o) == g \in GuardState /\ (g.value = "yes" => Cleared(g.whose, d, o))

\* A tab and its calls fit the rows.
Fits(s, p, g, ca, u, cs, d, o, rs) ==
    /\ s \in SessionState /\ p \in Page /\ u \in UiState
    /\ GuardFine(g, d, o) /\ CacheFine(ca, rs) /\ CallsFine(cs, rs)
Good(d, o, rs) == Fits(session, page, guard, cache, ui, calls, d, o, rs)

IInv == World(driver, rides) /\ guest \in Others /\ Good(driver, guest, rides) /\ faults \in 0 .. MaxFaults

\* What no step of the service takes back.
RowKept(x, y) == x.offer = "ACCEPTED" => y.offer = "ACCEPTED" /\ Reached(x.status) \subseteq Reached(y.status)
Kept(rs, ns) == \A r \in Ride : RowKept(rs[r], ns[r])

-----------------------------------------------------------------------------
(***************************************************************************)
(* The stages of a ride                                                    *)
(***************************************************************************)

LEMMA StageNames ==
    /\ Stages[1] = "DRIVER_ASSIGNED" /\ Stages[2] = "DRIVER_EN_ROUTE" /\ Stages[3] = "DRIVER_ARRIVED"
    /\ Stages[4] = "RIDE_STARTED" /\ Stages[5] = "RIDE_COMPLETED"
BY DEF Stages

\* What Follows says, stage by stage.
LEMMA FollowsTable ==
    ASSUME NEW s, NEW t, Follows(s, t)
    PROVE  \/ s = "DRIVER_ASSIGNED" /\ t = "DRIVER_EN_ROUTE"
           \/ s = "DRIVER_EN_ROUTE" /\ t = "DRIVER_ARRIVED"
           \/ s = "DRIVER_ARRIVED" /\ t = "RIDE_STARTED"
           \/ s = "RIDE_STARTED" /\ t = "RIDE_COMPLETED"
<1>1. PICK i \in 1 .. 4 : Stages[i] = s /\ Stages[i + 1] = t
  BY DEF Follows
<1>2. i = 1 \/ i = 2 \/ i = 3 \/ i = 4
  OBVIOUS
<1>3. CASE i = 1  BY <1>1, <1>3, StageNames
<1>4. CASE i = 2  BY <1>1, <1>4, StageNames
<1>5. CASE i = 3  BY <1>1, <1>5, StageNames
<1>6. CASE i = 4  BY <1>1, <1>6, StageNames
<1>7. QED
  BY <1>2, <1>3, <1>4, <1>5, <1>6

\* The stages up to the i-th.
UpTo(i) == {Stages[j] : j \in 1 .. i}

\* A ride that has not been cancelled has reached the stages up to its own.
LEMMA ReachedUpTo ==
    ASSUME NEW i \in 1 .. 5
    PROVE  Reached(Stages[i]) = UpTo(i)
<1>1. \A k \in 1 .. 5 : Stages[k] = Stages[i] => k = i
  BY StageNames
<1>2. Stages[i] # "CANCELLED"
  BY StageNames
<1>3. Reached(Stages[i]) = {Stages[i]} \cup {Stages[j] : j \in {n \in 1 .. 5 : \E k \in n .. 5 : Stages[k] = Stages[i]}}
  BY <1>2 DEF Reached
<1>4. {n \in 1 .. 5 : \E k \in n .. 5 : Stages[k] = Stages[i]} = 1 .. i
  <2>1. ASSUME NEW n \in 1 .. 5, NEW k \in n .. 5, Stages[k] = Stages[i]
        PROVE  n \in 1 .. i
    BY <1>1, <2>1
  <2>2. ASSUME NEW n \in 1 .. i
        PROVE  n \in 1 .. 5 /\ \E k \in n .. 5 : Stages[k] = Stages[i]
    <3>1. i \in n .. 5
      OBVIOUS
    <3>2. QED
      BY <3>1
  <2>3. QED
    BY <2>1, <2>2
<1>5. i \in 1 .. i
  OBVIOUS
<1>6. QED
  BY <1>3, <1>4, <1>5 DEF UpTo

LEMMA ReachedCancelled == Reached("CANCELLED") = {"CANCELLED", "RIDE_COMPLETED"} \cup Active
BY DEF Reached

\* The next stage keeps what was reached, and so does a cancellation.
LEMMA ReachedGrows ==
    ASSUME NEW s, NEW t, Follows(s, t) \/ (s \in Active /\ t = "CANCELLED")
    PROVE  Reached(s) \subseteq Reached(t)
<1>1. \A i, k \in 1 .. 5 : i <= k => Reached(Stages[i]) \subseteq Reached(Stages[k])
  <2>1. \A i, k \in 1 .. 5 : i <= k => UpTo(i) \subseteq UpTo(k)
    BY DEF UpTo
  <2>2. QED
    BY <2>1, ReachedUpTo
<1>2. CASE Follows(s, t)
  <2>1. PICK i \in 1 .. 4 : Stages[i] = s /\ Stages[i + 1] = t
    BY <1>2 DEF Follows
  <2>2. i \in 1 .. 5 /\ i + 1 \in 1 .. 5 /\ i <= i + 1
    OBVIOUS
  <2>3. QED
    BY <1>1, <2>1, <2>2
<1>3. CASE s \in Active /\ t = "CANCELLED"
  <2>1. PICK i \in 1 .. 4 : Stages[i] = s
    <3>1. s \in {Stages[1], Stages[2], Stages[3], Stages[4]}
      BY <1>3, StageNames DEF Active
    <3>2. QED
      BY <3>1
  <2>2. Reached(s) = UpTo(i)
    BY <2>1, ReachedUpTo
  <2>3. UpTo(i) \subseteq Active
    <3>1. \A j \in 1 .. 4 : Stages[j] \in Active
      BY StageNames DEF Active
    <3>2. QED
      BY <3>1 DEF UpTo
  <2>4. QED
    BY <1>3, <2>2, <2>3, ReachedCancelled
<1>4. QED
  BY <1>2, <1>3

LEMMA ReachedItself == ASSUME NEW s PROVE s \in Reached(s)
BY DEF Reached

\* Only stages, and what the ride is, are reached.
LEMMA ReachedStatus ==
    ASSUME NEW s \in Active \cup Closed
    PROVE  Reached(s) \subseteq Status
<1>1. CASE s = "CANCELLED"
  BY <1>1, ReachedCancelled DEF Status, Active, Closed
<1>2. CASE s # "CANCELLED"
  <2>1. PICK i \in 1 .. 5 : Stages[i] = s
    <3>1. s \in {Stages[1], Stages[2], Stages[3], Stages[4], Stages[5]}
      BY <1>2, StageNames DEF Active, Closed
    <3>2. QED
      BY <3>1
  <2>2. \A j \in 1 .. 5 : Stages[j] \in Status
    BY StageNames DEF Status, Active, Closed
  <2>3. QED
    BY <2>1, <2>2, ReachedUpTo DEF UpTo
<1>3. QED
  BY <1>1, <1>2

LEMMA FollowsStatus ==
    ASSUME NEW s, NEW t, Follows(s, t)
    PROVE  s \in Active /\ t \in Active \cup Closed
BY FollowsTable DEF Active, Closed

\* The statuses, listed.
LEMMA StatusFinite == Status = {"none", "MATCHING", "DRIVER_ASSIGNED", "DRIVER_EN_ROUTE", "DRIVER_ARRIVED",
                                "RIDE_STARTED", "RIDE_COMPLETED", "CANCELLED"}
BY DEF Status, Active, Closed

-----------------------------------------------------------------------------
(***************************************************************************)
(* The current ride                                                        *)
(***************************************************************************)

\* The newest ride of a set: the rides are numbered from 1 to MaxRides.
LEMMA NewestRide ==
    ASSUME NEW S, S \subseteq Ride, S # {}
    PROVE  \E r \in S : \A s \in S : s <= r
<1> DEFINE T == {MaxRides - r : r \in S}
<1> DEFINE Below == OpToRel(<, Nat)
<1>1. MaxRides \in Nat
  BY DriverAppAssumption
<1>2. T \subseteq Nat /\ T # {}
  <2>1. ASSUME NEW r \in S PROVE MaxRides - r \in Nat
    <3>1. r \in 1 .. MaxRides
      BY DEF Ride
    <3>2. QED
      BY <1>1, <3>1
  <2>2. QED
    BY <2>1
<1>3. IsWellFoundedOn(Below, Nat)
  BY NatLessThanWellFounded
<1>4. PICK x \in T : \A y \in T : ~(<<y, x>> \in Below)
  <2> HIDE DEF T, Below
  <2>1. QED
    BY <1>2, <1>3, WFMin
<1>5. \A y \in T : ~(y < x)
  <2>1. \A y, z \in Nat : y < z => <<y, z>> \in Below
    BY DEF OpToRel
  <2>2. QED
    BY <1>2, <1>4, <2>1
<1>6. PICK r \in S : x = MaxRides - r
  OBVIOUS
<1>7. ASSUME NEW s \in S PROVE s <= r
  <2>1. MaxRides - s \in T
    OBVIOUS
  <2>2. r \in Int /\ s \in Int
    BY DEF Ride
  <2>3. ~(MaxRides - s < MaxRides - r)
    BY <1>5, <1>6, <2>1
  <2>4. QED
    BY <1>1, <2>2, <2>3
<1>8. QED
  BY <1>7

LEMMA CurrentOwn ==
    ASSUME Current # NoRide
    PROVE  Current \in Ride /\ rides[Current].offer = "ACCEPTED" /\ rides[Current].status \in Active
<1>1. Unfinished # {} /\ Unfinished \subseteq Ride
  BY DEF Current, Unfinished
<1>2. \E r \in Unfinished : \A s \in Unfinished : s <= r
  <2> HIDE DEF Unfinished
  <2>1. QED
    BY <1>1, NewestRide
<1>3. Current \in Unfinished
  BY <1>1, <1>2 DEF Current
<1>4. QED
  BY <1>1, <1>3 DEF Unfinished, Own

-----------------------------------------------------------------------------
(***************************************************************************)
(* The rows                                                                *)
(***************************************************************************)

LEMMA KeptSame == ASSUME NEW rs PROVE Kept(rs, rs)
BY DEF Kept, RowKept

LEMMA HasReachedKept ==
    ASSUME NEW rs, NEW ns, Kept(rs, ns), NEW r \in Ride, NEW s, HasReached(rs, r, s)
    PROVE  HasReached(ns, r, s)
BY DEF Kept, RowKept, HasReached

\* A ride of the cache or of a call.
LEMMA HasReachedStatus ==
    ASSUME NEW d, NEW rs, World(d, rs), NEW r \in Ride, NEW s, HasReached(rs, r, s)
    PROVE  s \in Status
<1>1. rs[r].status \in Active \cup Closed
  BY DEF World, RowFine, HasReached
<1>2. QED
  BY <1>1, ReachedStatus DEF HasReached

LEMMA CallsKept ==
    ASSUME NEW rs, NEW ns, Kept(rs, ns), NEW cs, CallsFine(cs, rs)
    PROVE  CallsFine(cs, ns)
<1>1. ASSUME NEW c \in cs PROVE CallFine(c, ns)
  <2>1. CallFine(c, rs)
    BY DEF CallsFine
  <2>2. c.kind = "stage" => c.ride \in Ride
    BY <2>1 DEF CallFine
  <2>3. c.kind = "stage" /\ c.code = 200 => HasReached(ns, c.ride, c.arg)
    BY <2>1, <2>2, HasReachedKept DEF CallFine
  <2>4. QED
    BY <2>1, <2>3 DEF CallFine
<1>2. QED
  BY <1>1 DEF CallsFine

LEMMA CacheKept ==
    ASSUME NEW rs, NEW ns, Kept(rs, ns), NEW ca, CacheFine(ca, rs)
    PROVE  CacheFine(ca, ns)
<1>1. ca.ride # NoRide => ca.ride \in Ride
  BY DEF CacheFine, CacheState
<1>2. ca.ride # NoRide => HasReached(ns, ca.ride, ca.stage)
  BY <1>1, HasReachedKept DEF CacheFine
<1>3. QED
  BY <1>2 DEF CacheFine

\* The tab fits rows that have kept what it knows.
LEMMA GoodKept ==
    ASSUME NEW d, NEW e, NEW o, NEW n, NEW rs, NEW ns, Good(d, o, rs), Kept(rs, ns),
           d.approved => e.approved, o = "yes" => n = "yes"
    PROVE  Good(e, n, ns)
<1>1. CallsFine(calls, ns)
  BY CallsKept DEF Good, Fits
<1>2. CacheFine(cache, ns)
  BY CacheKept DEF Good, Fits
<1>3. GuardFine(guard, e, n)
  BY DEF Good, Fits, GuardFine, Cleared
<1>4. QED
  BY <1>1, <1>2, <1>3 DEF Good, Fits

\* A step of one ride.
LEMMA RowStep ==
    ASSUME NEW d, NEW rs, World(d, rs), NEW r \in Ride, NEW row, RowFine(row), RowKept(rs[r], row)
    PROVE  World(d, [rs EXCEPT ![r] = row]) /\ Kept(rs, [rs EXCEPT ![r] = row])
<1> DEFINE ns == [rs EXCEPT ![r] = row]
<1>1. rs \in [Ride -> RideRow] /\ row \in RideRow
  BY DEF World, RowFine
<1>2. ns \in [Ride -> RideRow] /\ \A x \in Ride : ns[x] = IF x = r THEN row ELSE rs[x]
  BY <1>1
<1>3. \A x \in Ride : RowFine(ns[x])
  BY <1>2 DEF World
<1>4. \A x \in Ride : RowKept(rs[x], ns[x])
  BY <1>2 DEF RowKept
<1> HIDE DEF ns
<1>5. World(d, ns) /\ Kept(rs, ns)
  BY <1>2, <1>3, <1>4 DEF World, Kept
<1>6. QED
  BY <1>5 DEF ns

\* The two halves of a row: a new status, or a new answer to the offer.
LEMMA StatusStep ==
    ASSUME NEW d, NEW rs, World(d, rs), NEW r \in Ride, NEW s \in Active \cup Closed,
           rs[r].offer = "ACCEPTED" => Follows(rs[r].status, s) \/ (rs[r].status \in Active /\ s = "CANCELLED")
    PROVE  World(d, [rs EXCEPT ![r].status = s]) /\ Kept(rs, [rs EXCEPT ![r].status = s])
<1> DEFINE row == [rs[r] EXCEPT !.status = s]
<1>1. rs[r] \in RideRow
  BY DEF World
<1>2. row \in RideRow /\ row.status = s /\ row.offer = rs[r].offer
  BY <1>1 DEF RideRow, Status
<1>3. RowFine(row)
  BY <1>2 DEF RowFine
<1>4. RowKept(rs[r], row)
  BY <1>2, ReachedGrows DEF RowKept
<1>5. [rs EXCEPT ![r].status = s] = [rs EXCEPT ![r] = row]
  OBVIOUS
<1> HIDE DEF row
<1>6. QED
  BY <1>3, <1>4, <1>5, RowStep

LEMMA OfferStep ==
    ASSUME NEW d, NEW rs, World(d, rs), NEW r \in Ride, rs[r].offer # "ACCEPTED",
           NEW o \in {"DUE", "REJECTED", "EXPIRED"}
    PROVE  World(d, [rs EXCEPT ![r].offer = o]) /\ Kept(rs, [rs EXCEPT ![r].offer = o])
<1> DEFINE row == [rs[r] EXCEPT !.offer = o]
<1>1. rs[r] \in RideRow
  BY DEF World
<1>2. row \in RideRow /\ row.offer = o
  BY <1>1 DEF RideRow
<1>3. RowFine(row)
  BY <1>2 DEF RowFine
<1>4. RowKept(rs[r], row)
  BY DEF RowKept
<1>5. [rs EXCEPT ![r].offer = o] = [rs EXCEPT ![r] = row]
  OBVIOUS
<1> HIDE DEF row
<1>6. QED
  BY <1>3, <1>4, <1>5, RowStep

\* _cancel_unfinished_rides_for_driver
LEMMA AbandonedStep ==
    ASSUME NEW d, NEW rs, World(d, rs)
    PROVE  World(d, Abandoned(rs)) /\ Kept(rs, Abandoned(rs))
<1>1. ASSUME NEW r \in Ride
      PROVE  RowFine(Abandoned(rs)[r]) /\ RowKept(rs[r], Abandoned(rs)[r])
  <2>1. RowFine(rs[r]) /\ rs[r] \in RideRow
    BY DEF World
  <2>2. CASE rs[r].offer = "ACCEPTED" /\ rs[r].status \in Active
    <3> DEFINE row == [rs[r] EXCEPT !.status = "CANCELLED"]
    <3>1. Abandoned(rs)[r] = row
      BY <2>2 DEF Abandoned
    <3>2. row \in RideRow /\ row.status = "CANCELLED" /\ row.offer = "ACCEPTED"
      BY <2>1, <2>2 DEF RideRow, Status, Closed
    <3>3. RowFine(row)
      BY <3>2 DEF RowFine, Closed
    <3>4. RowKept(rs[r], row)
      BY <2>2, <3>2, ReachedGrows DEF RowKept
    <3>5. QED
      BY <3>1, <3>3, <3>4
  <2>3. CASE ~(rs[r].offer = "ACCEPTED" /\ rs[r].status \in Active)
    <3>1. Abandoned(rs)[r] = rs[r]
      BY <2>3 DEF Abandoned
    <3>2. QED
      BY <2>1, <3>1 DEF RowKept
  <2>4. QED
    BY <2>2, <2>3
<1>2. Abandoned(rs) \in [Ride -> RideRow]
  <2>1. Abandoned(rs) = [r \in Ride |-> Abandoned(rs)[r]]
    BY DEF Abandoned
  <2>2. \A r \in Ride : Abandoned(rs)[r] \in RideRow
    BY <1>1 DEF RowFine
  <2>3. QED
    BY <2>1, <2>2
<1>3. QED
  BY <1>1, <1>2 DEF World, Kept

\* The driver's row: every change keeps its shape and the approval.
LEMMA DriverStep ==
    ASSUME NEW d, NEW e, NEW rs, World(d, rs), e \in DriverRow
    PROVE  World(e, rs)
BY DEF World

LEMMA ReconciledFine ==
    ASSUME driver \in DriverRow
    PROVE  ReconciledDriver \in DriverRow /\ ReconciledDriver.approved = driver.approved
<1> DEFINE key == IF driver.key = "expired" THEN "none" ELSE driver.key
           online == driver.online /\ ~Lapsed
           available == driver.available /\ ~Lapsed
<1>1. key \in {"none", "expired", "busy", "available"}
  BY DEF DriverRow
<1>2. online \in BOOLEAN /\ available \in BOOLEAN
  BY DEF DriverRow
<1>3. ReconciledDriver = [driver EXCEPT !.key = key, !.online = online, !.available = available]
  BY DEF ReconciledDriver
<1> HIDE DEF key, online, available
<1>4. QED
  BY <1>1, <1>2, <1>3 DEF DriverRow

LEMMA FreedFine ==
    ASSUME NEW d \in DriverRow
    PROVE  Freed(d) \in DriverRow /\ Freed(d).approved = d.approved
BY DEF DriverRow, Freed

LEMMA ToggledFine ==
    ASSUME NEW d \in DriverRow, NEW online \in BOOLEAN
    PROVE  Toggled(d, online) \in DriverRow /\ Toggled(d, online).approved = d.approved
<1> DEFINE key == IF online THEN "available" ELSE "none"
<1>1. key \in {"none", "expired", "busy", "available"}
  OBVIOUS
<1>2. Toggled(d, online) = [d EXCEPT !.online = online, !.available = online, !.key = key]
  BY DEF Toggled
<1> HIDE DEF key
<1>3. QED
  BY <1>1, <1>2 DEF DriverRow

\* What a reconciliation leaves.
LEMMA ReconciledWorld ==
    ASSUME World(driver, rides)
    PROVE  /\ World(ReconciledDriver, ReconciledRides)
           /\ Kept(rides, ReconciledRides)
           /\ ReconciledDriver.approved = driver.approved
<1>1. driver \in DriverRow
  BY DEF World
<1>2. World(driver, ReconciledRides) /\ Kept(rides, ReconciledRides)
  BY AbandonedStep, KeptSame DEF ReconciledRides
<1>3. QED
  BY <1>1, <1>2, ReconciledFine, DriverStep

-----------------------------------------------------------------------------
(***************************************************************************)
(* The tab                                                                 *)
(***************************************************************************)

LEMMA PageNames ==
    /\ At("closed") \in Page /\ At("pending") \in Page /\ At("login") \in Page /\ At("register") \in Page
    /\ At("dashboard") \in Page /\ At("offers") \in Page /\ At("active") \in Page
    /\ \A r \in Ride : Offer(r) \in Page
BY DEF Page, Public, Operations

LEMMA FreshTab == FreshUi \in UiState /\ NoGuard \in GuardState /\ NoCache \in CacheState
BY DEF FreshUi, UiState, NoGuard, GuardState, NoCache, CacheState, Status, NoRide

\* A call keeps its meaning when the tab forgets it.
LEMMA CallForgotten ==
    ASSUME NEW rs, NEW c, CallFine(c, rs)
    PROVE  CallFine([c EXCEPT !.here = FALSE], rs) /\ CallFine([c EXCEPT !.mine = FALSE, !.here = FALSE], rs)
<1> DEFINE x == [c EXCEPT !.here = FALSE]
           y == [c EXCEPT !.mine = FALSE, !.here = FALSE]
<1>1. c \in CallType
  BY DEF CallFine
<1>2. x \in CallType /\ x.kind = c.kind /\ x.ride = c.ride /\ x.arg = c.arg /\ x.code = c.code
  BY <1>1 DEF CallType
<1>3. y \in CallType /\ y.kind = c.kind /\ y.ride = c.ride /\ y.arg = c.arg /\ y.code = c.code
  BY <1>1 DEF CallType
<1> HIDE DEF x, y
<1>4. CallFine(x, rs) /\ CallFine(y, rs)
  BY <1>2, <1>3 DEF CallFine
<1>5. QED
  BY <1>4 DEF x, y

LEMMA SettledFine ==
    ASSUME NEW rs, NEW cs, CallsFine(cs, rs)
    PROVE  CallsFine(Settled(cs), rs)
BY CallForgotten DEF CallsFine, Settled

\* Leaving a page.
LEMMA LeaveFits ==
    ASSUME NEW rs, CacheFine(cache, rs), NEW cs, CallsFine(cs, rs), NEW n, Leave(n, cs)
    PROVE  ui' \in UiState /\ CacheFine(cache', rs) /\ CallsFine(calls', rs)
<1>1. ui' \in UiState
  BY FreshTab DEF Leave
<1>2. CallsFine(calls', rs)
  BY SettledFine DEF Leave
<1>3. CacheFine([cache EXCEPT !.avail = "none"], rs)
  <2> DEFINE ca == [cache EXCEPT !.avail = "none"]
  <2>1. ca \in CacheState /\ ca.ride = cache.ride /\ ca.stage = cache.stage
    BY DEF CacheFine, CacheState
  <2> HIDE DEF ca
  <2>2. CacheFine(ca, rs)
    BY <2>1 DEF CacheFine
  <2>3. QED
    BY <2>2 DEF ca
<1>4. CacheFine([NoCache EXCEPT !.offers = cache.offers], rs)
  <2> DEFINE ca == [NoCache EXCEPT !.offers = cache.offers]
  <2>1. cache.offers \in SUBSET Ride
    BY DEF CacheFine, CacheState
  <2>2. ca \in CacheState /\ ca.ride = NoRide
    BY <2>1 DEF NoCache, CacheState, Status
  <2> HIDE DEF ca
  <2>3. CacheFine(ca, rs)
    BY <2>2 DEF CacheFine
  <2>4. QED
    BY <2>3 DEF ca
<1>5. QED
  BY <1>1, <1>2, <1>3, <1>4 DEF Leave

\* Asking changes nothing of what the guard knows.
LEMMA GuardAsks ==
    ASSUME NEW g, NEW d, NEW o, GuardFine(g, d, o), NEW s \in SessionState
    PROVE  GuardFine([g EXCEPT !.asked = Asker(s)], d, o)
<1> DEFINE new == [g EXCEPT !.asked = Asker(s)]
<1>1. Asker(s) \in {"none", "nobody", "driver", "guest"}
  BY DEF Asker, SessionState
<1>2. new \in GuardState /\ new.value = g.value /\ new.whose = g.whose
  BY <1>1 DEF GuardFine, GuardState
<1> HIDE DEF new
<1>3. GuardFine(new, d, o)
  BY <1>2 DEF GuardFine
<1>4. QED
  BY <1>3 DEF new

\* A failure hides what the guard knows, and keeps it.
LEMMA GuardForgets ==
    ASSUME NEW g, NEW d, NEW o, GuardFine(g, d, o)
    PROVE  GuardFine([g EXCEPT !.failed = TRUE, !.asked = "none"], d, o)
<1> DEFINE new == [g EXCEPT !.failed = TRUE, !.asked = "none"]
<1>1. new \in GuardState /\ new.value = g.value /\ new.whose = g.whose
  BY DEF GuardFine, GuardState
<1> HIDE DEF new
<1>2. GuardFine(new, d, o)
  BY <1>1 DEF GuardFine
<1>3. QED
  BY <1>2 DEF new

\* Showing a page, whatever the guards make of it.
LEMMA ShowFits ==
    ASSUME NEW d, NEW o, NEW rs, Good(d, o, rs), NEW p \in Page, NEW s \in SessionState, NEW cs, CallsFine(cs, rs),
           Show(p, s, cs)
    PROVE  Fits(session', page', guard', cache', ui', calls', d, o, rs)
<1> DEFINE shown == IF p.name \in Public THEN p ELSE IF Valid(s) THEN Admitted(p) ELSE At("login")
<1>1. shown \in Page
  BY PageNames DEF Admitted
<1>2. page' = shown /\ session' = s /\ (guard' = guard \/ guard' = [guard EXCEPT !.asked = Asker(s)])
  BY DEF Show
<1>3. IF shown.name = page.name THEN ui' = ui /\ calls' = cs /\ cache' = cache ELSE Leave(shown.name, cs)
  BY DEF Show
<1>4. GuardFine(guard, d, o)
  BY DEF Good, Fits
<1> HIDE DEF shown
<1>5. GuardFine(guard', d, o)
  BY <1>2, <1>4, GuardAsks
<1>6. CacheFine(cache, rs) /\ ui \in UiState
  BY DEF Good, Fits
<1>7. ui' \in UiState /\ CacheFine(cache', rs) /\ CallsFine(calls', rs)
  BY <1>3, <1>6, LeaveFits
<1>8. QED
  BY <1>1, <1>2, <1>5, <1>7 DEF Fits

LEMMA Spent ==
    ASSUME faults \in 0 .. MaxFaults, (faults > 0 /\ faults' = faults - 1) \/ faults' = faults
    PROVE  faults' \in 0 .. MaxFaults
<1>1. MaxFaults \in Nat
  BY DriverAppAssumption
<1>2. QED
  BY <1>1

LEMMA Assembled ==
    ASSUME World(driver', rides'), guest' \in Others, Fits(session', page', guard', cache', ui', calls', driver', guest', rides'),
           faults' \in 0 .. MaxFaults
    PROVE  IInv'
BY DEF IInv, Good

\* A step of the tab that shows a page.
LEMMA ShowStep ==
    ASSUME IInv, NEW p \in Page, NEW s \in SessionState, NEW cs, CallsFine(cs, rides), Show(p, s, cs),
           UNCHANGED <<driver, guest, rides>>, (faults > 0 /\ faults' = faults - 1) \/ faults' = faults
    PROVE  IInv'
<1>1. Good(driver, guest, rides) /\ World(driver, rides) /\ guest \in Others /\ faults \in 0 .. MaxFaults
  BY DEF IInv
<1>2. Fits(session', page', guard', cache', ui', calls', driver, guest, rides)
  BY <1>1, ShowFits
<1>3. faults' \in 0 .. MaxFaults
  BY <1>1, Spent
<1>4. QED
  BY <1>1, <1>2, <1>3, Assembled

\* A step of the service, which the tab does not see.
LEMMA WorldStep ==
    ASSUME IInv, UNCHANGED <<tab, calls, guest, faults>>, World(driver', rides'), Kept(rides, rides'),
           driver.approved => driver'.approved
    PROVE  IInv'
<1>1. Good(driver, guest, rides) /\ guest \in Others /\ faults \in 0 .. MaxFaults
  BY DEF IInv
<1>2. Good(driver', guest, rides')
  BY <1>1, GoodKept
<1>3. Fits(session, page, guard, cache, ui, calls, driver', guest, rides')
  BY <1>2 DEF Good
<1>4. UNCHANGED <<session, page, guard, cache, ui, calls, guest, faults>>
  BY DEF tab
<1>5. Fits(session', page', guard', cache', ui', calls', driver', guest', rides')
  BY <1>3, <1>4
<1>6. QED
  BY <1>1, <1>4, <1>5, Assembled

\* Any other step of the tab.
LEMMA TabStep ==
    ASSUME IInv, UNCHANGED <<driver, guest, rides>>,
           Fits(session', page', guard', cache', ui', calls', driver, guest, rides),
           (faults > 0 /\ faults' = faults - 1) \/ faults' = faults
    PROVE  IInv'
<1>1. World(driver, rides) /\ guest \in Others /\ faults \in 0 .. MaxFaults
  BY DEF IInv
<1>2. faults' \in 0 .. MaxFaults
  BY <1>1, Spent
<1>3. QED
  BY <1>1, <1>2, Assembled

\* The parts of the invariant, by name.
LEMMA Parts ==
    ASSUME IInv
    PROVE  /\ session \in SessionState /\ page \in Page /\ ui \in UiState
           /\ guard \in GuardState /\ GuardFine(guard, driver, guest)
           /\ cache \in CacheState /\ CacheFine(cache, rides)
           /\ CallsFine(calls, rides)
           /\ driver \in DriverRow /\ World(driver, rides) /\ guest \in Others
           /\ faults \in 0 .. MaxFaults
BY DEF IInv, Good, Fits, GuardFine, CacheFine, World

\* What the driver sends.
LEMMA NewFine ==
    ASSUME NEW rs, NEW k \in Kinds, NEW r \in Targets, NEW a \in Args,
           IF k = "availability" THEN a \in {"ONLINE", "OFFLINE"} ELSE r \in Ride
    PROVE  CallFine(New(k, r, a), rs)
<1> DEFINE c == New(k, r, a)
<1>1. Valid(session) \in BOOLEAN
  BY DEF Valid
<1>2. 0 \in Codes
  BY DEF Codes
<1>3. c \in CallType /\ c.kind = k /\ c.ride = r /\ c.arg = a /\ c.code = 0
  BY <1>1, <1>2 DEF New, CallType
<1> HIDE DEF c
<1>4. CallFine(c, rs)
  BY <1>3 DEF CallFine
<1>5. QED
  BY <1>4 DEF c

LEMMA SendStep ==
    ASSUME IInv, NEW k \in Kinds, NEW r \in Targets, NEW a \in Args,
           IF k = "availability" THEN a \in {"ONLINE", "OFFLINE"} ELSE r \in Ride,
           Send(k, r, a)
    PROVE  IInv'
<1>1. calls' = calls \cup {New(k, r, a)} /\ UNCHANGED <<session, page, guard, cache, ui>>
  BY DEF Send, tab
<1>2. UNCHANGED <<driver, guest, rides, faults>>
  BY DEF Send
<1>3. CallFine(New(k, r, a), rides)
  BY NewFine
<1>4. CallsFine(calls', rides)
  BY <1>1, <1>3, Parts DEF CallsFine
<1>5. Fits(session', page', guard', cache', ui', calls', driver, guest, rides)
  BY <1>1, <1>4, Parts DEF Fits
<1>6. QED
  BY <1>2, <1>5, TabStep

LEMMA LessCalls ==
    ASSUME NEW rs, NEW cs, NEW ds, ds \subseteq cs, CallsFine(cs, rs)
    PROVE  CallsFine(ds, rs)
BY DEF CallsFine

-----------------------------------------------------------------------------
(***************************************************************************)
(* Session and navigation                                                  *)
(***************************************************************************)

LEMMA OpenStep == ASSUME IInv, Open PROVE IInv'
<1>1. PICK n \in {"login", "dashboard"}, call \in {"none", "boot"} :
         /\ (faults > 0 /\ faults' = faults - 1) \/ faults' = faults
         /\ Show(At(n), [session EXCEPT !.live = session.stored, !.call = call], calls)
  BY DEF Open
<1>2. [session EXCEPT !.live = session.stored, !.call = call] \in SessionState
  BY Parts DEF SessionState
<1>3. At(n) \in Page
  BY PageNames
<1>4. UNCHANGED <<driver, guest, rides>>
  BY DEF Open
<1>5. QED
  BY <1>1, <1>2, <1>3, <1>4, Parts, ShowStep

\* Steps that change only the session.
LEMMA SessionStep ==
    ASSUME IInv, BootFails \/ (\E w \in Users : LogIn(w)) \/ TokenExpires
    PROVE  IInv'
<1>1. session' \in SessionState
  <2>1. CASE BootFails
    BY <2>1, Parts DEF BootFails, SessionState
  <2>2. CASE \E w \in Users : LogIn(w)
    BY <2>2 DEF LogIn, SessionState, Users
  <2>3. CASE TokenExpires
    BY <2>3, Parts DEF TokenExpires, SessionState
  <2>4. QED
    BY <2>1, <2>2, <2>3
<1>2. UNCHANGED <<page, guard, cache, ui, calls, driver, guest, rides>>
  BY DEF BootFails, LogIn, TokenExpires
<1>3. (faults > 0 /\ faults' = faults - 1) \/ faults' = faults
  BY DEF BootFails, LogIn, TokenExpires
<1>4. Fits(session', page', guard', cache', ui', calls', driver, guest, rides)
  BY <1>1, <1>2, Parts DEF Fits
<1>5. QED
  BY <1>2, <1>3, <1>4, TabStep

LEMMA LoggedInStep == ASSUME IInv, LoggedIn PROVE IInv'
<1>1. PICK n \in {"dashboard", "pending"} :
         /\ (faults > 0 /\ faults' = faults - 1) \/ faults' = faults
         /\ Show(At(n), [session EXCEPT !.call = "none"], calls)
  BY DEF LoggedIn
<1>2. [session EXCEPT !.call = "none"] \in SessionState
  BY Parts DEF SessionState
<1>3. At(n) \in Page
  BY PageNames
<1>4. UNCHANGED <<driver, guest, rides>>
  BY DEF LoggedIn
<1>5. QED
  BY <1>1, <1>2, <1>3, <1>4, Parts, ShowStep

LEMMA RegisterStep == ASSUME IInv, Register PROVE IInv'
<1>1. driver' \in DriverRow /\ driver'.approved = driver.approved
  BY Parts DEF Register, DriverRow
<1>2. UNCHANGED <<session, guard, cache, ui, calls, guest, rides, faults>> /\ page' \in Page
  BY PageNames DEF Register
<1>3. World(driver', rides')
  BY <1>1, <1>2, Parts, DriverStep
<1>4. GuardFine(guard', driver', guest')
  BY <1>1, <1>2, Parts DEF GuardFine, Cleared
<1>5. Fits(session', page', guard', cache', ui', calls', driver', guest', rides')
  BY <1>2, <1>4, Parts DEF Fits
<1>6. QED
  BY <1>2, <1>3, <1>5, Parts, Assembled

LEMMA FlipCardStep == ASSUME IInv, FlipCard PROVE IInv'
<1>1. UNCHANGED <<session, guard, cache, ui, calls, driver, guest, rides, faults>> /\ page' \in Page
  BY PageNames DEF FlipCard
<1>2. Fits(session', page', guard', cache', ui', calls', driver, guest, rides)
  BY <1>1, Parts DEF Fits
<1>3. QED
  BY <1>1, <1>2, TabStep

LEMMA SignOutStep == ASSUME IInv, SignOut PROVE IInv'
<1> DEFINE c == New("availability", NoRide, "OFFLINE")
           d == [c EXCEPT !.mine = FALSE]
           s == [session EXCEPT !.stored = FALSE, !.live = FALSE]
           cs == calls \cup (IF session.who = "driver" THEN {d} ELSE {})
<1>1. CallFine(c, rides) /\ c.kind = "availability"
  <2>1. "availability" \in Kinds /\ NoRide \in Targets /\ "OFFLINE" \in Args
    BY DEF Kinds, Targets, Args
  <2>2. CallFine(c, rides)
    BY <2>1, NewFine
  <2>3. QED
    BY <2>2 DEF New
<1>2. Show(At("login"), s, cs) /\ UNCHANGED <<driver, guest, rides>> /\ faults > 0 /\ faults' = faults - 1
  BY DEF SignOut
<1> HIDE DEF c
<1>3. d \in CallType /\ d.kind = c.kind /\ d.arg = c.arg
  BY <1>1 DEF CallFine, CallType
<1>4. CallFine(d, rides)
  <2> HIDE DEF d
  <2>1. QED
    BY <1>1, <1>3 DEF CallFine
<1>5. CallsFine(cs, rides)
  BY <1>4, Parts DEF CallsFine
<1>6. s \in SessionState
  BY Parts DEF SessionState
<1> HIDE DEF d, s, cs
<1>7. QED
  BY <1>2, <1>5, <1>6, PageNames, ShowStep

LEMMA CloseTabStep == ASSUME IInv, CloseTab PROVE IInv'
<1>1. session' \in SessionState
  BY Parts DEF CloseTab, SessionState
<1>2. page' \in Page /\ ui' \in UiState
  BY PageNames, FreshTab DEF CloseTab
<1>3. GuardFine(guard', driver, guest)
  <2>1. guard' = NoGuard /\ NoGuard.value = "none"
    BY DEF CloseTab, NoGuard
  <2>2. QED
    BY <2>1, FreshTab DEF GuardFine
<1>4. CacheFine(cache', rides)
  <2>1. cache' = NoCache /\ NoCache.ride = NoRide
    BY DEF CloseTab, NoCache
  <2>2. QED
    BY <2>1, FreshTab DEF CacheFine
<1>5. CallsFine(calls', rides)
  <2>1. calls' = {[c EXCEPT !.mine = FALSE, !.here = FALSE] : c \in {d \in calls : d.code = 0}}
    BY DEF CloseTab
  <2>2. \A c \in calls : CallFine([c EXCEPT !.mine = FALSE, !.here = FALSE], rides)
    BY Parts, CallForgotten DEF CallsFine
  <2>3. QED
    BY <2>1, <2>2 DEF CallsFine
<1>6. Fits(session', page', guard', cache', ui', calls', driver, guest, rides)
  BY <1>1, <1>2, <1>3, <1>4, <1>5 DEF Fits
<1>7. UNCHANGED <<driver, guest, rides>> /\ faults > 0 /\ faults' = faults - 1
  BY DEF CloseTab
<1>8. QED
  BY <1>6, <1>7, TabStep

LEMMA NavigateStep == ASSUME IInv, Navigate PROVE IInv'
<1>1. PICK n \in Operations \cup {"pending"} : Show(At(n), session, calls)
  BY DEF Navigate
<1>2. At(n) \in Page
  BY PageNames DEF Operations
<1>3. UNCHANGED <<driver, guest, rides, faults>>
  BY DEF Navigate
<1>4. QED
  BY <1>1, <1>2, <1>3, Parts, ShowStep

LEMMA PublicRedirectStep == ASSUME IInv, PublicRedirect PROVE IInv'
<1>1. PICK n \in {"dashboard", "pending"} :
         /\ (faults > 0 /\ faults' = faults - 1) \/ faults' = faults
         /\ Show(At(n), session, calls)
  BY DEF PublicRedirect
<1>2. At(n) \in Page
  BY PageNames
<1>3. UNCHANGED <<driver, guest, rides>>
  BY DEF PublicRedirect
<1>4. QED
  BY <1>1, <1>2, <1>3, Parts, ShowStep

\* The approval that the guard reads is that of the driver who asked.
LEMMA ReadingTrue ==
    ASSUME NEW w \in Users, driver \in DriverRow
    PROVE  Reading(w) \in {"no", "yes"} /\ (Reading(w) = "yes" => Cleared(w, driver, guest))
BY DEF Reading, Approval, Users, Cleared

LEMMA GuardAnswerStep == ASSUME IInv, GuardAnswer PROVE IInv'
<1> DEFINE w == guard.asked
<1>1. UNCHANGED <<session, guest, faults>> /\ driver' = ReconciledDriver /\ rides' = ReconciledRides
  BY DEF GuardAnswer
<1>2. /\ w \in Users /\ guard' = [value |-> Reading(w), whose |-> w, failed |-> FALSE, asked |-> "none"]
      /\ \/ page' = At("pending") /\ Leave("pending", calls)
         \/ UNCHANGED <<page, cache, ui, calls>>
  BY DEF GuardAnswer
<1> HIDE DEF w
<1>3. World(driver', rides') /\ Kept(rides, rides') /\ driver'.approved = driver.approved
  BY <1>1, Parts, ReconciledWorld
<1>4. CacheFine(cache, rides') /\ CallsFine(calls, rides')
  BY <1>3, Parts, CacheKept, CallsKept
<1>5. page' \in Page /\ ui' \in UiState /\ CacheFine(cache', rides') /\ CallsFine(calls', rides')
  <2>1. CASE page' = At("pending") /\ Leave("pending", calls)
    BY <1>4, <2>1, PageNames, LeaveFits
  <2>2. CASE UNCHANGED <<page, cache, ui, calls>>
    BY <1>4, <2>2, Parts
  <2>3. QED
    BY <1>2, <2>1, <2>2
<1>6. GuardFine(guard', driver', guest')
  <2>1. Reading(w) \in {"no", "yes"} /\ (Reading(w) = "yes" => Cleared(w, driver', guest'))
    BY <1>1, <1>2, <1>3, Parts, ReadingTrue DEF Cleared
  <2>2. w \in {"driver", "guest"}
    BY <1>2 DEF Users
  <2>3. QED
    BY <1>2, <2>1, <2>2 DEF GuardFine, GuardState
<1>7. Fits(session', page', guard', cache', ui', calls', driver', guest', rides')
  BY <1>1, <1>5, <1>6, Parts DEF Fits
<1>8. QED
  BY <1>1, <1>3, <1>7, Parts, Assembled

LEMMA GuardFailsStep == ASSUME IInv, GuardFails PROVE IInv'
<1>1. /\ Leave("pending", calls) \/ UNCHANGED <<cache, ui, calls>>
      /\ UNCHANGED <<session, page, driver, guest, rides>>
      /\ guard' = [guard EXCEPT !.failed = TRUE, !.asked = "none"]
  BY DEF GuardFails
<1>2. (faults > 0 /\ faults' = faults - 1) \/ faults' = faults
  BY DEF GuardFails
<1>3. GuardFine(guard', driver, guest)
  BY <1>1, Parts, GuardForgets
<1>4. ui' \in UiState /\ CacheFine(cache', rides) /\ CallsFine(calls', rides)
  BY <1>1, Parts, LeaveFits
<1>5. Fits(session', page', guard', cache', ui', calls', driver, guest, rides)
  BY <1>1, <1>3, <1>4, Parts DEF Fits
<1>6. QED
  BY <1>1, <1>2, <1>5, TabStep

\* The focus and the Retry button.
LEMMA GuardAskStep == ASSUME IInv, GuardFocus \/ GuardRetry PROVE IInv'
<1>1. guard' = [guard EXCEPT !.asked = Asker(session)]
  BY DEF GuardFocus, GuardRetry
<1>2. UNCHANGED <<session, page, cache, ui, calls, driver, guest, rides, faults>>
  BY DEF GuardFocus, GuardRetry
<1>3. GuardFine(guard', driver, guest)
  BY <1>1, Parts, GuardAsks
<1>4. Fits(session', page', guard', cache', ui', calls', driver, guest, rides)
  BY <1>2, <1>3, Parts DEF Fits
<1>5. QED
  BY <1>2, <1>4, TabStep

-----------------------------------------------------------------------------
(***************************************************************************)
(* Heartbeats and queries                                                  *)
(***************************************************************************)

LEMMA HeartbeatStep == ASSUME IInv, Heartbeat PROVE IInv'
<1> DEFINE d == ReconciledDriver
           key == IF d.available THEN "available" ELSE "busy"
<1>1. World(d, ReconciledRides) /\ Kept(rides, ReconciledRides) /\ d.approved = driver.approved
  BY Parts, ReconciledWorld
<1>2. driver' = (IF d.online /\ d.approved THEN [d EXCEPT !.key = key] ELSE d) /\ rides' = ReconciledRides
  BY DEF Heartbeat
<1>3. key \in {"none", "expired", "busy", "available"}
  OBVIOUS
<1> HIDE DEF d, key
<1>4. d \in DriverRow
  BY <1>1 DEF World
<1>5. driver' \in DriverRow /\ driver'.approved = d.approved
  BY <1>2, <1>3, <1>4 DEF DriverRow
<1>6. World(driver', rides')
  BY <1>1, <1>2, <1>5, DriverStep
<1>7. UNCHANGED <<tab, calls, guest, faults>>
  BY DEF Heartbeat
<1>8. QED
  BY <1>1, <1>2, <1>5, <1>6, <1>7, WorldStep

\* Any part of the cache but the ride may change freely.
LEMMA CacheStep ==
    ASSUME NEW rs, CacheFine(cache, rs), cache' \in CacheState, cache'.ride = cache.ride, cache'.stage = cache.stage
    PROVE  CacheFine(cache', rs)
BY DEF CacheFine

LEMMA ReadProfileStep == ASSUME IInv, ReadProfile PROVE IInv'
<1>1. World(driver', rides') /\ Kept(rides, rides') /\ driver'.approved = driver.approved
  BY Parts, ReconciledWorld DEF ReadProfile
<1>2. CacheFine(cache, rides') /\ CallsFine(calls, rides')
  BY <1>1, Parts, CacheKept, CallsKept
<1>3. UNCHANGED <<session, page, guard, ui, calls, guest, faults>>
  BY DEF ReadProfile
<1>4. CacheFine(cache', rides')
  <2> DEFINE a == IF session.who = "driver" THEN Availability(ReconciledDriver) ELSE "OFFLINE"
  <2>1. a \in {"none", "OFFLINE", "BUSY", "ONLINE"}
    BY DEF Availability
  <2>2. cache' = [cache EXCEPT !.avail = a]
    BY DEF ReadProfile
  <2> HIDE DEF a
  <2>3. cache' \in CacheState /\ cache'.ride = cache.ride /\ cache'.stage = cache.stage
    BY <2>1, <2>2, Parts DEF CacheState
  <2>4. QED
    BY <1>2, <2>3, CacheStep
<1>5. GuardFine(guard', driver', guest')
  BY <1>1, <1>3, Parts DEF GuardFine, Cleared
<1>6. Fits(session', page', guard', cache', ui', calls', driver', guest', rides')
  BY <1>2, <1>3, <1>4, <1>5, Parts DEF Fits
<1>7. QED
  BY <1>1, <1>3, <1>6, Parts, Assembled

LEMMA ReadOffersStep == ASSUME IInv, ReadOffers PROVE IInv'
<1>1. UNCHANGED <<session, page, guard, ui, calls, driver, guest, rides, faults>>
  BY DEF ReadOffers
<1>2. cache' = [cache EXCEPT !.offers = Listed] /\ Listed \subseteq Ride
  BY DEF ReadOffers, Listed, Pending
<1>3. cache' \in CacheState /\ cache'.ride = cache.ride /\ cache'.stage = cache.stage
  BY <1>2, Parts DEF CacheState
<1>4. CacheFine(cache', rides)
  BY <1>3, Parts, CacheStep
<1>5. Fits(session', page', guard', cache', ui', calls', driver, guest, rides)
  BY <1>1, <1>4, Parts DEF Fits
<1>6. QED
  BY <1>1, <1>5, TabStep

\* A cache that shows ride r at stage t, both of which are so.
LEMMA CacheShows ==
    ASSUME NEW ca \in CacheState, NEW rs, NEW r \in Ride, NEW t \in Status, HasReached(rs, r, t)
    PROVE  CacheFine([ca EXCEPT !.ride = r, !.stage = t], rs)
<1> DEFINE new == [ca EXCEPT !.ride = r, !.stage = t]
<1>1. new \in CacheState /\ new.ride = r /\ new.stage = t
  BY DEF CacheState
<1> HIDE DEF new
<1>2. CacheFine(new, rs)
  BY <1>1 DEF CacheFine
<1>3. QED
  BY <1>2 DEF new

LEMMA MineReached ==
    ASSUME World(driver, rides), Mine # NoRide
    PROVE  /\ Mine \in Ride /\ rides[Mine].status \in Status
           /\ HasReached(rides, Mine, rides[Mine].status)
<1>1. Mine \in Ride /\ rides[Mine].offer = "ACCEPTED"
  BY CurrentOwn DEF Mine
<1>2. rides[Mine].status \in Status
  BY <1>1 DEF World, RideRow
<1>3. QED
  BY <1>1, <1>2, ReachedItself DEF HasReached

LEMMA ReadActiveStep == ASSUME IInv, ReadActive PROVE IInv'
<1>1. UNCHANGED <<session, page, guard, ui, calls, driver, guest, rides, faults>>
  BY DEF ReadActive
<1>2. CacheFine(cache', rides)
  <2>1. CASE Mine = NoRide
    <3>1. cache' = [cache EXCEPT !.ride = NoRide, !.stage = "none"]
      BY <2>1 DEF ReadActive
    <3>2. cache' \in CacheState /\ cache'.ride = NoRide
      BY <3>1, Parts, StatusFinite DEF CacheState
    <3>3. QED
      BY <3>2 DEF CacheFine
  <2>2. CASE Mine # NoRide
    <3>1. cache' = [cache EXCEPT !.ride = Mine, !.stage = rides[Mine].status]
      BY <2>2 DEF ReadActive
    <3>2. Mine \in Ride /\ rides[Mine].status \in Status /\ HasReached(rides, Mine, rides[Mine].status)
      BY <2>2, Parts, MineReached
    <3>3. QED
      BY <3>1, <3>2, Parts, CacheShows
  <2>3. QED
    BY <2>1, <2>2
<1>3. Fits(session', page', guard', cache', ui', calls', driver, guest, rides)
  BY <1>1, <1>2, Parts DEF Fits
<1>4. QED
  BY <1>1, <1>3, TabStep

-----------------------------------------------------------------------------
(***************************************************************************)
(* Buttons                                                                 *)
(***************************************************************************)

LEMMA ToggleStep == ASSUME IInv, ToggleAvailability PROVE IInv'
<1>1. PICK a \in {"ONLINE", "OFFLINE"} : Send("availability", NoRide, a)
  BY DEF ToggleAvailability
<1>2. "availability" \in Kinds /\ NoRide \in Targets /\ a \in Args
  BY DEF Kinds, Targets, Args
<1>3. QED
  BY <1>1, <1>2, SendStep

\* Steps that change only the dialog or the countdown.
LEMMA UiStep ==
    ASSUME IInv, ui' \in UiState, UNCHANGED <<session, page, guard, cache, calls, driver, guest, rides, faults>>
    PROVE  IInv'
<1>1. Fits(session', page', guard', cache', ui', calls', driver, guest, rides)
  BY Parts DEF Fits
<1>2. QED
  BY <1>1, TabStep

LEMMA DialogStep == ASSUME IInv, Dialog PROVE IInv'
<1>1. PICK d \in IF ui.dialog = "none" THEN Offered(cache.stage) ELSE {"none"} : ui' = [ui EXCEPT !.dialog = d]
  BY DEF Dialog
<1>2. d \in {"none", "cancel"} \cup Status
  BY StatusFinite DEF Offered, DialogOf, Active
<1>3. ui' \in UiState
  BY <1>1, <1>2, Parts DEF UiState
<1>4. UNCHANGED <<session, page, guard, cache, calls, driver, guest, rides, faults>>
  BY DEF Dialog
<1>5. QED
  BY <1>3, <1>4, UiStep

LEMMA ConfirmStep == ASSUME IInv, Confirm PROVE IInv'
<1>1. cache.ride \in Ride
  BY Parts DEF Confirm, OnRide, CacheState
<1>2. ui.dialog \in {"none", "cancel"} \cup Status /\ ui.dialog # "none"
  BY Parts DEF Confirm, UiState
<1>3. "cancel" \in Kinds /\ "stage" \in Kinds /\ cache.ride \in Targets /\ "none" \in Args
  BY <1>1, StatusFinite DEF Kinds, Targets, Args
<1>4. CASE ui.dialog = "cancel"
  <2>1. Send("cancel", cache.ride, "none")
    BY <1>4 DEF Confirm
  <2>2. QED
    BY <1>1, <1>3, <2>1, SendStep
<1>5. CASE ui.dialog # "cancel"
  <2>1. Send("stage", cache.ride, ui.dialog) /\ ui.dialog \in Args
    BY <1>2, <1>5 DEF Confirm, Args
  <2>2. QED
    BY <1>1, <1>3, <2>1, SendStep
<1>6. QED
  BY <1>4, <1>5

LEMMA OfferPageStep ==
    ASSUME IInv, NEW r \in Ride, OpenOffer(r) \/ OfferGone(r) \/ CountDown(r) \/ Answer(r)
    PROVE  IInv'
<1>1. CASE OpenOffer(r)
  <2>1. Show(Offer(r), session, calls) /\ UNCHANGED <<driver, guest, rides, faults>>
    BY <1>1 DEF OpenOffer
  <2>2. QED
    BY <2>1, PageNames, Parts, ShowStep
<1>2. CASE OfferGone(r)
  <2>1. Show(At("offers"), session, calls) /\ UNCHANGED <<driver, guest, rides, faults>>
    BY <1>2 DEF OfferGone
  <2>2. QED
    BY <2>1, PageNames, Parts, ShowStep
<1>3. CASE CountDown(r)
  <2>1. ui' \in UiState /\ UNCHANGED <<session, page, guard, cache, calls, driver, guest, rides, faults>>
    BY <1>3, Parts DEF CountDown, UiState
  <2>2. QED
    BY <2>1, UiStep
<1>4. CASE Answer(r)
  <2>1. PICK k \in {"accept", "reject"} : Send(k, r, "none")
    BY <1>4 DEF Answer
  <2>2. k \in Kinds /\ r \in Targets /\ "none" \in Args /\ k # "availability"
    BY StatusFinite DEF Kinds, Targets, Args
  <2>3. QED
    BY <2>1, <2>2, SendStep
<1>5. QED
  BY <1>1, <1>2, <1>3, <1>4

-----------------------------------------------------------------------------
(***************************************************************************)
(* Calls                                                                   *)
(***************************************************************************)

\* The answer that a call is given.
LEMMA Recoded ==
    ASSUME NEW rs, NEW c, CallFine(c, rs), NEW n \in Codes,
           c.kind = "stage" /\ n = 200 => HasReached(rs, c.ride, c.arg)
    PROVE  CallFine([c EXCEPT !.code = n], rs)
<1> DEFINE x == [c EXCEPT !.code = n]
<1>1. x \in CallType /\ x.kind = c.kind /\ x.ride = c.ride /\ x.arg = c.arg /\ x.code = n
  BY DEF CallFine, CallType
<1> HIDE DEF x
<1>2. CallFine(x, rs)
  BY <1>1 DEF CallFine
<1>3. QED
  BY <1>2 DEF x

LEMMA CodeValue == ASSUME NEW c PROVE Code(c) \in {200, 401, 409}
BY DEF Code

\* A call that the service accepts, by its kind.
LEMMA ServedAvailability ==
    ASSUME World(driver, rides), NEW c, c.kind = "availability", Served(c)
    PROVE  World(driver', rides') /\ Kept(rides, rides') /\ driver'.approved = driver.approved
<1>1. /\ driver' = Toggled(driver, c.arg = "ONLINE")
      /\ rides' = IF c.arg = "ONLINE" THEN rides ELSE Abandoned(rides)
  BY DEF Served
<1>2. (c.arg = "ONLINE") \in BOOLEAN /\ driver \in DriverRow
  BY DEF World
<1>3. driver' \in DriverRow /\ driver'.approved = driver.approved
  BY <1>1, <1>2, ToggledFine
<1>4. World(driver, rides') /\ Kept(rides, rides')
  BY <1>1, AbandonedStep, KeptSame
<1>5. QED
  BY <1>3, <1>4, DriverStep

LEMMA ServedAccept ==
    ASSUME World(driver, rides), NEW c, c.kind = "accept", c.ride \in Ride, Served(c)
    PROVE  World(driver', rides') /\ Kept(rides, rides') /\ driver'.approved = driver.approved
<1>1. CASE Own(c.ride)
  <2>1. UNCHANGED <<driver, rides>>
    BY <1>1 DEF Served
  <2>2. QED
    BY <2>1, KeptSame
<1>2. CASE ~Own(c.ride)
  <2> DEFINE row == [rides[c.ride] EXCEPT !.offer = "ACCEPTED", !.status = "DRIVER_ASSIGNED"]
  <2>1. driver' = [driver EXCEPT !.available = FALSE] /\ rides' = [rides EXCEPT ![c.ride] = row]
    BY <1>2 DEF Served
  <2>2. driver \in DriverRow /\ rides[c.ride] \in RideRow
    BY DEF World
  <2>3. driver' \in DriverRow /\ driver'.approved = driver.approved
    BY <2>1, <2>2 DEF DriverRow
  <2>4. row \in RideRow /\ row.status = "DRIVER_ASSIGNED"
    BY <2>2, StatusFinite DEF RideRow
  <2>5. RowFine(row)
    BY <2>4 DEF RowFine, Active
  <2>6. RowKept(rides[c.ride], row)
    BY <1>2 DEF RowKept, Own
  <2> HIDE DEF row
  <2>7. World(driver, rides') /\ Kept(rides, rides')
    BY <2>1, <2>5, <2>6, RowStep
  <2>8. QED
    BY <2>3, <2>7, DriverStep
<1>3. QED
  BY <1>1, <1>2

LEMMA ServedReject ==
    ASSUME World(driver, rides), NEW c, c.kind = "reject", c.ride \in Pending, Served(c)
    PROVE  World(driver', rides') /\ Kept(rides, rides') /\ driver'.approved = driver.approved
<1>1. rides' = [rides EXCEPT ![c.ride].offer = "REJECTED"] /\ driver' = driver
  BY DEF Served
<1>2. c.ride \in Ride /\ rides[c.ride].offer # "ACCEPTED"
  BY DEF Pending
<1>3. QED
  BY <1>1, <1>2, OfferStep

LEMMA ServedStage ==
    ASSUME World(driver, rides), NEW c, c.kind = "stage", c.ride \in Ride, Own(c.ride),
           Follows(rides[c.ride].status, c.arg), Served(c)
    PROVE  /\ World(driver', rides') /\ Kept(rides, rides') /\ driver'.approved = driver.approved
           /\ HasReached(rides', c.ride, c.arg)
<1>1. /\ rides' = [rides EXCEPT ![c.ride].status = c.arg]
      /\ driver' = IF c.arg = "RIDE_COMPLETED" THEN Freed(driver) ELSE driver
  BY DEF Served
<1>2. c.arg \in Active \cup Closed
  BY FollowsStatus
<1>3. World(driver, rides') /\ Kept(rides, rides')
  BY <1>1, <1>2, StatusStep
<1>4. driver' \in DriverRow /\ driver'.approved = driver.approved
  BY <1>1, FreedFine DEF World
<1>5. HasReached(rides', c.ride, c.arg)
  <2>1. rides \in [Ride -> RideRow]
    BY DEF World
  <2>2. rides'[c.ride].status = c.arg /\ rides'[c.ride].offer = "ACCEPTED"
    BY <1>1, <2>1 DEF Own, RideRow
  <2>3. QED
    BY <2>2, ReachedItself DEF HasReached
<1>6. QED
  BY <1>3, <1>4, <1>5, DriverStep

LEMMA ServedCancel ==
    ASSUME World(driver, rides), NEW c, c.kind = "cancel", c.ride \in Ride, Own(c.ride),
           rides[c.ride].status \notin Closed, Served(c)
    PROVE  World(driver', rides') /\ Kept(rides, rides') /\ driver'.approved = driver.approved
<1>1. rides' = [rides EXCEPT ![c.ride].status = "CANCELLED"] /\ driver' = Freed(driver)
  BY DEF Served
<1>2. rides[c.ride].status \in Active
  BY DEF World, RowFine, Own
<1>3. "CANCELLED" \in Active \cup Closed
  BY DEF Closed
<1>4. World(driver, rides') /\ Kept(rides, rides')
  BY <1>1, <1>2, <1>3, StatusStep
<1>5. driver' \in DriverRow /\ driver'.approved = driver.approved
  BY <1>1, FreedFine DEF World
<1>6. QED
  BY <1>4, <1>5, DriverStep

\* The rows after a call, and what its answer says of them.
LEMMA ServeWorld ==
    ASSUME World(driver, rides), NEW c, CallFine(c, rides), Serve(c)
    PROVE  /\ World(driver', rides') /\ Kept(rides, rides') /\ driver'.approved = driver.approved
           /\ c.kind = "stage" /\ Code(c) = 200 => HasReached(rides', c.ride, c.arg)
<1>1. CASE Code(c) = 200
  <2>1. Served(c)
    BY <1>1 DEF Serve
  <2>2. c.kind \in Kinds /\ (c.kind # "availability" => c.ride \in Ride)
    BY DEF CallFine, CallType
  <2>3. CASE c.kind = "availability"
    BY <2>1, <2>3, ServedAvailability
  <2>4. CASE c.kind = "accept"
    BY <2>1, <2>2, <2>4, ServedAccept
  <2>5. CASE c.kind = "reject"
    <3>1. c.ride \in Pending
      BY <1>1, <2>5 DEF Code
    <3>2. QED
      BY <2>1, <2>5, <3>1, ServedReject
  <2>6. CASE c.kind = "stage"
    <3>1. Own(c.ride) /\ Follows(rides[c.ride].status, c.arg)
      BY <1>1, <2>6 DEF Code
    <3>2. QED
      BY <2>1, <2>2, <2>6, <3>1, ServedStage
  <2>7. CASE c.kind = "cancel"
    <3>1. Own(c.ride) /\ rides[c.ride].status \notin Closed
      BY <1>1, <2>7 DEF Code
    <3>2. QED
      BY <2>1, <2>2, <2>7, <3>1, ServedCancel
  <2>8. QED
    BY <2>2, <2>3, <2>4, <2>5, <2>6, <2>7 DEF Kinds
<1>2. CASE Code(c) # 200
  <2>1. driver' = driver
    BY <1>2 DEF Serve
  <2>2. CASE rides' = rides
    BY <1>2, <2>1, <2>2, KeptSame
  <2>3. CASE c.ride \in Pending /\ rides' = [rides EXCEPT ![c.ride].offer = "EXPIRED"]
    <3>1. c.ride \in Ride /\ rides[c.ride].offer # "ACCEPTED"
      BY <2>3 DEF Pending
    <3>2. World(driver, rides') /\ Kept(rides, rides')
      BY <2>3, <3>1, OfferStep
    <3>3. QED
      BY <1>2, <2>1, <3>2
  <2>4. QED
    BY <1>2, <2>2, <2>3 DEF Serve
<1>3. QED
  BY <1>1, <1>2

LEMMA ServeStep == ASSUME IInv, NEW c \in calls, Serve(c) PROVE IInv'
<1>1. CallFine(c, rides)
  BY Parts DEF CallsFine
<1>2. /\ World(driver', rides') /\ Kept(rides, rides') /\ driver'.approved = driver.approved
      /\ c.kind = "stage" /\ Code(c) = 200 => HasReached(rides', c.ride, c.arg)
  BY <1>1, Parts, ServeWorld
<1>3. CallsFine(calls, rides')
  BY <1>2, Parts, CallsKept
<1>4. CallFine([c EXCEPT !.code = Code(c)], rides')
  <2>1. Code(c) \in Codes
    BY CodeValue DEF Codes
  <2>2. CallFine(c, rides')
    BY <1>3 DEF CallsFine
  <2>3. QED
    BY <1>2, <2>1, <2>2, Recoded
<1>5. CallsFine(calls', rides')
  <2>1. calls' = (calls \ {c}) \cup (IF c.mine THEN {[c EXCEPT !.code = Code(c)]} ELSE {})
    BY DEF Serve
  <2>2. QED
    BY <1>3, <1>4, <2>1 DEF CallsFine
<1>6. UNCHANGED <<session, page, guard, cache, ui, guest, faults>>
  BY DEF Serve, tab
<1>7. CacheFine(cache', rides')
  BY <1>2, <1>6, Parts, CacheKept
<1>8. GuardFine(guard', driver', guest')
  BY <1>2, <1>6, Parts DEF GuardFine, Cleared
<1>9. Fits(session', page', guard', cache', ui', calls', driver', guest', rides')
  BY <1>5, <1>6, <1>7, <1>8, Parts DEF Fits
<1>10. QED
  BY <1>2, <1>6, <1>9, Parts, Assembled

LEMMA LoseStep == ASSUME IInv, NEW c \in calls, Lose(c) PROVE IInv'
<1>1. CallFine([c EXCEPT !.code = 500], rides)
  <2>1. CallFine(c, rides) /\ 500 \in Codes
    BY Parts DEF CallsFine, Codes
  <2>2. QED
    BY <2>1, Recoded
<1>2. calls' = (calls \ {c}) \cup {[c EXCEPT !.code = 500]}
  BY DEF Lose
<1>3. CallsFine(calls', rides)
  BY <1>1, <1>2, Parts DEF CallsFine
<1>4. UNCHANGED <<session, page, guard, cache, ui, driver, guest, rides>> /\ faults > 0 /\ faults' = faults - 1
  BY DEF Lose, tab
<1>5. Fits(session', page', guard', cache', ui', calls', driver, guest, rides)
  BY <1>3, <1>4, Parts DEF Fits
<1>6. QED
  BY <1>4, <1>5, TabStep

LEMMA AnsweredStep == ASSUME IInv, NEW c \in calls, Answered(c) PROVE IInv'
<1>1. UNCHANGED <<driver, guest, rides, faults>>
  BY DEF Answered
<1>2. CallFine(c, rides) /\ c \in CallType
  BY Parts DEF CallsFine, CallFine
<1>3. CallsFine(calls \ {c}, rides)
  BY Parts, LessCalls
<1>4. [ui EXCEPT !.dialog = "none"] \in UiState /\ [ui EXCEPT !.expired = TRUE] \in UiState
  BY Parts DEF UiState
<1>5. ASSUME NEW p \in Page, Show(p, session, calls \ {c})
      PROVE  IInv'
  BY <1>1, <1>3, <1>5, Parts, ShowStep
\* An answer that shows no other page.
<1>6. ASSUME UNCHANGED <<session, page, guard>>, calls' = calls \ {c}, ui' \in UiState, CacheFine(cache', rides)
      PROVE  IInv'
  <2>1. Fits(session', page', guard', cache', ui', calls', driver, guest, rides)
    BY <1>3, <1>6, Parts DEF Fits
  <2>2. QED
    BY <1>1, <2>1, TabStep
<1>7. CASE AvailabilityAnswer(c)
  <2>1. c.arg \in {"ONLINE", "OFFLINE"}
    BY <1>2, <1>7 DEF AvailabilityAnswer, CallFine
  <2>2. cache' \in CacheState /\ cache'.ride = cache.ride /\ cache'.stage = cache.stage
    BY <1>7, <2>1, Parts DEF AvailabilityAnswer, CacheState
  <2>3. CacheFine(cache', rides)
    BY <2>2, Parts, CacheStep
  <2>4. QED
    BY <1>6, <1>7, <2>3, Parts DEF AvailabilityAnswer
<1>8. CASE AcceptAnswer(c)
  <2>1. CASE c.code = 200
    BY <1>5, <1>8, <2>1, PageNames DEF AcceptAnswer
  <2>2. CASE c.code # 200
    <3>1. ui' \in UiState
      <4>1. ui' = [ui EXCEPT !.expired = TRUE] \/ ui' = ui
        BY <1>8, <2>2 DEF AcceptAnswer
      <4>2. QED
        BY <1>4, <4>1, Parts
    <3>2. calls' = calls \ {c} /\ UNCHANGED <<session, page, guard, cache>>
      BY <1>8, <2>2 DEF AcceptAnswer
    <3>3. QED
      BY <1>6, <3>1, <3>2, Parts
  <2>3. QED
    BY <2>1, <2>2
<1>9. CASE RejectAnswer(c)
  BY <1>5, <1>9, PageNames DEF RejectAnswer
<1>10. CASE CancelAnswer(c)
  <2>1. CASE c.code = 200
    BY <1>5, <1>10, <2>1, PageNames DEF CancelAnswer
  <2>2. CASE c.code # 200
    BY <1>4, <1>6, <1>10, <2>2, Parts DEF CancelAnswer, Undialog
  <2>3. QED
    BY <2>1, <2>2
<1>11. CASE StageAnswer(c)
  <2>1. ui' \in UiState /\ calls' = calls \ {c} /\ UNCHANGED <<session, page, guard>>
    BY <1>4, <1>11, Parts DEF StageAnswer, Undialog
  <2>2. CacheFine(cache', rides)
    <3>1. CASE cache' = cache
      BY <3>1, Parts
    <3>2. CASE c.code = 200 /\ cache' = [cache EXCEPT !.ride = c.ride, !.stage = c.arg]
      <4>1. c.ride \in Ride /\ HasReached(rides, c.ride, c.arg)
        BY <1>2, <1>11, <3>2 DEF StageAnswer, CallFine
      <4>2. c.arg \in Status
        BY <4>1, Parts, HasReachedStatus
      <4>3. cache \in CacheState
        BY Parts
      <4>4. CacheFine([cache EXCEPT !.ride = c.ride, !.stage = c.arg], rides)
        BY <4>1, <4>2, <4>3, CacheShows
      <4>5. QED
        BY <3>2, <4>4
    <3>3. CASE Mine # NoRide /\ cache' = [cache EXCEPT !.ride = Mine, !.stage = rides[Mine].status]
      BY <3>3, Parts, MineReached, CacheShows
    <3>4. QED
      BY <1>11, <3>1, <3>2, <3>3 DEF StageAnswer
  <2>3. QED
    BY <1>6, <2>1, <2>2
<1>12. QED
  BY <1>7, <1>8, <1>9, <1>10, <1>11 DEF Answered

-----------------------------------------------------------------------------
(***************************************************************************)
(* The rest of the world                                                   *)
(***************************************************************************)

LEMMA ApproveStep == ASSUME IInv, Approve PROVE IInv'
<1>1. driver' = [driver EXCEPT !.approved = TRUE] /\ rides' = rides /\ UNCHANGED <<tab, calls, guest, faults>>
  BY DEF Approve, Only
<1>2. driver' \in DriverRow /\ driver'.approved
  BY <1>1, Parts DEF DriverRow
<1>3. World(driver', rides') /\ Kept(rides, rides')
  BY <1>1, <1>2, Parts, DriverStep, KeptSame
<1>4. QED
  BY <1>1, <1>2, <1>3, WorldStep

LEMMA ApproveGuestStep == ASSUME IInv, ApproveGuest PROVE IInv'
<1>1. guest' = "yes" /\ UNCHANGED <<tab, calls, driver, rides, faults>>
  BY DEF ApproveGuest
<1>2. UNCHANGED <<session, page, guard, cache, ui>>
  BY <1>1 DEF tab
<1>3. GuardFine(guard', driver', guest')
  BY <1>1, <1>2, Parts DEF GuardFine, Cleared
<1>4. Fits(session', page', guard', cache', ui', calls', driver', guest', rides')
  BY <1>1, <1>2, <1>3, Parts DEF Fits
<1>5. World(driver', rides') /\ guest' \in Others
  BY <1>1, Parts DEF Others
<1>6. QED
  BY <1>1, <1>4, <1>5, Parts, Assembled

LEMMA PresenceLapsesStep == ASSUME IInv, PresenceLapses PROVE IInv'
<1>1. driver' = [driver EXCEPT !.key = "expired"] /\ rides' = rides /\ UNCHANGED <<tab, calls, guest, faults>>
  BY DEF PresenceLapses, Only
<1>2. driver' \in DriverRow /\ driver'.approved = driver.approved
  BY <1>1, Parts DEF DriverRow
<1>3. World(driver', rides') /\ Kept(rides, rides')
  BY <1>1, <1>2, Parts, DriverStep, KeptSame
<1>4. QED
  BY <1>1, <1>2, <1>3, WorldStep

LEMMA ReconcileStep == ASSUME IInv, Reconcile PROVE IInv'
<1>1. driver' = ReconciledDriver /\ rides' = ReconciledRides /\ UNCHANGED <<tab, calls, guest, faults>>
  BY DEF Reconcile, Only
<1>2. World(driver', rides') /\ Kept(rides, rides') /\ driver'.approved = driver.approved
  BY <1>1, Parts, ReconciledWorld
<1>3. QED
  BY <1>1, <1>2, WorldStep

LEMMA MakeOfferStep == ASSUME IInv, NEW r \in Ride, MakeOffer(r) PROVE IInv'
<1> DEFINE row == [status |-> "MATCHING", offer |-> "PENDING"]
<1>1. driver' = driver /\ rides' = [rides EXCEPT ![r] = row] /\ UNCHANGED <<tab, calls, guest, faults>>
  BY DEF MakeOffer, Only
<1>2. RowFine(row)
  BY StatusFinite DEF RowFine, RideRow
\* A ride that is not made yet is nobody's.
<1>3. RowKept(rides[r], row)
  <2>1. rides[r].status = "none" /\ RowFine(rides[r])
    BY Parts DEF MakeOffer, World
  <2>2. rides[r].offer # "ACCEPTED"
    BY <2>1 DEF RowFine, Active, Closed
  <2>3. QED
    BY <2>2 DEF RowKept
<1> HIDE DEF row
<1>4. World(driver', rides') /\ Kept(rides, rides')
  BY <1>1, <1>2, <1>3, Parts, RowStep
<1>5. QED
  BY <1>1, <1>4, WorldStep

LEMMA OfferTimeStep == ASSUME IInv, NEW r \in Ride, OfferTime(r) PROVE IInv'
<1>1. PICK o \in {"DUE", "EXPIRED"} : rides' = [rides EXCEPT ![r].offer = o]
  BY DEF OfferTime, Only
<1>2. driver' = driver /\ UNCHANGED <<tab, calls, guest, faults>> /\ rides[r].offer # "ACCEPTED"
  BY DEF OfferTime, Only, Pending
<1>3. World(driver', rides') /\ Kept(rides, rides')
  BY <1>1, <1>2, Parts, OfferStep
<1>4. QED
  BY <1>2, <1>3, WorldStep

LEMMA RiderCancelsStep == ASSUME IInv, NEW r \in Ride, RiderCancels(r) PROVE IInv'
<1>1. /\ rides' = [rides EXCEPT ![r].status = "CANCELLED"]
      /\ driver' = IF Own(r) THEN Freed(driver) ELSE driver
      /\ UNCHANGED <<tab, calls, guest, faults>>
  BY DEF RiderCancels, Only
<1>2. "CANCELLED" \in Active \cup Closed
  BY DEF Closed
<1>3. rides[r].offer = "ACCEPTED" => rides[r].status \in Active
  <2>1. RowFine(rides[r]) /\ rides[r].status \in {"MATCHING"} \cup Active
    BY Parts DEF World, RiderCancels
  <2>2. QED
    BY <2>1 DEF RowFine, Active, Closed
<1>4. World(driver, rides') /\ Kept(rides, rides')
  BY <1>1, <1>2, <1>3, Parts, StatusStep
<1>5. driver' \in DriverRow /\ driver'.approved = driver.approved
  BY <1>1, Parts, FreedFine
<1>6. World(driver', rides')
  BY <1>4, <1>5, DriverStep
<1>7. QED
  BY <1>1, <1>4, <1>5, <1>6, WorldStep

-----------------------------------------------------------------------------
(***************************************************************************)
(* The theorems                                                            *)
(***************************************************************************)

LEMMA InitGood == ASSUME Init PROVE IInv
<1>1. PICK known \in BOOLEAN, approved \in BOOLEAN, stored \in BOOLEAN :
         /\ driver = [known |-> known, approved |-> approved, online |-> FALSE, available |-> FALSE, key |-> "none"]
         /\ session = [who |-> "driver", stored |-> stored, live |-> FALSE, expired |-> FALSE, call |-> "none"]
  BY DEF Init
<1>2. driver \in DriverRow /\ session \in SessionState
  BY <1>1 DEF DriverRow, SessionState
<1>3. page \in Page /\ ui \in UiState
  BY PageNames, FreshTab DEF Init
<1>4. GuardFine(guard, driver, guest) /\ CacheFine(cache, rides)
  <2>1. guard = NoGuard /\ NoGuard.value = "none" /\ cache = NoCache /\ NoCache.ride = NoRide
    BY DEF Init, NoGuard, NoCache
  <2>2. QED
    BY <2>1, FreshTab DEF GuardFine, CacheFine
<1>5. CallsFine(calls, rides)
  BY DEF Init, CallsFine
<1>6. World(driver, rides)
  <2> DEFINE row == [status |-> "none", offer |-> "none"]
  <2>1. rides = [r \in Ride |-> row]
    BY DEF Init
  <2>2. RowFine(row) /\ row \in RideRow
    BY StatusFinite DEF RowFine, RideRow
  <2> HIDE DEF row
  <2>3. QED
    BY <1>2, <2>1, <2>2 DEF World
<1>7. faults \in 0 .. MaxFaults /\ guest \in Others
  BY DriverAppAssumption DEF Init, Others
<1>8. QED
  BY <1>2, <1>3, <1>4, <1>5, <1>6, <1>7 DEF IInv, Good, Fits

LEMMA StutterStep == ASSUME IInv, UNCHANGED vars PROVE IInv'
<1>1. UNCHANGED <<session, page, guard, cache, ui, calls, driver, guest, rides, faults>>
  BY DEF vars
<1>2. Fits(session', page', guard', cache', ui', calls', driver, guest, rides)
  BY <1>1, Parts DEF Fits
<1>3. QED
  BY <1>1, <1>2, TabStep

LEMMA NextStep == ASSUME IInv, Next PROVE IInv'
<1>1. CASE \/ Open \/ BootFails \/ (\E w \in Users : LogIn(w)) \/ LoggedIn \/ Register \/ FlipCard \/ SignOut \/ TokenExpires \/ CloseTab
  BY <1>1, OpenStep, SessionStep, LoggedInStep, RegisterStep, FlipCardStep, SignOutStep, CloseTabStep
<1>2. CASE Navigate \/ GuardAnswer \/ GuardFails \/ GuardFocus \/ GuardRetry \/ PublicRedirect
  BY <1>2, NavigateStep, GuardAnswerStep, GuardFailsStep, GuardAskStep, PublicRedirectStep
<1>3. CASE Heartbeat \/ ReadProfile \/ ReadOffers \/ ReadActive
  BY <1>3, HeartbeatStep, ReadProfileStep, ReadOffersStep, ReadActiveStep
<1>4. CASE ToggleAvailability \/ Dialog \/ Confirm
  BY <1>4, ToggleStep, DialogStep, ConfirmStep
<1>5. CASE \E r \in Ride : OpenOffer(r) \/ OfferGone(r) \/ CountDown(r) \/ Answer(r)
  BY <1>5, OfferPageStep
<1>6. CASE \E c \in calls : Serve(c) \/ Lose(c) \/ Answered(c)
  BY <1>6, ServeStep, LoseStep, AnsweredStep
<1>7. CASE Approve \/ ApproveGuest \/ PresenceLapses \/ Reconcile
  BY <1>7, ApproveStep, ApproveGuestStep, PresenceLapsesStep, ReconcileStep
<1>8. CASE \E r \in Ride : MakeOffer(r) \/ OfferTime(r) \/ RiderCancels(r)
  BY <1>8, MakeOfferStep, OfferTimeStep, RiderCancelsStep
<1>9. QED
  BY <1>1, <1>2, <1>3, <1>4, <1>5, <1>6, <1>7, <1>8 DEF Next

\* The tab fits the rows of the driver and of the rides in every state that is
\* reached: what it knows of the approval and of the stages stays true, since
\* the service takes neither back.
THEOREM DriverInductive == Spec => []IInv
<1>1. Init => IInv
  BY InitGood
<1>2. IInv /\ [Next]_vars => IInv'
  BY NextStep, StutterStep
<1>3. QED
  BY <1>1, <1>2, PTL DEF Spec

\* The types of the tab, of the calls in flight and of the service's rows.
THEOREM DriverTypesHold == Spec => []TypeOK
<1>1. IInv => TypeOK
  <2>1. ASSUME CallsFine(calls, rides) PROVE calls \subseteq CallType
    BY <2>1 DEF CallsFine, CallFine
  <2>2. QED
    BY <2>1, Parts DEF TypeOK, World, RideRow, GuardState, Others, CallType, Kinds, Targets, Args, Codes
<1>2. QED
  BY <1>1, DriverInductive, PTL

\* The operations, with their polls and buttons, are shown only on an approval
\* that the service has given to one of those who use the tab (DriverKycGuard).
THEOREM OperationsNeedApprovalHolds == Spec => []OperationsNeedApproval
<1>1. IInv => OperationsNeedApproval
  <2>1. ASSUME IInv, Layout, Guarded(page)
        PROVE  guard.whose \in Users /\ Approval(guard.whose)
    <3>1. guard.value = "yes"
      BY <2>1 DEF Layout, Approved, Guarded, Operations
    <3>2. Cleared(guard.whose, driver, guest)
      BY <2>1, <3>1, Parts DEF GuardFine
    <3>3. QED
      BY <3>2 DEF Cleared, Users, Approval
  <2>2. QED
    BY <2>1 DEF OperationsNeedApproval
<1>2. QED
  BY <1>1, DriverInductive, PTL

\* The stage that the tab shows is one that the ride has reached, whatever polls
\* and answers come late.
THEOREM NeverAheadHolds == Spec => []NeverAhead
<1>1. IInv => NeverAhead
  BY Parts DEF NeverAhead, CacheFine, HasReached, Own
<1>2. QED
  BY <1>1, DriverInductive, PTL
=============================================================================
