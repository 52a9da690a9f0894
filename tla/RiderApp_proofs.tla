--------------------------- MODULE RiderApp_proofs ---------------------------
(***************************************************************************)
(* Proofs about RiderApp, for any routes, rides, faults and calls: the     *)
(* types, that the three copies of the sign-in agree, and that what the    *)
(* service says of a rider's feedback is what the rider did.               *)
(*                                                                         *)
(* The inductive invariant has a part for every group of variables, each   *)
(* stated of values. Beyond the properties it needs to know that a sign-in *)
(* under way and a session that is still being read are signed in nowhere, *)
(* which rides recoveries, details and feedback calls are about, and that  *)
(* the service numbers its rides from 1 without a gap: only so is the ride *)
(* that a booking makes a new one. A feedback call that has read its ride  *)
(* and is still to be committed writes what was right when it read; what   *)
(* can be relied upon until then is `Promised`.                            *)
(***************************************************************************)
EXTENDS RiderApp, TLAPS, FiniteSetTheorems, WellFoundedInduction

MaybeStatus == Status \cup {"none"}
MaybeRide == RideId \cup {NoRide}
BookingType == [route : Routes, priced : Routes, mine : BOOLEAN, authorized : BOOLEAN, ride : MaybeRide]
SeenState == [RideId -> [status : MaybeStatus, poll : BOOLEAN]]
Detail == [status : MaybeStatus, acked : BOOLEAN, feedback : FeedbackStatus, sending : BOOLEAN]
FeedbackCall == [ride : RideId, kind : FeedbackKind, mine : BOOLEAN, writes : Writes]
BudgetOf(t) == [faults : 0 .. t.faults, calls : {t.calls}, devices : {t.devices}, redispatch : 0 .. MaxRedispatch]
Budget == UNION {BudgetOf(t) : t \in Tours}

\* The session by itself, and with the page that is shown.
SessionFine(s) ==
    /\ s \in SessionState
    /\ s.booting => ~s.signedIn /\ ~s.client /\ s.call = "none"
    /\ s.call \in {"login", "signup", "hydrate", "hydrateNew"} => ~s.signedIn
    /\ ~s.booting =>
          /\ s.signedIn => s.client
          /\ s.stored => s.signedIn
          /\ s.client => s.signedIn \/ s.call \in {"hydrate", "hydrateNew"}
PageFine(p, s) == p \in Page /\ (~s.booting /\ p.name \notin PublicPages => s.signedIn)

\* A ride that the service has made.
Made(rs, r) == r \in RideId /\ rs[r].status # "none"
PageMade(p, rs) == p.name \in {"tracking", "complete"} => Made(rs, p.ride)
RideMade(r, rs) == r \in MaybeRide /\ (r # NoRide => Made(rs, r))

\* A recovery past the history asks about a ride.
RecFine(q, rs) == q \in Recovery /\ (q.stage # "history" => Made(rs, q.ride))
RecsFine(qs, rs) == \A q \in qs : RecFine(q, rs)

BookingFine(b, rs) == b \in BookingType /\ RideMade(b.ride, rs)
BookingsFine(bs, rs) == \A b \in bs : BookingFine(b, rs)

\* The rides are numbered in the order in which they are made.
Numbered(rs, n) == \A r \in RideId : rs[r].status # "none" <=> r <= n

RowFine(row) ==
    /\ row \in RideRow
    /\ row.rated => row.acked /\ row.feedback # "PENDING"
    /\ row.rated /\ row.feedback = "SKIPPED" => row.crossed
    /\ row.feedback = "SUBMITTED" => row.rated
    /\ row.feedback # "PENDING" => row.status = "RIDE_COMPLETED" /\ row.acked
RidesFine(rs) ==
    /\ rs \in [RideId -> RideRow] /\ \A r \in RideId : RowFine(rs[r])
    /\ \E n \in 0 .. MaxRides : Numbered(rs, n)

Over(rs, r) == r \in RideId /\ rs[r].status = "RIDE_COMPLETED"

\* A completed ride that the completion page has read is the one of its route,
\* and feedback is given to completed rides only.
DoneFine(d, p, rs) == d \in Detail /\ (d.status = "RIDE_COMPLETED" => p.name = "complete" /\ Over(rs, p.ride))

\* What a call that has read its ride may rely on until it is committed.
Promised(f, row) ==
    /\ f.writes = "SUBMITTED" => f.kind = "rate" \/ row.rated
    /\ f.writes = "SKIPPED" => f.kind # "rate" /\ (row.rated => row.crossed)
    /\ f.writes = "same" /\ f.kind = "rate" => row.rated
FeedbackFine(fs, rs) == \A f \in fs : f \in FeedbackCall /\ Over(rs, f.ride) /\ Promised(f, rs[f.ride])

\* What is on the screen, and the rest.
Screen(s, p, c, h, qs, sn, d, rs) ==
    /\ SessionFine(s) /\ PageFine(p, s) /\ PageMade(p, rs) /\ c \in Context /\ h \in HomeState
    /\ RecsFine(qs, rs) /\ sn \in SeenState /\ DoneFine(d, p, rs)
Rest(a, bs, fs, rs, b) ==
    /\ RideMade(a, rs) /\ BookingsFine(bs, rs) /\ FeedbackFine(fs, rs) /\ RidesFine(rs) /\ b \in Budget

IInv == Screen(session, page, ctx, home, recs, seen, done, rides) /\ Rest(active, booking, feedback, rides, budget)

\* What the service does not take back.
Kept(rs, ns) ==
    \A r \in RideId :
        /\ rs[r].status = "RIDE_COMPLETED" => ns[r].status = "RIDE_COMPLETED"
        /\ rs[r].status # "none" => ns[r].status # "none"

\* Nobody rates.
Steady(rs, ns) ==
    \A r \in RideId :
        rs[r].status = "RIDE_COMPLETED" => ns[r].rated = rs[r].rated /\ ns[r].crossed = rs[r].crossed

-----------------------------------------------------------------------------
(***************************************************************************)
(* The rides                                                               *)
(***************************************************************************)

LEMMA OverKept ==
    ASSUME NEW rs, NEW ns, Kept(rs, ns), NEW r, Over(rs, r)
    PROVE  Over(ns, r)
BY DEF Kept, Over

LEMMA MadeKept ==
    ASSUME NEW rs, NEW ns, Kept(rs, ns), NEW r, Made(rs, r)
    PROVE  Made(ns, r)
BY DEF Kept, Made

LEMMA RideMadeKept ==
    ASSUME NEW rs, NEW ns, Kept(rs, ns), NEW r, RideMade(r, rs)
    PROVE  RideMade(r, ns)
BY MadeKept DEF RideMade

LEMMA BookingsKept ==
    ASSUME NEW rs, NEW ns, Kept(rs, ns), NEW bs, BookingsFine(bs, rs)
    PROVE  BookingsFine(bs, ns)
BY RideMadeKept DEF BookingsFine, BookingFine

LEMMA DoneKept ==
    ASSUME NEW rs, NEW ns, Kept(rs, ns), NEW d, NEW p, DoneFine(d, p, rs)
    PROVE  DoneFine(d, p, ns)
BY OverKept DEF DoneFine

LEMMA FeedbackKept ==
    ASSUME NEW rs, NEW ns, Kept(rs, ns), Steady(rs, ns), NEW fs, FeedbackFine(fs, rs)
    PROVE  FeedbackFine(fs, ns)
BY OverKept DEF FeedbackFine, Steady, Over, Promised

\* The screen and the rest, beside rows that have kept what they know.
LEMMA ScreenKept ==
    ASSUME NEW s, NEW p, NEW c, NEW h, NEW qs, NEW sn, NEW d, NEW rs, NEW ns,
           Screen(s, p, c, h, qs, sn, d, rs), Kept(rs, ns)
    PROVE  Screen(s, p, c, h, qs, sn, d, ns)
<1>1. RecsFine(qs, ns)
  BY MadeKept DEF Screen, RecsFine, RecFine
<1>2. PageMade(p, ns)
  BY MadeKept DEF Screen, PageMade
<1>3. DoneFine(d, p, ns)
  BY DoneKept DEF Screen
<1>4. QED
  BY <1>1, <1>2, <1>3 DEF Screen

LEMMA KeptSame == ASSUME NEW rs PROVE Kept(rs, rs) /\ Steady(rs, rs)
BY DEF Kept, Steady

\* A step of one ride, which stays made or unmade.
LEMMA RowStep ==
    ASSUME NEW rs, RidesFine(rs), NEW r \in RideId, NEW row, RowFine(row),
           row.status = "none" <=> rs[r].status = "none",
           rs[r].status = "RIDE_COMPLETED" => row.status = "RIDE_COMPLETED"
    PROVE  RidesFine([rs EXCEPT ![r] = row]) /\ Kept(rs, [rs EXCEPT ![r] = row])
<1> DEFINE ns == [rs EXCEPT ![r] = row]
<1>1. rs \in [RideId -> RideRow] /\ row \in RideRow /\ \A x \in RideId : RowFine(rs[x])
  BY DEF RidesFine, RowFine
<1>2. ns \in [RideId -> RideRow] /\ \A x \in RideId : ns[x] = IF x = r THEN row ELSE rs[x]
  BY <1>1
<1> HIDE DEF ns
<1>3. \A x \in RideId : RowFine(ns[x])
  BY <1>1, <1>2
<1>4. PICK n \in 0 .. MaxRides : Numbered(rs, n)
  BY DEF RidesFine
<1>5. Numbered(ns, n)
  BY <1>2, <1>4 DEF Numbered
<1>6. Kept(rs, ns)
  BY <1>2 DEF Kept
<1>7. RidesFine(ns)
  BY <1>2, <1>3, <1>4, <1>5 DEF RidesFine
<1>8. QED
  BY <1>6, <1>7 DEF ns

\* The ride that a booking makes is the next of the numbering.
LEMMA NextRide ==
    ASSUME RidesFine(rides), Cardinality(Created) + 1 \in RideId
    PROVE  /\ rides[Cardinality(Created) + 1].status = "none"
           /\ Cardinality(Created) \in Nat /\ Numbered(rides, Cardinality(Created))
<1>1. PICK n \in 0 .. MaxRides : Numbered(rides, n)
  BY DEF RidesFine
<1>2. MaxRides \in Nat
  BY RiderAppAssumption
<1>3. Created = 1 .. n
  BY <1>1, <1>2 DEF Created, Exists, Numbered, RideId
<1>4. Cardinality(1 .. n) = n
  <2>1. 1 \in Int /\ n \in Int
    BY <1>2
  <2>2. Cardinality(1 .. n) = IF 1 > n THEN 0 ELSE n - 1 + 1
    BY <2>1, FS_Interval
  <2>3. QED
    BY <1>2, <2>2
<1>5. QED
  BY <1>1, <1>2, <1>3, <1>4 DEF Numbered

LEMMA NewRowStep ==
    ASSUME NEW rs, RidesFine(rs), NEW n \in Nat, n + 1 \in RideId, Numbered(rs, n),
           NEW row, RowFine(row), row.status # "none", rs[n + 1].status = "none"
    PROVE  /\ RidesFine([rs EXCEPT ![n + 1] = row]) /\ Kept(rs, [rs EXCEPT ![n + 1] = row])
           /\ Steady(rs, [rs EXCEPT ![n + 1] = row])
<1> DEFINE r == n + 1
           ns == [rs EXCEPT ![r] = row]
<1>1. rs \in [RideId -> RideRow] /\ row \in RideRow /\ \A x \in RideId : RowFine(rs[x])
  BY DEF RidesFine, RowFine
<1>2. ns \in [RideId -> RideRow] /\ \A x \in RideId : ns[x] = IF x = r THEN row ELSE rs[x]
  BY <1>1
<1> HIDE DEF ns
<1>3. \A x \in RideId : RowFine(ns[x])
  BY <1>1, <1>2
<1>4. Numbered(ns, r) /\ r \in 0 .. MaxRides
  BY <1>2, RiderAppAssumption DEF Numbered, RideId
<1>5. Kept(rs, ns) /\ Steady(rs, ns)
  BY <1>2 DEF Kept, Steady
<1>6. RidesFine(ns)
  BY <1>2, <1>3, <1>4 DEF RidesFine
<1>7. QED
  BY <1>5, <1>6 DEF ns

\* The newest ride of a set: the rides are numbered from 1 to MaxRides.
LEMMA NewestRide ==
    ASSUME NEW S, S \subseteq RideId, S # {}
    PROVE  \E r \in S : \A s \in S : s <= r
<1> DEFINE T == {MaxRides - r : r \in S}
<1> DEFINE Below == OpToRel(<, Nat)
<1>1. MaxRides \in Nat
  BY RiderAppAssumption
<1>2. T \subseteq Nat /\ T # {}
  <2>1. ASSUME NEW r \in S PROVE MaxRides - r \in Nat
    <3>1. r \in 1 .. MaxRides
      BY DEF RideId
    <3>2. QED
      BY <1>1, <3>1
  <2>2. QED
    BY <2>1
<1>3. IsWellFoundedOn(Below, Nat)
  BY NatLessThanWellFounded
<1>4. PICK x \in T : \A y \in T : ~(<<y, x>> \in Below)
  <2> HIDE DEF T, Below
  <2>1. QED
    BY <1>2, <1>3, WFMin
<1>5. \A y \in T : ~(y < x)
  <2>1. \A y, z \in Nat : y < z => <<y, z>> \in Below
    BY DEF OpToRel
  <2>2. QED
    BY <1>2, <1>4, <2>1
<1>6. PICK r \in S : x = MaxRides - r
  OBVIOUS
<1>7. ASSUME NEW s \in S PROVE s <= r
  <2>1. MaxRides - s \in T
    OBVIOUS
  <2>2. r \in Int /\ s \in Int
    BY DEF RideId
  <2>3. ~(MaxRides - s < MaxRides - r)
    BY <1>5, <1>6, <2>1
  <2>4. QED
    BY <1>1, <2>2, <2>3
<1>8. QED
  BY <1>7

\* The latest ride, if there is one.
LEMMA LatestRide ==
    ASSUME RidesFine(rides), Latest # NoRide
    PROVE  Latest \in RideId /\ Made(rides, Latest)
<1>1. PICK n \in 0 .. MaxRides : Numbered(rides, n)
  BY DEF RidesFine
<1>2. MaxRides \in Nat
  BY RiderAppAssumption
<1>3. Created = 1 .. n
  BY <1>1, <1>2 DEF Created, Exists, Numbered, RideId
<1>4. Created # {}
  BY DEF Latest
<1>5. n \in Created /\ \A s \in Created : s <= n
  BY <1>2, <1>3, <1>4
<1>6. Latest \in Created
  BY <1>4, <1>5 DEF Latest
<1>7. QED
  BY <1>6 DEF Created, Exists, Made

\* A new status of a ride that is made and not completed.
LEMMA StatusStep ==
    ASSUME NEW rs, RidesFine(rs), NEW r \in RideId, rs[r].status # "none", rs[r].status # "RIDE_COMPLETED",
           NEW t \in Status
    PROVE  /\ RidesFine([rs EXCEPT ![r].status = t]) /\ Kept(rs, [rs EXCEPT ![r].status = t])
           /\ Steady(rs, [rs EXCEPT ![r].status = t])
<1> DEFINE row == [rs[r] EXCEPT !.status = t]
<1>1. RowFine(rs[r]) /\ rs[r] \in RideRow
  BY DEF RidesFine
<1>2. row \in RideRow /\ row.status = t /\ row.rated = rs[r].rated /\ row.feedback = rs[r].feedback
  BY <1>1 DEF RideRow
<1>3. rs[r].feedback = "PENDING" /\ ~rs[r].rated
  BY <1>1 DEF RowFine
<1>4. RowFine(row)
  BY <1>2, <1>3 DEF RowFine
<1>5. t # "none"
  BY DEF Status
<1>6. [rs EXCEPT ![r].status = t] = [rs EXCEPT ![r] = row]
  OBVIOUS
<1> HIDE DEF row
<1>7. Steady(rs, [rs EXCEPT ![r] = row])
  BY DEF Steady, RidesFine
<1>8. QED
  BY <1>2, <1>4, <1>5, <1>6, <1>7, RowStep

\* A row a feedback call has read: what the call decides can be relied upon.
LEMMA ReadPromises ==
    ASSUME NEW row, RowFine(row), NEW f \in FeedbackCall, NEW w,
           w = (IF StatusFor(row, f.kind) = row.feedback THEN "same" ELSE StatusFor(row, f.kind)), NEW g \in FeedbackCall,
           g.kind = f.kind, g.writes = w
    PROVE  Promised(g, row)
BY DEF RowFine, Promised, StatusFor, FeedbackCall, FeedbackKind, RideRow, FeedbackStatus

\* What the commit of a feedback call makes of its row.
NewRow(row, kind, writes, over) ==
    [row EXCEPT !.rated = row.rated \/ kind = "rate", !.acked = TRUE,
                !.feedback = IF writes = "same" THEN row.feedback ELSE writes,
                !.crossed = row.crossed \/ (kind = "rate" /\ over)]

LEMMA NewRowIs ==
    ASSUME NEW row \in RideRow, NEW f \in FeedbackCall, f.writes \in {"same", "SKIPPED", "SUBMITTED"}, NEW over \in BOOLEAN,
           NEW new, new = NewRow(row, f.kind, f.writes, over)
    PROVE  /\ new \in RideRow /\ new.status = row.status /\ new.acked
           /\ new.rated = (row.rated \/ f.kind = "rate")
           /\ new.feedback = IF f.writes = "same" THEN row.feedback ELSE f.writes
           /\ new.crossed = (row.crossed \/ (f.kind = "rate" /\ over))
BY DEF NewRow, RideRow, FeedbackStatus

LEMMA NewRowFine ==
    ASSUME NEW row, RowFine(row), row.status = "RIDE_COMPLETED", NEW f \in FeedbackCall, Promised(f, row),
           f.writes \in {"same", "SKIPPED", "SUBMITTED"}, NEW over \in BOOLEAN,
           NEW new, new = NewRow(row, f.kind, f.writes, over)
    PROVE  RowFine(new) /\ new.status = "RIDE_COMPLETED"
<1>1. row \in RideRow
  BY DEF RowFine
<1>2. /\ new \in RideRow /\ new.status = row.status /\ new.acked
      /\ new.rated = (row.rated \/ f.kind = "rate")
      /\ new.feedback = IF f.writes = "same" THEN row.feedback ELSE f.writes
      /\ new.crossed = (row.crossed \/ (f.kind = "rate" /\ over))
  BY <1>1, NewRowIs
<1>3. CASE f.writes = "same"
  BY <1>2, <1>3 DEF RowFine, Promised
<1>4. CASE f.writes = "SKIPPED"
  BY <1>2, <1>4 DEF RowFine, Promised
<1>5. CASE f.writes = "SUBMITTED"
  BY <1>2, <1>5 DEF RowFine, Promised
<1>6. QED
  BY <1>3, <1>4, <1>5

-----------------------------------------------------------------------------
(***************************************************************************)
(* Showing a page                                                          *)
(***************************************************************************)

LEMMA PageNames ==
    /\ At("home") \in Page /\ At("payment") \in Page /\ At("summary") \in Page /\ At("activity") \in Page
    /\ At("login") \in Page /\ At("register") \in Page
    /\ \A r \in RideId : RidePage("tracking", r) \in Page /\ RidePage("complete", r) \in Page
BY DEF At, RidePage, Page, PublicPages, ProtectedPages

LEMMA EmptyFine ==
    /\ EmptyCtx \in Context
    /\ NoDetail \in Detail /\ NoDetail.status = "none"
BY DEF EmptyCtx, Context, MaybeRoute, NoDetail, Detail, MaybeStatus, FeedbackStatus

LEMMA NoDetailFine == ASSUME NEW p, NEW rs PROVE DoneFine(NoDetail, p, rs)
BY EmptyFine DEF DoneFine

\* A recovery that is cancelled, and those of the page that is left.
LEMMA CancelledFine ==
    ASSUME NEW rs, RecsFine(recs, rs)
    PROVE  RecsFine(Cancelled, rs)
<1>1. ASSUME NEW q \in recs
      PROVE  RecFine([q EXCEPT !.live = FALSE], rs)
  <2> DEFINE p == [q EXCEPT !.live = FALSE]
  <2>1. RecFine(q, rs)
    BY DEF RecsFine
  <2>2. p \in Recovery /\ p.stage = q.stage /\ p.ride = q.ride
    BY <2>1 DEF RecFine, Recovery
  <2> HIDE DEF p
  <2>3. RecFine(p, rs)
    BY <2>1, <2>2 DEF RecFine
  <2>4. QED
    BY <2>3 DEF p
<1>2. QED
  BY <1>1 DEF RecsFine, Cancelled

LEMMA StartedFine ==
    ASSUME NEW rs, RideMade(active, rs), NEW live \in BOOLEAN
    PROVE  RecFine([Started EXCEPT !.live = live], rs)
<1> DEFINE q == [Started EXCEPT !.live = live]
<1>1. Started \in Recovery /\ (Started.stage # "history" => Made(rs, Started.ride))
  <2>1. CASE active # NoRide
    <3>1. Started = [stage |-> "active", live |-> TRUE, ride |-> active, status |-> "none", acked |-> FALSE]
      BY <2>1 DEF Started
    <3>2. active \in RideId /\ Made(rs, active)
      BY <2>1 DEF RideMade, MaybeRide
    <3>3. QED
      BY <3>1, <3>2 DEF Recovery
  <2>2. CASE active = NoRide
    <3>1. Started = [stage |-> "history", live |-> TRUE, ride |-> NoRide, status |-> "none", acked |-> FALSE]
      BY <2>2 DEF Started
    <3>2. QED
      BY <3>1 DEF Recovery
  <2>3. QED
    BY <2>1, <2>2
<1>2. q \in Recovery /\ q.stage = Started.stage /\ q.ride = Started.ride
  BY <1>1 DEF Recovery
<1> HIDE DEF q
<1>3. RecFine(q, rs)
  BY <1>1, <1>2 DEF RecFine
<1>4. QED
  BY <1>3 DEF q

LEMMA FreshFine ==
    ASSUME home \in HomeState, NEW b \in BOOLEAN
    PROVE  Fresh \in HomeState /\ [Fresh EXCEPT !.results = b] \in HomeState
BY DEF Fresh, HomeState, NoModal

LEMMA MountFine ==
    ASSUME NEW rs, RideMade(active, rs), RecsFine(recs, rs), home \in HomeState, NEW c \in Context, Mount(c)
    PROVE  ctx' \in Context /\ home' \in HomeState /\ RecsFine(recs', rs)
<1> DEFINE cached == c.route \in home.cached
           taken == IF cached THEN [c EXCEPT !.est = c.route] ELSE c
           results == cached \/ c.est # NoRoute
           live == taken = c
           q == [Started EXCEPT !.live = live]
<1>1. ctx' = taken /\ home' = [Fresh EXCEPT !.results = results] /\ recs' = Cancelled \cup {q}
  BY DEF Mount
<1>2. taken \in Context
  BY DEF Context, HomeState
<1>3. results \in BOOLEAN /\ live \in BOOLEAN
  OBVIOUS
<1> HIDE DEF results, live, taken
<1>4. RecFine(q, rs)
  BY <1>3, StartedFine
<1> HIDE DEF q
<1>5. RecsFine(recs', rs)
  BY <1>1, <1>4, CancelledFine DEF RecsFine
<1>6. home' \in HomeState
  BY <1>1, <1>3, FreshFine
<1>7. QED
  BY <1>1, <1>2, <1>5, <1>6

LEMMA UnmountedFine ==
    ASSUME NEW rs, RecsFine(recs, rs), home \in HomeState, Unmounted
    PROVE  home' \in HomeState /\ RecsFine(recs', rs)
<1>1. Fresh \in HomeState
  BY FreshFine
<1>2. QED
  BY <1>1, CancelledFine DEF Unmounted

\* The route guard: a protected page is for the signed in.
LEMMA GuardedFine ==
    ASSUME NEW p \in Page, NEW c, NEW s, NEW rs, PageMade(p, rs)
    PROVE  /\ Guarded(p, c, s) \in Page /\ PageMade(Guarded(p, c, s), rs)
           /\ Guarded(p, c, s).name \notin PublicPages => s.signedIn
<1>1. Landing(p, c) \in {p, At("home")}
  BY DEF Landing
<1>2. p.name \in PublicPages => Landing(p, c) = p
  BY DEF Landing, PublicPages
<1>3. At("login").name \in PublicPages /\ PageMade(At("login"), rs) /\ PageMade(At("home"), rs)
  BY DEF At, PublicPages, PageMade
<1>4. CASE p.name \in PublicPages
  BY <1>2, <1>4 DEF Guarded
<1>5. CASE p.name \notin PublicPages /\ s.signedIn /\ s.stored /\ ~s.expired
  BY <1>1, <1>3, <1>5, PageNames DEF Guarded
<1>6. CASE p.name \notin PublicPages /\ ~(s.signedIn /\ s.stored /\ ~s.expired)
  <2>1. Guarded(p, c, s) = At("login")
    BY <1>6 DEF Guarded
  <2>2. QED
    BY <1>3, <2>1, PageNames
<1>7. QED
  BY <1>4, <1>5, <1>6

\* Dropping the stored session changes nothing that the copies agree on.
LEMMA DroppedFine ==
    ASSUME NEW s, SessionFine(s)
    PROVE  SessionFine([s EXCEPT !.stored = FALSE]) /\ [s EXCEPT !.stored = FALSE].signedIn = s.signedIn
<1> DEFINE t == [s EXCEPT !.stored = FALSE]
<1>1. s \in SessionState
  BY DEF SessionFine
<1>2. /\ t \in SessionState /\ ~t.stored
      /\ t.booting = s.booting /\ t.signedIn = s.signedIn /\ t.client = s.client /\ t.call = s.call
  BY <1>1 DEF SessionState
<1> HIDE DEF t
<1>3. SessionFine(t)
  BY <1>2 DEF SessionFine
<1>4. QED
  BY <1>2, <1>3 DEF t

LEMMA ShowScreen ==
    ASSUME NEW rs, Screen(session, page, ctx, home, recs, seen, done, rs), RideMade(active, rs),
           NEW p \in Page, PageMade(p, rs), NEW c \in Context, NEW s, SessionFine(s), Show(p, c, s)
    PROVE  Screen(session', page', ctx', home', recs', seen', done', rs)
<1> DEFINE guarded == Guarded(p, c, s)
<1>1. page' = guarded /\ done' = NoDetail
  BY DEF Show
<1>2. session' = s \/ session' = [s EXCEPT !.stored = FALSE]
  BY DEF Show
<1>3. SessionFine(session') /\ session'.signedIn = s.signedIn
  BY <1>2, DroppedFine
<1>4. PageFine(page', session') /\ PageMade(page', rs)
  <2>1. guarded \in Page /\ PageMade(guarded, rs) /\ (guarded.name \notin PublicPages => s.signedIn)
    BY GuardedFine
  <2> HIDE DEF guarded
  <2>2. QED
    BY <1>1, <1>3, <2>1 DEF PageFine
<1>5. RecsFine(recs, rs) /\ home \in HomeState /\ seen \in SeenState
  BY DEF Screen
<1>6. ctx' \in Context /\ home' \in HomeState /\ RecsFine(recs', rs)
  <2>1. CASE Mount(c)
    BY <1>5, <2>1, MountFine
  <2>2. CASE ctx' = c /\ Unmounted
    BY <1>5, <2>2, UnmountedFine
  <2>3. QED
    BY <2>1, <2>2 DEF Show
<1>7. seen' \in SeenState
  <2>1. seen' = [r \in RideId |-> [seen[r] EXCEPT !.poll = (guarded = RidePage("tracking", r))]]
    BY DEF Show
  <2> HIDE DEF guarded
  <2>2. ASSUME NEW r \in RideId
        PROVE  [seen[r] EXCEPT !.poll = (guarded = RidePage("tracking", r))] \in [status : MaybeStatus, poll : BOOLEAN]
    <3> DEFINE b == guarded = RidePage("tracking", r)
    <3>1. b \in BOOLEAN
      OBVIOUS
    <3>2. seen[r] \in [status : MaybeStatus, poll : BOOLEAN]
      BY <1>5 DEF SeenState
    <3> HIDE DEF b
    <3>3. [seen[r] EXCEPT !.poll = b] \in [status : MaybeStatus, poll : BOOLEAN]
      BY <3>1, <3>2
    <3>4. QED
      BY <3>3 DEF b
  <2>3. QED
    BY <2>1, <2>2 DEF SeenState
<1>8. DoneFine(done', page', rs)
  BY <1>1, NoDetailFine
<1>9. QED
  BY <1>3, <1>4, <1>6, <1>7, <1>8 DEF Screen

-----------------------------------------------------------------------------
(***************************************************************************)
(* Steps of the screen                                                     *)
(***************************************************************************)

LEMMA Parts ==
    ASSUME IInv
    PROVE  /\ Screen(session, page, ctx, home, recs, seen, done, rides)
           /\ Rest(active, booking, feedback, rides, budget)
           /\ session \in SessionState /\ SessionFine(session)
           /\ page \in Page /\ PageFine(page, session) /\ PageMade(page, rides)
           /\ ctx \in Context /\ home \in HomeState /\ RecsFine(recs, rides) /\ seen \in SeenState
           /\ done \in Detail /\ DoneFine(done, page, rides)
           /\ RideMade(active, rides) /\ BookingsFine(booking, rides) /\ FeedbackFine(feedback, rides)
           /\ RidesFine(rides) /\ budget \in Budget
BY DEF IInv, Screen, Rest, SessionFine, PageFine, DoneFine

LEMMA Assembled ==
    ASSUME Screen(session', page', ctx', home', recs', seen', done', rides'),
           Rest(active', booking', feedback', rides', budget')
    PROVE  IInv'
BY DEF IInv

\* A page is shown; what else changes is given by its parts.
LEMMA ShowStep ==
    ASSUME IInv, NEW p \in Page, PageMade(p, rides), NEW c \in Context, NEW s, SessionFine(s), Show(p, c, s),
           Kept(rides, rides'), RidesFine(rides'), RideMade(active', rides'),
           BookingsFine(booking', rides'), FeedbackFine(feedback', rides'), budget' \in Budget
    PROVE  IInv'
<1>1. Screen(session', page', ctx', home', recs', seen', done', rides)
  BY Parts, ShowScreen
<1>2. Screen(session', page', ctx', home', recs', seen', done', rides')
  BY <1>1, ScreenKept
<1>3. Rest(active', booking', feedback', rides', budget')
  BY DEF Rest
<1>4. QED
  BY <1>2, <1>3, Assembled

\* Nothing of the service changes.
LEMMA ShowOnly ==
    ASSUME IInv, NEW p \in Page, PageMade(p, rides), NEW c \in Context, NEW s, SessionFine(s), Show(p, c, s),
           UNCHANGED <<booking, feedback, rides, budget>>, RideMade(active', rides)
    PROVE  IInv'
<1>1. /\ BookingsFine(booking', rides') /\ FeedbackFine(feedback', rides') /\ RidesFine(rides')
      /\ budget' \in Budget /\ RideMade(active', rides')
  BY Parts
<1>2. Kept(rides, rides')
  BY KeptSame
<1>3. QED
  BY <1>1, <1>2, ShowStep

\* A step that changes only the session.
LEMMA SessionStep ==
    ASSUME IInv, SessionFine(session'), PageFine(page, session'),
           UNCHANGED <<ctx, active, page, screen, booking, feedback, rides>>, budget' \in Budget
    PROVE  IInv'
<1>1. UNCHANGED <<ctx, active, page, home, recs, seen, done, booking, feedback, rides>>
  BY DEF screen
<1>2. Screen(session', page', ctx', home', recs', seen', done', rides')
  BY <1>1, Parts DEF Screen
<1>3. Rest(active', booking', feedback', rides', budget')
  BY <1>1, Parts DEF Rest
<1>4. QED
  BY <1>2, <1>3, Assembled

\* A step of HomePage, which shows no other page.
LEMMA HomeStep ==
    ASSUME IInv, ctx' \in Context, home' \in HomeState, RecsFine(recs', rides), RideMade(active', rides),
           budget' \in Budget, UNCHANGED <<session, page, seen, done, booking, feedback, rides>>
    PROVE  IInv'
<1>1. Screen(session', page', ctx', home', recs', seen', done', rides')
  BY Parts DEF Screen
<1>2. Rest(active', booking', feedback', rides', budget')
  BY Parts DEF Rest
<1>3. QED
  BY <1>1, <1>2, Assembled

\* A step of the service and of its calls, which the screen does not see.
LEMMA ServiceStep ==
    ASSUME IInv, UNCHANGED <<session, ctx, active, page, screen>>, Kept(rides, rides'), RidesFine(rides'),
           BookingsFine(booking', rides'), FeedbackFine(feedback', rides'), budget' \in Budget
    PROVE  IInv'
<1>1. UNCHANGED <<session, ctx, active, page, home, recs, seen, done>>
  BY DEF screen
<1>2. Screen(session, page, ctx, home, recs, seen, done, rides')
  BY Parts, ScreenKept
<1>3. Screen(session', page', ctx', home', recs', seen', done', rides')
  BY <1>1, <1>2
<1>4. RideMade(active', rides')
  BY <1>1, Parts, RideMadeKept
<1>5. Rest(active', booking', feedback', rides', budget')
  BY <1>4 DEF Rest
<1>6. QED
  BY <1>3, <1>5, Assembled

LEMMA Spent ==
    ASSUME IInv, (budget.faults > 0 /\ budget' = [budget EXCEPT !.faults = @ - 1]) \/ budget' = budget
    PROVE  budget' \in Budget
<1>1. PICK t \in Tours : budget \in BudgetOf(t)
  BY Parts DEF Budget
<1>2. t.faults \in Nat
  BY RiderAppAssumption
<1>3. budget.faults \in 0 .. t.faults
  BY <1>1 DEF BudgetOf
<1>4. budget.faults > 0 => budget.faults - 1 \in 0 .. t.faults
  BY <1>2, <1>3
<1>5. budget' \in BudgetOf(t)
  BY <1>1, <1>4 DEF BudgetOf
<1>6. QED
  BY <1>5 DEF Budget

\* A recovery, an answer or a call that is refused or lost.
LEMMA FailsSpent ==
    ASSUME IInv, UNCHANGED budget \/ CallFails
    PROVE  budget' \in Budget
BY Spent DEF CallFails

-----------------------------------------------------------------------------
(***************************************************************************)
(* Session                                                                 *)
(***************************************************************************)

LEMMA BootStep == ASSUME IInv, Boot PROVE IInv'
<1> DEFINE keep == session.stored /\ ~session.expired
           s == [session EXCEPT !.booting = FALSE, !.stored = keep, !.signedIn = keep, !.client = keep]
<1>1. session.booting /\ Show(page, ctx, s) /\ UNCHANGED <<active, booking, feedback, rides, budget>>
  BY DEF Boot
<1>2. keep \in BOOLEAN
  OBVIOUS
<1>3. session.call = "none"
  BY <1>1, Parts DEF SessionFine
<1> HIDE DEF keep
<1>4. /\ s \in SessionState /\ ~s.booting /\ s.call = session.call
      /\ s.stored = keep /\ s.signedIn = keep /\ s.client = keep
  BY <1>2, Parts DEF SessionState
<1> HIDE DEF s
<1>5. SessionFine(s)
  BY <1>3, <1>4 DEF SessionFine
<1>6. RideMade(active', rides)
  BY <1>1, Parts
<1>7. QED
  BY <1>1, <1>5, <1>6, Parts, ShowOnly

LEMMA SubmitsStep ==
    ASSUME IInv, NEW face, NEW call \in {"login", "signup"}, Submits(face, call)
    PROVE  IInv'
<1>1. /\ session' = [session EXCEPT !.call = call]
      /\ ~session.booting /\ ~session.signedIn /\ session.call = "none"
  BY DEF Submits
<1>2. /\ session' \in SessionState /\ session'.booting = session.booting /\ session'.signedIn = session.signedIn
      /\ session'.client = session.client /\ session'.stored = session.stored /\ session'.call = call
  BY <1>1, Parts DEF SessionState
<1>3. SessionFine(session')
  BY <1>1, <1>2, Parts DEF SessionFine
<1>4. PageFine(page, session')
  BY <1>2, Parts DEF PageFine
<1>5. UNCHANGED <<ctx, active, page, screen, booking, feedback, rides>> /\ budget' \in Budget
  BY Parts DEF Submits
<1>6. QED
  BY <1>3, <1>4, <1>5, SessionStep

LEMMA SignInAnswerStep == ASSUME IInv, SignInAnswer PROVE IInv'
<1>1. ~session.signedIn /\ ~session.booting /\ session.call \in {"login", "signup"}
  BY Parts DEF SignInAnswer, SessionFine
<1>2. /\ session' \in SessionState /\ ~session'.booting /\ ~session'.signedIn /\ ~session'.stored
      /\ session'.client => session'.call \in {"hydrate", "hydrateNew"}
  <2>1. ~session.stored /\ ~session.client
    BY <1>1, Parts DEF SessionFine
  <2>2. CASE session' = [session EXCEPT !.client = TRUE,
                         !.call = IF session.call = "login" THEN "hydrate" ELSE "hydrateNew"]
    <3> DEFINE next == IF session.call = "login" THEN "hydrate" ELSE "hydrateNew"
    <3>1. next \in {"hydrate", "hydrateNew"} /\ session' = [session EXCEPT !.client = TRUE, !.call = next]
      BY <2>2
    <3> HIDE DEF next
    <3>2. QED
      BY <1>1, <2>1, <3>1, Parts DEF SessionState
  <2>3. CASE session' = [session EXCEPT !.call = "none"]
    BY <1>1, <2>1, <2>3, Parts DEF SessionState
  <2>4. QED
    BY <2>2, <2>3 DEF SignInAnswer
<1>3. SessionFine(session')
  BY <1>2 DEF SessionFine
<1>4. page.name \in PublicPages /\ page' \in {page, At("login")}
  BY <1>1, Parts DEF SignInAnswer, PageFine
<1>5. page' \in Page /\ page'.name \in PublicPages
  BY <1>4, Parts, PageNames DEF At, PublicPages
<1>6. PageFine(page', session') /\ PageMade(page', rides)
  BY <1>5 DEF PageFine, PageMade, PublicPages
<1>7. DoneFine(done, page', rides)
  BY <1>4, Parts DEF DoneFine, PublicPages
<1>8. UNCHANGED <<ctx, active, home, recs, seen, done, booking, feedback, rides, budget>>
  BY DEF SignInAnswer, screen
<1>9. Screen(session', page', ctx', home', recs', seen', done', rides')
  BY <1>3, <1>6, <1>7, <1>8, Parts DEF Screen
<1>10. Rest(active', booking', feedback', rides', budget')
  BY <1>8, Parts
<1>11. QED
  BY <1>9, <1>10, Assembled

LEMMA SignedInStep == ASSUME IInv, SignedIn PROVE IInv'
<1> DEFINE next == IF session.call = "hydrate" THEN "none" ELSE "profile"
           s == [session EXCEPT !.stored = TRUE, !.signedIn = TRUE, !.client = TRUE, !.expired = FALSE, !.call = next]
<1>1. Show(At("home"), ctx, s) /\ UNCHANGED <<active, booking, feedback, rides, budget>>
  BY DEF SignedIn
<1>2. ~session.booting
  BY Parts DEF SignedIn, SessionFine
<1>3. next \in {"none", "profile"}
  OBVIOUS
<1> HIDE DEF next
<1>4. s \in SessionState /\ ~s.booting /\ s.stored /\ s.signedIn /\ s.client /\ s.call = next
  BY <1>2, <1>3, Parts DEF SessionState
<1> HIDE DEF s
<1>5. SessionFine(s)
  BY <1>3, <1>4 DEF SessionFine
<1>6. PageMade(At("home"), rides) /\ RideMade(active', rides)
  BY <1>1, Parts DEF PageMade, At
<1>7. QED
  BY <1>1, <1>5, <1>6, Parts, PageNames, ShowOnly

\* A page that is not about a ride.
LEMMA ShowPlain ==
    ASSUME IInv, NEW n \in PublicPages \cup ProtectedPages, NEW c \in Context, NEW s, SessionFine(s),
           Show(At(n), c, s), UNCHANGED <<booking, feedback, rides, budget>>, RideMade(active', rides)
    PROVE  IInv'
<1>1. At(n) \in Page /\ PageMade(At(n), rides)
  BY PageNames DEF At, PageMade, PublicPages, ProtectedPages
<1>2. QED
  BY <1>1, ShowOnly

LEMMA SignUpDoneStep == ASSUME IInv, SignUpDone PROVE IInv'
<1> DEFINE s == [session EXCEPT !.call = "none"]
<1>1. /\ Show(At("login"), ctx, s) /\ UNCHANGED <<active, booking, feedback, rides, budget>>
      /\ session.call = "profile"
  BY DEF SignUpDone
<1>2. /\ s \in SessionState /\ s.booting = session.booting /\ s.signedIn = session.signedIn
      /\ s.client = session.client /\ s.stored = session.stored /\ s.call = "none"
  BY Parts DEF SessionState
<1> HIDE DEF s
<1>3. SessionFine(s)
  BY <1>1, <1>2, Parts DEF SessionFine
<1>4. "login" \in PublicPages \cup ProtectedPages /\ RideMade(active', rides)
  BY <1>1, Parts DEF PublicPages
<1>5. QED
  BY <1>1, <1>3, <1>4, Parts, ShowPlain

LEMMA LoginRedirectStep == ASSUME IInv, LoginRedirect PROVE IInv'
<1>1. Show(At("home"), ctx, session) /\ UNCHANGED <<active, booking, feedback, rides, budget>>
  BY DEF LoginRedirect
<1>2. "home" \in PublicPages \cup ProtectedPages /\ RideMade(active', rides)
  BY <1>1, Parts DEF ProtectedPages
<1>3. QED
  BY <1>1, <1>2, Parts, ShowPlain

LEMMA FlipCardStep == ASSUME IInv, FlipCard PROVE IInv'
<1>1. page.name \in PublicPages /\ page' \in {At("login"), At("register")}
  BY DEF FlipCard
<1>2. page' \in Page /\ page'.name \in PublicPages
  BY <1>1, PageNames DEF At, PublicPages
<1>3. PageFine(page', session) /\ PageMade(page', rides)
  BY <1>2 DEF PageFine, PageMade, PublicPages
<1>4. DoneFine(done, page', rides)
  BY <1>1, Parts DEF DoneFine, PublicPages
<1>5. UNCHANGED <<session, ctx, active, home, recs, seen, done, booking, feedback, rides, budget>>
  BY DEF FlipCard, screen
<1>6. Screen(session', page', ctx', home', recs', seen', done', rides')
  BY <1>3, <1>4, <1>5, Parts DEF Screen
<1>7. Rest(active', booking', feedback', rides', budget')
  BY <1>5, Parts
<1>8. QED
  BY <1>6, <1>7, Assembled

LEMMA SignOutStep == ASSUME IInv, SignOut PROVE IInv'
<1> DEFINE s == [session EXCEPT !.stored = FALSE, !.signedIn = FALSE, !.client = FALSE]
<1>1. /\ Show(At("login"), ctx, s) /\ UNCHANGED <<active, booking, feedback, rides>>
      /\ session.call = "none" /\ budget.faults > 0 /\ budget' = [budget EXCEPT !.faults = @ - 1]
  BY DEF SignOut
<1>2. s \in SessionState /\ ~s.stored /\ ~s.signedIn /\ ~s.client /\ s.call = session.call
  BY Parts DEF SessionState
<1> HIDE DEF s
<1>3. SessionFine(s)
  BY <1>1, <1>2 DEF SessionFine
<1>4. At("login") \in Page /\ PageMade(At("login"), rides)
  BY PageNames DEF At, PageMade
<1>5. budget' \in Budget
  BY <1>1, Spent
<1>6. /\ Kept(rides, rides') /\ RidesFine(rides') /\ RideMade(active', rides')
      /\ BookingsFine(booking', rides') /\ FeedbackFine(feedback', rides')
  BY <1>1, Parts, KeptSame
<1>7. QED
  BY <1>1, <1>3, <1>4, <1>5, <1>6, Parts, ShowStep

LEMMA TokenExpiresStep == ASSUME IInv, TokenExpires PROVE IInv'
<1>1. session' = [session EXCEPT !.expired = TRUE]
  BY DEF TokenExpires
<1>2. /\ session' \in SessionState /\ session'.booting = session.booting /\ session'.signedIn = session.signedIn
      /\ session'.client = session.client /\ session'.stored = session.stored /\ session'.call = session.call
  BY <1>1, Parts DEF SessionState
<1>3. SessionFine(session')
  BY <1>2, Parts DEF SessionFine
<1>4. PageFine(page, session')
  BY <1>2, Parts DEF PageFine
<1>5. budget' \in Budget
  BY Spent DEF TokenExpires
<1>6. UNCHANGED <<ctx, active, page, screen, booking, feedback, rides>>
  BY DEF TokenExpires
<1>7. QED
  BY <1>3, <1>4, <1>5, <1>6, SessionStep

LEMMA ReloadStep == ASSUME IInv, Reload PROVE IInv'
<1>1. SessionFine(session') /\ PageFine(page, session')
  <2>1. session' = [session EXCEPT !.booting = TRUE, !.signedIn = FALSE, !.client = FALSE, !.call = "none"]
    BY DEF Reload
  <2>2. session' \in SessionState /\ session'.booting /\ ~session'.signedIn /\ ~session'.client /\ session'.call = "none"
    BY <2>1, Parts DEF SessionState
  <2>3. QED
    BY <2>2, Parts DEF SessionFine, PageFine
<1>2. home' \in HomeState
  <2>1. Fresh \in HomeState /\ home' = [Fresh EXCEPT !.search = NoRoute, !.cached = {}]
    BY Parts, FreshFine DEF Reload
  <2>2. QED
    BY <2>1 DEF HomeState, MaybeRoute
<1>3. ctx' \in Context /\ RecsFine(recs', rides)
  BY EmptyFine DEF Reload, RecsFine
<1>4. seen' \in SeenState
  BY DEF Reload, SeenState, MaybeStatus
<1>5. DoneFine(done', page, rides)
  BY NoDetailFine DEF Reload
<1>6. BookingsFine(booking', rides)
  <2>1. ASSUME NEW b \in booking PROVE BookingFine([b EXCEPT !.mine = FALSE], rides)
    <3> DEFINE a == [b EXCEPT !.mine = FALSE]
    <3>1. BookingFine(b, rides)
      BY Parts DEF BookingsFine
    <3>2. a \in BookingType /\ a.ride = b.ride
      BY <3>1 DEF BookingFine, BookingType
    <3> HIDE DEF a
    <3>3. BookingFine(a, rides)
      BY <3>1, <3>2 DEF BookingFine
    <3>4. QED
      BY <3>3 DEF a
  <2>2. QED
    BY <2>1 DEF Reload, BookingsFine
<1>7. FeedbackFine(feedback', rides)
  <2>1. ASSUME NEW f \in feedback
        PROVE  /\ [f EXCEPT !.mine = FALSE] \in FeedbackCall
               /\ Over(rides, [f EXCEPT !.mine = FALSE].ride)
               /\ Promised([f EXCEPT !.mine = FALSE], rides[[f EXCEPT !.mine = FALSE].ride])
    <3> DEFINE g == [f EXCEPT !.mine = FALSE]
    <3>1. f \in FeedbackCall /\ Over(rides, f.ride) /\ Promised(f, rides[f.ride])
      BY Parts DEF FeedbackFine
    <3>2. g \in FeedbackCall /\ g.ride = f.ride /\ g.writes = f.writes /\ g.kind = f.kind
      BY <3>1 DEF FeedbackCall
    <3> HIDE DEF g
    <3>3. Promised(g, rides[g.ride])
      BY <3>1, <3>2 DEF Promised
    <3>4. QED
      BY <3>1, <3>2, <3>3 DEF g
  <2>2. \A g \in feedback' : \E f \in feedback : g = [f EXCEPT !.mine = FALSE]
    BY DEF Reload
  <2>3. QED
    BY <2>1, <2>2 DEF FeedbackFine
<1>8. budget' \in Budget
  BY Spent DEF Reload
<1>9. UNCHANGED <<active, page, rides>>
  BY DEF Reload
<1>10. Screen(session', page', ctx', home', recs', seen', done', rides')
  BY <1>1, <1>2, <1>3, <1>4, <1>5, <1>9, Parts DEF Screen
<1>11. Rest(active', booking', feedback', rides', budget')
  BY <1>6, <1>7, <1>8, <1>9, Parts DEF Rest
<1>12. QED
  BY <1>10, <1>11, Assembled

-----------------------------------------------------------------------------
(***************************************************************************)
(* Recovery of the latest ride                                             *)
(***************************************************************************)

LEMMA RowTyped ==
    ASSUME RidesFine(rides), NEW r \in RideId
    PROVE  /\ rides[r] \in RideRow /\ rides[r].status \in MaybeStatus /\ rides[r].acked \in BOOLEAN
           /\ rides[r].feedback \in FeedbackStatus
BY DEF RidesFine, RideRow, MaybeStatus

\* One recovery goes on, or ends.
LEMMA RecsStep ==
    ASSUME IInv, NEW q \in recs, NEW next, \A x \in next : RecFine(x, rides), Step(q, next)
    PROVE  RecsFine(recs', rides)
BY Parts DEF Step, RecsFine

LEMMA RecAnswered ==
    ASSUME RidesFine(rides), NEW q, RecFine(q, rides), Made(rides, q.ride)
    PROVE  RecFine([q EXCEPT !.stage = "answer", !.status = rides[q.ride].status, !.acked = rides[q.ride].acked], rides)
<1> DEFINE t == rides[q.ride].status
           a == rides[q.ride].acked
           x == [q EXCEPT !.stage = "answer", !.status = t, !.acked = a]
<1>1. t \in MaybeStatus /\ a \in BOOLEAN
  BY RowTyped DEF Made
<1> HIDE DEF t, a
<1>2. x \in Recovery /\ x.ride = q.ride
  BY <1>1 DEF RecFine, Recovery, MaybeStatus
<1> HIDE DEF x
<1>3. RecFine(x, rides)
  BY <1>2 DEF RecFine
<1>4. QED
  BY <1>3 DEF x, t, a

LEMMA RecoverActiveStep == ASSUME IInv, NEW q \in recs, RecoverActive(q) PROVE IInv'
<1>1. RecFine(q, rides) /\ q \in Recovery /\ Made(rides, q.ride)
  BY Parts DEF RecsFine, RecFine, RecoverActive
<1>2. UNCHANGED <<session, ctx, page, home, booking, feedback, seen, done, rides>>
  BY DEF RecoverActive
<1>3. CASE /\ Step(q, {[q EXCEPT !.stage = "answer", !.status = rides[q.ride].status, !.acked = rides[q.ride].acked]})
           /\ UNCHANGED <<active, budget>>
  <2>1. RecsFine(recs', rides)
    <3> DEFINE x == [q EXCEPT !.stage = "answer", !.status = rides[q.ride].status, !.acked = rides[q.ride].acked]
    <3>1. RecFine(x, rides)
      BY <1>1, Parts, RecAnswered
    <3> HIDE DEF x
    <3>2. Step(q, {x})
      BY <1>3 DEF x
    <3>3. QED
      BY <3>1, <3>2, RecsStep
  <2>2. QED
    BY <1>2, <1>3, <2>1, Parts, HomeStep
<1>4. CASE /\ UNCHANGED budget \/ CallFails
           /\ active' = NoRide
           /\ Step(q, {[q EXCEPT !.stage = "history", !.ride = NoRide]})
  <2>1. RecFine([q EXCEPT !.stage = "history", !.ride = NoRide], rides)
    BY <1>1 DEF RecFine, Recovery
  <2>2. RecsFine(recs', rides)
    BY <1>4, <2>1, RecsStep
  <2>3. RideMade(active', rides)
    BY <1>4 DEF RideMade, MaybeRide
  <2>4. budget' \in Budget
    BY <1>4, FailsSpent
  <2>5. QED
    BY <1>2, <2>2, <2>3, <2>4, Parts, HomeStep
<1>5. QED
  BY <1>3, <1>4 DEF RecoverActive

LEMMA RecoverHistoryStep == ASSUME IInv, NEW q \in recs, RecoverHistory(q) PROVE IInv'
<1>1. RecFine(q, rides) /\ q \in Recovery
  BY Parts DEF RecsFine, RecFine
<1>2. UNCHANGED <<session, ctx, active, page, home, booking, feedback, seen, done, rides>>
  BY DEF RecoverHistory
<1>3. RecsFine(recs', rides) /\ budget' \in Budget
  <2>1. CASE Latest # NoRide /\ Step(q, {[q EXCEPT !.stage = "detail", !.ride = Latest]}) /\ UNCHANGED budget
    <3>1. Latest \in RideId /\ Made(rides, Latest)
      BY <2>1, Parts, LatestRide
    <3>2. RecFine([q EXCEPT !.stage = "detail", !.ride = Latest], rides)
      BY <1>1, <3>1 DEF RecFine, Recovery
    <3>3. QED
      BY <2>1, <3>2, Parts, RecsStep
  <2>2. CASE /\ q.stage = "detail"
             /\ Step(q, {[q EXCEPT !.stage = "answer", !.status = rides[q.ride].status, !.acked = rides[q.ride].acked]})
             /\ UNCHANGED budget
    <3> DEFINE x == [q EXCEPT !.stage = "answer", !.status = rides[q.ride].status, !.acked = rides[q.ride].acked]
    <3>1. Made(rides, q.ride)
      BY <1>1, <2>2 DEF RecFine
    <3>2. RecFine(x, rides)
      BY <1>1, <3>1, Parts, RecAnswered
    <3> HIDE DEF x
    <3>3. Step(q, {x})
      BY <2>2 DEF x
    <3>4. QED
      BY <2>2, <3>2, <3>3, Parts, RecsStep
  <2>3. CASE (UNCHANGED budget \/ CallFails) /\ Step(q, {})
    BY <2>3, FailsSpent, RecsStep
  <2>4. QED
    BY <2>1, <2>2, <2>3 DEF RecoverHistory
<1>4. QED
  BY <1>2, <1>3, Parts, HomeStep

LEMMA RecoverApplyStep == ASSUME IInv, NEW q \in recs, RecoverApply(q) PROVE IInv'
<1> DEFINE owed == q.status = "RIDE_COMPLETED" /\ ~q.acked
           open == q.status \notin Closed
<1>1. Made(rides, q.ride)
  BY Parts DEF RecsFine, RecFine, RecoverApply
<1>2. UNCHANGED <<booking, feedback, rides, budget>>
  BY DEF RecoverApply
<1>3. CASE ~q.live \/ ~(owed \/ open)
  <2>1. Step(q, {}) /\ UNCHANGED <<session, ctx, active, page, home, seen, done>>
    BY <1>3 DEF RecoverApply
  <2>2. RecsFine(recs', rides)
    BY <2>1, RecsStep
  <2>3. QED
    BY <1>2, <2>1, <2>2, Parts, HomeStep
<1>4. CASE ~(~q.live \/ ~(owed \/ open))
  <2> DEFINE n == IF owed THEN "complete" ELSE "tracking"
             c == IF owed THEN EmptyCtx ELSE ctx
  <2>1. active' = (IF owed THEN NoRide ELSE q.ride) /\ Show(RidePage(n, q.ride), c, session)
    BY <1>4 DEF RecoverApply
  <2>2. n \in {"complete", "tracking"} /\ c \in Context
    BY EmptyFine, Parts
  <2>3. RideMade(active', rides)
    BY <1>1, <2>1 DEF RideMade, MaybeRide, Made
  <2> HIDE DEF n, c
  <2>4. RidePage(n, q.ride) \in Page /\ PageMade(RidePage(n, q.ride), rides)
    BY <1>1, <2>2, PageNames DEF PageMade, RidePage, Made
  <2>5. QED
    BY <1>2, <2>1, <2>2, <2>3, <2>4, Parts, ShowOnly
<1>5. QED
  BY <1>3, <1>4

-----------------------------------------------------------------------------
(***************************************************************************)
(* Addresses, fares and booking                                            *)
(***************************************************************************)

\* The addresses of the context change; the recovery effect cleans up.
LEMMA ReaddressStep ==
    ASSUME IInv, NEW route \in MaybeRoute, Readdress(route)
    PROVE  IInv'
<1>1. UNCHANGED <<session, active, page, booking, feedback, seen, done, rides, budget>>
  BY DEF Readdress
<1>2. [ctx EXCEPT !.route = route] \in Context /\ [ctx EXCEPT !.route = route, !.est = route] \in Context
  BY Parts DEF Context
<1>3. ctx' \in Context
  BY <1>2 DEF Readdress, Touch
<1>4. home' \in HomeState
  <2>1. [home EXCEPT !.results = TRUE] \in HomeState
    BY Parts DEF HomeState
  <2>2. QED
    BY <2>1, Parts DEF Readdress
<1>5. RecsFine(recs', rides)
  BY Parts, CancelledFine DEF Readdress, Touch
<1>6. QED
  BY <1>1, <1>3, <1>4, <1>5, Parts, HomeStep

LEMMA AddressStep == ASSUME IInv, Locate \/ SelectAddress PROVE IInv'
<1>1. PICK route \in MaybeRoute : Readdress(route)
  BY DEF Locate, SelectAddress, MaybeRoute
<1>2. QED
  BY <1>1, ReaddressStep

LEMMA SearchStep == ASSUME IInv, Search PROVE IInv'
<1>1. home' \in HomeState
  BY Parts DEF Search, HomeState, MaybeRoute
<1>2. UNCHANGED <<session, ctx, active, page, recs, booking, feedback, seen, done, rides, budget>>
  BY DEF Search
<1>3. QED
  BY <1>1, <1>2, Parts, HomeStep

LEMMA SearchAnswerStep == ASSUME IInv, SearchAnswer PROVE IInv'
<1> DEFINE route == home.search
<1>1. route \in Routes /\ NoRoute \in MaybeRoute /\ route \in MaybeRoute
  BY Parts DEF SearchAnswer, HomeState, MaybeRoute
<1>2. UNCHANGED <<session, active, page, booking, feedback, seen, done, rides, budget>>
  BY DEF SearchAnswer
<1>3. OnHome \in BOOLEAN
  BY DEF OnHome
<1>4. ctx' \in Context /\ RecsFine(recs', rides) /\ home' \in HomeState
  <2>1. CASE /\ Touch([ctx EXCEPT !.est = route])
             /\ home' = [home EXCEPT !.search = NoRoute, !.results = OnHome, !.cached = @ \cup {route}]
    <3>1. [ctx EXCEPT !.est = route] \in Context
      BY <1>1, Parts DEF Context
    <3>2. home' \in HomeState
      BY <1>1, <1>3, <2>1, Parts DEF HomeState
    <3>3. QED
      BY <2>1, <3>1, <3>2, Parts, CancelledFine DEF Touch
  <2>2. CASE home' = [home EXCEPT !.search = NoRoute, !.results = OnHome] /\ UNCHANGED <<ctx, recs>>
    BY <1>1, <1>3, <2>2, Parts DEF HomeState
  <2>3. CASE home' = [home EXCEPT !.search = NoRoute] /\ UNCHANGED <<ctx, recs>>
    BY <1>1, <2>3, Parts DEF HomeState
  <2>4. QED
    BY <2>1, <2>2, <2>3 DEF SearchAnswer
<1>5. QED
  BY <1>2, <1>4, Parts, HomeStep

LEMMA BookOnPhoneStep == ASSUME IInv, BookOnPhone PROVE IInv'
<1>1. Show(At("payment"), ctx, session) /\ UNCHANGED <<active, booking, feedback, rides, budget>>
  BY DEF BookOnPhone
<1>2. "payment" \in PublicPages \cup ProtectedPages /\ RideMade(active', rides)
  BY <1>1, Parts DEF ProtectedPages
<1>3. QED
  BY <1>1, <1>2, Parts, ShowPlain

LEMMA BookOnDesktopStep == ASSUME IInv, BookOnDesktop PROVE IInv'
<1>1. PICK m \in {NoModal, "payment", "summary"} : home' = [home EXCEPT !.modal = m]
  BY DEF BookOnDesktop
<1>2. home' \in HomeState
  BY <1>1, Parts DEF HomeState
<1>3. UNCHANGED <<session, ctx, page, recs, seen, done, active, booking, feedback, rides, budget>>
  BY DEF BookOnDesktop
<1>4. QED
  BY <1>2, <1>3, Parts, HomeStep

LEMMA OnwardStep == ASSUME IInv, Onward PROVE IInv'
<1>1. PICK n \in {"summary", "home"} : Show(At(n), ctx, session)
  BY DEF Onward
<1>2. UNCHANGED <<active, booking, feedback, rides, budget>>
  BY DEF Onward
<1>3. n \in PublicPages \cup ProtectedPages /\ RideMade(active', rides)
  BY <1>2, Parts DEF ProtectedPages
<1>4. QED
  BY <1>1, <1>2, <1>3, Parts, ShowPlain

\* The parts of a step that changes only the calls.
LEMMA CallsStep ==
    ASSUME IInv, UNCHANGED <<session, ctx, active, page, screen, rides>>,
           BookingsFine(booking', rides), FeedbackFine(feedback', rides), budget' \in Budget
    PROVE  IInv'
<1>1. Kept(rides, rides') /\ RidesFine(rides')
  BY Parts, KeptSame
<1>2. QED
  BY <1>1, ServiceStep

LEMMA ConfirmStep == ASSUME IInv, Confirm PROVE IInv'
<1> DEFINE priced == IF OnHome THEN ctx.est ELSE ctx.route
           b == [route |-> ctx.route, mine |-> TRUE, ride |-> NoRide, priced |-> priced, authorized |-> MayAsk]
<1>1. booking' = booking \cup {b} /\ ctx.route \in Routes
  BY DEF Confirm
<1>2. priced \in Routes
  <2>1. CASE OnHome
    <3>1. ctx.est # NoRoute
      BY <2>1 DEF Confirm, OnHome
    <3>2. QED
      BY <2>1, <3>1, Parts DEF Context, MaybeRoute
  <2>2. CASE ~OnHome
    BY <1>1, <2>2
  <2>3. QED
    BY <2>1, <2>2
<1>3. MayAsk \in BOOLEAN
  BY DEF MayAsk
<1> HIDE DEF priced
<1>4. b \in BookingType /\ b.ride = NoRide
  BY <1>1, <1>2, <1>3 DEF BookingType, MaybeRide
<1> HIDE DEF b
<1>5. BookingFine(b, rides)
  BY <1>4 DEF BookingFine, RideMade, MaybeRide
<1>6. BookingsFine(booking', rides)
  BY <1>1, <1>5, Parts DEF BookingsFine
<1>7. UNCHANGED <<session, ctx, active, page, screen, feedback, rides, budget>>
  BY DEF Confirm
<1>8. QED
  BY <1>6, <1>7, Parts, CallsStep

LEMMA ServeStep == ASSUME IInv, NEW b \in booking, Serve(b) PROVE IInv'
<1> DEFINE old == Duplicates(b.route)
           r == IF old = {} THEN Cardinality(Created) + 1 ELSE CHOOSE x \in old : \A y \in old : y <= x
<1>1. BookingFine(b, rides) /\ b \in BookingType
  BY Parts DEF BookingsFine, BookingFine
<1>2. /\ r \in RideId
      /\ rides' = IF old # {} THEN rides
                  ELSE [rides EXCEPT ![r] = [@ EXCEPT !.status = "MATCHING", !.route = b.route, !.priced = b.priced]]
      /\ booking' = (booking \ {b}) \cup (IF b.mine THEN {[b EXCEPT !.ride = r]} ELSE {})
  BY DEF Serve
<1>3. UNCHANGED <<session, ctx, active, page, screen, feedback, budget>>
  BY DEF Serve
<1>4. RidesFine(rides') /\ Kept(rides, rides') /\ Steady(rides, rides') /\ Made(rides', r)
  <2>1. CASE old # {}
\* The answer to a duplicate is a ride that was made before.
    <3>1. rides' = rides
      BY <1>2, <2>1
    <3>2. r \in old
      <4>1. old \subseteq RideId
        BY DEF Duplicates, Created
      <4>2. \E x \in old : \A y \in old : y <= x
        <5> HIDE DEF old
        <5>1. QED
          BY <2>1, <4>1, NewestRide
      <4>3. QED
        BY <2>1, <4>2
    <3>3. QED
      BY <3>1, <3>2, Parts, KeptSame DEF Duplicates, Created, Exists, Made
  <2>2. CASE old = {}
    <3> DEFINE n == Cardinality(Created)
               row == [rides[n + 1] EXCEPT !.status = "MATCHING", !.route = b.route, !.priced = b.priced]
    <3>1. r = n + 1 /\ n + 1 \in RideId
      BY <1>2, <2>2
    <3>2. rides[n + 1].status = "none" /\ Numbered(rides, n) /\ n \in Nat
      BY <3>1, Parts, NextRide
    <3>3. rides' = [rides EXCEPT ![n + 1] = row]
      BY <1>2, <2>2, <3>1
    <3> HIDE DEF n, r
    <3>4. rides[n + 1] \in RideRow /\ RowFine(rides[n + 1])
      BY <3>1, Parts DEF RidesFine
    <3>5. rides[n + 1].feedback = "PENDING" /\ ~rides[n + 1].rated
      BY <3>2, <3>4 DEF RowFine
    <3>6. "MATCHING" \in Status /\ b.route \in MaybeRoute /\ b.priced \in MaybeRoute
      BY <1>1 DEF BookingType, Status, MaybeRoute
    <3>7. /\ row \in RideRow /\ row.status = "MATCHING"
          /\ row.rated = rides[n + 1].rated /\ row.feedback = rides[n + 1].feedback
      BY <3>4, <3>6 DEF RideRow
    <3> HIDE DEF row
    <3>8. RowFine(row)
      BY <3>5, <3>7 DEF RowFine
    <3>9. RidesFine(rides') /\ Kept(rides, rides') /\ Steady(rides, rides')
      BY <3>1, <3>2, <3>3, <3>7, <3>8, Parts, NewRowStep
    <3>10. rides'[n + 1].status = "MATCHING"
      BY <3>1, <3>3, <3>7, Parts DEF RidesFine
    <3>11. QED
      BY <3>1, <3>9, <3>10 DEF Made
  <2>3. QED
    BY <2>1, <2>2
<1> HIDE DEF r, old
<1>5. BookingFine([b EXCEPT !.ride = r], rides')
  <2> DEFINE a == [b EXCEPT !.ride = r]
  <2>1. a \in BookingType /\ a.ride = r
    BY <1>1, <1>2 DEF BookingType, MaybeRide
  <2> HIDE DEF a
  <2>2. BookingFine(a, rides')
    BY <1>4, <2>1 DEF BookingFine, RideMade, MaybeRide, Made
  <2>3. QED
    BY <2>2 DEF a
<1>6. BookingsFine(booking', rides')
  <2>1. BookingsFine(booking, rides')
    BY <1>4, Parts, BookingsKept
  <2>2. QED
    BY <1>2, <1>5, <2>1 DEF BookingsFine
<1>7. FeedbackFine(feedback', rides')
  BY <1>3, <1>4, Parts, FeedbackKept
<1>8. QED
  BY <1>3, <1>4, <1>6, <1>7, Parts, ServiceStep

LEMMA BookedStep == ASSUME IInv, NEW b \in booking, Booked(b) PROVE IInv'
<1>1. /\ b.ride # NoRide /\ booking' = booking \ {b} /\ active' = b.ride
      /\ Show(RidePage("tracking", b.ride), ctx, session)
      /\ UNCHANGED <<feedback, rides, budget>>
  BY DEF Booked
<1>2. Made(rides, b.ride) /\ RideMade(b.ride, rides)
  BY <1>1, Parts DEF BookingsFine, BookingFine, RideMade
<1>3. RidePage("tracking", b.ride) \in Page /\ PageMade(RidePage("tracking", b.ride), rides)
  BY <1>2, PageNames DEF PageMade, RidePage, Made
<1>4. BookingsFine(booking', rides)
  BY <1>1, Parts DEF BookingsFine
<1>5. /\ Kept(rides, rides') /\ RidesFine(rides') /\ RideMade(active', rides')
      /\ BookingsFine(booking', rides') /\ FeedbackFine(feedback', rides') /\ budget' \in Budget
  BY <1>1, <1>2, <1>4, Parts, KeptSame
<1>6. QED
  BY <1>1, <1>3, <1>5, Parts, ShowStep

LEMMA BookingFailsStep == ASSUME IInv, NEW b \in booking, BookingFails(b) PROVE IInv'
<1>1. BookingFine([b EXCEPT !.mine = FALSE], rides)
  <2> DEFINE a == [b EXCEPT !.mine = FALSE]
  <2>1. BookingFine(b, rides)
    BY Parts DEF BookingsFine
  <2>2. a \in BookingType /\ a.ride = b.ride
    BY <2>1 DEF BookingFine, BookingType
  <2> HIDE DEF a
  <2>3. BookingFine(a, rides)
    BY <2>1, <2>2 DEF BookingFine
  <2>4. QED
    BY <2>3 DEF a
<1>2. booking' \subseteq booking \cup {[b EXCEPT !.mine = FALSE]}
  BY DEF BookingFails
<1>3. BookingsFine(booking', rides)
  BY <1>1, <1>2, Parts DEF BookingsFine
<1>4. budget' \in Budget
  BY Spent DEF BookingFails
<1>5. UNCHANGED <<session, ctx, active, page, screen, feedback, rides>>
  BY DEF BookingFails
<1>6. QED
  BY <1>3, <1>4, <1>5, Parts, CallsStep

-----------------------------------------------------------------------------
(***************************************************************************)
(* Tracking and completion                                                 *)
(***************************************************************************)

LEMMA PollStep == ASSUME IInv, NEW r \in RideId, Poll(r) PROVE IInv'
<1> DEFINE t == rides[r].status
           poll == t \notin TerminalForPolling
<1>1. seen' = [seen EXCEPT ![r] = [status |-> t, poll |-> poll]]
  BY DEF Poll
<1>2. t \in MaybeStatus
  BY Parts, RowTyped
<1>3. poll \in BOOLEAN
  OBVIOUS
<1> HIDE DEF poll, t
<1>4. seen' \in SeenState
  BY <1>1, <1>2, <1>3, Parts DEF SeenState
<1>5. UNCHANGED <<session, ctx, active, page, home, recs, done, booking, feedback, rides, budget>>
  BY DEF Poll
<1>6. Screen(session', page', ctx', home', recs', seen', done', rides')
  BY <1>4, <1>5, Parts DEF Screen
<1>7. Rest(active', booking', feedback', rides', budget')
  BY <1>5, Parts
<1>8. QED
  BY <1>6, <1>7, Assembled

\* The page of the ride that is tracked or confirmed is about a ride.
LEMMA PageRide ==
    ASSUME IInv, NEW r \in RideId, NEW n \in {"tracking", "complete"}, page = RidePage(n, r)
    PROVE  /\ Made(rides, r)
           /\ \A m \in {"tracking", "complete"} : RidePage(m, r) \in Page /\ PageMade(RidePage(m, r), rides)
<1>1. page.name = n /\ page.ride = r
  BY DEF RidePage
<1>2. Made(rides, r)
  BY <1>1, Parts DEF PageMade
<1>3. QED
  BY <1>2, PageNames DEF PageMade, RidePage

LEMMA Cleared == RideMade(NoRide, rides)
BY DEF RideMade, MaybeRide

LEMMA FollowStep == ASSUME IInv, NEW r \in RideId, Follow(r) PROVE IInv'
<1>1. page = RidePage("tracking", r) /\ UNCHANGED <<booking, feedback, rides, budget>>
  BY DEF Follow, Tracking
<1>2. RideMade(active', rides)
  BY Cleared DEF Follow
<1>3. CASE Show(RidePage("complete", r), [ctx EXCEPT !.est = NoRoute], session)
  <2>1. RidePage("complete", r) \in Page /\ PageMade(RidePage("complete", r), rides)
    BY <1>1, PageRide
  <2>2. [ctx EXCEPT !.est = NoRoute] \in Context
    BY Parts DEF Context, MaybeRoute
  <2>3. QED
    BY <1>1, <1>2, <1>3, <2>1, <2>2, Parts, ShowOnly
<1>4. CASE Show(At("home"), EmptyCtx, session)
  <2>1. "home" \in PublicPages \cup ProtectedPages
    BY DEF ProtectedPages
  <2>2. QED
    BY <1>1, <1>2, <1>4, <2>1, EmptyFine, Parts, ShowPlain
<1>5. CASE UNCHANGED <<session, ctx, page, screen>>
  <2>1. UNCHANGED <<session, ctx, page, home, recs, seen, done>>
    BY <1>5 DEF screen
  <2>2. QED
    BY <1>1, <1>2, <2>1, Parts, HomeStep
<1>6. QED
  BY <1>3, <1>4, <1>5 DEF Follow

LEMMA CancelRideStep == ASSUME IInv, NEW r \in RideId, CancelRide(r) PROVE IInv'
<1>1. /\ page = RidePage("tracking", r) /\ rides[r].status \notin Closed
      /\ rides' = [rides EXCEPT ![r].status = "CANCELLED"] /\ active' = NoRide
      /\ Show(At("home"), EmptyCtx, session) /\ UNCHANGED <<booking, feedback, budget>>
  BY DEF CancelRide, Tracking
<1>2. rides[r].status # "none" /\ rides[r].status # "RIDE_COMPLETED" /\ "CANCELLED" \in Status
  BY <1>1, PageRide DEF Made, Closed, Status
<1>3. RidesFine(rides') /\ Kept(rides, rides') /\ Steady(rides, rides')
  BY <1>1, <1>2, Parts, StatusStep
<1>4. BookingsFine(booking', rides') /\ FeedbackFine(feedback', rides')
  BY <1>1, <1>3, Parts, BookingsKept, FeedbackKept
<1>5. At("home") \in Page /\ PageMade(At("home"), rides) /\ RideMade(active', rides')
  BY <1>1, PageNames DEF PageMade, At, RideMade, MaybeRide
<1>6. budget' \in Budget
  BY <1>1, Parts
<1>7. QED
  BY <1>1, <1>3, <1>4, <1>5, <1>6, EmptyFine, Parts, ShowStep

LEMMA SearchAgainStep == ASSUME IInv, NEW r \in RideId, SearchAgain(r) PROVE IInv'
<1>1. UNCHANGED <<booking, feedback, rides, budget>> /\ active' = NoRide
  BY DEF SearchAgain
<1>2. RideMade(active', rides)
  BY <1>1, Cleared
<1>3. "home" \in PublicPages \cup ProtectedPages /\ "activity" \in PublicPages \cup ProtectedPages
  BY DEF ProtectedPages
<1>4. [ctx EXCEPT !.est = NoRoute] \in Context
  BY Parts DEF Context, MaybeRoute
<1>5. CASE Show(At("home"), [ctx EXCEPT !.est = NoRoute], session)
  BY <1>1, <1>2, <1>3, <1>4, <1>5, Parts, ShowPlain
<1>6. CASE Show(At("activity"), ctx, session)
  BY <1>1, <1>2, <1>3, <1>6, Parts, ShowPlain
<1>7. QED
  BY <1>5, <1>6 DEF SearchAgain

LEMMA LoadDetailStep == ASSUME IInv, NEW r \in RideId, LoadDetail(r) PROVE IInv'
<1> DEFINE d == [status |-> rides[r].status, acked |-> rides[r].acked, feedback |-> rides[r].feedback,
                 sending |-> done.sending]
<1>1. page = RidePage("complete", r) /\ active' = NoRide /\ UNCHANGED <<booking, feedback, rides, budget>>
  BY DEF LoadDetail, Completed
<1>2. d \in Detail
  BY Parts, RowTyped DEF Detail
<1>3. RideMade(active', rides)
  BY <1>1, Cleared
<1>4. CASE done' = d /\ ctx' = EmptyCtx /\ UNCHANGED <<session, page, home, recs, seen>>
  <2>1. d.status = "RIDE_COMPLETED" => page.name = "complete" /\ Over(rides, page.ride)
    BY <1>1 DEF Over, RidePage
  <2> HIDE DEF d
  <2>2. DoneFine(done', page, rides)
    BY <1>2, <1>4, <2>1 DEF DoneFine
  <2>3. Screen(session', page', ctx', home', recs', seen', done', rides')
    BY <1>1, <1>4, <2>2, EmptyFine, Parts DEF Screen
  <2>4. Rest(active', booking', feedback', rides', budget')
    BY <1>1, <1>3, Parts DEF Rest
  <2>5. QED
    BY <2>3, <2>4, Assembled
<1>5. CASE Show(At("activity"), EmptyCtx, session)
  <2>1. "activity" \in PublicPages \cup ProtectedPages
    BY DEF ProtectedPages
  <2>2. QED
    BY <1>1, <1>3, <1>5, <2>1, EmptyFine, Parts, ShowPlain
<1>6. CASE Show(RidePage("tracking", r), EmptyCtx, session)
  <2>1. RidePage("tracking", r) \in Page /\ PageMade(RidePage("tracking", r), rides)
    BY <1>1, PageRide
  <2>2. QED
    BY <1>1, <1>3, <1>6, <2>1, EmptyFine, Parts, ShowOnly
<1>7. QED
  BY <1>4, <1>5, <1>6 DEF LoadDetail

\* A step of the calls and of whether the page waits for its rating.
LEMMA SendingStep ==
    ASSUME IInv, NEW x \in BOOLEAN, done' = [done EXCEPT !.sending = x], FeedbackFine(feedback', rides),
           UNCHANGED <<session, ctx, active, page, home, recs, seen, booking, rides>>, budget' \in Budget
    PROVE  IInv'
<1>1. DoneFine(done', page, rides)
  BY Parts DEF DoneFine, Detail
<1>2. Screen(session', page', ctx', home', recs', seen', done', rides')
  BY <1>1, Parts DEF Screen
<1>3. Rest(active', booking', feedback', rides', budget')
  BY Parts DEF Rest
<1>4. QED
  BY <1>2, <1>3, Assembled

LEMMA FeedbackStep == ASSUME IInv, NEW r \in RideId, Feedback(r) PROVE IInv'
<1>1. PICK b \in Buttons(done) :
         LET kind == CASE b = "rate" -> "rate"
                       [] b = "skip" -> "SKIPPED"
                       [] b = "back" -> IF done.feedback = "SUBMITTED" THEN "SUBMITTED" ELSE "seen"
         IN /\ feedback' = feedback \cup {[ride |-> r, kind |-> kind, mine |-> TRUE, writes |-> "unread"]}
            /\ done' = [done EXCEPT !.sending = done.sending \/ b = "rate"]
  BY DEF Feedback
<1> DEFINE kind == CASE b = "rate" -> "rate"
                     [] b = "skip" -> "SKIPPED"
                     [] b = "back" -> IF done.feedback = "SUBMITTED" THEN "SUBMITTED" ELSE "seen"
           f == [ride |-> r, kind |-> kind, mine |-> TRUE, writes |-> "unread"]
           x == done.sending \/ b = "rate"
<1>2. b \in {"back", "skip", "rate"} /\ done.status = "RIDE_COMPLETED"
  BY DEF Buttons
<1>3. kind \in FeedbackKind
  BY <1>2 DEF FeedbackKind
<1>4. feedback' = feedback \cup {f}
  BY <1>1
<1> HIDE DEF kind
<1>5. f \in FeedbackCall /\ f.ride = r /\ Promised(f, rides[r])
  BY <1>3 DEF FeedbackCall, Writes, Promised
<1> HIDE DEF f
<1>6. Over(rides, r)
  <2>1. page = RidePage("complete", r)
    BY DEF Feedback, Completed
  <2>2. page.ride = r
    BY <2>1 DEF RidePage
  <2>3. QED
    BY <1>2, <2>2, Parts DEF DoneFine
<1>7. FeedbackFine(feedback', rides)
  BY <1>4, <1>5, <1>6, Parts DEF FeedbackFine
<1>8. x \in BOOLEAN /\ done' = [done EXCEPT !.sending = x]
  BY <1>1, Parts DEF Detail
<1> HIDE DEF x
<1>9. UNCHANGED <<session, ctx, active, page, home, recs, seen, booking, rides, budget>>
  BY DEF Feedback
<1>10. QED
  BY <1>7, <1>8, <1>9, Parts, SendingStep

LEMMA FeedbackReadStep == ASSUME IInv, NEW f \in feedback, FeedbackRead(f) PROVE IInv'
<1> DEFINE row == rides[f.ride]
           w == IF StatusFor(row, f.kind) = row.feedback THEN "same" ELSE StatusFor(row, f.kind)
           g == [f EXCEPT !.writes = w]
<1>1. f \in FeedbackCall /\ Over(rides, f.ride) /\ f.ride \in RideId
  BY Parts DEF FeedbackFine, Over
<1>2. RowFine(row) /\ row \in RideRow
  BY <1>1, Parts DEF RidesFine
<1>3. feedback' = (feedback \ {f}) \cup {g}
  BY DEF FeedbackRead
<1>4. w \in Writes
  BY <1>1, <1>2 DEF StatusFor, Writes, RideRow, FeedbackStatus, FeedbackCall, FeedbackKind
<1>5. g \in FeedbackCall /\ g.ride = f.ride /\ g.kind = f.kind /\ g.writes = w
  BY <1>1, <1>4 DEF FeedbackCall
<1> HIDE DEF g
<1>6. Promised(g, row)
  BY <1>1, <1>2, <1>5, ReadPromises
<1>7. FeedbackFine(feedback', rides)
  BY <1>1, <1>3, <1>5, <1>6, Parts DEF FeedbackFine
<1>8. UNCHANGED <<session, ctx, active, page, screen, booking, rides, budget>>
  BY DEF FeedbackRead
<1>9. QED
  BY <1>7, <1>8, Parts, CallsStep

\* A rating that is committed leaves the promises of the others: skips that have
\* read the ride are what `crossed` remembers.
LEMMA FeedbackCommitStep == ASSUME IInv, NEW f \in feedback, FeedbackCommit(f) PROVE IInv'
<1> DEFINE r == f.ride
           row == rides[r]
           over == Skipping(r) # {}
           new == NewRow(row, f.kind, f.writes, over)
           g == [f EXCEPT !.writes = "answered"]
<1>1. f \in FeedbackCall /\ Over(rides, r) /\ r \in RideId /\ Promised(f, row)
  BY Parts DEF FeedbackFine, Over
<1>2. f.writes \in {"same", "SKIPPED", "SUBMITTED"}
  BY <1>1 DEF FeedbackCommit, FeedbackCall, Writes
<1>3. rides' = [rides EXCEPT ![r] = new]
  BY DEF FeedbackCommit, Recorded, NewRow
<1>4. RowFine(row) /\ row \in RideRow /\ row.status = "RIDE_COMPLETED" /\ over \in BOOLEAN
  BY <1>1, Parts DEF RidesFine, Over
<1> HIDE DEF row, over
<1>5. RowFine(new) /\ new.status = "RIDE_COMPLETED"
  BY <1>1, <1>2, <1>4, NewRowFine
<1>6. new.rated = (row.rated \/ f.kind = "rate") /\ new.crossed = (row.crossed \/ (f.kind = "rate" /\ over))
  BY <1>1, <1>2, <1>4, NewRowIs
<1> HIDE DEF new
<1>7. RidesFine(rides') /\ Kept(rides, rides')
  BY <1>1, <1>3, <1>4, <1>5, Parts, RowStep DEF row
<1>8. \A x \in RideId : rides'[x] = IF x = r THEN new ELSE rides[x]
  BY <1>1, <1>3, Parts DEF RidesFine
<1>9. ASSUME NEW h \in feedback PROVE h \in FeedbackCall /\ Over(rides', h.ride) /\ Promised(h, rides'[h.ride])
  <2>1. h \in FeedbackCall /\ Over(rides, h.ride) /\ h.ride \in RideId /\ Promised(h, rides[h.ride])
    BY Parts DEF FeedbackFine, Over
  <2>2. Over(rides', h.ride)
    BY <1>7, <2>1, OverKept
  <2>3. CASE h.ride # r
    BY <1>8, <2>1, <2>2, <2>3
  <2>4. CASE h.ride = r
    <3>1. h.writes = "SKIPPED" => over
      BY <2>4 DEF Skipping, over
    <3>2. Promised(h, row)
      BY <2>1, <2>4 DEF row
    <3>3. Promised(h, new)
      BY <1>6, <3>1, <3>2 DEF Promised
    <3>4. QED
      BY <1>8, <2>1, <2>2, <2>4, <3>3
  <2>5. QED
    BY <2>3, <2>4
<1>10. g \in FeedbackCall /\ g.ride = r /\ g.writes = "answered"
  BY <1>1 DEF FeedbackCall, Writes
<1>11. feedback' \subseteq feedback \cup {g}
  BY DEF FeedbackCommit
<1> HIDE DEF g
<1>12. Promised(g, rides'[r]) /\ Over(rides', r)
  BY <1>1, <1>7, <1>10, OverKept DEF Promised
<1> HIDE DEF r
<1>13. FeedbackFine(feedback', rides')
  BY <1>9, <1>10, <1>11, <1>12 DEF FeedbackFine
<1>14. UNCHANGED <<session, ctx, active, page, screen, booking, budget>>
  BY DEF FeedbackCommit
<1>15. BookingsFine(booking', rides') /\ budget' \in Budget
  BY <1>7, <1>14, Parts, BookingsKept
<1>16. QED
  BY <1>7, <1>13, <1>14, <1>15, ServiceStep

LEMMA FeedbackAnswerStep == ASSUME IInv, NEW f \in feedback, FeedbackAnswer(f) PROVE IInv'
<1> DEFINE g == [f EXCEPT !.kind = "confirm", !.writes = "unread"]
<1>1. f \in FeedbackCall /\ Over(rides, f.ride)
  BY Parts DEF FeedbackFine
<1>2. g \in FeedbackCall /\ g.ride = f.ride /\ g.writes = "unread"
  BY <1>1 DEF FeedbackCall, FeedbackKind, Writes
<1>3. feedback' \subseteq feedback \cup {g}
  BY DEF FeedbackAnswer
<1> HIDE DEF g
<1>4. FeedbackFine(feedback', rides)
  BY <1>1, <1>2, <1>3, Parts DEF FeedbackFine, Promised
<1>5. UNCHANGED <<active, booking, rides, budget>>
  BY DEF FeedbackAnswer
<1>6. FeedbackFine(feedback', rides') /\ Kept(rides, rides') /\ RidesFine(rides')
  BY <1>4, <1>5, Parts, KeptSame
<1>7. BookingsFine(booking', rides') /\ RideMade(active', rides') /\ budget' \in Budget
  BY <1>5, Parts
<1>8. CASE Show(At("activity"), ctx, session)
  <2>1. At("activity") \in Page /\ PageMade(At("activity"), rides)
    BY PageNames DEF PageMade, At
  <2>2. QED
    BY <1>6, <1>7, <1>8, <2>1, Parts, ShowStep
<1>9. CASE UNCHANGED <<session, ctx, page, screen>>
  <2>1. UNCHANGED <<session, ctx, active, page, screen>>
    BY <1>5, <1>9
  <2>2. QED
    BY <1>6, <1>7, <2>1, ServiceStep
<1>10. QED
  BY <1>8, <1>9 DEF FeedbackAnswer

LEMMA FeedbackLostStep == ASSUME IInv, NEW f \in feedback, FeedbackLost(f) PROVE IInv'
<1> DEFINE g == [f EXCEPT !.mine = FALSE]
           x == done.sending /\ f.kind \notin {"rate", "confirm"}
<1>1. f \in FeedbackCall /\ Over(rides, f.ride) /\ Promised(f, rides[f.ride])
  BY Parts DEF FeedbackFine
<1>2. g \in FeedbackCall /\ g.ride = f.ride /\ g.writes = f.writes /\ g.kind = f.kind
  BY <1>1 DEF FeedbackCall
<1>3. feedback' \subseteq feedback \cup {g}
  BY DEF FeedbackLost
<1> HIDE DEF g
<1>4. FeedbackFine(feedback', rides)
  BY <1>1, <1>2, <1>3, Parts DEF FeedbackFine, Promised
<1>5. x \in BOOLEAN /\ done' = [done EXCEPT !.sending = x]
  BY Parts DEF FeedbackLost, Detail
<1> HIDE DEF x
<1>6. UNCHANGED <<session, ctx, active, page, home, recs, seen, booking, rides>>
  BY DEF FeedbackLost
<1>7. budget' \in Budget
  BY Spent DEF FeedbackLost
<1>8. QED
  BY <1>4, <1>5, <1>6, <1>7, SendingStep

LEMMA MenuStep == ASSUME IInv, Menu PROVE IInv'
<1>1. PICK n \in {"home", "activity"} : Show(At(n), ctx, session)
  BY DEF Menu
<1>2. UNCHANGED <<active, booking, feedback, rides, budget>>
  BY DEF Menu
<1>3. n \in PublicPages \cup ProtectedPages /\ RideMade(active', rides)
  BY <1>2, Parts DEF ProtectedPages
<1>4. QED
  BY <1>1, <1>2, <1>3, Parts, ShowPlain

\* Dispatch, the driver and the administrator.
LEMMA ProgressStep == ASSUME IInv, NEW r \in RideId, Progress(r) PROVE IInv'
<1>1. PICK t \in Moves(rides[r].status) :
         /\ t = "MATCHING" => budget.redispatch > 0
         /\ rides' = [rides EXCEPT ![r].status = t]
         /\ budget' = [budget EXCEPT !.redispatch = IF t = "MATCHING" THEN @ - 1 ELSE @]
  BY DEF Progress
<1>2. t \in Status /\ rides[r].status # "RIDE_COMPLETED" /\ rides[r].status # "none"
  BY DEF Moves, Status, Progress, Exists
<1>3. RidesFine(rides') /\ Kept(rides, rides') /\ Steady(rides, rides')
  BY <1>1, <1>2, Parts, StatusStep
<1>4. UNCHANGED <<session, ctx, active, page, screen, booking, feedback>>
  BY DEF Progress
<1>5. BookingsFine(booking', rides') /\ FeedbackFine(feedback', rides')
  BY <1>3, <1>4, Parts, BookingsKept, FeedbackKept
<1>6. budget' \in Budget
  <2> DEFINE left == IF t = "MATCHING" THEN budget.redispatch - 1 ELSE budget.redispatch
  <2>1. budget' = [budget EXCEPT !.redispatch = left]
    BY <1>1
  <2>2. PICK tour \in Tours : budget \in BudgetOf(tour)
    BY Parts DEF Budget
  <2>5. MaxRedispatch \in Nat /\ budget.redispatch \in 0 .. MaxRedispatch
    BY <2>2, RiderAppAssumption DEF BudgetOf
  <2>3. left \in 0 .. MaxRedispatch
    BY <1>1, <2>5
  <2> HIDE DEF left
  <2>6. budget' \in BudgetOf(tour)
    BY <2>1, <2>2, <2>3 DEF BudgetOf
  <2>4. QED
    BY <2>6 DEF Budget
<1>7. QED
  BY <1>3, <1>4, <1>5, <1>6, ServiceStep

-----------------------------------------------------------------------------
(***************************************************************************)
(* The theorems                                                            *)
(***************************************************************************)

LEMMA InitFine == ASSUME Init PROVE IInv
<1>1. PICK stored \in BOOLEAN, expired \in BOOLEAN :
         session = [booting |-> TRUE, stored |-> stored, signedIn |-> FALSE, client |-> FALSE,
                    expired |-> expired, call |-> "none"]
  BY DEF Init
<1>2. SessionFine(session)
  BY <1>1 DEF SessionFine, SessionState
<1>3. PageFine(page, session) /\ PageMade(page, rides)
  BY <1>1, PageNames DEF Init, PageFine, PageMade, At
<1>4. ctx \in Context /\ RecsFine(recs, rides) /\ DoneFine(done, page, rides)
  BY EmptyFine, NoDetailFine DEF Init, RecsFine
<1>5. home \in HomeState
  BY DEF Init, HomeState, NoModal, MaybeRoute
<1>6. seen \in SeenState
  BY DEF Init, SeenState, MaybeStatus
<1>7. RidesFine(rides)
  <2>1. NewRide \in RideRow /\ RowFine(NewRide) /\ NewRide.status = "none"
    BY DEF NewRide, RideRow, RowFine, MaybeRoute, FeedbackStatus
  <2>2. rides = [r \in RideId |-> NewRide]
    BY DEF Init
  <2>3. MaxRides \in Nat
    BY RiderAppAssumption
  <2>4. 0 \in 0 .. MaxRides /\ \A r \in RideId : ~(r <= 0)
    BY <2>3 DEF RideId
  <2>5. Numbered(rides, 0)
    BY <2>1, <2>2, <2>4 DEF Numbered
  <2>6. QED
    BY <2>1, <2>2, <2>4, <2>5 DEF RidesFine
<1>8. RideMade(active, rides) /\ BookingsFine(booking, rides) /\ FeedbackFine(feedback, rides)
  BY Cleared DEF Init, BookingsFine, FeedbackFine
<1>9. budget \in Budget
  <2>1. PICK t \in Tours : budget = [faults |-> t.faults, calls |-> t.calls, devices |-> t.devices,
                                      redispatch |-> MaxRedispatch]
    BY DEF Init
  <2>2. t.faults \in Nat /\ MaxRedispatch \in Nat
    BY RiderAppAssumption
  <2>3. budget \in BudgetOf(t)
    BY <2>1, <2>2 DEF BudgetOf
  <2>4. QED
    BY <2>3 DEF Budget
<1>10. QED
  BY <1>2, <1>3, <1>4, <1>5, <1>6, <1>7, <1>8, <1>9 DEF IInv, Screen, Rest

LEMMA StutterStep == ASSUME IInv, UNCHANGED vars PROVE IInv'
<1>1. UNCHANGED <<session, ctx, active, page, home, recs, booking, seen, done, feedback, rides, budget>>
  BY DEF vars
<1>2. Screen(session', page', ctx', home', recs', seen', done', rides')
  BY <1>1, Parts
<1>3. Rest(active', booking', feedback', rides', budget')
  BY <1>1, Parts
<1>4. QED
  BY <1>2, <1>3, Assembled

LEMMA EffectsStep == ASSUME IInv, Effects PROVE IInv'
<1>1. CASE Boot \/ SignInAnswer \/ SignedIn \/ SignUpDone \/ LoginRedirect
  BY <1>1, BootStep, SignInAnswerStep, SignedInStep, SignUpDoneStep, LoginRedirectStep
<1>2. CASE \E q \in recs : RecoverActive(q) \/ RecoverHistory(q) \/ RecoverApply(q)
  BY <1>2, RecoverActiveStep, RecoverHistoryStep, RecoverApplyStep
<1>3. CASE SearchAnswer
  BY <1>3, SearchAnswerStep
<1>4. CASE \E b \in booking : Serve(b) \/ Booked(b) \/ BookingFails(b)
  BY <1>4, ServeStep, BookedStep, BookingFailsStep
<1>5. CASE \E r \in RideId : LoadDetail(r)
  BY <1>5, LoadDetailStep
<1>6. CASE \E f \in feedback : FeedbackRead(f) \/ FeedbackCommit(f) \/ FeedbackAnswer(f) \/ FeedbackLost(f)
  BY <1>6, FeedbackReadStep, FeedbackCommitStep, FeedbackAnswerStep, FeedbackLostStep
<1>7. QED
  BY <1>1, <1>2, <1>3, <1>4, <1>5, <1>6 DEF Effects

LEMMA RiderStep == ASSUME IInv, Rider PROVE IInv'
<1>1. CASE LogIn \/ SignUp
  BY <1>1, SubmitsStep DEF LogIn, SignUp
<1>2. CASE FlipCard \/ SignOut \/ Menu
  BY <1>2, FlipCardStep, SignOutStep, MenuStep
<1>3. CASE Locate \/ SelectAddress \/ Search \/ BookOnPhone \/ BookOnDesktop \/ Onward \/ Confirm
  BY <1>3, AddressStep, SearchStep, BookOnPhoneStep, BookOnDesktopStep, OnwardStep, ConfirmStep
<1>4. CASE \E r \in RideId : CancelRide(r) \/ SearchAgain(r) \/ Feedback(r)
  BY <1>4, CancelRideStep, SearchAgainStep, FeedbackStep
<1>5. QED
  BY <1>1, <1>2, <1>3, <1>4 DEF Rider

LEMMA NextStep == ASSUME IInv, Next PROVE IInv'
<1>1. CASE TokenExpires \/ Reload
  BY <1>1, TokenExpiresStep, ReloadStep
<1>2. CASE \E r \in RideId : Poll(r) \/ Follow(r) \/ Progress(r)
  BY <1>2, PollStep, FollowStep, ProgressStep
<1>3. QED
  BY <1>1, <1>2, EffectsStep, RiderStep DEF Next

\* The session, the screen, the calls in flight and the rides fit together in
\* every state that is reached.
THEOREM RiderInductive == Spec => []IInv
<1>1. Init => IInv
  BY InitFine
<1>2. IInv /\ [Next]_vars => IInv'
  BY NextStep, StutterStep
<1>3. QED
  BY <1>1, <1>2, PTL DEF Spec

\* The types of the tab, of its calls and of the service's rides.
THEOREM RiderTypesHold == Spec => []TypeOK
<1>1. IInv => TypeOK
  <2>1. ASSUME IInv PROVE recs \subseteq Recovery
    BY <2>1, Parts DEF RecsFine, RecFine
  <2>2. ASSUME IInv PROVE booking \subseteq BookingType
    BY <2>2, Parts DEF BookingsFine, BookingFine
  <2>3. ASSUME IInv PROVE feedback \subseteq FeedbackCall
    BY <2>3, Parts DEF FeedbackFine
  <2>4. ASSUME IInv PROVE active \in MaybeRide /\ rides \in [RideId -> RideRow]
    BY <2>4, Parts DEF RideMade, RidesFine
  <2>5. QED
    BY <2>1, <2>2, <2>3, <2>4, Parts
    DEF TypeOK, BookingType, FeedbackCall, MaybeRide, MaybeStatus, SeenState, Detail, Budget, BudgetOf
<1>2. QED
  BY <1>1, RiderInductive, PTL

\* In whatever order feedback calls are read, committed and answered
\* (submit_rider_feedback and acknowledge_completion take no lock), only a skip that
\* had read the trip unrated can call a rated trip skipped; nothing else comes apart.
THEOREM FeedbackConsistentHolds == Spec => []FeedbackConsistent
<1>1. IInv => FeedbackConsistent
  BY Parts DEF FeedbackConsistent, RidesFine, RowFine
<1>2. QED
  BY <1>1, RiderInductive, PTL

\* The copies of the sign-in in the storage, in React and in the API client
\* agree, and a protected screen is shown to nobody else.
THEOREM SessionAgreesHolds == Spec => []SessionAgrees
<1>1. IInv => SessionAgrees
  BY Parts DEF SessionAgrees, SessionFine, PageFine
<1>2. QED
  BY <1>1, RiderInductive, PTL
=============================================================================
