-------------------------- MODULE TripRecords_proofs --------------------------
(***************************************************************************)
(* Proofs about TripRecords, for any number of rides, any size of a page   *)
(* of them, and any clicks, steps of the rides and failed reads: the       *)
(* types, that a page shows what was asked for, and that the sums are the  *)
(* same as far as the lists go from which they are made.                   *)
(*                                                                         *)
(* A read has two steps and its answer is looked at long afterwards, beside*)
(* others.  The inductive invariant therefore says what every read under   *)
(* way, and every entry held, has to do with the rides as they are now:    *)
(* money that it counts was earned, also if it was read earlier; and if no *)
(* ride has moved since it was sent, it repeats what the services know     *)
(* (ReadNow, EntryNow).  Entries of one and the same earlier moment agree  *)
(* because they agreed with the rides when the later one came.             *)
(***************************************************************************)
EXTENDS TripRecords, TLAPS, FiniteSetTheorems, WellFoundedInduction

RideRow == [status : Status, driven : BOOLEAN, day : Nat, done : Nat]
Known(rs) == {r \in Rides : rs[r].status # "none"}
Earned(rs) == {r \in Rides : rs[r].status = "RIDE_COMPLETED"}

World(rs, td, m) == rs \in [Rides -> RideRow] /\ td \in Nat /\ m \in Nat

TourFine(t) ==
  /\ t.viewer \in {"rider", "driver"} /\ t.size \in Nat \ {0}
  /\ t.recent \in Nat /\ t.summed \in Nat /\ t.recent <= t.summed

\* The first n of some rides, in an order: the lists that services cut off.
First(S, R, n) == {r \in S : Cardinality({s \in S : <<s, r>> \in R}) < n}
Newer == {p \in Rides \X Rides : p[1] > p[2]}
PaidLater(rs) ==
  {p \in Rides \X Rides : rs[p[1]].done > rs[p[2]].done \/ (rs[p[1]].done = rs[p[2]].done /\ p[1] > p[2])}
Order(R) ==
  /\ \A r \in Rides : <<r, r>> \notin R
  /\ \A q, r, s \in Rides : <<q, r>> \in R /\ <<r, s>> \in R => <<q, s>> \in R

PageOf(S, t) == First(S, Newer, t.size)
LastPaid(rs, n) == First(Earned(rs), PaidLater(rs), n)
Screen(t, p, o, s) ==
  p \in (IF t.viewer = "rider" THEN RiderPages ELSE DriverPages) /\ o \in Options /\ s \in {None} \cup Rides

\* What is sent for a key, and kept under it, was asked with the key's filters.
AskFits(k, a) ==
  /\ a \in Options
  /\ k[1] = "activity" => a.activity = k[2]
  /\ k[1] = "trips" => a.status = k[2] /\ a.period = k[3]

\* A row of a ride, its fare, one row for each ride.
RowsFine(rows, items, rs) ==
  /\ \A x \in rows : x \in Row /\ x.ride \in DOMAIN items /\ (x.fare => x.ride \in Earned(rs))
  /\ \A x, y \in rows : x.ride = y.ride => x = y

ItemsFine(items, rs, t) ==
  /\ items \in [DOMAIN items -> [status : Status, paid : BOOLEAN]]
  /\ DOMAIN items \in SUBSET Rides /\ Cardinality(DOMAIN items) <= t.size
  /\ \A r \in DOMAIN items : items[r].paid => r \in Earned(rs)

\* What a list and the rows read so far say while no ride has moved.
ReadNow(k, rd, rs, t) ==
  /\ rd.total = Cardinality(Known(rs))
  /\ k[1] # "detail" => DOMAIN rd.items = PageOf(Known(rs), t)
  /\ \A r \in DOMAIN rd.items :
       rd.items[r].status = rs[r].status /\ (rd.items[r].paid <=> r \in Earned(rs))
  /\ \A x \in rd.rows : x.status = rs[x.ride].status /\ (x.fare <=> x.ride \in Earned(rs))

ReadFine(k, rd, rs, m, t) ==
  /\ rd \in Reads /\ AskFits(k, rd.ask) /\ rd.from <= m
  /\ rd.items = None => rd.rows = {} /\ rd.total = 0
  /\ rd.items # None =>
       /\ k[1] \in Listed /\ ItemsFine(rd.items, rs, t) /\ RowsFine(rd.rows, rd.items, rs)
       /\ t.viewer = "rider" /\ rd.from = m => ReadNow(k, rd, rs, t)

\* What an entry says while no ride has moved since its read was sent.
EntryNow(k, e, rs, t) ==
  /\ k \in Counted => e.total \in {None, Cardinality(Known(rs))}
  /\ k \in Paged =>
       /\ e.total = Cardinality(PageOf(Known(rs), t))
       /\ e.spent = Earned(rs) \cap PageOf(Known(rs), t)
  /\ k \in Summaries =>
       e.total = Cardinality(LastPaid(rs, t.summed)) /\ e.spent = LastPaid(rs, t.summed)
  /\ k = RecentPayments => e.spent = LastPaid(rs, t.recent)

EntryFine(k, e, rs, m, t) ==
  /\ e \in Entries /\ AskFits(k, e.ask)
  /\ e.from <= e.upto /\ e.upto <= m /\ Cardinality(e.rows) <= t.size
  /\ k[1] # "profile" => e.total \in Nat /\ e.spent \in SUBSET Earned(rs)
  /\ t.viewer = "rider" /\ e.from = m => EntryNow(k, e, rs, t)

\* What the query client holds under each key.
OnKeys(f) == f = [k \in Keys |-> f[k]]
ReadsFine(rd, rs, m, t) == OnKeys(rd) /\ \A k \in Keys : rd[k] = None \/ ReadFine(k, rd[k], rs, m, t)
StoreFine(st, rs, m, t) == OnKeys(st) /\ \A k \in Keys : st[k] = None \/ EntryFine(k, st[k], rs, m, t)

\* Two entries of one moment.
Together(st, k, l) ==
  /\ st[k] # None /\ st[l] # None
  /\ st[k].from = st[k].upto /\ st[l].from = st[l].upto /\ st[k].from = st[l].from
Agree(st, t) ==
  t.viewer = "rider" =>
  /\ \A k, l \in Counted :
       Together(st, k, l) /\ None \notin {st[k].total, st[l].total} => st[k].total = st[l].total
  /\ \A k \in Paged, l \in Counted :
       Together(st, k, l) /\ st[l].total # None => st[k].total = UpTo(t.size, st[l].total)
  /\ \A k, l \in Paged : Together(st, k, l) => st[k].spent = st[l].spent
  /\ \A k \in Paged, l \in Summaries : Together(st, k, l) /\ st[l].total < t.summed =>
       /\ st[k].spent \subseteq st[l].spent
       /\ st[k].total < t.size => st[k].spent = st[l].spent
  /\ \A l \in Summaries : Together(st, RecentPayments, l) =>
       /\ st[RecentPayments].spent \subseteq st[l].spent
       /\ st[l].total <= t.recent => st[RecentPayments].spent = st[l].spent

Marks(bd, jn, sn, m) == bd \subseteq Keys /\ jn \subseteq Keys /\ sn \in [Keys -> 0..m]

\* The trip selected beside a rider's trips.
Follows(t, p, o, st, s) ==
  t.viewer = "rider" /\ p = "trips" =>
    IF RidesOf(TripsShown(p, o, st)) = {} THEN s = None ELSE s \in RidesOf(TripsShown(p, o, st))

\* A key in use holds something read since, or is being read, or its read
\* failed; unless the read is one that was under way before.
Recent(k, st, rd, bd, sn, jn) ==
  /\ rd[k] # None /\ k \notin jn => rd[k].from >= sn[k]
  /\ rd[k] = None /\ k \notin bd \cup jn => st[k] # None /\ st[k].from >= sn[k]

\* OpenKeys, of a tour: the keys that the person's page is using.
InUse(t, p, o, s) ==
  CASE p = "activity" -> {<<"stats", "-", "-">>, <<"activity", o.activity, "-">>}
    [] p = "spending" -> {<<"spending", "-", o.period>>, <<"payments", "-", "-">>}
    [] p = "insights" -> {<<"insights", "-", "-">>}
    [] p = "profile"  -> {<<"profile", "-", "-">>}
    [] p = "earnings" -> {TripsKey(o), <<"earnings", "-", o.period>>}
    [] p = "performance" -> {TripsKey(o), <<"performance", "-", "-">>}
    [] OTHER -> {TripsKey(o)} \cup {k \in DetailKeys : t.viewer = "driver" /\ k[2] = s}

UpToDate(t, p, o, s, st, rd, bd, sn, jn) == \A k \in InUse(t, p, o, s) : Recent(k, st, rd, bd, sn, jn)

IInv ==
  /\ TourFine(tour) /\ World(rides, today, moves) /\ Screen(tour, page, opt, selected)
  /\ ReadsFine(reads, rides, moves, tour) /\ StoreFine(store, rides, moves, tour) /\ Agree(store, tour)
  /\ Marks(bad, joined, since, moves) /\ Follows(tour, page, opt, store, selected)
  /\ UpToDate(tour, page, opt, selected, store, reads, bad, since, joined)

----------------------------------------------------------------------------
(* Sets of rides, and the first page of them.                              *)

LEMMA RidesFinite ==
  ASSUME NEW S \in SUBSET Rides
  PROVE  IsFiniteSet(S) /\ Cardinality(S) \in Nat
  <1>1. MaxRides \in Int /\ 1 \in Int
    BY RecordsAssumption
  <1>2. IsFiniteSet(Rides)
    BY <1>1, FS_Interval DEF Rides
  <1>3. IsFiniteSet(S)
    BY <1>2, FS_Subset
  <1> QED BY <1>3, FS_CardinalityType

LEMMA Least ==
  ASSUME NEW S \in SUBSET Nat, S # {}
  PROVE  \E r \in S : \A s \in S : r <= s
  <1> DEFINE Below == OpToRel(<, Nat)
  <1>1. IsWellFoundedOn(Below, Nat)
    BY NatLessThanWellFounded
  <1>2. PICK r \in S : \A s \in S : ~(<<s, r>> \in Below)
    <2> HIDE DEF Below
    <2> QED BY <1>1, WFMin
  <1>3. \A y, z \in Nat : y < z => <<y, z>> \in Below
    BY DEF OpToRel
  <1> HIDE DEF Below
  <1>4. \A s \in S : s \in Nat /\ r \in Nat /\ ~(s < r)
    BY <1>2, <1>3
  <1>5. \A s \in S : r <= s
    BY <1>4
  <1> QED BY <1>5

LEMMA Greatest ==
  ASSUME NEW S \in SUBSET Rides, S # {}
  PROVE  \E r \in S : \A s \in S : s <= r
  <1> DEFINE T == {MaxRides - r : r \in S}
  <1>1. MaxRides \in Nat /\ \A r \in S : r \in Nat /\ MaxRides - r \in Nat
    BY RecordsAssumption DEF Rides
  <1>2. PICK x \in T : \A y \in T : x <= y
    <2>1. T \in SUBSET Nat /\ T # {}
      BY <1>1
    <2> HIDE DEF T
    <2> QED BY <2>1, Least
  <1>3. PICK r \in S : x = MaxRides - r
    OBVIOUS
  <1>4. ASSUME NEW s \in S PROVE s <= r
    <2>1. MaxRides - r <= MaxRides - s
      BY <1>2, <1>3
    <2> QED BY <1>1, <2>1
  <1> QED BY <1>4

LEMMA Orders ==
  /\ Order(Newer)
  /\ \A rs \in [Rides -> RideRow] : Order(PaidLater(rs))
  <1>1. \A q \in Rides : q \in Nat
    BY RecordsAssumption DEF Rides
  <1>2. Order(Newer)
    <2>1. \A q, r \in Rides : <<q, r>> \in Newer <=> q > r
      BY DEF Newer
    <2> QED BY <1>1, <2>1 DEF Order
  <1>3. ASSUME NEW rs \in [Rides -> RideRow] PROVE Order(PaidLater(rs))
    <2>1. \A q, r \in Rides : <<q, r>> \in PaidLater(rs) <=>
            rs[q].done > rs[r].done \/ (rs[q].done = rs[r].done /\ q > r)
      BY DEF PaidLater
    <2>2. \A q \in Rides : rs[q].done \in Nat
      BY DEF RideRow
    <2> QED BY <1>1, <2>1, <2>2 DEF Order
  <1> QED BY <1>2, <1>3

\* What comes before a ride comes with less before it.
LEMMA FewerBefore ==
  ASSUME NEW S \in SUBSET Rides, NEW R, Order(R), NEW r \in S, NEW s \in S, <<s, r>> \in R
  PROVE  /\ Cardinality({q \in S : <<q, s>> \in R}) < Cardinality({q \in S : <<q, r>> \in R})
         /\ Cardinality({q \in S : <<q, s>> \in R}) \in Nat
         /\ Cardinality({q \in S : <<q, r>> \in R}) \in Nat
  <1> DEFINE A == {q \in S : <<q, s>> \in R}
             B == {q \in S : <<q, r>> \in R}
  <1>1. A \in SUBSET B /\ s \in B /\ s \notin A
    BY DEF Order
  <1>2. A \in SUBSET Rides /\ B \in SUBSET Rides
    OBVIOUS
  <1> HIDE DEF A, B
  <1>3. IsFiniteSet(B) /\ Cardinality(A) \in Nat /\ Cardinality(B) \in Nat
    BY <1>2, RidesFinite
  <1>4. Cardinality(A) <= Cardinality(B) /\ Cardinality(A) # Cardinality(B)
    BY <1>1, <1>3, FS_Subset
  <1>5. Cardinality(A) < Cardinality(B)
    BY <1>3, <1>4
  <1> QED BY <1>3, <1>5 DEF A, B

\* A list cut off has its full length: what is before the first ride left out
\* is on it.
LEMMA CutIsFull ==
  ASSUME NEW S \in SUBSET Rides, NEW R, Order(R), NEW n \in Nat, First(S, R, n) # S
  PROVE  Cardinality(First(S, R, n)) >= n
  <1> DEFINE P == First(S, R, n)
             before(r) == {q \in S : <<q, r>> \in R}
             counts == {Cardinality(before(r)) : r \in S \ P}
  <1>1. P \in SUBSET S /\ S \ P # {}
    BY DEF First
  <1>2. \A r \in S : before(r) \in SUBSET Rides /\ Cardinality(before(r)) \in Nat
    BY RidesFinite
  <1>3. counts \in SUBSET Nat /\ counts # {}
    BY <1>1, <1>2
  <1>4. PICK c \in counts : \A d \in counts : c <= d
    <2> HIDE DEF counts
    <2> QED BY <1>3, Least
  <1>5. PICK r \in S \ P : c = Cardinality(before(r))
    OBVIOUS
  <1>6. Cardinality(before(r)) >= n
    BY <1>2, <1>5 DEF First
  <1>7. before(r) \in SUBSET P
    <2> SUFFICES ASSUME NEW s \in S, <<s, r>> \in R, s \notin P PROVE FALSE
      OBVIOUS
    <2>1. Cardinality(before(s)) < Cardinality(before(r)) /\ Cardinality(before(s)) \in Nat
      BY <1>5, FewerBefore
    <2>2. Cardinality(before(s)) \in counts
      OBVIOUS
    <2> HIDE DEF before, counts, P
    <2> QED BY <1>2, <1>4, <1>5, <2>1, <2>2
  <1>8. IsFiniteSet(P) /\ Cardinality(P) \in Nat
    <2>1. P \in SUBSET Rides
      BY <1>1
    <2> QED BY <2>1, RidesFinite
  <1> HIDE DEF P
  <1>9. Cardinality(before(r)) <= Cardinality(P)
    BY <1>7, <1>8, FS_Subset
  <1>10. Cardinality(before(r)) \in Nat
    BY <1>2, <1>5
  <1> HIDE DEF before
  <1> QED BY <1>6, <1>8, <1>9, <1>10 DEF P

\* The shorter of two lists is part of the longer one, and all of it where the
\* longer one would fit in it.
LEMMA ShorterList ==
  ASSUME NEW S \in SUBSET Rides, NEW R, Order(R), NEW m \in Nat, NEW n \in Nat, m <= n
  PROVE  /\ First(S, R, m) \subseteq First(S, R, n)
         /\ Cardinality(First(S, R, n)) <= m => First(S, R, m) = First(S, R, n)
  <1> DEFINE before(r) == {q \in S : <<q, r>> \in R}
             P == First(S, R, n)
  <1>1. \A r \in S : before(r) \in SUBSET Rides /\ Cardinality(before(r)) \in Nat
    BY RidesFinite
  <1>2. First(S, R, m) \subseteq P
    BY <1>1 DEF First
  <1>3. ASSUME Cardinality(P) <= m, NEW r \in P PROVE r \in First(S, R, m)
    <2>1. r \in S /\ Cardinality(before(r)) < n
      BY <1>3 DEF First
    <2>2. before(r) \in SUBSET P
      <3> SUFFICES ASSUME NEW s \in S, <<s, r>> \in R PROVE Cardinality(before(s)) < n
        BY DEF First
      <3>1. Cardinality(before(s)) < Cardinality(before(r))
        BY <2>1, FewerBefore
      <3> HIDE DEF before
      <3> QED BY <1>1, <2>1, <3>1
    <2>3. r \notin before(r)
      BY <2>1 DEF Order
    <2>4. P \in SUBSET Rides
      BY DEF First
    <2>5. IsFiniteSet(P) /\ Cardinality(P) \in Nat
      BY <2>4, RidesFinite
    <2> HIDE DEF P
    <2>6. Cardinality(before(r)) <= Cardinality(P) /\ Cardinality(before(r)) # Cardinality(P)
      BY <1>3, <2>2, <2>3, <2>5, FS_Subset
    <2>7. Cardinality(before(r)) < m
      <3> HIDE DEF before
      <3> QED BY <1>1, <1>3, <2>1, <2>5, <2>6
    <2> QED BY <2>1, <2>7 DEF First
  <1> QED BY <1>2, <1>3

LEMMA PageRides ==
  \A S \in SUBSET Rides : FirstPage(S) = PageOf(S, tour)
  <1>1. ASSUME NEW S \in SUBSET Rides PROVE FirstPage(S) = PageOf(S, tour)
    <2>1. \A r \in S : {s \in S : s > r} = {s \in S : <<s, r>> \in Newer}
      BY DEF Newer
    <2> QED BY <2>1 DEF FirstPage, PageOf, First
  <1> QED BY <1>1

\* A page is no longer than asked for: what is above its last ride is shorter.
LEMMA PageSize ==
  ASSUME NEW t, TourFine(t), NEW S \in SUBSET Rides
  PROVE  PageOf(S, t) \in SUBSET S /\ Cardinality(PageOf(S, t)) <= t.size
  <1> DEFINE P == PageOf(S, t)
  <1>1. P \in SUBSET S /\ P \in SUBSET Rides /\ t.size \in Nat \ {0}
    BY DEF PageOf, First, TourFine
  <1>2. CASE P = {}
    BY <1>1, <1>2, FS_EmptySet
  <1>3. CASE P # {}
    <2>1. P \in SUBSET Nat
      BY <1>1 DEF Rides
    <2>2. PICK l \in P : \A s \in P : l <= s
      BY <1>3, <2>1, Least
    <2> DEFINE A == {s \in S : <<s, l>> \in Newer}
    <2>3. Cardinality(A) < t.size
      BY <2>2 DEF PageOf, First
    <2>4. A \in SUBSET Rides /\ IsFiniteSet(A) /\ Cardinality(A) \in Nat
      BY RidesFinite
    <2>5. P \in SUBSET (A \cup {l})
      BY <1>1, <2>1, <2>2 DEF Newer
    <2> HIDE DEF A, P
    <2>6. IsFiniteSet(A \cup {l}) /\ Cardinality(A \cup {l}) <= Cardinality(A) + 1
      <3>1. /\ IsFiniteSet(A \cup {l})
            /\ Cardinality(A \cup {l}) = IF l \in A THEN Cardinality(A) ELSE Cardinality(A) + 1
        BY <2>4, FS_AddElement
      <3> QED BY <2>4, <3>1
    <2>7. Cardinality(P) <= Cardinality(A \cup {l}) /\ Cardinality(P) \in Nat
      BY <1>1, <2>5, <2>6, FS_Subset, RidesFinite
    <2>8. Cardinality(A \cup {l}) \in Nat
      BY <2>6, FS_CardinalityType
    <2> QED BY <1>1, <2>3, <2>4, <2>6, <2>7, <2>8 DEF P
  <1> QED BY <1>2, <1>3

\* It has as many rides as there are, up to the length of a page.
LEMMA PageLength ==
  ASSUME NEW t, TourFine(t), NEW S \in SUBSET Rides
  PROVE  /\ Cardinality(PageOf(S, t)) = UpTo(t.size, Cardinality(S))
         /\ Cardinality(PageOf(S, t)) < t.size => PageOf(S, t) = S
  <1>1. PageOf(S, t) \in SUBSET S /\ Cardinality(PageOf(S, t)) <= t.size
    BY PageSize
  <1>2. PageOf(S, t) # S => Cardinality(PageOf(S, t)) >= t.size
    BY Orders, CutIsFull DEF PageOf, TourFine
  <1>3. PageOf(S, t) \in SUBSET Rides
    BY <1>1
  <1>4. Cardinality(S) \in Nat /\ IsFiniteSet(S) /\ Cardinality(PageOf(S, t)) \in Nat /\ t.size \in Nat
    BY <1>3, RidesFinite DEF TourFine
  <1>5. PageOf(S, t) # S => Cardinality(PageOf(S, t)) <= Cardinality(S) /\ Cardinality(PageOf(S, t)) # Cardinality(S)
    BY <1>1, <1>4, FS_Subset
  <1> QED BY <1>1, <1>2, <1>4, <1>5 DEF UpTo

\* There is a first page if there is anything.
LEMMA PageNotEmpty ==
  ASSUME TourFine(tour), NEW S \in SUBSET Rides, FirstPage(S) = {}
  PROVE  S = {}
  <1>1. PageOf(S, tour) = {} /\ tour.size \in Nat \ {0}
    BY PageRides DEF TourFine
  <1>2. Cardinality(PageOf(S, tour)) = 0
    BY <1>1, FS_EmptySet
  <1> QED BY <1>1, <1>2, PageLength

\* One row for each of some rides: there are no more rows than rides.
LEMMA RowsCount ==
  ASSUME NEW D \in SUBSET Rides, NEW rows, \A x \in rows : x.ride \in D,
         \A x, y \in rows : x.ride = y.ride => x = y
  PROVE  Cardinality(rows) <= Cardinality(D) /\ Cardinality(rows) \in Nat
  <1> DEFINE f == [x \in rows |-> x.ride]
  <1>1. f \in Injection(rows, D)
    BY DEF Injection, IsInjective
  <1>2. IsFiniteSet(D)
    BY RidesFinite
  <1> HIDE DEF f
  <1>3. IsFiniteSet(rows) /\ Cardinality(rows) <= Cardinality(D)
    BY <1>1, <1>2, FS_Injection
  <1> QED BY <1>3, FS_CardinalityType

\* And there are as many as the rides they are of.
LEMMA RowsAndRides ==
  ASSUME NEW D \in SUBSET Rides, NEW rows, \A x \in rows : x.ride \in D,
         \A x, y \in rows : x.ride = y.ride => x = y
  PROVE  Cardinality(rows) = Cardinality(RidesOf(rows))
  <1> DEFINE f == [x \in rows |-> x.ride]
  <1>1. IsFiniteSet(rows)
    <2>1. f \in Injection(rows, D)
      BY DEF Injection, IsInjective
    <2> HIDE DEF f
    <2> QED BY <2>1, RidesFinite, FS_Injection
  <1>2. f \in Bijection(rows, RidesOf(rows))
    BY DEF Bijection, Injection, Surjection, IsInjective, RidesOf
  <1> HIDE DEF f
  <1> QED BY <1>1, <1>2, FS_Bijection DEF ExistsBijection

----------------------------------------------------------------------------
(* Keys.                                                                   *)

LEMMA OpenKeysInUse ==
  \A p, o, s : OpenKeys(p, o, s) = InUse(tour, p, o, s)
  BY DEF OpenKeys, InUse

LEMMA OptionFields ==
  ASSUME NEW o \in Options
  PROVE  o.activity \in ActivityFilters /\ o.status \in StatusFilters /\ o.period \in Periods
  BY DEF Options

LEMMA TripsKeyInKeys ==
  ASSUME NEW o \in Options
  PROVE  TripsKey(o) \in Keys
  <1>1. TripsKey(o) \in {<<"trips", f, p>> : f \in StatusFilters, p \in Periods}
    BY OptionFields DEF TripsKey
  <1> QED BY <1>1 DEF Keys

\* The keys in use are keys, and fit the filters they are asked with.
LEMMA InUseFits ==
  ASSUME NEW t, NEW p, NEW o \in Options, NEW s, NEW k \in InUse(t, p, o, s)
  PROVE  k \in Keys /\ AskFits(k, o)
  <1>1. o.activity \in ActivityFilters /\ o.status \in StatusFilters /\ o.period \in Periods
    BY OptionFields
  <1>2. CASE k = TripsKey(o)
    BY <1>2, TripsKeyInKeys DEF TripsKey, AskFits
  <1>3. CASE k \in DetailKeys
    BY <1>3 DEF DetailKeys, Keys, AskFits
  <1>4. CASE k = <<"activity", o.activity, "-">>
    <2>1. k \in {<<"activity", f, "-">> : f \in ActivityFilters}
      BY <1>1, <1>4
    <2> QED BY <1>4, <2>1 DEF Keys, AskFits
  <1>5. CASE k = <<"spending", "-", o.period>> \/ k = <<"earnings", "-", o.period>>
    <2>1. k \in {<<q, "-", x>> : q \in {"spending", "earnings"}, x \in Periods}
      BY <1>1, <1>5
    <2> QED BY <1>5, <2>1 DEF Keys, AskFits
  <1>6. CASE k \in {<<"stats", "-", "-">>, <<"payments", "-", "-">>, <<"insights", "-", "-">>,
                    <<"profile", "-", "-">>, <<"performance", "-", "-">>}
    BY <1>6 DEF Keys, AskFits
  <1> QED BY <1>2, <1>3, <1>4, <1>5, <1>6 DEF InUse

\* The rows of the trips shown are rows of rides.
LEMMA ShownRides ==
  ASSUME NEW p, NEW o \in Options, NEW st, NEW rs, NEW m, NEW t, StoreFine(st, rs, m, t)
  PROVE  RidesOf(TripsShown(p, o, st)) \in SUBSET Rides
  <1>1. CASE p = "trips" /\ st[TripsKey(o)] # None
    <2>1. st[TripsKey(o)] \in Entries
      BY <1>1, TripsKeyInKeys DEF StoreFine, EntryFine
    <2>2. TripsShown(p, o, st) \in SUBSET Row
      BY <1>1, <2>1 DEF TripsShown, Entries
    <2> QED BY <2>2 DEF RidesOf, Row
  <1>2. CASE ~(p = "trips" /\ st[TripsKey(o)] # None)
    BY <1>2 DEF TripsShown, RidesOf
  <1> QED BY <1>1, <1>2

\* RideHistoryPage's effect ends with one of the trips shown, if there are any,
\* and concerns no key: only the driver's panel reads the trip.
LEMMA ReselectFine ==
  ASSUME TourFine(tour), NEW p, NEW o \in Options, NEW st, NEW rs, NEW m, StoreFine(st, rs, m, tour),
         NEW s \in {None} \cup Rides
  PROVE  /\ Reselect(p, o, st, s) \in {None} \cup Rides
         /\ Follows(tour, p, o, st, Reselect(p, o, st, s))
         /\ InUse(tour, p, o, Reselect(p, o, st, s)) = InUse(tour, p, o, s)
  <1> DEFINE rows == TripsShown(p, o, st)
  <1>1. RidesOf(rows) \in SUBSET Rides
    BY ShownRides
  <1>2. RidesOf(rows) = {} <=> rows = {}
    BY DEF RidesOf
  <1> HIDE DEF rows
  <1>3. rows = {} => Newest(rows) = None
    BY DEF Newest
  <1>4. rows # {} => Newest(rows) \in RidesOf(rows)
    <2> SUFFICES ASSUME rows # {} PROVE Newest(rows) \in RidesOf(rows)
      OBVIOUS
    <2>1. \E r \in RidesOf(rows) : \A x \in RidesOf(rows) : x <= r
      BY <1>1, <1>2, Greatest
    <2> QED BY <2>1 DEF Newest
  <1>5. Reselect(p, o, st, s) =
          IF tour.viewer = "driver" \/ p # "trips" \/ s \in RidesOf(rows) THEN s ELSE Newest(rows)
    BY DEF Reselect, rows
  <1>6. Reselect(p, o, st, s) \in {None} \cup Rides
    BY <1>1, <1>3, <1>4, <1>5
  <1>7. Follows(tour, p, o, st, Reselect(p, o, st, s))
    <2>1. tour.viewer = "rider" /\ p = "trips" =>
            IF RidesOf(rows) = {} THEN Reselect(p, o, st, s) = None ELSE Reselect(p, o, st, s) \in RidesOf(rows)
      BY <1>2, <1>3, <1>4, <1>5
    <2> QED BY <2>1 DEF Follows, rows
  <1>8. tour.viewer = "driver" => Reselect(p, o, st, s) = s
    BY <1>5
  <1>9. tour.viewer # "driver" => InUse(tour, p, o, Reselect(p, o, st, s)) = InUse(tour, p, o, s)
    BY DEF InUse
  <1> QED BY <1>6, <1>7, <1>8, <1>9

\* A selection that the page already follows is left alone.
LEMMA ReselectIdle ==
  ASSUME TourFine(tour), NEW p, NEW o, NEW st, NEW s, Follows(tour, p, o, st, s)
  PROVE  Reselect(p, o, st, s) = s
  BY DEF Reselect, Follows, Newest, RidesOf, TourFine

----------------------------------------------------------------------------
(* The rides move on.                                                      *)

LEMMA ReadGrows ==
  ASSUME NEW k, NEW rd, NEW rs, NEW ns, NEW m \in Nat, NEW t, ReadFine(k, rd, rs, m, t),
         Earned(rs) \subseteq Earned(ns)
  PROVE  ReadFine(k, rd, ns, m + 1, t)
  <1>1. rd.from \in Nat /\ rd.from <= m
    BY DEF ReadFine, Reads
  <1>2. rd.from <= m + 1 /\ rd.from # m + 1
    BY <1>1
  <1>3. ItemsFine(rd.items, rs, t) => ItemsFine(rd.items, ns, t)
    BY DEF ItemsFine
  <1>4. RowsFine(rd.rows, rd.items, rs) => RowsFine(rd.rows, rd.items, ns)
    BY DEF RowsFine
  <1> QED BY <1>2, <1>3, <1>4 DEF ReadFine

LEMMA EntryGrows ==
  ASSUME NEW k, NEW e, NEW rs, NEW ns, NEW m \in Nat, NEW t, EntryFine(k, e, rs, m, t),
         Earned(rs) \subseteq Earned(ns)
  PROVE  EntryFine(k, e, ns, m + 1, t)
  <1>1. e.from \in Nat /\ e.upto \in Nat /\ e.from <= e.upto /\ e.upto <= m
    BY DEF EntryFine, Entries
  <1>2. e.upto <= m + 1 /\ e.from # m + 1
    BY <1>1
  <1> QED BY <1>2 DEF EntryFine

\* A step of the rides: nothing is new of what is read and held, and no read is
\* of the moment that begins.
LEMMA MoveStep ==
  ASSUME IInv, World(rides', today, moves + 1), Earned(rides) \subseteq Earned(rides'),
         moves' = moves + 1, UNCHANGED <<today, screen, selected, client, since, joined, tour>>
  PROVE  IInv'
  <1>1. moves \in Nat
    BY DEF IInv, World
  <1>2. ReadsFine(reads, rides', moves + 1, tour)
    BY <1>1, ReadGrows DEF IInv, ReadsFine
  <1>3. StoreFine(store, rides', moves + 1, tour)
    BY <1>1, EntryGrows DEF IInv, StoreFine
  <1>4. Marks(bad, joined, since, moves + 1)
    <2>1. 0..moves \subseteq 0..(moves + 1)
      BY <1>1
    <2> QED BY <2>1 DEF IInv, Marks
  <1> QED BY <1>2, <1>3, <1>4 DEF IInv, screen, client

LEMMA RequestKeeps ==
  ASSUME IInv, NEW r \in Rides, Request(r)
  PROVE  IInv'
  <1>1. rides \in [Rides -> RideRow] /\ today \in Nat /\ moves \in Nat
    BY DEF IInv, World
  <1> DEFINE row == [rides[r] EXCEPT !.status = "MATCHING", !.day = today]
  <1>2. row \in RideRow
    BY <1>1 DEF RideRow, Status
  <1>3. rides' = [rides EXCEPT ![r] = row] /\ rides[r].status = "none"
    BY <1>1 DEF Request, Requested
  <1> HIDE DEF row
  <1>4. World(rides', today, moves + 1)
    BY <1>1, <1>2, <1>3 DEF World
  <1>5. Earned(rides) \subseteq Earned(rides')
    BY <1>1, <1>3 DEF Earned
  <1> QED BY <1>4, <1>5, MoveStep DEF Request, Moved

\* No status follows that of a completed ride.
LEMMA AdvanceKeeps ==
  ASSUME IInv, NEW r \in Rides, NEW s \in Status, Advance(r, s)
  PROVE  IInv'
  <1>1. rides \in [Rides -> RideRow] /\ today \in Nat /\ moves \in Nat
    BY DEF IInv, World
  <1> DEFINE d == rides[r].driven \/ s = "DRIVER_ASSIGNED"
             n == IF s = "RIDE_COMPLETED" THEN moves + 1 ELSE rides[r].done
             row == [rides[r] EXCEPT !.status = s, !.driven = d, !.done = n]
  <1>2. row \in RideRow
    <2>1. rides[r] \in RideRow
      BY <1>1
    <2>2. ASSUME NEW old \in RideRow, NEW x \in BOOLEAN, NEW y \in Nat
          PROVE  [old EXCEPT !.status = s, !.driven = x, !.done = y] \in RideRow
      BY DEF RideRow
    <2>3. d \in BOOLEAN /\ n \in Nat
      BY <1>1, <2>1 DEF RideRow
    <2> HIDE DEF d, n
    <2> QED BY <2>1, <2>2, <2>3
  <1>3. rides' = [rides EXCEPT ![r] = row] /\ rides[r].status # "RIDE_COMPLETED"
    BY <1>1 DEF Advance, Successors, Moved
  <1>6. row.status = s
    BY <1>1 DEF RideRow
  <1> HIDE DEF row
  <1>4. World(rides', today, moves + 1)
    BY <1>1, <1>2, <1>3 DEF World
  <1>5. Earned(rides) \subseteq Earned(rides')
    BY <1>1, <1>3 DEF Earned
  <1> QED BY <1>4, <1>5, MoveStep DEF Advance, Moved

LEMMA MonthKeeps ==
  ASSUME IInv, MonthPasses
  PROVE  IInv'
  <1>1. World(rides, today', moves)
    BY DEF IInv, World, MonthPasses
  <1> QED BY <1>1 DEF IInv, MonthPasses, screen, client

----------------------------------------------------------------------------
(* Reads are sent.                                                         *)

LEMMA SentFine ==
  ASSUME NEW k, NEW o, AskFits(k, o), moves \in Nat
  PROVE  Sent(o) # None /\ Sent(o).from = moves /\ ReadFine(k, Sent(o), rides, moves, tour)
  <1>1. o \in Options
    BY DEF AskFits
  <1>2. Sent(o) \in Reads
    BY <1>1 DEF Sent, Reads
  <1>3. Sent(o).ask = o /\ Sent(o).from = moves /\ Sent(o).items = None /\ Sent(o).rows = {} /\ Sent(o).total = 0
    BY DEF Sent
  <1>4. Sent(o) # None
    BY <1>2, NoneAssumption
  <1> HIDE DEF Sent
  <1>5. ReadFine(k, Sent(o), rides, moves, tour)
    BY <1>2, <1>3 DEF ReadFine
  <1> QED BY <1>3, <1>4, <1>5

\* What a fetch leaves of the reads and the failures.
LEMMA FetchStep ==
  ASSUME IInv, NEW keys, NEW o, \A k \in keys : k \in Keys /\ AskFits(k, o), Fetch(keys, o)
  PROVE  /\ ReadsFine(reads', rides, moves, tour)
         /\ bad' \subseteq bad
         /\ \A k \in Keys : (k \notin keys \/ reads[k] # None) =>
                reads'[k] = reads[k] /\ (k \in bad' <=> k \in bad)
         /\ \A k \in keys : reads[k] = None => reads'[k] # None /\ reads'[k].from = moves
  <1> DEFINE new == {k \in keys : reads[k] = None}
  <1>1. /\ reads' = [k \in Keys |-> IF k \in new THEN Sent(o) ELSE reads[k]]
        /\ bad' = {k \in bad : k \notin new \/ store[k] # None}
    BY DEF Fetch, Stale, Reading
  <1>2. \A k \in Keys : reads'[k] = IF k \in new THEN Sent(o) ELSE reads[k]
    BY <1>1
  <1>3. moves \in Nat /\ ReadsFine(reads, rides, moves, tour)
    BY DEF IInv, World
  <1>4. \A k \in keys : k \in Keys /\ Sent(o) # None /\ Sent(o).from = moves /\ ReadFine(k, Sent(o), rides, moves, tour)
    BY <1>3, SentFine
  <1>5. ReadsFine(reads', rides, moves, tour)
    <2>1. OnKeys(reads')
      BY <1>1 DEF OnKeys
    <2>2. ASSUME NEW k \in Keys PROVE reads'[k] = None \/ ReadFine(k, reads'[k], rides, moves, tour)
      BY <1>2, <1>3, <1>4 DEF ReadsFine
    <2> QED BY <2>1, <2>2 DEF ReadsFine
  <1>6. bad' \subseteq bad
    BY <1>1
  <1>7. ASSUME NEW k \in Keys, k \notin keys \/ reads[k] # None
        PROVE  reads'[k] = reads[k] /\ (k \in bad' <=> k \in bad)
    BY <1>1, <1>2, <1>7
  <1>8. ASSUME NEW k \in keys, reads[k] = None PROVE reads'[k] # None /\ reads'[k].from = moves
    BY <1>2, <1>4, <1>8
  <1> QED BY <1>5, <1>6, <1>7, <1>8

\* Another page, tab, filter or trip: the queries new to it are read, or join a
\* read of them that is under way.
LEMMA UseStep ==
  ASSUME IInv, NEW p, NEW o, NEW s, Screen(tour, p, o, s), Use(p, o, s),
         selected' = Reselect(p, o, store, s), UNCHANGED <<world, tour>>
  PROVE  IInv'
  <1> DEFINE old == InUse(tour, page, opt, selected)
             now == InUse(tour, p, o, s)
             keys == now \ old
  <1>1. TourFine(tour) /\ o \in Options /\ opt \in Options /\ s \in {None} \cup Rides /\ moves \in Nat
    BY DEF IInv, Screen, World
  <1>2. \A k \in now : k \in Keys /\ AskFits(k, o)
    BY <1>1, InUseFits
  <1>3. /\ page' = p /\ opt' = o /\ Fetch(keys, o) /\ UNCHANGED store
        /\ since' = [k \in Keys |-> IF k \in keys THEN moves ELSE since[k]]
        /\ joined' = {k \in now : IF k \in keys THEN Reading(k) ELSE k \in joined}
    BY OpenKeysInUse DEF Use
  <1>4. /\ ReadsFine(reads', rides, moves, tour)
        /\ bad' \subseteq bad
        /\ \A k \in Keys : (k \notin keys \/ reads[k] # None) =>
               reads'[k] = reads[k] /\ (k \in bad' <=> k \in bad)
        /\ \A k \in keys : reads[k] = None => reads'[k] # None /\ reads'[k].from = moves
    <2>1. \A k \in keys : k \in Keys /\ AskFits(k, o)
      BY <1>2
    <2> HIDE DEF keys
    <2> QED BY <1>3, <2>1, FetchStep
  <1>5. /\ selected' \in {None} \cup Rides /\ Follows(tour, p, o, store, selected')
        /\ InUse(tour, p, o, selected') = now
    BY <1>1, ReselectFine DEF IInv
  <1>6. \A k \in Keys : since[k] \in 0..moves /\ since'[k] = IF k \in keys THEN moves ELSE since[k]
    BY <1>3 DEF IInv, Marks
  <1>7. Marks(bad', joined', since', moves)
    <2>1. since' \in [Keys -> 0..moves]
      BY <1>1, <1>3, <1>6
    <2>2. joined' \subseteq Keys /\ bad' \subseteq Keys
      BY <1>2, <1>3, <1>4 DEF IInv, Marks
    <2> QED BY <2>1, <2>2 DEF Marks
  <1>8. ASSUME NEW k \in now PROVE Recent(k, store, reads', bad', since', joined')
    <2>1. k \in Keys
      BY <1>2
    <2>2. CASE k \in old
      <3>1. Recent(k, store, reads, bad, since, joined)
        BY <2>2 DEF IInv, UpToDate
      <3>2. reads'[k] = reads[k] /\ (k \in bad' <=> k \in bad) /\ since'[k] = since[k]
        BY <1>4, <1>6, <2>1, <2>2
      <3>3. k \in joined' <=> k \in joined
        BY <1>3, <2>2
      <3> HIDE DEF now, old
      <3> QED BY <3>1, <3>2, <3>3 DEF Recent
    <2>3. CASE k \notin old /\ reads[k] = None
      <3>1. reads'[k] # None /\ reads'[k].from = moves /\ since'[k] = moves
        BY <1>4, <1>6, <2>1, <2>3
      <3> HIDE DEF now, old
      <3> QED BY <1>1, <3>1 DEF Recent
    <2>4. CASE k \notin old /\ reads[k] # None
      <3>1. k \in joined' /\ reads'[k] = reads[k]
        BY <1>3, <1>4, <2>1, <2>4 DEF Reading
      <3> HIDE DEF now, old
      <3> QED BY <2>4, <3>1 DEF Recent
    <2> HIDE DEF now, old
    <2> QED BY <2>2, <2>3, <2>4
  <1>9. UpToDate(tour, p, o, selected', store, reads', bad', since', joined')
    BY <1>5, <1>8 DEF UpToDate
  <1>10. Screen(tour, p, o, selected')
    BY <1>5 DEF Screen
  <1> HIDE DEF old, now
  <1> QED BY <1>3, <1>4, <1>5, <1>7, <1>9, <1>10 DEF IInv, world

LEMMA RefocusKeeps ==
  ASSUME IInv, Refocus
  PROVE  IInv'
  <1> DEFINE now == InUse(tour, page, opt, selected)
  <1>1. moves \in Nat /\ opt \in Options
    BY DEF IInv, World, Screen
  <1>2. \A k \in now : k \in Keys /\ AskFits(k, opt)
    BY <1>1, InUseFits
  <1>3. Fetch(now, opt) /\ UNCHANGED <<world, screen, selected, store, since, joined, tour>>
    BY OpenKeysInUse DEF Refocus
  <1>4. UpToDate(tour, page, opt, selected, store, reads, bad, since, joined)
    BY DEF IInv
  <1>5. \A k \in now : Recent(k, store, reads, bad, since, joined) /\ since[k] \in 0..moves
    BY <1>2, <1>4 DEF UpToDate, IInv, Marks
  <1>6. /\ ReadsFine(reads', rides, moves, tour)
        /\ bad' \subseteq bad
        /\ \A k \in Keys : (k \notin now \/ reads[k] # None) =>
               reads'[k] = reads[k] /\ (k \in bad' <=> k \in bad)
        /\ \A k \in now : reads[k] = None => reads'[k] # None /\ reads'[k].from = moves
    <2> HIDE DEF now
    <2> QED BY <1>2, <1>3, FetchStep
  <1>7. \A k \in now : Recent(k, store, reads', bad', since, joined)
    <2> HIDE DEF now
    <2>1. ASSUME NEW k \in now PROVE Recent(k, store, reads', bad', since, joined)
      BY <1>1, <1>2, <1>5, <1>6 DEF Recent
    <2> QED BY <2>1
  <1>8. UpToDate(tour, page, opt, selected, store, reads', bad', since, joined)
    BY <1>7 DEF UpToDate
  <1>9. Marks(bad', joined, since, moves)
    BY <1>6 DEF IInv, Marks
  <1> HIDE DEF now
  <1> QED BY <1>3, <1>6, <1>8, <1>9 DEF IInv, world, screen

\* The person's clicks.
LEMMA ClicksKeep ==
  ASSUME IInv, Clicks
  PROVE  IInv'
  <1>1. TourFine(tour) /\ Screen(tour, page, opt, selected)
    BY DEF IInv
  <1>2. FirstOpt \in Options
    BY DEF FirstOpt, Options, ActivityFilters, StatusFilters, Periods
  <1>3. ASSUME NEW p, Open(p) PROVE IInv'
    <2>1. Screen(tour, p, FirstOpt, None)
      BY <1>2, <1>3 DEF Open, Screen, RiderPages
    <2> QED BY <1>3, <2>1, UseStep DEF Open
  <1>4. ASSUME NEW p, SetTab(p) PROVE IInv'
    <2>1. Screen(tour, p, opt, selected)
      BY <1>1, <1>4 DEF SetTab, Screen, Pages
    <2> QED BY <1>4, <2>1, UseStep DEF SetTab
  <1>5. ASSUME NEW f \in ActivityFilters, NEW st \in StatusFilters, NEW p \in Periods,
               SetFilter([activity |-> f, status |-> st, period |-> p])
        PROVE  IInv'
    <2> DEFINE o == [activity |-> f, status |-> st, period |-> p]
    <2>1. o \in Options
      BY DEF Options
    <2> HIDE DEF o
    <2>2. Screen(tour, page, o, selected)
      BY <1>1, <2>1 DEF Screen
    <2> QED BY <1>5, <2>2, UseStep DEF SetFilter, o
  <1>6. ASSUME NEW r \in Rides, Pick(r) PROVE IInv'
    <2>1. Screen(tour, page, opt, r)
      BY <1>1 DEF Screen
    <2>2. Reselect(page, opt, store, r) = r
      BY <1>6 DEF Pick, Reselect
    <2> QED BY <1>6, <2>1, <2>2, UseStep DEF Pick
  <1>7. CASE ClosePanel
    <2>1. Screen(tour, page, opt, None)
      BY <1>1 DEF Screen
    <2>2. Reselect(page, opt, store, None) = None
      BY <1>7 DEF ClosePanel, Reselect
    <2> QED BY <1>7, <2>1, <2>2, UseStep DEF ClosePanel
  <1> QED BY <1>3, <1>4, <1>5, <1>6, <1>7, RefocusKeeps DEF Clicks

----------------------------------------------------------------------------
(* Answers come.                                                           *)

\* Entries of now say the same as far as their lists go.
LEMMA NowAgrees ==
  ASSUME NEW rs \in [Rides -> RideRow], NEW t, TourFine(t), NEW k, NEW e, NEW l, NEW g,
         EntryNow(k, e, rs, t), EntryNow(l, g, rs, t)
  PROVE  /\ k \in Counted /\ l \in Counted /\ None \notin {e.total, g.total} => e.total = g.total
         /\ k \in Paged /\ l \in Counted /\ g.total # None => e.total = UpTo(t.size, g.total)
         /\ k \in Paged /\ l \in Paged => e.spent = g.spent
         /\ k \in Paged /\ l \in Summaries /\ g.total < t.summed =>
              e.spent \subseteq g.spent /\ (e.total < t.size => e.spent = g.spent)
         /\ k = RecentPayments /\ l \in Summaries =>
              e.spent \subseteq g.spent /\ (g.total <= t.recent => e.spent = g.spent)
  <1>1. Known(rs) \in SUBSET Rides /\ Earned(rs) \in SUBSET Known(rs) /\ Earned(rs) \in SUBSET Rides
    BY DEF Known, Earned
  <1>2. /\ Cardinality(PageOf(Known(rs), t)) = UpTo(t.size, Cardinality(Known(rs)))
        /\ Cardinality(PageOf(Known(rs), t)) < t.size => PageOf(Known(rs), t) = Known(rs)
    BY <1>1, PageLength
  <1>3. Order(PaidLater(rs)) /\ t.recent \in Nat /\ t.summed \in Nat /\ t.recent <= t.summed
    BY Orders DEF TourFine
  <1>4. Cardinality(LastPaid(rs, t.summed)) < t.summed => LastPaid(rs, t.summed) = Earned(rs)
    <2>1. LastPaid(rs, t.summed) \in SUBSET Rides
      BY <1>1 DEF LastPaid, First
    <2>2. Cardinality(LastPaid(rs, t.summed)) \in Nat
      BY <2>1, RidesFinite
    <2>3. LastPaid(rs, t.summed) # Earned(rs) => Cardinality(LastPaid(rs, t.summed)) >= t.summed
      BY <1>1, <1>3, CutIsFull DEF LastPaid
    <2> QED BY <1>3, <2>2, <2>3
  <1>5. /\ LastPaid(rs, t.recent) \subseteq LastPaid(rs, t.summed)
        /\ Cardinality(LastPaid(rs, t.summed)) <= t.recent => LastPaid(rs, t.recent) = LastPaid(rs, t.summed)
    BY <1>1, <1>3, ShorterList DEF LastPaid
  <1>6. k \in Counted /\ l \in Counted /\ None \notin {e.total, g.total} => e.total = g.total
    BY DEF EntryNow
  <1>7. k \in Paged /\ l \in Counted /\ g.total # None => e.total = UpTo(t.size, g.total)
    BY <1>2 DEF EntryNow
  <1>8. k \in Paged /\ l \in Paged => e.spent = g.spent
    BY DEF EntryNow
  <1>9. k \in Paged /\ l \in Summaries /\ g.total < t.summed =>
          e.spent \subseteq g.spent /\ (e.total < t.size => e.spent = g.spent)
    BY <1>1, <1>2, <1>4 DEF EntryNow
  <1>10. k = RecentPayments /\ l \in Summaries =>
           e.spent \subseteq g.spent /\ (g.total <= t.recent => e.spent = g.spent)
    BY <1>5 DEF EntryNow
  <1> QED BY <1>6, <1>7, <1>8, <1>9, <1>10

LEMMA ViewKeys ==
  Counted \subseteq Keys /\ Paged \subseteq Keys /\ Summaries \subseteq Keys /\ RecentPayments \in Keys
  BY DEF Counted, Paged, Summaries, RecentPayments, Keys, StatusFilters, Periods

\* An entry of now agrees with every other one of the same moment.
LEMMA AgreeStep ==
  ASSUME NEW st, NEW rs \in [Rides -> RideRow], NEW m \in Nat, NEW t, TourFine(t), StoreFine(st, rs, m, t),
         Agree(st, t), NEW key \in Keys, NEW e, EntryFine(key, e, rs, m, t), e.upto = m
  PROVE  Agree([st EXCEPT ![key] = e], t)
  <1> DEFINE ns == [st EXCEPT ![key] = e]
  <1>1. \A k \in Keys : ns[k] = IF k = key THEN e ELSE st[k]
    BY DEF StoreFine, OnKeys
  <1> HIDE DEF ns
  <1>2. SUFFICES ASSUME t.viewer = "rider" PROVE Agree(ns, t)
    BY DEF Agree, ns
  <1>3. ASSUME NEW k \in Keys, NEW l \in Keys, k = key \/ l = key, Together(ns, k, l)
        PROVE  EntryNow(k, ns[k], rs, t) /\ EntryNow(l, ns[l], rs, t)
    <2>1. ns[k].from = m /\ ns[l].from = m
      BY <1>1, <1>3 DEF Together
    <2>2. EntryFine(k, ns[k], rs, m, t) /\ EntryFine(l, ns[l], rs, m, t)
      BY <1>1, <1>3 DEF Together, StoreFine
    <2> QED BY <1>2, <2>1, <2>2 DEF EntryFine
  <1>4. ASSUME NEW k \in Keys, NEW l \in Keys, k # key, l # key
        PROVE  (Together(ns, k, l) <=> Together(st, k, l)) /\ ns[k] = st[k] /\ ns[l] = st[l]
    BY <1>1, <1>4 DEF Together
  <1>5. ASSUME NEW k \in Keys, NEW l \in Keys, Together(ns, k, l)
        PROVE  /\ k \in Counted /\ l \in Counted /\ None \notin {ns[k].total, ns[l].total} => ns[k].total = ns[l].total
               /\ k \in Paged /\ l \in Counted /\ ns[l].total # None => ns[k].total = UpTo(t.size, ns[l].total)
               /\ k \in Paged /\ l \in Paged => ns[k].spent = ns[l].spent
               /\ k \in Paged /\ l \in Summaries /\ ns[l].total < t.summed =>
                    ns[k].spent \subseteq ns[l].spent /\ (ns[k].total < t.size => ns[k].spent = ns[l].spent)
               /\ k = RecentPayments /\ l \in Summaries =>
                    ns[k].spent \subseteq ns[l].spent /\ (ns[l].total <= t.recent => ns[k].spent = ns[l].spent)
    <2>1. CASE k = key \/ l = key
      BY <1>3, <1>5, <2>1, NowAgrees
    <2>2. CASE k # key /\ l # key
      <3>1. Together(st, k, l) /\ ns[k] = st[k] /\ ns[l] = st[l]
        BY <1>4, <1>5, <2>2
      <3> QED BY <1>2, <3>1 DEF Agree
    <2> QED BY <2>1, <2>2
  <1> QED BY <1>5, ViewKeys DEF Agree

\* An entry takes the place of the read that it answers.
LEMMA PutStep ==
  ASSUME IInv, NEW k \in Keys, reads[k] # None, NEW e, EntryFine(k, e, rides, moves, tour),
         e.upto = moves, e.from = reads[k].from \/ e.from = moves,
         store' = [store EXCEPT ![k] = e], selected' = Reselect(page, opt, store', selected),
         reads' = [reads EXCEPT ![k] = None], bad' = bad \ {k},
         UNCHANGED <<world, screen, since, joined, tour>>
  PROVE  IInv'
  <1>1. /\ moves \in Nat /\ opt \in Options /\ TourFine(tour) /\ selected \in {None} \cup Rides
        /\ rides \in [Rides -> RideRow]
    BY DEF IInv, World, Screen
  <1>2. \A l \in Keys : store'[l] = (IF l = k THEN e ELSE store[l]) /\ reads'[l] = (IF l = k THEN None ELSE reads[l])
    BY DEF IInv, StoreFine, ReadsFine, OnKeys
  <1>3. OnKeys(store') /\ OnKeys(reads')
    BY DEF IInv, StoreFine, ReadsFine, OnKeys
  <1>4. StoreFine(store', rides, moves, tour)
    BY <1>2, <1>3 DEF IInv, StoreFine
  <1>5. ReadsFine(reads', rides, moves, tour)
    BY <1>2, <1>3 DEF IInv, ReadsFine
  <1>6. Agree(store', tour)
    BY <1>1, AgreeStep DEF IInv
  <1>7. /\ selected' \in {None} \cup Rides /\ Follows(tour, page, opt, store', selected')
        /\ InUse(tour, page, opt, selected') = InUse(tour, page, opt, selected)
    BY <1>1, <1>4, ReselectFine
  <1>8. ASSUME NEW l \in InUse(tour, page, opt, selected)
        PROVE  Recent(l, store', reads', bad', since, joined)
    <2>1. l \in Keys /\ Recent(l, store, reads, bad, since, joined)
      BY <1>1, <1>8, InUseFits DEF IInv, UpToDate
    <2>2. since[l] \in 0..moves
      BY <2>1 DEF IInv, Marks
    <2>3. CASE l # k
      BY <1>2, <2>1, <2>3 DEF Recent
    <2>4. CASE l = k
      <3>1. e # None
        BY NoneAssumption DEF EntryFine
      <3>2. k \notin joined => e.from >= since[k]
        BY <1>1, <2>1, <2>2, <2>4 DEF Recent
      <3>3. store'[k] = e /\ reads'[k] = None
        BY <1>2
      <3> QED BY <2>4, <3>1, <3>2, <3>3 DEF Recent
    <2> QED BY <2>3, <2>4
  <1>9. UpToDate(tour, page, opt, selected', store', reads', bad', since, joined)
    BY <1>7, <1>8 DEF UpToDate
  <1>10. Marks(bad', joined, since, moves)
    BY DEF IInv, Marks
  <1>11. Screen(tour, page, opt, selected')
    BY <1>7 DEF IInv, Screen
  <1> QED BY <1>4, <1>5, <1>6, <1>7, <1>9, <1>10, <1>11 DEF IInv, world, screen

\* A read goes on.
LEMMA ReadStep ==
  ASSUME IInv, NEW k \in Keys, reads[k] # None, NEW rd, ReadFine(k, rd, rides, moves, tour),
         rd.from = reads[k].from, reads' = [reads EXCEPT ![k] = rd],
         UNCHANGED <<world, screen, selected, store, bad, since, joined, tour>>
  PROVE  IInv'
  <1>1. \A l \in Keys : reads'[l] = IF l = k THEN rd ELSE reads[l]
    BY DEF IInv, ReadsFine, OnKeys
  <1>2. OnKeys(reads')
    BY DEF IInv, ReadsFine, OnKeys
  <1>3. ReadsFine(reads', rides, moves, tour)
    BY <1>1, <1>2 DEF IInv, ReadsFine
  <1>4. rd # None
    BY NoneAssumption DEF ReadFine
  <1>5. opt \in Options
    BY DEF IInv, Screen
  <1>6. ASSUME NEW l \in InUse(tour, page, opt, selected)
        PROVE  Recent(l, store, reads', bad, since, joined)
    BY <1>1, <1>4, <1>5, InUseFits DEF IInv, UpToDate, Recent
  <1>7. UpToDate(tour, page, opt, selected, store, reads', bad, since, joined)
    BY <1>6 DEF UpToDate
  <1> QED BY <1>3, <1>7 DEF IInv, world, screen

LEMMA ReadFailsKeeps ==
  ASSUME IInv, NEW k \in Keys, ReadFails(k)
  PROVE  IInv'
  <1>1. reads' = [reads EXCEPT ![k] = None] /\ bad' = bad \cup {k}
        /\ UNCHANGED <<world, screen, selected, store, since, joined, tour>>
    BY DEF ReadFails
  <1>2. \A l \in Keys : reads'[l] = IF l = k THEN None ELSE reads[l]
    BY <1>1 DEF IInv, ReadsFine, OnKeys
  <1>3. ReadsFine(reads', rides, moves, tour)
    BY <1>1, <1>2 DEF IInv, ReadsFine, OnKeys
  <1>4. opt \in Options
    BY DEF IInv, Screen
  <1>5. ASSUME NEW l \in InUse(tour, page, opt, selected)
        PROVE  Recent(l, store, reads', bad', since, joined)
    BY <1>1, <1>2, <1>4, InUseFits DEF IInv, UpToDate, Recent
  <1>6. UpToDate(tour, page, opt, selected, store, reads', bad', since, joined)
    BY <1>5 DEF UpToDate
  <1>7. Marks(bad', joined, since, moves)
    BY <1>1 DEF IInv, Marks
  <1> QED BY <1>1, <1>3, <1>6, <1>7 DEF IInv, world, screen

----------------------------------------------------------------------------
(* What the answers are.                                                   *)

LEMMA OwnRides ==
  /\ Own \in SUBSET Rides /\ Requested = Known(rides) /\ Payments = Earned(rides)
  /\ tour.viewer = "rider" => Own = Known(rides)
  /\ Earned(rides) \in SUBSET Known(rides) /\ Known(rides) \in SUBSET Rides
  BY DEF Own, Requested, Known, Payments, Earned, Paid

LEMMA KnownFinite ==
  /\ Cardinality(Known(rides)) \in Nat /\ Cardinality(Earned(rides)) \in Nat /\ Cardinality(Own) \in Nat
  <1>1. Known(rides) \in SUBSET Rides /\ Earned(rides) \in SUBSET Rides
    BY DEF Known, Earned
  <1> QED BY <1>1, OwnRides, RidesFinite

LEMMA KeptRows ==
  ASSUME NEW k \in Keys, NEW rows, NEW ask, AskFits(k, ask)
  PROVE  Kept(k[1], rows, ask) \in SUBSET rows /\ (k \in Paged => Kept(k[1], rows, ask) = rows)
  <1>1. Kept(k[1], rows, ask) \in SUBSET rows
    BY DEF Kept, FilterRides, FilterItems
  <1>2. CASE k = <<"trips", "ALL", "all_time">>
    <2>1. ask.status = "ALL" /\ ask.period = "all_time"
      BY <1>2 DEF AskFits
    <2>2. Kept(k[1], rows, ask) = FilterRides(rows, "ALL", "all_time")
      BY <1>2, <2>1 DEF Kept
    <2> QED BY <1>1, <2>2 DEF FilterRides, InPeriod
  <1>3. CASE k \in Paged /\ k # <<"trips", "ALL", "all_time">>
    BY <1>1, <1>3 DEF Paged, Kept
  <1> QED BY <1>1, <1>2, <1>3

\* The entry of a list whose rows are complete.
LEMMA EntryStep ==
  ASSUME IInv, NEW k \in Keys, reads[k] # None, k[1] \in Listed,
         NEW rows, rows \in SUBSET Row, \A S \in SUBSET rows : Cardinality(S) \in 0..tour.size,
         Cardinality(rows) = Cardinality(RidesOf(rows)),
         \A x \in rows : x.fare => x.ride \in Earned(rides),
         tour.viewer = "rider" /\ reads[k].from = moves =>
           /\ reads[k].total = Cardinality(Known(rides))
           /\ k[1] # "detail" => RidesOf(rows) = PageOf(Known(rides), tour)
           /\ \A x \in rows : x.status = rides[x.ride].status /\ (x.fare <=> x.ride \in Earned(rides))
  PROVE  /\ EntryFine(k, Entry(k, rows), rides, moves, tour)
         /\ Entry(k, rows).upto = moves /\ Entry(k, rows).from = reads[k].from
  <1> DEFINE ask == reads[k].ask
             kept == Kept(k[1], rows, ask)
             e == Entry(k, rows)
  <1>1. reads[k] \in Reads /\ AskFits(k, ask) /\ reads[k].from <= moves /\ moves \in Nat
    BY DEF IInv, World, ReadsFine, ReadFine
  <1>2. kept \in SUBSET rows /\ (k \in Paged => kept = rows)
    BY <1>1, KeptRows
  <1> DEFINE n == IF k[1] = "insights" THEN reads[k].total ELSE Cardinality(kept)
  <1>3. /\ e.rows = kept /\ e.total = n /\ e.spent = Spent(kept)
        /\ e.ask = ask /\ e.from = reads[k].from /\ e.upto = moves
    BY DEF Entry
  <1>4. Spent(kept) \in SUBSET Earned(rides) /\ Spent(kept) \in SUBSET Rides
    BY <1>2 DEF Spent, RidesOf, Earned
  <1>9. Cardinality(kept) \in Nat /\ Cardinality(kept) <= tour.size
    <2>1. Cardinality(kept) \in 0..tour.size /\ tour.size \in Nat
      BY <1>2 DEF IInv, TourFine
    <2> HIDE DEF kept
    <2> QED BY <2>1
  <1>5. reads[k].total \in Nat /\ n \in Nat /\ reads[k].from \in Nat /\ ask \in Options
    BY <1>1, <1>9 DEF Reads
  <1>6. e \in Entries
    <2>1. e = [rows |-> kept, total |-> n, spent |-> Spent(kept),
               ask |-> ask, from |-> reads[k].from, upto |-> moves]
      BY DEF Entry
    <2>2. kept \in SUBSET Row
      BY <1>2
    <2> HIDE DEF e, kept, ask, n
    <2> QED BY <1>1, <1>4, <1>5, <2>1, <2>2 DEF Entries
  <1>7. k[1] # "profile"
    BY DEF Listed
  <1>8. ASSUME tour.viewer = "rider", reads[k].from = moves PROVE EntryNow(k, e, rides, tour)
    <2>1. k \in Counted => e.total = Cardinality(Known(rides))
      BY <1>3, <1>7, <1>8 DEF Counted
    <2>2. k \notin Summaries /\ k # RecentPayments
      BY DEF Listed, Summaries, RecentPayments
    <2>3. ASSUME k \in Paged
          PROVE  /\ e.total = Cardinality(PageOf(Known(rides), tour))
                 /\ e.spent = Earned(rides) \cap PageOf(Known(rides), tour)
      <3>1. k[1] # "detail" /\ k[1] # "insights"
        BY <2>3 DEF Paged
      <3>2. RidesOf(rows) = PageOf(Known(rides), tour) /\ kept = rows
        BY <1>2, <1>8, <2>3, <3>1
      <3>3. e.total = Cardinality(rows) /\ e.spent = Spent(rows)
        BY <1>3, <3>1, <3>2
      <3>4. ASSUME NEW r \in Earned(rides), r \in RidesOf(rows) PROVE r \in Spent(rows)
        <4>1. rides[r].status = "RIDE_COMPLETED"
          BY DEF Earned
        <4>2. PICK x \in rows : x.ride = r
          BY <3>4 DEF RidesOf
        <4>3. x.status = "RIDE_COMPLETED" /\ x.fare
          BY <1>8, <4>1, <4>2
        <4> QED BY <4>2, <4>3 DEF Spent, RidesOf
      <3>5. Spent(rows) \subseteq Earned(rides) /\ Spent(rows) \subseteq RidesOf(rows)
        BY <1>4, <3>2 DEF Spent, RidesOf
      <3> QED BY <3>2, <3>3, <3>4, <3>5
    <2> QED BY <2>1, <2>2, <2>3 DEF EntryNow
  <1> HIDE DEF e, kept, ask, n
  <1>10. EntryFine(k, e, rides, moves, tour)
    BY <1>1, <1>3, <1>4, <1>5, <1>6, <1>7, <1>8, <1>9 DEF EntryFine
  <1> QED BY <1>3, <1>10 DEF e

----------------------------------------------------------------------------
(* The steps of a read.                                                    *)

\* The rides of a list.
ListOf(k) == IF k[1] = "detail" THEN {k[2]} ELSE FirstPage(Own)

LEMMA ListedRides ==
  ASSUME IInv, NEW k \in Keys
  PROVE  ListOf(k) \in SUBSET Rides /\ Cardinality(ListOf(k)) <= tour.size
  <1>1. TourFine(tour) /\ tour.size \in Nat \ {0}
    BY DEF IInv, TourFine
  <1>2. CASE k[1] = "detail"
    <2>1. k[2] \in Rides
      BY <1>2 DEF Keys, DetailKeys
    <2>2. Cardinality({k[2]}) = 1
      BY FS_Singleton
    <2> QED BY <1>1, <1>2, <2>1, <2>2 DEF ListOf
  <1>3. CASE k[1] # "detail"
    <2>1. ListOf(k) = PageOf(Own, tour) /\ Own \in SUBSET Rides
      BY <1>3, OwnRides, PageRides DEF ListOf
    <2>2. ListOf(k) \in SUBSET Own /\ Cardinality(ListOf(k)) <= tour.size
      BY <1>1, <2>1, PageSize
    <2> QED BY <2>1, <2>2
  <1> QED BY <1>2, <1>3

\* The rider has no rides at all, or the list has some.
LEMMA EmptyList ==
  ASSUME IInv, NEW k \in Keys, k[1] \in Listed, reads[k] # None, reads[k].items = None,
         ListOf(k) = {}, Put(k, Entry(k, {}))
  PROVE  IInv'
  <1>1. reads[k].total = 0
    BY DEF IInv, ReadsFine, ReadFine
  <1>2. Own = {}
    BY OwnRides, PageNotEmpty DEF ListOf, IInv
  <1>3. tour.viewer = "rider" => Known(rides) = {} /\ Cardinality(Known(rides)) = 0
    BY <1>2, OwnRides, FS_EmptySet
  <1>4. \A S \in SUBSET {} : Cardinality(S) \in 0..tour.size
    <2>1. Cardinality({}) = 0 /\ tour.size \in Nat
      BY FS_EmptySet DEF IInv, TourFine
    <2>2. \A S \in SUBSET {} : S = {}
      OBVIOUS
    <2> QED BY <2>1, <2>2
  <1>5. RidesOf({}) = {} /\ (tour.viewer = "rider" => PageOf(Known(rides), tour) = {})
    BY <1>3 DEF RidesOf, PageOf, First
  <1>6. /\ EntryFine(k, Entry(k, {}), rides, moves, tour)
        /\ Entry(k, {}).upto = moves /\ Entry(k, {}).from = reads[k].from
    BY <1>1, <1>3, <1>4, <1>5, EntryStep
  <1> HIDE DEF Entry
  <1> QED BY <1>6, PutStep DEF Put

LEMMA ListAnswerKeeps ==
  ASSUME IInv, NEW k \in Keys, ListAnswer(k)
  PROVE  IInv'
  <1>1. reads[k] # None /\ k[1] \in Listed /\ reads[k].items = None
    BY DEF ListAnswer, Reading
  <1>2. CASE ListOf(k) = {}
    BY <1>1, <1>2, EmptyList DEF ListAnswer, ListOf
  <1>3. CASE ListOf(k) # {}
    <2> DEFINE f == [r \in ListOf(k) |-> Item(r)]
               n == Cardinality(Own)
               rd == [reads[k] EXCEPT !.items = f, !.total = n]
    <2>1. /\ reads' = [reads EXCEPT ![k].items = f, ![k].total = n]
          /\ UNCHANGED <<world, screen, selected, store, bad, since, joined, tour>>
      BY <1>3 DEF ListAnswer, ListOf
    <2>2. ReadFine(k, reads[k], rides, moves, tour) /\ rides \in [Rides -> RideRow]
      BY <1>1 DEF IInv, ReadsFine, World
    <2>3. reads[k] \in Reads /\ AskFits(k, reads[k].ask) /\ reads[k].from <= moves /\ reads[k].rows = {}
      BY <1>1, <2>2 DEF ReadFine
    <2>4. DOMAIN f = ListOf(k) /\ \A r \in ListOf(k) : f[r].status = rides[r].status /\ f[r].paid = Paid(r)
      BY DEF Item
    <2>5. ListOf(k) \in SUBSET Rides /\ Cardinality(ListOf(k)) <= tour.size
      BY ListedRides
    <2>6. f \in [ListOf(k) -> [status : Status, paid : BOOLEAN]]
      BY <2>2, <2>5 DEF Item, Paid, RideRow
    <2>7. f \in Items /\ f # None
      BY <2>5, <2>6, NoneAssumption DEF Items
    <2>8. n \in Nat
      BY KnownFinite
    <2>9. \A r \in Rides : Paid(r) <=> r \in Earned(rides)
      BY DEF Paid, Earned
    <2> HIDE DEF f, n
    <2>10. reads' = [reads EXCEPT ![k] = rd]
      BY <2>1
    <2>11. /\ rd \in Reads /\ rd.items = f /\ rd.total = n /\ rd.rows = {}
           /\ rd.ask = reads[k].ask /\ rd.from = reads[k].from
      BY <2>3, <2>7, <2>8 DEF Reads
    <2> HIDE DEF rd
    <2>12. ItemsFine(f, rides, tour) /\ RowsFine({}, f, rides)
      BY <2>4, <2>5, <2>6, <2>9 DEF ItemsFine, RowsFine
    <2>13. ASSUME tour.viewer = "rider" PROVE ReadNow(k, rd, rides, tour)
      <3>1. n = Cardinality(Known(rides)) /\ Own = Known(rides)
        BY <2>13, OwnRides DEF n
      <3>2. k[1] # "detail" => DOMAIN f = PageOf(Known(rides), tour)
        BY <2>4, <3>1, OwnRides, PageRides DEF ListOf
      <3> QED BY <2>4, <2>5, <2>9, <2>11, <3>1, <3>2 DEF ReadNow
    <2>14. ReadFine(k, rd, rides, moves, tour)
      BY <1>1, <2>3, <2>7, <2>11, <2>12, <2>13 DEF ReadFine
    <2> QED BY <1>1, <2>1, <2>10, <2>11, <2>14, ReadStep
  <1> QED BY <1>2, <1>3

\* The row of a ride's detail.
LEMMA NewRowFine ==
  ASSUME IInv, NEW k \in Keys, NEW r, DetailAnswer(k, r)
  PROVE  LET x == NewRow(reads[k].items[r], r)
         IN  /\ x \in Row /\ x.ride = r /\ (x.fare => r \in Earned(rides))
             /\ tour.viewer = "rider" /\ reads[k].from = moves =>
                  x.status = rides[r].status /\ (x.fare <=> r \in Earned(rides))
  <1> DEFINE item == reads[k].items[r]
             x == NewRow(item, r)
  <1>1. reads[k] # None /\ reads[k].items # None /\ r \in DOMAIN reads[k].items
    BY DEF DetailAnswer, Reading
  <1>2. ReadFine(k, reads[k], rides, moves, tour) /\ rides \in [Rides -> RideRow]
    BY <1>1 DEF IInv, ReadsFine, World
  <1>3. r \in Rides /\ item \in [status : Status, paid : BOOLEAN] /\ (item.paid => r \in Earned(rides))
    BY <1>1, <1>2 DEF ReadFine, ItemsFine
  <1>4. tour.viewer = "rider" /\ reads[k].from = moves =>
          item.status = rides[r].status /\ (item.paid <=> r \in Earned(rides))
    BY <1>1, <1>2 DEF ReadFine, ReadNow
  <1>5. rides[r].day \in Nat /\ (Paid(r) <=> r \in Earned(rides))
    BY <1>2, <1>3 DEF RideRow, Paid, Earned
  <1> HIDE DEF item
  <1> DEFINE fare == item.paid \/ (tour.viewer = "rider" /\ Paid(r))
  <1>6. /\ x = [ride |-> r, status |-> NormalizeStatus(item.status), day |-> rides[r].day, fare |-> fare]
        /\ fare \in BOOLEAN
    BY DEF NewRow
  <1>7. (fare => r \in Earned(rides)) /\ (tour.viewer = "rider" /\ reads[k].from = moves => (fare <=> r \in Earned(rides)))
    BY <1>3, <1>4, <1>5
  <1>8. /\ NormalizeStatus(item.status) \in Status
        /\ tour.viewer = "rider" => NormalizeStatus(item.status) = item.status
    BY <1>3 DEF NormalizeStatus, Status
  <1> HIDE DEF fare, x
  <1>9. x \in Row
    BY <1>3, <1>5, <1>6, <1>8 DEF Row
  <1>10. x.ride = r /\ x.status = NormalizeStatus(item.status) /\ (x.fare <=> fare)
    BY <1>6
  <1>11. /\ x \in Row /\ x.ride = r /\ (x.fare => r \in Earned(rides))
         /\ tour.viewer = "rider" /\ reads[k].from = moves =>
              x.status = rides[r].status /\ (x.fare <=> r \in Earned(rides))
    BY <1>4, <1>7, <1>8, <1>9, <1>10
  <1> QED BY <1>11 DEF x, item

LEMMA DetailAnswerKeeps ==
  ASSUME IInv, NEW k \in Keys, NEW r, DetailAnswer(k, r)
  PROVE  IInv'
  <1> DEFINE items == reads[k].items
             x == NewRow(items[r], r)
             rows == reads[k].rows \cup {x}
             rd == [reads[k] EXCEPT !.rows = rows]
  <1>1. reads[k] # None /\ items # None /\ r \in DOMAIN items /\ r \notin RidesOf(reads[k].rows)
    BY DEF DetailAnswer, Reading
  <1>2. ReadFine(k, reads[k], rides, moves, tour)
    BY <1>1 DEF IInv, ReadsFine
  <1>3. /\ reads[k] \in Reads /\ AskFits(k, reads[k].ask) /\ reads[k].from <= moves /\ k[1] \in Listed
        /\ ItemsFine(items, rides, tour) /\ RowsFine(reads[k].rows, items, rides)
        /\ tour.viewer = "rider" /\ reads[k].from = moves => ReadNow(k, reads[k], rides, tour)
    BY <1>1, <1>2 DEF ReadFine
  <1>4. /\ x \in Row /\ x.ride = r /\ (x.fare => r \in Earned(rides))
        /\ tour.viewer = "rider" /\ reads[k].from = moves =>
             x.status = rides[r].status /\ (x.fare <=> r \in Earned(rides))
    BY NewRowFine
  <1>5. /\ RidesOf(rows) = DOMAIN items => Put(k, Entry(k, rows))
        /\ RidesOf(rows) # DOMAIN items =>
             /\ reads' = [reads EXCEPT ![k].rows = rows]
             /\ UNCHANGED <<world, screen, selected, store, bad, since, joined, tour>>
    BY DEF DetailAnswer
  <1> HIDE DEF x
  <1>6. \A y \in reads[k].rows : y.ride # r
    BY <1>1 DEF RidesOf
  <1>7. RowsFine(rows, items, rides)
    BY <1>1, <1>3, <1>4, <1>6 DEF RowsFine
  <1>8. rows \in SUBSET Row
    BY <1>7 DEF RowsFine
  <1>9. tour.viewer = "rider" /\ reads[k].from = moves =>
          /\ ReadNow(k, reads[k], rides, tour)
          /\ \A y \in rows : y.status = rides[y.ride].status /\ (y.fare <=> y.ride \in Earned(rides))
    BY <1>3, <1>4 DEF ReadNow
  <1> HIDE DEF rows, items
  <1>10. CASE RidesOf(rows) = DOMAIN items
    <2>1. ASSUME NEW S \in SUBSET rows PROVE Cardinality(S) \in 0..tour.size
      <3>1. Cardinality(S) <= Cardinality(DOMAIN items) /\ Cardinality(S) \in Nat
        BY <1>3, <1>7, RowsCount DEF RowsFine, ItemsFine
      <3>2. Cardinality(DOMAIN items) \in Nat /\ Cardinality(DOMAIN items) <= tour.size /\ tour.size \in Nat
        BY <1>3, RidesFinite DEF ItemsFine, IInv, TourFine
      <3> QED BY <3>1, <3>2
    <2>2. \A y \in rows : y.fare => y.ride \in Earned(rides)
      BY <1>7 DEF RowsFine
    <2>3. tour.viewer = "rider" /\ reads[k].from = moves =>
            /\ reads[k].total = Cardinality(Known(rides))
            /\ k[1] # "detail" => RidesOf(rows) = PageOf(Known(rides), tour)
      BY <1>9, <1>10 DEF ReadNow, items
    <2>5. Cardinality(rows) = Cardinality(RidesOf(rows))
      BY <1>3, <1>7, RowsAndRides DEF ItemsFine, RowsFine
    <2>4. /\ EntryFine(k, Entry(k, rows), rides, moves, tour)
          /\ Entry(k, rows).upto = moves /\ Entry(k, rows).from = reads[k].from
      BY <1>1, <1>3, <1>8, <1>9, <2>1, <2>2, <2>3, <2>5, EntryStep
    <2> HIDE DEF Entry
    <2> QED BY <1>1, <1>5, <1>10, <2>4, PutStep DEF Put
  <1>11. CASE RidesOf(rows) # DOMAIN items
    <2>1. reads' = [reads EXCEPT ![k] = rd]
      BY <1>5, <1>11
    <2>2. /\ rd \in Reads /\ rd.items = items /\ rd.rows = rows /\ rd.total = reads[k].total
          /\ rd.ask = reads[k].ask /\ rd.from = reads[k].from
      BY <1>3, <1>8 DEF Reads, items
    <2> HIDE DEF rd
    <2>3. tour.viewer = "rider" /\ rd.from = moves => ReadNow(k, rd, rides, tour)
      BY <1>9, <2>2 DEF ReadNow, items
    <2>4. ReadFine(k, rd, rides, moves, tour)
      BY <1>1, <1>3, <1>7, <2>2, <2>3 DEF ReadFine
    <2> QED BY <1>1, <1>5, <1>11, <2>1, <2>2, <2>4, ReadStep
  <1> QED BY <1>10, <1>11

LEMMA PaymentsListed ==
  ASSUME rides \in [Rides -> RideRow], NEW n \in Nat
  PROVE  /\ ListPayments(n) = LastPaid(rides, n) /\ ListPayments(n) \in SUBSET Earned(rides)
         /\ ListPayments(n) \in SUBSET Rides /\ Cardinality(ListPayments(n)) \in Nat
  <1>1. Payments = Earned(rides) /\ Earned(rides) \in SUBSET Rides
    BY OwnRides DEF Earned
  <1>2. \A r \in Earned(rides) :
          {s \in Earned(rides) : Before(s, r)} = {s \in Earned(rides) : <<s, r>> \in PaidLater(rides)}
    BY <1>1 DEF Before, PaidLater
  <1>3. ListPayments(n) = LastPaid(rides, n)
    BY <1>1, <1>2 DEF ListPayments, LastPaid, First
  <1>4. ListPayments(n) \in SUBSET Earned(rides)
    BY <1>1 DEF ListPayments
  <1> QED BY <1>1, <1>3, <1>4, RidesFinite

LEMMA AnswerKeeps ==
  ASSUME IInv, NEW k \in Keys, Answer(k)
  PROVE  IInv'
  <1> DEFINE paid == ListPayments(Limit(k))
             e == [rows |-> {}, total |-> Cardinality(paid), spent |-> paid,
                   ask |-> reads[k].ask, from |-> moves, upto |-> moves]
  <1>1. reads[k] # None /\ k[1] \in {"spending", "payments"} /\ Put(k, e)
    BY DEF Answer, Reading
  <1>2. /\ AskFits(k, reads[k].ask) /\ moves \in Nat /\ tour.size \in Nat /\ Limit(k) \in Nat
        /\ rides \in [Rides -> RideRow]
    BY <1>1 DEF IInv, ReadsFine, ReadFine, World, TourFine, Limit
  <1>3. /\ paid = LastPaid(rides, Limit(k)) /\ paid \in SUBSET Earned(rides)
        /\ paid \in SUBSET Rides /\ Cardinality(paid) \in Nat
    BY <1>2, PaymentsListed
  <1>4. Cardinality({}) = 0
    BY FS_EmptySet
  <1>5. e \in Entries
    <2> HIDE DEF paid
    <2> QED BY <1>2, <1>3 DEF Entries, AskFits
  <1>6. /\ k \notin Counted \cup Paged
        /\ k \in Summaries => Limit(k) = tour.summed
        /\ k = RecentPayments => Limit(k) = tour.recent
    BY <1>1 DEF Counted, Paged, Summaries, RecentPayments, Limit
  <1>7. /\ e.rows = {} /\ e.total = Cardinality(paid) /\ e.spent = paid
        /\ e.ask = reads[k].ask /\ e.from = moves /\ e.upto = moves
    OBVIOUS
  <1> HIDE DEF e, paid
  <1>8. EntryNow(k, e, rides, tour)
    BY <1>3, <1>6, <1>7 DEF EntryNow
  <1>9. EntryFine(k, e, rides, moves, tour)
    BY <1>1, <1>2, <1>3, <1>4, <1>5, <1>7, <1>8 DEF EntryFine
  <1>10. Put(k, e)
    BY <1>1
  <1> QED BY <1>1, <1>7, <1>9, <1>10, PutStep DEF Put

\* The profile's key is none of a trips page, whose selection stays.
LEMMA ProfileAnswerKeeps ==
  ASSUME IInv, NEW counted \in BOOLEAN, ProfileAnswer(counted)
  PROVE  IInv'
  <1> DEFINE k == <<"profile", "-", "-">>
             n == IF counted THEN Cardinality(Requested) ELSE None
             e == [rows |-> {}, total |-> n, spent |-> None,
                   ask |-> reads[k].ask, from |-> moves, upto |-> moves]
  <1>1. /\ reads[k] # None /\ store' = [store EXCEPT ![k] = e] /\ reads' = [reads EXCEPT ![k] = None]
        /\ bad' = bad \ {k} /\ UNCHANGED <<world, screen, selected, since, joined, tour>>
    BY DEF ProfileAnswer, Reading
  <1>2. k \in Keys /\ k \notin Paged \cup Summaries \cup {RecentPayments} /\ k[1] = "profile"
    BY DEF Keys, Paged, Summaries, RecentPayments
  <1>3. AskFits(k, reads[k].ask) /\ moves \in Nat /\ tour.size \in Nat /\ opt \in Options
    BY <1>1, <1>2 DEF IInv, ReadsFine, ReadFine, World, TourFine, Screen
  <1>4. n \in {None, Cardinality(Known(rides))} /\ n \in {None} \cup Nat
    BY OwnRides, KnownFinite
  <1>5. Cardinality({}) = 0
    BY FS_EmptySet
  <1> HIDE DEF n
  <1>6. e \in Entries
    BY <1>3, <1>4 DEF Entries, AskFits
  <1>7. e.rows = {} /\ e.total = n /\ e.ask = reads[k].ask /\ e.from = moves /\ e.upto = moves
    OBVIOUS
  <1> HIDE DEF e
  <1>8. EntryFine(k, e, rides, moves, tour)
    BY <1>2, <1>3, <1>4, <1>5, <1>6, <1>7 DEF EntryFine, EntryNow
  <1>9. selected' = Reselect(page, opt, store', selected)
    <2>1. TripsKey(opt) \in Keys /\ TripsKey(opt) # k
      BY <1>3, TripsKeyInKeys DEF TripsKey
    <2>2. store'[TripsKey(opt)] = store[TripsKey(opt)]
      BY <1>1, <2>1 DEF IInv, StoreFine, OnKeys
    <2>3. Follows(tour, page, opt, store', selected)
      BY <2>2 DEF IInv, Follows, TripsShown
    <2>4. TourFine(tour)
      BY DEF IInv
    <2> QED BY <1>1, <2>3, <2>4, ReselectIdle
  <1> HIDE DEF k
  <1> QED BY <1>1, <1>2, <1>7, <1>8, <1>9, PutStep

----------------------------------------------------------------------------
(* The invariant holds, and implies the properties.                        *)

LEMMA InitInv == Init => IInv
  <1> SUFFICES ASSUME Init PROVE IInv
    OBVIOUS
  <1>1. TourFine(tour)
    BY RecordsAssumption DEF Init, TourFine
  <1>2. moves = 0 /\ today = 0 /\ selected = None /\ opt = FirstOpt /\ bad = {} /\ joined = {}
        /\ store = [k \in Keys |-> None] /\ since = [k \in Keys |-> 0]
        /\ page = IF tour.viewer = "rider" THEN "activity" ELSE "trips"
    BY DEF Init
  <1>3. World(rides, today, moves)
    <2>1. PastTrip \in RideRow /\ Unrequested \in RideRow
      BY DEF PastTrip, Unrequested, RideRow, Status
    <2> QED BY <1>2, <2>1 DEF Init, World
  <1>4. FirstOpt \in Options
    BY DEF FirstOpt, Options, ActivityFilters, StatusFilters, Periods
  <1>5. Screen(tour, page, opt, selected)
    BY <1>2, <1>4 DEF Screen, RiderPages, DriverPages
  <1>6. \A k \in Keys : store[k] = None /\ since[k] = 0
    BY <1>2
  <1>7. StoreFine(store, rides, moves, tour)
    BY <1>2, <1>6 DEF StoreFine, OnKeys
  <1>8. reads = [k \in Keys |-> IF k \in InUse(tour, page, opt, None) THEN Sent(opt) ELSE None]
    BY OpenKeysInUse DEF Init
  <1>9. \A k \in InUse(tour, page, opt, None) :
           /\ k \in Keys /\ reads[k] = Sent(opt)
           /\ Sent(opt) # None /\ Sent(opt).from = moves /\ ReadFine(k, Sent(opt), rides, moves, tour)
    BY <1>2, <1>4, <1>8, InUseFits, SentFine
  <1>10. ReadsFine(reads, rides, moves, tour)
    BY <1>8, <1>9 DEF ReadsFine, OnKeys
  <1>12. Agree(store, tour)
    BY <1>6, ViewKeys DEF Agree, Together
  <1>13. Marks(bad, joined, since, moves)
    BY <1>2 DEF Marks
  <1>14. Follows(tour, page, opt, store, selected)
    BY <1>2, <1>4, <1>6, TripsKeyInKeys DEF Follows, TripsShown, RidesOf
  <1>15. UpToDate(tour, page, opt, selected, store, reads, bad, since, joined)
    <2>1. ASSUME NEW k \in InUse(tour, page, opt, None)
          PROVE  reads[k] # None /\ reads[k].from >= since[k]
      BY <1>2, <1>6, <1>9
    <2> QED BY <1>2, <2>1 DEF UpToDate, Recent
  <1> QED BY <1>1, <1>3, <1>5, <1>7, <1>10, <1>12, <1>13, <1>14, <1>15 DEF IInv

LEMMA StepKeeps == IInv /\ [Next]_vars => IInv'
  <1> SUFFICES ASSUME IInv, [Next]_vars PROVE IInv'
    OBVIOUS
  <1>1. CASE UNCHANGED vars
    BY <1>1 DEF vars, world, screen, client, IInv
  <1>2. CASE Clicks
    BY <1>2, ClicksKeep
  <1>3. CASE Answers
    BY <1>3, ListAnswerKeeps, AnswerKeeps, ReadFailsKeeps, DetailAnswerKeeps, ProfileAnswerKeeps DEF Answers
  <1>4. CASE RidesMove
    BY <1>4, RequestKeeps, AdvanceKeeps, MonthKeeps DEF RidesMove
  <1> QED BY <1>1, <1>2, <1>3, <1>4 DEF Next

\* What every read and entry has to do with the rides, in every reachable state.
THEOREM RecordsInductive == Spec => []IInv
  BY InitInv, StepKeeps, PTL DEF Spec

\* Every variable has its type, and no list that is held is longer than the page
\* asked for, for any number of rides and any size of a page.
THEOREM RecordTypesHold == Spec => []TypeOK
  <1>1. IInv => TypeOK
    <2> SUFFICES ASSUME IInv PROVE TypeOK
      OBVIOUS
    <2>1. rides \in [Rides -> RideRow] /\ today \in Nat /\ moves \in Nat
      BY DEF IInv, World
    <2>2. ASSUME NEW k \in Keys, store[k] # None PROVE EntryOK(store[k])
      <3>1. EntryFine(k, store[k], rides, moves, tour)
        BY <2>2 DEF IInv, StoreFine
      <3>2. store[k].from \in Nat /\ store[k].upto \in Nat
        BY <3>1 DEF EntryFine, Entries
      <3> QED BY <2>1, <3>1, <3>2 DEF EntryFine, EntryOK
    <2>3. ASSUME NEW k \in Keys PROVE reads[k] = None \/ reads[k] \in Reads
      BY DEF IInv, ReadsFine, ReadFine
    <2>4. page \in Pages /\ opt \in Options /\ selected \in Rides \cup {None}
      BY DEF IInv, Screen, Pages
    <2>5. bad \subseteq Keys /\ joined \subseteq Keys /\ since \in [Keys -> 0..moves]
      BY DEF IInv, Marks
    <2> QED BY <2>1, <2>2, <2>3, <2>4, <2>5 DEF TypeOK, RideRow
  <1> QED BY <1>1, RecordsInductive, PTL

\* For any number of rides and any order of clicks, answers and steps of the
\* rides: what stands under the pills was asked for with them, the panel shows
\* one of the trips beside it, and nothing shown is older than the page, unless
\* its read had begun before, or failed.
THEOREM ScreenFollowsHolds == Spec => []ScreenFollows
  <1>1. IInv => ScreenFollows
    <2> SUFFICES ASSUME IInv PROVE ScreenFollows
      OBVIOUS
    <2>1. opt \in Options /\ ReadsFine(reads, rides, moves, tour) /\ StoreFine(store, rides, moves, tour)
      BY DEF IInv, Screen
    <2>2. \A p \in {"activity", "trips"} : page = p => Fields = InUse(tour, p, opt, selected)
      BY OpenKeysInUse DEF Fields
    <2>3. ASSUME NEW k \in Keys, Held(k) PROVE AskFits(k, store[k].ask)
      BY <2>1, <2>3 DEF Held, StoreFine, EntryFine
    <2>4. ShownAsAsked
      <3>1. ASSUME page = "activity", NEW k \in Fields, Held(k), k[1] = "activity"
            PROVE  store[k].ask.activity = opt.activity
        <4>1. k \in Keys /\ AskFits(k, opt)
          BY <2>1, <2>2, <3>1, InUseFits
        <4> QED BY <2>3, <3>1, <4>1 DEF AskFits
      <3>2. ASSUME Held(TripsKey(opt))
            PROVE  store[TripsKey(opt)].ask.status = opt.status /\ store[TripsKey(opt)].ask.period = opt.period
        <4>1. AskFits(TripsKey(opt), store[TripsKey(opt)].ask)
          BY <2>1, <2>3, <3>2, TripsKeyInKeys
        <4> QED BY <4>1 DEF AskFits, TripsKey
      <3> QED BY <3>1, <3>2 DEF ShownAsAsked
    <2>5. DetailFollowsList
      BY DEF IInv, Follows, DetailFollowsList
    <2>6. NoOlderThanOpen
      <3>1. ASSUME NEW k \in InUse(tour, page, opt, selected) PROVE Recent(k, store, reads, bad, since, joined)
        BY DEF IInv, UpToDate
      <3> QED BY <3>1, OpenKeysInUse DEF NoOlderThanOpen, Recent, Reading, Held
    <2> QED BY <2>4, <2>5, <2>6 DEF ScreenFollows
  <1> QED BY <1>1, RecordsInductive, PTL

\* For any number of rides and any lengths of a page, of the list of payments and
\* of their summary: the rider's views of one moment count the same trips and the
\* same money as far as their lists go, and every total counts money that was
\* earned.
THEOREM MoneyAddsUpHolds == Spec => []MoneyAddsUp
  <1>1. IInv => MoneyAddsUp
    <2> SUFFICES ASSUME IInv PROVE MoneyAddsUp
      OBVIOUS
    <2>1. ViewsAgree
      <3>1. \A k, l : SameMoment(k, l) => Together(store, k, l)
        BY DEF SameMoment, Together, Held
      <3>2. Agree(store, tour)
        BY DEF IInv
      <3> QED BY <3>1, <3>2 DEF ViewsAgree, TripsAgree, MoneyAgrees, Agree
    <2>2. MoneyIsEarned
      <3>1. ASSUME NEW k \in Keys, Held(k), k[1] # "profile", NEW r \in store[k].spent PROVE Paid(r)
        <4>1. EntryFine(k, store[k], rides, moves, tour)
          BY <3>1 DEF IInv, StoreFine, Held
        <4>2. r \in Earned(rides)
          BY <3>1, <4>1 DEF EntryFine
        <4> QED BY <4>2 DEF Earned, Paid
      <3> QED BY <3>1 DEF MoneyIsEarned
    <2> QED BY <2>1, <2>2 DEF MoneyAddsUp
  <1> QED BY <1>1, RecordsInductive, PTL

=============================================================================
