------------------------------ MODULE TripRecords ------------------------------
(***************************************************************************)
(* What the web applications show of past trips: the rider's activity      *)
(* page, ride history (trips, spending, insights) and profile, or the      *)
(* driver's ride history (trips, earnings, performance, detail panel).     *)
(*                                                                         *)
(* One browser reads while rides move on.  A list is read in two steps:    *)
(* a page of rides first, then the detail of each of them.  Answers go to  *)
(* the query client under the key their query had when it was sent; a page *)
(* shows what its present keys hold, be it from an earlier visit.          *)
(***************************************************************************)
EXTENDS Integers, FiniteSets

CONSTANTS
  MaxRides,    \* bound: rides requested
  Tours,       \* bounds: who looks, how many rides are past, how long a page of
               \* rides (10), the list of payments (8) and that of their summary
               \* (500) may be, and how many clicks, steps of the rides and failed
               \* reads a behaviour has
  None         \* no value

ASSUME RecordsAssumption ==
  /\ MaxRides \in Nat \ {0}
  /\ \A t \in Tours : 
       /\ t.viewer \in {"rider", "driver"} /\ t.past \in 0..MaxRides
       /\ t.size \in Nat \ {0} /\ t.recent \in Nat /\ t.summed \in Nat /\ t.recent <= t.summed

VARIABLES
  rides,     \* ride -> status, ever assigned to the driver, day requested, and
             \* the step at which it was completed
  today,     \* the date
  moves,     \* history: steps of the rides so far
  page,      \* the open page or tab
  opt,       \* its filters
  selected,  \* the trip of the detail panel
  store,     \* query key -> what the query client holds, or None
  reads,     \* query key -> the read under way, or None
  bad,       \* the keys whose last read failed
  since,     \* history: the value of moves when the present keys came into use
  joined,    \* history: those that joined a read under way at that moment
  tour, left \* the bounds of this behaviour, and what is left of them

world == <<rides, today, moves>>
screen == <<page, opt>>
client == <<store, reads, bad>>
vars == <<world, screen, selected, client, since, joined, tour, left>>

Rides == 1..MaxRides
Status == {"none", "MATCHING", "DRIVER_ASSIGNED", "RIDE_STARTED", "RIDE_COMPLETED", "CANCELLED"}

RiderPages == {"activity", "trips", "spending", "insights", "profile"}
DriverPages == {"trips", "earnings", "performance"}
HistoryTabs == {"trips", "spending", "insights", "earnings", "performance"}
Pages == IF tour.viewer = "rider" THEN RiderPages ELSE DriverPages

\* UPCOMING and PAYMENTS, which find nothing, are one.
ActivityFilters == {"ALL", "ONGOING", "PAST", "PAYMENTS"}
StatusFilters == {"ALL", "RIDE_COMPLETED", "CANCELLED"}
Periods == {"all_time", "this_month"}
Options == [activity : ActivityFilters, status : StatusFilters, period : Periods]
FirstOpt == [activity |-> "ALL", status |-> "ALL", period |-> "all_time"]

\* The rows of a table, the items of a list of rides, what the query client holds
\* under a key, and a read under way.
Row == [ride : Rides, status : Status, day : Nat, fare : BOOLEAN]
Items == UNION {[set -> [status : Status, paid : BOOLEAN]] : set \in SUBSET Rides}
Entries == [rows : SUBSET Row, total : {None} \cup Nat, spent : {None} \cup SUBSET Rides,
            ask : Options, from : Nat, upto : Nat]
Reads == [ask : Options, from : Nat, items : {None} \cup Items, rows : SUBSET Row, total : Nat]

ASSUME NoneAssumption == None \notin Nat \cup Items \cup Entries \cup Reads

----------------------------------------------------------------------------
(* Keys.                                                                   *)

\* Mutant: the status is missing in the key.
UnfilteredTripsKey(o) == <<"trips", "ALL", o.period>>

TripsKey(o) == <<"trips", o.status, o.period>>

DetailKeys == {<<"detail", r, "-">> : r \in Rides}

\* Mutant: the payments are read on the trips tab only.
OpenKeysNoPayments(p, o, sel) ==
  CASE p = "activity" -> {<<"stats", "-", "-">>, <<"activity", o.activity, "-">>}
    [] p = "spending" -> {<<"spending", "-", o.period>>}
    [] OTHER          -> {TripsKey(o)}

\* The queries page p subscribes to with the filters o: useQuery's keys, where
\* enabled.  The driver's trips are read whatever the tab.
OpenKeys(p, o, sel) ==
  CASE p = "activity" -> {<<"stats", "-", "-">>, <<"activity", o.activity, "-">>}
    [] p = "spending" -> {<<"spending", "-", o.period>>, <<"payments", "-", "-">>}
    [] p = "insights" -> {<<"insights", "-", "-">>}
    [] p = "profile"  -> {<<"profile", "-", "-">>}
    [] p = "earnings" -> {TripsKey(o), <<"earnings", "-", o.period>>}
    [] p = "performance" -> {TripsKey(o), <<"performance", "-", "-">>}
    [] OTHER -> {TripsKey(o)} \cup {k \in DetailKeys : tour.viewer = "driver" /\ k[2] = sel}

Keys ==
  {<<"stats", "-", "-">>, <<"payments", "-", "-">>, <<"insights", "-", "-">>,
   <<"profile", "-", "-">>, <<"performance", "-", "-">>}
  \cup {<<"activity", f, "-">> : f \in ActivityFilters}
  \cup {<<"trips", f, p>> : f \in StatusFilters, p \in Periods}
  \cup {<<q, "-", p>> : q \in {"spending", "earnings"}, p \in Periods}
  \cup DetailKeys

\* The routes no service has.
Unserved == {"earnings", "performance"}
\* The queries that read a list and then the detail of each ride in it.
Listed == {"stats", "activity", "trips", "insights", "detail"}

----------------------------------------------------------------------------
(* What the services answer.                                               *)

Requested == {r \in Rides : rides[r].status # "none"}
Own == IF tour.viewer = "rider" THEN Requested ELSE {r \in Requested : rides[r].driven}

\* Mutant: one ride too many.
FirstPageAndOne(set) == {r \in set : Cardinality({s \in set : s > r}) <= tour.size}

\* list_rider_history, list_driver_rides: the newest requests first.
FirstPage(set) == {r \in set : Cardinality({s \in set : s > r}) < tour.size}

Paid(r) == rides[r].status = "RIDE_COMPLETED"

\* Mutant: every ride is a payment.
EveryPayment == Requested

\* The rides with a final fare, and of two of them the one that comes first.
Payments == {r \in Requested : Paid(r)}
Before(s, r) == rides[s].done > rides[r].done \/ (rides[s].done = rides[r].done /\ s > r)

\* list_payments: the last of them, as far as its limit goes.
ListPayments(limit) == {r \in Payments : Cardinality({s \in Payments : Before(s, r)}) < limit}

----------------------------------------------------------------------------
(* What the application makes of it.                                       *)

\* normalizeStatus: the driver's application knows three of the statuses.
NormalizeStatus(s) ==
  IF tour.viewer = "driver" /\ s \notin {"CANCELLED", "RIDE_STARTED"} THEN "RIDE_COMPLETED" ELSE s

\* Mutant: the fare is the estimate where there is no final one.
NewRowEstimated(item, r) ==
  [ride |-> r, status |-> NormalizeStatus(item.status), day |-> rides[r].day, fare |-> TRUE]

\* A row: the status of the list and, for a rider where the list has no fare,
\* the fare of the detail, which is read later.
NewRow(item, r) ==
  [ride |-> r, status |-> NormalizeStatus(item.status), day |-> rides[r].day,
   fare |-> item.paid \/ (tour.viewer = "rider" /\ Paid(r))]

RidesOf(rows) == {x.ride : x \in rows}

InPeriod(row, p) == p = "this_month" => today - row.day <= 31
FilterRides(rows, f, p) == {x \in rows : f \in {"ALL", x.status} /\ InPeriod(x, p)}

\* getRiderActivity's filterItems.
FilterItems(rows, f) ==
  CASE f = "ONGOING" -> {x \in rows : x.status \in {"DRIVER_ASSIGNED", "RIDE_STARTED"}}
    [] f = "PAST"    -> {x \in rows : x.status \in {"RIDE_COMPLETED", "CANCELLED"}}
    [] f = "ALL"     -> rows
    [] OTHER         -> {}

\* buildSummary's total_spent: the rides it adds up.
Spent(rows) == RidesOf({x \in rows : x.status = "RIDE_COMPLETED" /\ x.fare})

Kept(q, rows, ask) ==
  CASE q = "trips"    -> FilterRides(rows, ask.status, ask.period)
    [] q = "activity" -> FilterItems(rows, ask.activity)
    [] OTHER          -> rows

----------------------------------------------------------------------------
(* The query client.                                                       *)

\* Mutant: what the cache holds never gets old.
StaleUnlessHeld(k) == store[k] = None

\* staleTime is zero: whatever is held is read again when a page uses it.
Stale(k) == TRUE

Reading(k) == reads[k] # None
Sent(o) == [ask |-> o, from |-> moves, items |-> None, rows |-> {}, total |-> 0]

\* The queries of keys are read unless a read of them is under way; an error
\* is forgotten where there is no data.
Fetch(keys, o) ==
  LET new == {k \in keys : ~Reading(k) /\ Stale(k)}
  IN  /\ reads' = [k \in Keys |-> IF k \in new THEN Sent(o) ELSE reads[k]]
      /\ bad' = {k \in bad : k \notin new \/ store[k] # None}

\* Page p with the filters o: the queries new to it are read.
Use(p, o, sel) ==
  LET new == OpenKeys(p, o, sel) \ OpenKeys(page, opt, selected)
  IN  /\ page' = p /\ opt' = o
      /\ Fetch(new, o)
      /\ since' = [k \in Keys |-> IF k \in new THEN moves ELSE since[k]]
      /\ joined' = {k \in OpenKeys(p, o, sel) : IF k \in new THEN Reading(k) ELSE k \in joined}
      /\ UNCHANGED store

Click == left.clicks > 0 /\ left' = [left EXCEPT !.clicks = @ - 1]

\* RideHistoryPage's effect, of the page, filters and store a step ends with:
\* the selection is one of the trips shown, the newest if it was not.  The
\* driver's page has no such effect, and keeps its selection.
TripsShown(p, o, st) == IF p = "trips" /\ st[TripsKey(o)] # None THEN st[TripsKey(o)].rows ELSE {}
Newest(rows) == IF rows = {} THEN None ELSE CHOOSE r \in RidesOf(rows) : \A s \in RidesOf(rows) : s <= r

\* Mutant: the first trips decide.
ReselectOnce(p, o, st, sel) == IF sel # None THEN sel ELSE Newest(TripsShown(p, o, st))

Reselect(p, o, st, sel) ==
  IF tour.viewer = "driver" \/ p # "trips" \/ sel \in RidesOf(TripsShown(p, o, st)) THEN sel
  ELSE Newest(TripsShown(p, o, st))

----------------------------------------------------------------------------
(* The person at the browser.                                              *)

\* A page of the rider's menu: its component starts with its own filters, the
\* history with its trips.
Open(p) ==
  /\ Click
  /\ p \in {"activity", "trips", "profile"} \ {page}
  /\ tour.viewer = "rider" /\ ~(p = "trips" /\ page \in HistoryTabs)
  /\ Use(p, FirstOpt, None)
  /\ selected' = Reselect(p, FirstOpt, store, None)
  /\ UNCHANGED <<world, tour>>

SetTab(p) ==
  /\ Click
  /\ {p, page} \subseteq HistoryTabs /\ p \in Pages \ {page}
  /\ Use(p, opt, selected)
  /\ selected' = Reselect(p, opt, store, selected)
  /\ UNCHANGED <<world, tour>>

\* The pills of the filters.  None of them is the period all_time.
SetFilter(o) ==
  /\ Click
  /\ o # opt
  /\ \/ page = "activity" /\ \E f \in ActivityFilters : o = [opt EXCEPT !.activity = f]
     \/ page = "trips" /\ \E f \in StatusFilters : o = [opt EXCEPT !.status = f]
     \/ page = "trips" /\ o = [opt EXCEPT !.period = "this_month"]
  /\ Use(page, o, selected)
  /\ selected' = Reselect(page, o, store, selected)
  /\ UNCHANGED <<world, tour>>

\* A row of the trips; the driver's panel reads the trip.
Pick(r) ==
  /\ Click
  /\ r # selected /\ r \in RidesOf(TripsShown(page, opt, store))
  /\ Use(page, opt, r)
  /\ selected' = r
  /\ UNCHANGED <<world, tour>>

ClosePanel ==
  /\ Click
  /\ tour.viewer = "driver" /\ page = "trips" /\ selected # None
  /\ Use(page, opt, None)
  /\ selected' = None
  /\ UNCHANGED <<world, tour>>

\* The window gets the focus back, or Retry on the profile: what the page uses
\* is read again.
Refocus ==
  /\ Click
  /\ Fetch(OpenKeys(page, opt, selected), opt)
  /\ UNCHANGED <<world, screen, selected, store, since, joined, tour>>

----------------------------------------------------------------------------
(* The answers.                                                            *)

Put(k, entry) ==
  /\ store' = [store EXCEPT ![k] = entry]
  /\ selected' = Reselect(page, opt, store', selected)
  /\ reads' = [reads EXCEPT ![k] = None]
  /\ bad' = bad \ {k}
  /\ UNCHANGED <<world, screen, since, joined, tour, left>>

\* The number of trips: insights take it from the service, the others count
\* the rows they keep of the page.
Entry(k, rows) ==
  [rows |-> Kept(k[1], rows, reads[k].ask),
   total |-> IF k[1] = "insights" THEN reads[k].total ELSE Cardinality(Kept(k[1], rows, reads[k].ask)),
   spent |-> Spent(Kept(k[1], rows, reads[k].ask)),
   ask |-> reads[k].ask, from |-> reads[k].from, upto |-> moves]

Item(r) == [status |-> rides[r].status, paid |-> Paid(r)]

\* The list: a page of rides, or of them the one the panel shows.
ListAnswer(k) ==
  /\ k[1] \in Listed /\ Reading(k) /\ reads[k].items = None
  /\ LET listed == IF k[1] = "detail" THEN {k[2]} ELSE FirstPage(Own)
     IN  IF listed = {} THEN Put(k, Entry(k, {}))
         ELSE /\ reads' = [reads EXCEPT ![k].items = [r \in listed |-> Item(r)],
                                        ![k].total = Cardinality(Own)]
              /\ UNCHANGED <<world, screen, selected, store, bad, since, joined, tour, left>>

\* The detail of one of its rides; with the last one the read is over.
DetailAnswer(k, r) ==
  /\ Reading(k) /\ reads[k].items # None
  /\ r \in DOMAIN reads[k].items /\ r \notin RidesOf(reads[k].rows)
  /\ LET rows == reads[k].rows \cup {NewRow(reads[k].items[r], r)}
     IN  IF RidesOf(rows) = DOMAIN reads[k].items THEN Put(k, Entry(k, rows))
         ELSE /\ reads' = [reads EXCEPT ![k].rows = rows]
              /\ UNCHANGED <<world, screen, selected, store, bad, since, joined, tour, left>>

\* payment-summary and payments, each with its limit.
Limit(k) == IF k[1] = "payments" THEN tour.recent ELSE tour.summed

Answer(k) ==
  /\ Reading(k) /\ k[1] \in {"spending", "payments"}
  /\ Put(k, [rows |-> {}, total |-> Cardinality(ListPayments(Limit(k))), spent |-> ListPayments(Limit(k)),
             ask |-> reads[k].ask, from |-> moves, upto |-> moves])

\* The number of rides of the profile: shown as zero where only that call of
\* its four failed.
ProfileAnswer(counted) ==
  LET k == <<"profile", "-", "-">>
  IN  /\ Reading(k)
      /\ IF counted THEN UNCHANGED left ELSE left.faults > 0 /\ left' = [left EXCEPT !.faults = @ - 1]
      /\ store' = [store EXCEPT ![k] =
           [rows |-> {}, total |-> IF counted THEN Cardinality(Requested) ELSE None, spent |-> None,
            ask |-> reads[k].ask, from |-> moves, upto |-> moves]]
      /\ reads' = [reads EXCEPT ![k] = None]
      /\ bad' = bad \ {k}
      /\ UNCHANGED <<world, screen, selected, since, joined, tour>>

ReadFails(k) ==
  /\ Reading(k)
  /\ IF k[1] \in Unserved THEN UNCHANGED left
     ELSE left.faults > 0 /\ left' = [left EXCEPT !.faults = @ - 1]
  /\ reads' = [reads EXCEPT ![k] = None]
  /\ bad' = bad \cup {k}
  /\ UNCHANGED <<world, screen, selected, store, since, joined, tour>>

----------------------------------------------------------------------------
(* The rides.                                                              *)

Moved == left.moves > 0 /\ left' = [left EXCEPT !.moves = @ - 1] /\ moves' = moves + 1

Request(r) ==
  /\ Moved
  /\ r \notin Requested /\ 1..(r - 1) \subseteq Requested
  /\ rides' = [rides EXCEPT ![r] = [@ EXCEPT !.status = "MATCHING", !.day = today]]
  /\ UNCHANGED <<today, screen, selected, client, since, joined, tour>>

Successors(s) ==
  CASE s = "MATCHING"        -> {"DRIVER_ASSIGNED", "CANCELLED"}
    [] s = "DRIVER_ASSIGNED" -> {"RIDE_STARTED", "CANCELLED"}
    [] s = "RIDE_STARTED"    -> {"RIDE_COMPLETED", "CANCELLED"}
    [] OTHER                 -> {}

Advance(r, s) ==
  /\ Moved
  /\ s \in Successors(rides[r].status)
  /\ rides' = [rides EXCEPT ![r].status = s, ![r].driven = @ \/ s = "DRIVER_ASSIGNED",
                           ![r].done = IF s = "RIDE_COMPLETED" THEN moves' ELSE @]
  /\ UNCHANGED <<today, screen, selected, client, since, joined, tour>>

\* More than the 31 days of this_month.
MonthPasses ==
  /\ left.months > 0 /\ left' = [left EXCEPT !.months = @ - 1]
  /\ today' = today + 32
  /\ UNCHANGED <<rides, moves, screen, selected, client, since, joined, tour>>

----------------------------------------------------------------------------
Unrequested == [status |-> "none", driven |-> FALSE, day |-> 0, done |-> 0]
PastTrip == [status |-> "RIDE_COMPLETED", driven |-> TRUE, day |-> 0, done |-> 0]

Init ==
  /\ tour \in Tours
  /\ left = [clicks |-> tour.clicks, moves |-> tour.moves, faults |-> tour.faults, months |-> tour.months]
  /\ rides = [r \in Rides |-> IF r <= tour.past THEN PastTrip ELSE Unrequested]
  /\ today = 0 /\ moves = 0
  /\ page = (IF tour.viewer = "rider" THEN "activity" ELSE "trips")
  /\ opt = FirstOpt /\ selected = None
  /\ store = [k \in Keys |-> None] /\ bad = {}
  /\ reads = [k \in Keys |-> IF k \in OpenKeys(page, opt, None) THEN Sent(opt) ELSE None]
  /\ since = [k \in Keys |-> 0] /\ joined = {}

Answers ==
  \/ \E k \in Keys : ListAnswer(k) \/ Answer(k) \/ ReadFails(k)
  \/ \E k \in Keys, r \in Rides : DetailAnswer(k, r)
  \/ \E counted \in BOOLEAN : ProfileAnswer(counted)

RidesMove ==
  \/ \E r \in Rides : Request(r)
  \/ \E r \in Rides, s \in Status : Advance(r, s)
  \/ MonthPasses

Clicks ==
  \/ \E p \in RiderPages : Open(p)
  \/ \E p \in HistoryTabs : SetTab(p)
  \/ \E f \in ActivityFilters, st \in StatusFilters, p \in Periods :
       SetFilter([activity |-> f, status |-> st, period |-> p])
  \/ \E r \in Rides : Pick(r)
  \/ ClosePanel
  \/ Refocus

Next == Clicks \/ Answers \/ RidesMove

Spec == Init /\ [][Next]_vars

\* A read under way goes on: it is answered, or where there is no service fails.
Settles ==
  \/ \E k \in Keys \ {x \in Keys : x[1] \in Unserved} :
       ListAnswer(k) \/ Answer(k) \/ \E r \in Rides : DetailAnswer(k, r)
  \/ \E k \in Keys : k[1] \in Unserved /\ ReadFails(k)
  \/ ProfileAnswer(TRUE)

LiveSpec == Spec /\ WF_vars(Settles)

----------------------------------------------------------------------------
(* What the pages show.                                                    *)

Held(k) == store[k] # None
Loading(keys) == \E k \in keys : Reading(k) /\ ~Held(k)
Complete(keys) == \A k \in keys : Held(k)

ActivityFields == OpenKeys("activity", opt, None)
SpendingFields == {<<"spending", "-", opt.period>>, <<"payments", "-", "-">>}
Fields == IF page = "spending" THEN SpendingFields ELSE OpenKeys(page, opt, selected)

ActivityScreen ==
  IF Loading(ActivityFields) THEN "loading"
  ELSE IF ActivityFields \cap bad # {} \/ ~Complete(ActivityFields) THEN "error" ELSE "content"

TripsScreen ==
  IF Loading({TripsKey(opt)}) THEN "loading" ELSE IF TripsKey(opt) \in bad THEN "error" ELSE "content"

\* Spending and insights have no message for a failed read.
FiguresScreen ==
  IF Loading(Fields) THEN "loading" ELSE IF Complete(Fields) THEN "content" ELSE "blank"

ProfileScreen ==
  IF Loading(Fields) THEN "loading"
  ELSE IF Fields \cap bad # {} \/ ~Complete(Fields) THEN "error" ELSE "content"

RiderScreen ==
  CASE page = "activity" -> ActivityScreen
    [] page = "trips"    -> TripsScreen
    [] page = "profile"  -> ProfileScreen
    [] OTHER             -> FiguresScreen

----------------------------------------------------------------------------
(* Properties.                                                             *)

EntryOK(e) ==
  /\ e \in Entries /\ Cardinality(e.rows) <= tour.size
  /\ e.from \in 0..moves /\ e.upto \in e.from..moves

\* Every variable has its type, and no list is longer than the page asked for.
TypeOK ==
  /\ rides \in [Rides -> [status : Status, driven : BOOLEAN, day : Nat, done : Nat]]
  /\ today \in Nat /\ moves \in Nat
  /\ page \in Pages /\ selected \in Rides \cup {None}
  /\ opt \in Options
  /\ \A k \in Keys : store[k] = None \/ EntryOK(store[k])
  /\ \A k \in Keys : reads[k] = None \/ reads[k] \in Reads
  /\ bad \subseteq Keys /\ joined \subseteq Keys
  /\ since \in [Keys -> 0..moves]

\* The numbers of trips that the service counts, the views that count and add
\* up a page, and those of the payments.
Counted == {<<"insights", "-", "-">>, <<"profile", "-", "-">>}
Paged == {<<"stats", "-", "-">>, <<"trips", "ALL", "all_time">>}
Summaries == {<<"spending", "-", p>> : p \in Periods}
RecentPayments == <<"payments", "-", "-">>

SameMoment(k, l) ==
  /\ Held(k) /\ Held(l)
  /\ store[k].from = store[k].upto /\ store[l].from = store[l].upto
  /\ store[k].from = store[l].from

UpTo(n, total) == IF total <= n THEN total ELSE n

\* The rider's statistics, trips, insights, profile, spending and list of
\* payments come from four routes, are cut at three lengths and computed apart.
\* Read while no ride moves they tell the same as far as they go.
\* The number of trips is the service's up to the length of a page; the money
\* of a page is part of the summary's, and the same where the history is
\* shorter than a page; the recent payments are part of the summary's, and the
\* same where there are no more than they list.
TripsAgree ==
  /\ \A k, l \in Counted :
       SameMoment(k, l) /\ None \notin {store[k].total, store[l].total} => store[k].total = store[l].total
  /\ \A k \in Paged, l \in Counted :
       SameMoment(k, l) /\ store[l].total # None => store[k].total = UpTo(tour.size, store[l].total)

MoneyAgrees ==
  /\ \A k, l \in Paged : SameMoment(k, l) => store[k].spent = store[l].spent
  /\ \A k \in Paged, l \in Summaries : SameMoment(k, l) /\ store[l].total < tour.summed =>
       /\ store[k].spent \subseteq store[l].spent
       /\ store[k].total < tour.size => store[k].spent = store[l].spent
  /\ \A l \in Summaries : SameMoment(RecentPayments, l) =>
       /\ store[RecentPayments].spent \subseteq store[l].spent
       /\ store[l].total <= tour.recent => store[RecentPayments].spent = store[l].spent

ViewsAgree == tour.viewer = "rider" => TripsAgree /\ MoneyAgrees

\* Not so: all views of one moment tell the same number of trips and the same
\* money.  The statistics call the length of a page the total of trips.
ViewsTellTheSame ==
  tour.viewer = "rider" =>
  /\ \A k \in Paged, l \in Counted :
       SameMoment(k, l) /\ store[l].total # None => store[k].total = store[l].total
  /\ \A k \in Paged, l \in Summaries \cup {RecentPayments} : SameMoment(k, l) => store[k].spent = store[l].spent

\* What stands under the pills was asked for with the filters they show,
\* whatever earlier filters' answers come late or are still held.
ShownAsAsked ==
  /\ page = "activity" => \A k \in Fields : Held(k) /\ k[1] = "activity" => store[k].ask.activity = opt.activity
  /\ page = "trips" /\ Held(TripsKey(opt)) =>
       /\ store[TripsKey(opt)].ask.status = opt.status
       /\ store[TripsKey(opt)].ask.period = opt.period

\* The panel beside the rider's trips shows one of them, whatever filter, late
\* answer or cached list they come from; it is empty only without trips.
DetailFollowsList ==
  tour.viewer = "rider" /\ page = "trips" =>
    LET shown == RidesOf(TripsShown(page, opt, store))
    IN  IF shown = {} THEN selected = None ELSE selected \in shown

\* A page that has settled shows nothing read before it was opened, although it
\* starts from what the query client still holds, unless its read joined one
\* that was under way then, or failed.
NoOlderThanOpen ==
  \A k \in OpenKeys(page, opt, selected) :
    ~Reading(k) /\ k \notin bad \cup joined => Held(k) /\ store[k].from >= since[k]

\* The totals count money of completed rides only: the rider's, although the
\* status and the fare are of two moments; the driver's, although his list
\* calls every ride completed that is neither cancelled nor started.
MoneyIsEarned ==
  \A k \in Keys : Held(k) /\ k[1] # "profile" => \A r \in store[k].spent : Paid(r)

\* What stands on a page was asked for by its filters, is one of its own rows
\* and is not older than the page.
ScreenFollows == ShownAsAsked /\ DetailFollowsList /\ NoOlderThanOpen

\* The sums tell the same as far as they go, and only of money that was earned.
MoneyAddsUp == ViewsAgree /\ MoneyIsEarned

\* A page of the rider that is loading or blank comes to show something, an
\* error included, unless one of its reads failed.
ScreensSettle ==
  (tour.viewer = "rider" /\ RiderScreen \in {"loading", "blank"})
    ~> (RiderScreen \notin {"loading", "blank"} \/ Fields \cap bad # {})
=============================================================================
