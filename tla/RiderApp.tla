------------------------------ MODULE RiderApp ------------------------------
(***************************************************************************)
(* The rider's web application (src/frontend/rider_web): one browser tab,  *)
(* its stored and its in-memory state, the screens and the calls they make *)
(* to the ride service, which answers late, twice the same ride, or not at *)
(* all.                                                                    *)
(*                                                                         *)
(*   session   three copies of the sign-in: localStorage, the React state  *)
(*             of useRiderSession and the token of the API client          *)
(*   ride      RideContext (addresses, fare estimates, selected fare) and  *)
(*             the stored id of the ride in progress                       *)
(*   screens   page, with HomePage's recovery of the latest ride, its fare *)
(*             search, the booking call, the polling of the tracking page  *)
(*             and the feedback of the completion page                     *)
(*   server    the rides, moved on by drivers, dispatch and administrators *)
(*                                                                         *)
(* Every await of the client is a step boundary: an answer is a record     *)
(* that waits until it is applied, and the rider may act in between.       *)
(***************************************************************************)
EXTENDS Integers, FiniteSets

CONSTANTS
    Routes,         \* pairs of a pickup and a drop-off the rider can enter
    MaxRides,       \* rides the server ever creates
    MaxRedispatch,  \* rides an administrator sends back to matching
    Tours           \* what a behaviour may meet: faults (sign-outs, expiries of the
                    \* token, reloads, lost answers), feedback calls in flight at a
                    \* time, and the values of isMobile

ASSUME RiderAppAssumption ==
    /\ MaxRides \in Nat \ {0}
    /\ MaxRedispatch \in Nat
    /\ \A t \in Tours : {t.faults, t.calls} \subseteq Nat /\ t.devices \subseteq BOOLEAN
    /\ "none" \notin Routes

VARIABLES
    session,  \* [booting, stored, signedIn, client, expired, call]
    ctx,      \* RideContext: [route, est]: the addresses and the route that the
              \* estimates and the selected fare are of
    active,   \* rc_active_ride_id, the stored id of the ride in progress
    page,     \* [name, ride]: the route shown
    home,     \* HomePage: [results, search, cached, modal]
    recs,     \* calls of getLatestRiderTrip in flight
    booking,  \* calls of requestRide in flight: the mutation and strays
    seen,     \* react-query's last status of each ride, and whether to poll
    done,     \* RideCompletePage: the detail it has read, and rateMutation.isPending
    feedback, \* feedback calls in flight, up to their answers
    rides,    \* the ride service's rides; `crossed` is history: no action reads it
    budget    \* the tour, with what is left of its faults, and of redispatches

vars == <<session, ctx, active, page, home, recs, booking, seen, done, feedback, rides, budget>>
screen == <<home, recs, seen, done>>

RideId == 1 .. MaxRides
NoRide == 0
NoRoute == "none"  \* in the context: the addresses are not both set

Status == {"MATCHING", "NO_DRIVERS_FOUND", "DRIVER_ASSIGNED",
           "RIDE_STARTED", "RIDE_COMPLETED", "CANCELLED"}
FeedbackStatus == {"PENDING", "SKIPPED", "SUBMITTED"}
Closed == {"RIDE_COMPLETED", "CANCELLED"}
TerminalTooEarly == Status \ {"MATCHING"}
TerminalForPolling == Closed \cup {"NO_DRIVERS_FOUND"}

Exists(r) == rides[r].status # "none"
Created == {r \in RideId : Exists(r)}
Latest == IF Created = {} THEN NoRide ELSE CHOOSE r \in Created : \A s \in Created : s <= r

At(n) == [name |-> n, ride |-> NoRide]
RidePage(n, r) == [name |-> n, ride |-> r]
PublicPages == {"login", "register"}
ProtectedPages == {"home", "payment", "summary", "activity"}
Page == [name : PublicPages \cup ProtectedPages, ride : {NoRide}]
          \cup [name : {"tracking", "complete"}, ride : RideId]

Recovery == [stage : {"active", "history", "detail", "answer"}, live : BOOLEAN,
             ride : RideId \cup {NoRide}, status : Status \cup {"none"}, acked : BOOLEAN]
NoDetail == [status |-> "none", acked |-> FALSE, feedback |-> "PENDING", sending |-> FALSE]
NoModal == "closed"

MaybeRoute == Routes \cup {NoRoute}
SessionState == [booting : BOOLEAN, stored : BOOLEAN, signedIn : BOOLEAN, client : BOOLEAN, expired : BOOLEAN,
                 call : {"none", "login", "signup", "hydrate", "hydrateNew", "profile"}]
Context == [route : MaybeRoute, est : MaybeRoute]
HomeState == [results : BOOLEAN, search : MaybeRoute, cached : SUBSET Routes,
              modal : {NoModal, "payment", "summary"}]
RideRow == [status : Status \cup {"none"}, route : MaybeRoute, priced : MaybeRoute,
            rated : BOOLEAN, feedback : FeedbackStatus, acked : BOOLEAN, crossed : BOOLEAN]
\* What a feedback call will do to feedback_status, once it has read the ride.
Writes == {"unread", "same", "SKIPPED", "SUBMITTED", "answered"}
FeedbackKind == {"rate", "confirm", "SUBMITTED", "SKIPPED", "seen"}

(***************************************************************************)
(* Navigation: the route guard, and what mounting a screen does            *)
(***************************************************************************)

\* PaymentPage and RideSummaryPage send the rider home when the context lacks
\* what they show.
Landing(p, c) ==
    IF p.name \in {"payment", "summary"} /\ (c.route \notin Routes \/ c.est = NoRoute)
    THEN At("home") ELSE p

\* A recovery that HomePage starts when it mounts.
Started == IF active # NoRide
           THEN [stage |-> "active", live |-> TRUE, ride |-> active, status |-> "none", acked |-> FALSE]
           ELSE [stage |-> "history", live |-> TRUE, ride |-> NoRide, status |-> "none", acked |-> FALSE]

\* isCancelled: the effect's cleanup when HomePage unmounts or `ride` changes.
Cancelled == {[q EXCEPT !.live = FALSE] : q \in {p \in recs : p.stage = "active"}}

Fresh == [home EXCEPT !.results = FALSE, !.modal = NoModal]

\* HomePage mounting with context c. A fare search of this route that
\* react-query still holds is taken over at once by the effect on
\* fareQuery.data; that changes `ride`, so the recovery that has just started
\* is cancelled.
Mount(c) ==
    LET cached == c.route \in home.cached
        taken == IF cached THEN [c EXCEPT !.est = c.route] ELSE c
    IN /\ ctx' = taken
       /\ home' = [Fresh EXCEPT !.results = cached \/ c.est # NoRoute]
       /\ recs' = Cancelled \cup {[Started EXCEPT !.live = (taken = c)]}

Unmounted == IF page.name = "home" THEN home' = Fresh /\ recs' = Cancelled
             ELSE UNCHANGED <<home, recs>>

\* ProtectedRoute: isSignedIn, and not isStoredTokenExpired().
Unguarded(p, c, s) == Landing(p, c)
Guarded(p, c, s) == IF p.name \in PublicPages \/ (s.signedIn /\ s.stored /\ ~s.expired)
                    THEN Landing(p, c) ELSE At("login")

\* Showing p with context c under session s: the guard, then the screen.
Show(p, c, s) ==
    LET guarded == Guarded(p, c, s)
    IN /\ page' = guarded
       /\ session' = IF guarded.name = "login" /\ p.name \notin PublicPages
                     THEN [s EXCEPT !.stored = FALSE] ELSE s
       /\ IF guarded.name = "home" THEN Mount(c) ELSE ctx' = c /\ Unmounted
       /\ seen' = [r \in RideId |-> [seen[r] EXCEPT !.poll = (guarded = RidePage("tracking", r))]]
       /\ done' = NoDetail

EmptyCtx == [route |-> NoRoute, est |-> NoRoute]

\* A change of the context while HomePage stays: the recovery effect cleans up.
Touch(c) == ctx' = c /\ recs' = Cancelled

(***************************************************************************)
(* Session                                                                 *)
(***************************************************************************)

\* RiderSessionProvider's effect: take the stored session over, or drop it.
Boot ==
    LET keep == session.stored /\ ~session.expired
        s == [session EXCEPT !.booting = FALSE, !.stored = keep, !.signedIn = keep, !.client = keep]
    IN /\ session.booting
       /\ Show(page, ctx, s)
       /\ UNCHANGED <<active, booking, feedback, rides, budget>>

\* LoginForm and RegisterForm: one submission at a time (isLoading). The tab
\* has one rider, who registers, if at all, before the first ride.
Submits(face, call) ==
    /\ ~session.booting /\ page = At(face)
    /\ ~session.signedIn /\ session.call = "none"
    /\ session' = [session EXCEPT !.call = call]
    /\ UNCHANGED <<ctx, active, page, screen, booking, feedback, rides, budget>>
LogIn == Submits("login", "login")
SignUp == Created = {} /\ Submits("register", "signup")

\* The answers up to the token. LoginForm stays as it is when it is refused;
\* so does RegisterForm, except that after the account was made, or existed
\* (409), a refused automatic sign-in is swallowed and the card flips.
SignInAnswer ==
    /\ session.call \in {"login", "signup"}
    /\ \/ /\ session' = [session EXCEPT !.client = TRUE,
                         !.call = IF session.call = "login" THEN "hydrate" ELSE "hydrateNew"]
          /\ UNCHANGED page
       \/ /\ session' = [session EXCEPT !.call = "none"]
          /\ page' \in {page} \cup IF session.call = "signup" THEN {At("login")} ELSE {}
    /\ UNCHANGED <<ctx, active, screen, booking, feedback, rides, budget>>

\* bootstrapRider and getMe, whose errors are ignored, then persistSession.
\* LoginForm navigates to "/"; after a sign-up LoginPage's effect does, and
\* updateMe is still to come.
SignedIn ==
    LET s == [session EXCEPT !.stored = TRUE, !.signedIn = TRUE, !.client = TRUE, !.expired = FALSE,
                             !.call = IF session.call = "hydrate" THEN "none" ELSE "profile"]
    IN /\ session.call \in {"hydrate", "hydrateNew"}
       /\ Show(At("home"), ctx, s)
       /\ UNCHANGED <<active, booking, feedback, rides, budget>>

\* After updateMe the sign-up form calls onSuccess = handleFlipToLogin, from
\* whatever screen the rider has reached; LoginPage's effect follows.
SignUpDone ==
    /\ session.call = "profile"
    /\ Show(At("login"), ctx, [session EXCEPT !.call = "none"])
    /\ UNCHANGED <<active, booking, feedback, rides, budget>>

\* LoginPage's effect: a signed-in rider is sent to "/". The guard there may
\* send the rider straight back.
LoginRedirect ==
    /\ ~session.booting /\ page.name \in PublicPages /\ session.signedIn
    /\ Show(At("home"), ctx, session)
    /\ UNCHANGED <<active, booking, feedback, rides, budget>>

FlipCard ==
    /\ ~session.booting /\ page.name \in PublicPages /\ ~session.signedIn
    /\ page' = At(IF page.name = "login" THEN "register" ELSE "login")
    /\ UNCHANGED <<session, ctx, active, screen, booking, feedback, rides, budget>>

\* The menu's Logout: the stored ride and the query cache stay.
SignOut ==
    /\ ~session.booting /\ page.name \notin PublicPages /\ session.call = "none"
    /\ budget.faults > 0
    /\ budget' = [budget EXCEPT !.faults = @ - 1]
    /\ Show(At("login"), ctx, [session EXCEPT !.stored = FALSE, !.signedIn = FALSE, !.client = FALSE])
    /\ UNCHANGED <<active, booking, feedback, rides>>

TokenExpires ==
    /\ session.stored /\ ~session.expired /\ budget.faults > 0
    /\ session' = [session EXCEPT !.expired = TRUE]
    /\ budget' = [budget EXCEPT !.faults = @ - 1]
    /\ UNCHANGED <<ctx, active, page, screen, booking, feedback, rides>>

\* Reloading the tab: what is not in localStorage is gone, the route stays.
Reload ==
    /\ ~session.booting /\ budget.faults > 0
    /\ session' = [session EXCEPT !.booting = TRUE, !.signedIn = FALSE, !.client = FALSE, !.call = "none"]
    /\ ctx' = EmptyCtx
    /\ home' = [Fresh EXCEPT !.search = NoRoute, !.cached = {}]
    /\ recs' = {}
    /\ booking' = {[b EXCEPT !.mine = FALSE] : b \in booking}
    /\ seen' = [r \in RideId |-> [status |-> "none", poll |-> FALSE]]
    /\ done' = NoDetail
    /\ feedback' = {[f EXCEPT !.mine = FALSE] : f \in {g \in feedback : g.writes # "answered"}}
    /\ budget' = [budget EXCEPT !.faults = @ - 1]
    /\ UNCHANGED <<active, page, rides>>

(***************************************************************************)
(* HomePage: recovery of the latest ride                                   *)
(***************************************************************************)

MayAsk == session.client /\ ~session.expired
Step(q, next) == recs' = (recs \ {q}) \cup next

\* A call that is refused, or whose answer is lost.
CallFails == \/ ~MayAsk /\ UNCHANGED budget
             \/ /\ MayAsk /\ budget.faults > 0
                /\ budget' = [budget EXCEPT !.faults = @ - 1]

\* getLatestRiderTrip asks for the stored ride first. A ride that is closed or
\* unmatched, or an error, removes the stored id, whatever it is by now.
RecoverActive(q) ==
    LET ride == rides[q.ride]
    IN /\ q.stage = "active"
       /\ \/ /\ MayAsk /\ ride.status \notin TerminalForPolling
             /\ Step(q, {[q EXCEPT !.stage = "answer", !.status = ride.status, !.acked = ride.acked]})
             /\ UNCHANGED <<active, budget>>
          \/ /\ IF MayAsk /\ ride.status \in TerminalForPolling THEN UNCHANGED budget ELSE CallFails
             /\ active' = NoRide
             /\ Step(q, {[q EXCEPT !.stage = "history", !.ride = NoRide]})
       /\ UNCHANGED <<session, ctx, page, home, booking, feedback, seen, done, rides>>

\* ... then for the newest entry of the history, and for that ride's detail.
RecoverHistory(q) ==
    /\ q.stage \in {"history", "detail"}
    /\ \/ /\ q.stage = "history" /\ MayAsk /\ Latest # NoRide
          /\ Step(q, {[q EXCEPT !.stage = "detail", !.ride = Latest]}) /\ UNCHANGED budget
       \/ /\ q.stage = "detail" /\ MayAsk
          /\ Step(q, {[q EXCEPT !.stage = "answer", !.status = rides[q.ride].status,
                                                    !.acked = rides[q.ride].acked]})
          /\ UNCHANGED budget
       \/ /\ IF MayAsk /\ Latest = NoRide THEN UNCHANGED budget ELSE CallFails
          /\ Step(q, {})
    /\ UNCHANGED <<session, ctx, active, page, home, booking, feedback, seen, done, rides>>

\* recoverLatestRide applies the answer unless it was cancelled.
RecoverApply(q) ==
    LET owed == q.status = "RIDE_COMPLETED" /\ ~q.acked
        open == q.status \notin Closed
    IN /\ q.stage = "answer"
       /\ IF ~q.live \/ ~(owed \/ open)
          THEN Step(q, {}) /\ UNCHANGED <<session, ctx, active, page, home, seen, done>>
          ELSE /\ active' = IF owed THEN NoRide ELSE q.ride
               /\ Show(RidePage(IF owed THEN "complete" ELSE "tracking", q.ride),
                       IF owed THEN EmptyCtx ELSE ctx, session)
       /\ UNCHANGED <<booking, feedback, rides, budget>>

(***************************************************************************)
(* HomePage: addresses, fares and booking                                  *)
(***************************************************************************)

OnHome == ~session.booting /\ page.name = "home"

\* Setting the addresses moves the fare query to the new route: the estimates
\* of a route searched before come back, any other leaves the old ones shown.
Readdress(route) ==
    LET cached == route \in home.cached
    IN /\ OnHome /\ home.modal = NoModal
       /\ Touch(IF cached THEN [ctx EXCEPT !.route = route, !.est = route]
                ELSE [ctx EXCEPT !.route = route])
       /\ home' = IF cached THEN [home EXCEPT !.results = TRUE] ELSE home
       /\ UNCHANGED <<session, active, page, booking, feedback, seen, done, rides, budget>>

\* A bound: after the last ride the rider books no more.
RidesLeft == rides[MaxRides].status \notin Closed

\* The location found at start-up, or by "Locate me", is the pickup.
Locate == \E route \in IF ctx.route \in Routes THEN Routes ELSE {NoRoute} : Readdress(route)

\* An address chosen from the suggestions, or the two swapped.
SelectAddress == RidesLeft /\ \E route \in Routes : Readdress(route)

\* handleSearch starts the estimates of the addresses as they are now.
Search ==
    /\ OnHome /\ home.modal = NoModal /\ home.search = NoRoute /\ RidesLeft
    /\ ctx.route \in Routes
    /\ home' = [home EXCEPT !.search = ctx.route]
    /\ UNCHANGED <<session, ctx, active, page, recs, booking, feedback, seen, done, rides, budget>>

\* ... and shows what comes back: the estimates of the route searched, also
\* when the addresses have changed since; refetch() does not throw, so without
\* an estimate the page turns to its results with the old ones.
SearchAnswer ==
    LET route == home.search
    IN /\ ~session.booting /\ route # NoRoute
       /\ \/ /\ MayAsk
             /\ Touch([ctx EXCEPT !.est = route])
             /\ home' = [home EXCEPT !.search = NoRoute, !.results = OnHome, !.cached = @ \cup {route}]
          \/ home' = [home EXCEPT !.search = NoRoute, !.results = OnHome] /\ UNCHANGED <<ctx, recs>>
          \/ home' = [home EXCEPT !.search = NoRoute] /\ UNCHANGED <<ctx, recs>>
       /\ UNCHANGED <<session, active, page, booking, feedback, seen, done, rides, budget>>

\* Book needs an estimate: on a phone it leads to /payment, otherwise through
\* two modals, each of which can be closed.
CanBook == OnHome /\ home.results /\ ctx.est # NoRoute /\ RidesLeft
BookOnPhone ==
    /\ CanBook /\ TRUE \in budget.devices /\ home.modal = NoModal
    /\ Show(At("payment"), ctx, session)
    /\ UNCHANGED <<active, booking, feedback, rides, budget>>

BookOnDesktop ==
    /\ CanBook /\ FALSE \in budget.devices
    /\ home' \in {[home EXCEPT !.modal = m] :
                    m \in IF home.modal = NoModal THEN {"payment"}
                          ELSE {NoModal} \cup IF home.modal = "payment" THEN {"summary"} ELSE {}}
    /\ UNCHANGED <<session, ctx, page, recs, seen, done, active, booking, feedback, rides, budget>>

\* The phone's pages: on to the summary, or back, also when the window is no
\* longer a phone's.
Onward ==
    /\ ~session.booting
    /\ \/ page.name = "payment" /\ Show(At("summary"), ctx, session)
       \/ page.name \in {"payment", "summary"} /\ Show(At("home"), ctx, session)
    /\ UNCHANGED <<active, booking, feedback, rides, budget>>

\* requestRide with the context's addresses. The modal sends the estimate it
\* shows; the summary page sends none and the server prices the route itself.
\* The button is disabled while the mutation is pending. A bound: the last
\* answer of a sign-up comes before the rider books.
Confirm ==
    /\ ~session.booting /\ session.call # "profile" /\ ~\E b \in booking : b.mine
    /\ \/ OnHome /\ home.modal = "summary" /\ ctx.est # NoRoute
       \/ page.name = "summary"
    /\ ctx.route \in Routes
    /\ booking' = booking \cup {[route |-> ctx.route, mine |-> TRUE, ride |-> NoRide,
                                 priced |-> IF OnHome THEN ctx.est ELSE ctx.route,
                                 authorized |-> MayAsk]}
    /\ UNCHANGED <<session, ctx, active, page, screen, feedback, rides, budget>>

\* The ride service: an open or unmatched ride of the rider on the same route
\* is the answer, otherwise a new ride.
Duplicates(route) == {r \in Created : rides[r].route = route /\ rides[r].status \notin Closed}
Serve(b) ==
    /\ b \in booking /\ b.authorized /\ b.ride = NoRide
    /\ LET old == Duplicates(b.route)
           r == IF old = {} THEN Cardinality(Created) + 1 ELSE CHOOSE x \in old : \A y \in old : y <= x
       IN /\ r \in RideId
          /\ rides' = IF old # {} THEN rides
                      ELSE [rides EXCEPT ![r] = [@ EXCEPT !.status = "MATCHING", !.route = b.route,
                                                          !.priced = b.priced]]
          /\ booking' = (booking \ {b}) \cup (IF b.mine THEN {[b EXCEPT !.ride = r]} ELSE {})
    /\ UNCHANGED <<session, ctx, active, page, screen, feedback, budget>>

\* onSuccess runs on whatever screen the rider is by then.
Booked(b) ==
    /\ ~session.booting /\ b \in booking /\ b.mine /\ b.ride # NoRide
    /\ booking' = booking \ {b}
    /\ active' = b.ride
    /\ Show(RidePage("tracking", b.ride), ctx, session)
    /\ UNCHANGED <<feedback, rides, budget>>

\* onError: the call was refused, or its answer is lost; in that case the
\* server may have handled it already, or may handle it still.
BookingFails(b) ==
    /\ ~session.booting /\ b \in booking /\ b.mine
    /\ \/ ~b.authorized /\ booking' = booking \ {b} /\ UNCHANGED budget
       \/ /\ b.authorized /\ budget.faults > 0 /\ budget' = [budget EXCEPT !.faults = @ - 1]
          /\ booking' = (booking \ {b}) \cup (IF b.ride = NoRide THEN {[b EXCEPT !.mine = FALSE]} ELSE {})
    /\ UNCHANGED <<session, ctx, active, page, screen, feedback, rides>>

(***************************************************************************)
(* RideTrackingPage                                                        *)
(***************************************************************************)

Tracking(r) == ~session.booting /\ page = RidePage("tracking", r)
\* A status that was never read shows as MATCHING.
Shown(r) == IF seen[r].status = "none" THEN "MATCHING" ELSE seen[r].status

\* getRideStatus every 3 s until a terminal status; a failed poll changes
\* nothing.
Poll(r) ==
    /\ Tracking(r) /\ seen[r].poll /\ MayAsk
    /\ seen' = [seen EXCEPT ![r] = [status |-> rides[r].status,
                                    poll |-> rides[r].status \notin TerminalForPolling]]
    /\ UNCHANGED <<session, ctx, active, page, home, recs, done, booking, feedback, rides, budget>>

\* The effect on the polled status.
Follow(r) ==
    /\ Tracking(r)
    /\ \/ /\ Shown(r) = "RIDE_COMPLETED"
          /\ active' = NoRide
          /\ Show(RidePage("complete", r), [ctx EXCEPT !.est = NoRoute], session)
       \/ /\ Shown(r) = "CANCELLED"
          /\ active' = NoRide
          /\ Show(At("home"), EmptyCtx, session)
       \/ /\ Shown(r) = "NO_DRIVERS_FOUND" /\ active # NoRide
          /\ active' = NoRide
          /\ UNCHANGED <<session, ctx, page, screen>>
    /\ UNCHANGED <<booking, feedback, rides, budget>>

\* Which of the buttons the page shows: SearchingState and DriverStatusPanel.
CancelShown(r) == Shown(r) \in {"MATCHING", "DRIVER_ASSIGNED"}
RetryShown(r) == Shown(r) = "NO_DRIVERS_FOUND"

\* handleCancel: the service cancels any ride that is not closed; an error
\* leaves the page as it is.
CancelRide(r) ==
    /\ Tracking(r) /\ CancelShown(r) /\ MayAsk /\ rides[r].status \notin Closed
    /\ rides' = [rides EXCEPT ![r].status = "CANCELLED"]
    /\ active' = NoRide
    /\ Show(At("home"), EmptyCtx, session)
    /\ UNCHANGED <<booking, feedback, budget>>

\* "Search again" and "View activity" after NO_DRIVERS_FOUND.
SearchAgain(r) ==
    /\ Tracking(r) /\ RetryShown(r)
    /\ active' = NoRide
    /\ \/ Show(At("home"), [ctx EXCEPT !.est = NoRoute], session)
       \/ Show(At("activity"), ctx, session)
    /\ UNCHANGED <<booking, feedback, rides, budget>>

(***************************************************************************)
(* RideCompletePage                                                        *)
(***************************************************************************)

Completed(r) == ~session.booting /\ page = RidePage("complete", r)
CanRate(d) == d.status = "RIDE_COMPLETED" /\ d.feedback = "PENDING"

\* The detail arrives: clearRide, and away if there is nothing left to confirm.
LoadDetail(r) ==
    LET d == [status |-> rides[r].status, acked |-> rides[r].acked, feedback |-> rides[r].feedback,
              sending |-> done.sending]
    IN /\ Completed(r) /\ MayAsk /\ done # d
       /\ active' = NoRide
       /\ IF d.status = "RIDE_COMPLETED" /\ ~d.acked
          THEN done' = d /\ ctx' = EmptyCtx /\ UNCHANGED <<session, page, home, recs, seen>>
          ELSE Show(IF d.status \in Closed THEN At("activity") ELSE RidePage("tracking", r), EmptyCtx, session)
       /\ UNCHANGED <<booking, feedback, rides, budget>>

\* Which of the buttons of the loaded page can be pressed: only Submit waits
\* for its own calls.
Buttons(d) == IF d.status # "RIDE_COMPLETED" THEN {}
              ELSE {"back"} \cup (IF CanRate(d) THEN {"skip"} ELSE {})
                            \cup (IF CanRate(d) /\ ~d.sending THEN {"rate"} ELSE {})

\* Submit rating, Skip for now, Back to activity. The last one repeats the
\* feedback status the page has read.
Feedback(r) ==
    /\ Completed(r) /\ MayAsk /\ Cardinality({f \in feedback : f.mine}) < budget.calls
    /\ \E b \in Buttons(done) :
          LET kind == CASE b = "rate" -> "rate"
                        [] b = "skip" -> "SKIPPED"
                        [] b = "back" -> IF done.feedback = "SUBMITTED" THEN "SUBMITTED" ELSE "seen"
          IN /\ feedback' = feedback \cup {[ride |-> r, kind |-> kind, mine |-> TRUE, writes |-> "unread"]}
             /\ done' = [done EXCEPT !.sending = @ \/ b = "rate"]
    /\ UNCHANGED <<session, ctx, active, page, home, recs, seen, booking, rides, budget>>

\* Mutant: a skip does not ask whether the ride is rated.
StatusUnchecked(ride, kind) ==
    CASE kind = "SKIPPED" -> "SKIPPED"
      [] kind = "rate" \/ (kind \in {"SUBMITTED", "confirm"} /\ ride.rated) -> "SUBMITTED"
      [] OTHER -> ride.feedback

\* What submit_rider_feedback and acknowledge_completion assign.
StatusFor(ride, kind) ==
    CASE kind = "SKIPPED" /\ ~ride.rated -> "SKIPPED"
      [] kind = "rate" \/ (kind \in {"SUBMITTED", "confirm"} /\ ride.rated) -> "SUBMITTED"
      [] OTHER -> ride.feedback

\* Both read the ride without a lock; a column whose value they do not change
\* is not written.
FeedbackRead(f) ==
    /\ f \in feedback /\ f.writes = "unread"
    /\ LET ride == rides[f.ride]
           next == StatusFor(ride, f.kind)
       IN feedback' = (feedback \ {f}) \cup
                        {[f EXCEPT !.writes = IF next = ride.feedback THEN "same" ELSE next]}
    /\ UNCHANGED <<session, ctx, active, page, screen, booking, rides, budget>>

\* Skips that have read the ride and are still to be committed.
Skipping(r) == {f \in feedback : f.ride = r /\ f.writes = "SKIPPED"}

Recorded(f) ==
    [rides[f.ride] EXCEPT !.rated = @ \/ f.kind = "rate", !.acked = TRUE,
                          !.feedback = IF f.writes = "same" THEN @ ELSE f.writes,
                          !.crossed = @ \/ (f.kind = "rate" /\ Skipping(f.ride) # {})]

\* ... and commit later, whatever the ride is by then.
FeedbackCommit(f) ==
    /\ f \in feedback /\ f.writes \notin {"unread", "answered"}
    /\ rides' = [rides EXCEPT ![f.ride] = Recorded(f)]
    /\ feedback' = (feedback \ {f}) \cup IF f.mine THEN {[f EXCEPT !.writes = "answered"]} ELSE {}
    /\ UNCHANGED <<session, ctx, active, page, screen, booking, budget>>

\* The answer comes. A rating is followed by the acknowledgement; any other
\* answer takes the rider to the activity, from whatever screen is shown by then.
FeedbackAnswer(f) ==
    /\ ~session.booting /\ f \in feedback /\ f.mine /\ f.writes = "answered"
    /\ feedback' = (feedback \ {f})
                     \cup IF f.kind = "rate" THEN {[f EXCEPT !.kind = "confirm", !.writes = "unread"]} ELSE {}
    /\ IF f.kind # "rate" THEN Show(At("activity"), ctx, session)
       ELSE UNCHANGED <<session, ctx, page, screen>>
    /\ UNCHANGED <<active, booking, rides, budget>>

\* The call or its answer is lost; the page stays as it is, and the service may
\* still handle what has reached it.
FeedbackLost(f) ==
    /\ f \in feedback /\ f.mine /\ budget.faults > 0
    /\ budget' = [budget EXCEPT !.faults = @ - 1]
    /\ feedback' = (feedback \ {f}) \cup IF f.writes = "answered" THEN {} ELSE {[f EXCEPT !.mine = FALSE]}
    /\ done' = [done EXCEPT !.sending = @ /\ f.kind \notin {"rate", "confirm"}]
    /\ UNCHANGED <<session, ctx, active, page, home, recs, seen, booking, rides>>

\* The menu of every protected page, and "Go to activity" when a detail did
\* not load.
Menu ==
    /\ ~session.booting /\ page.name \notin PublicPages
    /\ \E p \in {"home", "activity"} \ {page.name} : Show(At(p), ctx, session)
    /\ UNCHANGED <<active, booking, feedback, rides, budget>>

(***************************************************************************)
(* The ride service apart from this rider: dispatch, driver, administrator *)
(***************************************************************************)

Moves(s) == CASE s = "MATCHING" -> {"DRIVER_ASSIGNED", "NO_DRIVERS_FOUND", "CANCELLED"}
              [] s = "NO_DRIVERS_FOUND" -> {"MATCHING", "CANCELLED"}
              [] s = "DRIVER_ASSIGNED" -> {"RIDE_STARTED", "CANCELLED"}
              [] s = "RIDE_STARTED" -> {"RIDE_COMPLETED", "CANCELLED"}
              [] OTHER -> {}

Progress(r) ==
    /\ Exists(r)
    /\ \E s \in Moves(rides[r].status) :
          /\ s = "MATCHING" => budget.redispatch > 0
          /\ rides' = [rides EXCEPT ![r].status = s]
          /\ budget' = [budget EXCEPT !.redispatch = IF s = "MATCHING" THEN @ - 1 ELSE @]
    /\ UNCHANGED <<session, ctx, active, page, screen, booking, feedback>>

(***************************************************************************)
(* Specification                                                           *)
(***************************************************************************)

NewRideUnset == [status |-> "none", route |-> NoRoute, priced |-> NoRoute,
                 rated |-> FALSE, feedback |-> "none", acked |-> FALSE, crossed |-> FALSE]
NewRide == [status |-> "none", route |-> NoRoute, priced |-> NoRoute,
            rated |-> FALSE, feedback |-> "PENDING", acked |-> FALSE, crossed |-> FALSE]

\* A tab that opens, with or without a stored session.
Init ==
    /\ \E stored, expired \in BOOLEAN :
          /\ expired => stored
          /\ session = [booting |-> TRUE, stored |-> stored, signedIn |-> FALSE, client |-> FALSE,
                        expired |-> expired, call |-> "none"]
    /\ ctx = EmptyCtx
    /\ active = NoRide
    /\ page = At("home")
    /\ home = [results |-> FALSE, search |-> NoRoute, cached |-> {}, modal |-> NoModal]
    /\ recs = {}
    /\ booking = {}
    /\ seen = [r \in RideId |-> [status |-> "none", poll |-> FALSE]]
    /\ done = NoDetail
    /\ feedback = {}
    /\ rides = [r \in RideId |-> NewRide]
    /\ \E t \in Tours : budget = [faults |-> t.faults, calls |-> t.calls, devices |-> t.devices,
                                redispatch |-> MaxRedispatch]

Effects ==
    \/ Boot \/ SignInAnswer \/ SignedIn \/ SignUpDone \/ LoginRedirect
    \/ \E q \in recs : RecoverActive(q) \/ RecoverHistory(q) \/ RecoverApply(q)
    \/ SearchAnswer
    \/ \E b \in booking : Serve(b) \/ Booked(b) \/ BookingFails(b)
    \/ \E r \in RideId : LoadDetail(r)
    \/ \E f \in feedback : FeedbackRead(f) \/ FeedbackCommit(f) \/ FeedbackAnswer(f) \/ FeedbackLost(f)

Rider ==
    \/ LogIn \/ SignUp \/ FlipCard \/ SignOut \/ Menu
    \/ Locate \/ SelectAddress \/ Search \/ BookOnPhone \/ BookOnDesktop \/ Onward \/ Confirm
    \/ \E r \in RideId : CancelRide(r) \/ SearchAgain(r) \/ Feedback(r)

Next ==
    \/ Effects \/ Rider \/ TokenExpires \/ Reload
    \/ \E r \in RideId : Poll(r) \/ Follow(r) \/ Progress(r)

\* The browser runs the effects and timers of the screen shown, and the calls
\* that they make are answered or fail.
Fairness ==
    /\ WF_vars(Boot)
    /\ WF_vars(\E q \in recs : RecoverActive(q) \/ RecoverHistory(q) \/ RecoverApply(q))
    /\ WF_vars(\E r \in RideId : Poll(r) \/ Follow(r))

Spec == Init /\ [][Next]_vars
LiveSpec == Spec /\ Fairness

(***************************************************************************)
(* Properties                                                              *)
(***************************************************************************)

\* The session, the context, the route, the calls in flight and the service's
\* rides keep the shapes that the application's types give them.
TypeOK ==
    /\ session \in SessionState /\ ctx \in Context
    /\ active \in RideId \cup {NoRide}
    /\ page \in Page
    /\ home \in HomeState
    /\ recs \subseteq Recovery
    /\ booking \subseteq [route : Routes, priced : Routes, mine : BOOLEAN, authorized : BOOLEAN,
                          ride : RideId \cup {NoRide}]
    /\ seen \in [RideId -> [status : Status \cup {"none"}, poll : BOOLEAN]]
    /\ done \in [status : Status \cup {"none"}, acked : BOOLEAN, feedback : FeedbackStatus, sending : BOOLEAN]
    /\ feedback \subseteq [ride : RideId, kind : FeedbackKind, mine : BOOLEAN, writes : Writes]
    /\ rides \in [RideId -> RideRow]
    /\ \E t \in Tours : budget \in [faults : 0 .. t.faults, calls : {t.calls}, devices : {t.devices},
                                  redispatch : 0 .. MaxRedispatch]

\* Ratings, skips and acknowledgements, which the service reads and commits
\* without a lock and in any order (ride_service.py:439, 485), keep a trip's
\* feedback together: a rating leaves nothing open or unconfirmed, nothing is
\* called submitted that is not rated, and only completed trips have feedback.
\* A rated trip is called skipped only if a skip had read it unrated and was
\* committed after the rating.
FeedbackConsistent ==
    \A r \in RideId :
        /\ rides[r].rated => rides[r].acked /\ rides[r].feedback # "PENDING"
        /\ rides[r].rated /\ rides[r].feedback = "SKIPPED" => rides[r].crossed
        /\ rides[r].feedback = "SUBMITTED" => rides[r].rated
        /\ rides[r].feedback # "PENDING" => rides[r].status = "RIDE_COMPLETED" /\ rides[r].acked

\* Not so without that exception, although acknowledge_completion looks for a
\* rating before it skips (ride_service.py:507): Skip can be pressed while a
\* rating is under way.
RatingStands == \A r \in RideId : rides[r].rated => rides[r].feedback = "SUBMITTED"

\* Once the stored session is read, the three copies of the sign-in go
\* together: calls carry a token exactly when someone is signed in or a sign-in
\* is under way, and no protected screen is shown to anyone else, also when an
\* answer that navigates comes after a sign-out.
SessionAgrees ==
    ~session.booting =>
        /\ session.signedIn => session.client
        /\ session.stored => session.signedIn
        /\ session.client => session.signedIn \/ session.call \in {"hydrate", "hydrateNew"}
        /\ page.name \notin PublicPages => session.signedIn

\* A rider who opens the application after a trip whose completion is still to
\* be confirmed is taken to it.
RefreshRecovers ==
    \A r \in RideId :
        (/\ OnHome /\ MayAsk /\ \E q \in recs : q.live /\ q.stage \in {"active", "history"}
         /\ rides[r].status = "RIDE_COMPLETED" /\ ~rides[r].acked)
            ~> page.name # "home" \/ ~MayAsk \/ rides[r].acked

\* A ride is priced for the route it is requested on.
PricedForItsRoute == \A r \in Created : rides[r].priced = rides[r].route

\* The rider is never shown a closed ride as the one in progress for good: the
\* tracking page of a ride that has ended is left, unless the rider's token
\* has expired.
TrackingLeaves ==
    \A r \in RideId :
        page = RidePage("tracking", r) /\ Shown(r) # "NO_DRIVERS_FOUND" /\ rides[r].status \in Closed
            ~> page # RidePage("tracking", r) \/ session.expired
=============================================================================
