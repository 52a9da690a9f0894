------------------------------ MODULE DriverApp ------------------------------
(***************************************************************************)
(* The driver's web application (src/frontend/driver_web): one browser tab *)
(* of one driver, and what its calls do in the ride service. A colleague   *)
(* may sign in on the same tab: of him only the session, the approval and  *)
(* the screens are modelled, he has no rides and presses no button of them.*)
(*                                                                         *)
(*   session  whose the stored token is, and the one in React state, whose *)
(*            effect sends the heartbeats                                  *)
(*   guard    DriverKycGuard's query: its last reading, of whose approval  *)
(*            it is, and for whom it is asking; signing out keeps it       *)
(*   cache    react-query: availability, pending offers, the active ride   *)
(*   ui       the dialog of the active-ride page and the expired offer     *)
(*   calls    what the buttons have sent and not heard of yet              *)
(*   driver   the driver's row and its presence in Redis                   *)
(*   guest    the colleague's approval, or that there is none              *)
(*   rides    the rides, each with its one offer to this driver            *)
(*                                                                         *)
(* A call is sent, served and answered in three steps; the driver may use  *)
(* the application in between, close the tab or sign out.                  *)
(***************************************************************************)
EXTENDS Integers, FiniteSets

CONSTANTS
    Guests,     \* what the colleague may be to begin with, or "absent"
    MaxRides,   \* rides that are offered to this driver
    SharedRides,\* of these on a tab that a colleague uses too
    MaxFaults,  \* tabs closed, sign-outs, expiries of the token, lost calls
    MaxCalls    \* calls in flight

ASSUME DriverAppAssumption ==
    /\ {MaxRides, SharedRides, MaxFaults, MaxCalls} \subseteq Nat
    /\ Guests \subseteq {"absent", "no", "yes"}

VARIABLES session, page, guard, cache, ui, calls, driver, guest, rides, faults

vars == <<session, page, guard, cache, ui, calls, driver, guest, rides, faults>>
tab == <<session, page, guard, cache, ui>>

Ride == 1 .. MaxRides
NoRide == 0

Stages == <<"DRIVER_ASSIGNED", "DRIVER_EN_ROUTE", "DRIVER_ARRIVED", "RIDE_STARTED", "RIDE_COMPLETED">>
Active == {"DRIVER_ASSIGNED", "DRIVER_EN_ROUTE", "DRIVER_ARRIVED", "RIDE_STARTED"}
Closed == {"RIDE_COMPLETED", "CANCELLED"}
Status == {"none", "MATCHING"} \cup Active \cup Closed
Follows(s, t) == \E i \in 1 .. 4 : Stages[i] = s /\ Stages[i + 1] = t

Public == {"login", "register"}
Operations == {"dashboard", "offers", "active"}
At(n) == [name |-> n, ride |-> NoRide]
Offer(r) == [name |-> "offer", ride |-> r]
Page == {At(n) : n \in Public \cup Operations \cup {"closed", "pending"}}
          \cup {Offer(r) : r \in Ride}
Guarded(p) == p.name \in Operations \cup {"offer"}

\* Who signs in on this tab.
Users == {"driver"} \cup (IF guest = "absent" THEN {} ELSE {"guest"})

SessionState == [who : {"driver", "guest"}, stored : BOOLEAN, live : BOOLEAN, expired : BOOLEAN, call : {"none", "boot", "login"}]
CacheState == [avail : {"none", "OFFLINE", "BUSY", "ONLINE"}, offers : SUBSET Ride,
               ride : Ride \cup {NoRide}, stage : Status]
UiState == [dialog : {"none", "cancel"} \cup Status, expired : BOOLEAN]
DriverRow == [known : BOOLEAN, approved : BOOLEAN, online : BOOLEAN, available : BOOLEAN,
              key : {"none", "expired", "busy", "available"}]

FreshUi == [dialog |-> "none", expired |-> FALSE]
NoGuard == [value |-> "none", whose |-> "none", failed |-> FALSE, asked |-> "none"]
NoCache == [avail |-> "none", offers |-> {}, ride |-> NoRide, stage |-> "none"]

(***************************************************************************)
(* The ride service                                                        *)
(***************************************************************************)

\* Offered and unanswered; DUE once its time is up.
Pending == {r \in Ride : rides[r].offer \in {"PENDING", "DUE"}}
Own(r) == rides[r].offer = "ACCEPTED"
Unfinished == {r \in Ride : Own(r) /\ rides[r].status \in Active}
\* The first unfinished ride of the history, which is newest first.
Current == IF Unfinished = {} THEN NoRide ELSE CHOOSE r \in Unfinished : \A s \in Unfinished : s <= r

\* What the service lists to whoever has signed in.
Listed == IF session.who = "driver" THEN Pending ELSE {}
Mine == IF session.who = "driver" THEN Current ELSE NoRide

\* _cancel_unfinished_rides_for_driver
Abandoned(rs) == [r \in Ride |-> IF rs[r].offer = "ACCEPTED" /\ rs[r].status \in Active
                                 THEN [rs[r] EXCEPT !.status = "CANCELLED"] ELSE rs[r]]

\* The driver's row and presence after the service has reconciled a lapsed
\* presence, as get_profile and the heartbeat do first.
Lapsed == driver.key = "expired" /\ driver.online
ForgottenDriver == [driver EXCEPT !.key = IF @ = "expired" THEN "none" ELSE @]
ReconciledDriver == [driver EXCEPT !.key = IF @ = "expired" THEN "none" ELSE @,
                                   !.online = @ /\ ~Lapsed, !.available = @ /\ ~Lapsed]
ReconciledRides == IF Lapsed THEN Abandoned(rides) ELSE rides

ToggledByName(d, online) == [d EXCEPT !.online = online, !.available = online,
                                      !.key = IF online THEN "ONLINE" ELSE "none"]
\* update_availability
Toggled(d, online) == [d EXCEPT !.online = online, !.available = online,
                                !.key = IF online THEN "available" ELSE "none"]

\* cancel_ride and complete_ride free the driver.
Freed(d) == [d EXCEPT !.online = TRUE, !.available = TRUE]

\* accept_offer: again for one's own, else only while pending and in time.
Acceptable(r) == Own(r) \/ rides[r].offer = "PENDING"

\* What a call does, and the code that it is answered with.
Code(c) ==
    LET accepted ==
           CASE c.kind = "availability" -> driver.approved \/ c.arg = "OFFLINE"
             [] c.kind = "accept" -> Acceptable(c.ride)
             [] c.kind = "reject" -> c.ride \in Pending
             [] c.kind = "stage" -> Own(c.ride) /\ Follows(rides[c.ride].status, c.arg)
             [] c.kind = "cancel" -> Own(c.ride) /\ rides[c.ride].status \notin Closed
    IN IF ~c.auth THEN 401 ELSE IF accepted THEN 200 ELSE 409

Served(c) ==
    CASE c.kind = "availability" ->
            /\ driver' = Toggled(driver, c.arg = "ONLINE")
            /\ rides' = IF c.arg = "ONLINE" THEN rides ELSE Abandoned(rides)
      [] c.kind = "accept" ->
            /\ driver' = IF Own(c.ride) THEN driver ELSE [driver EXCEPT !.available = FALSE]
            /\ rides' = IF Own(c.ride) THEN rides
                        ELSE [rides EXCEPT ![c.ride] = [@ EXCEPT !.offer = "ACCEPTED", !.status = "DRIVER_ASSIGNED"]]
      [] c.kind = "reject" ->
            rides' = [rides EXCEPT ![c.ride].offer = "REJECTED"] /\ UNCHANGED driver
      [] c.kind = "stage" ->
            /\ rides' = [rides EXCEPT ![c.ride].status = c.arg]
            /\ driver' = IF c.arg = "RIDE_COMPLETED" THEN Freed(driver) ELSE driver
      [] c.kind = "cancel" ->
            /\ rides' = [rides EXCEPT ![c.ride].status = "CANCELLED"]
            /\ driver' = Freed(driver)

Serve(c) ==
    /\ c.code = 0
    /\ IF Code(c) = 200 THEN Served(c)
       ELSE /\ UNCHANGED driver
            /\ rides' = IF c.auth /\ c.kind = "accept" /\ c.ride \in Pending
                        THEN [rides EXCEPT ![c.ride].offer = "EXPIRED"] ELSE rides
    /\ calls' = (calls \ {c}) \cup (IF c.mine THEN {[c EXCEPT !.code = Code(c)]} ELSE {})
    /\ UNCHANGED <<tab, guest, faults>>

\* A call that never arrives, or whose answer is lost.
Lose(c) ==
    /\ faults > 0 /\ faults' = faults - 1
    /\ c.mine /\ c.code # 500
    /\ calls' = (calls \ {c}) \cup {[c EXCEPT !.code = 500]}
    /\ UNCHANGED <<tab, driver, guest, rides>>

(***************************************************************************)
(* Navigation                                                              *)
(***************************************************************************)

Valid(s) == s.stored /\ ~s.expired

\* What is kept of the page that is left: the answers of its calls find its
\* state gone, and the next page reads what it shows.
Settled(cs) == {[c EXCEPT !.here = FALSE] : c \in cs}
Leave(n, cs) ==
    /\ ui' = FreshUi
    /\ calls' = Settled(cs)
    /\ cache' = IF n \in {"dashboard", "active"} THEN [cache EXCEPT !.avail = "none"]
                ELSE [NoCache EXCEPT !.offers = cache.offers]

\* DriverAuthGuard, then DriverKycGuard with the approval that it knows.
Admitted(p) == IF Guarded(p) /\ guard.value = "no" /\ ~guard.failed THEN At("pending") ELSE p

Approved == guard.value = "yes" /\ ~guard.failed

\* For whom the guard asks under session s: a request carries its token.
Asker(s) == IF Valid(s) THEN s.who ELSE "nobody"

\* Approvals are not taken back: asking again for the asker's own can only fail
\* (GuardFails).
Known(s) == Approved /\ guard.whose = Asker(s)

\* Showing p under session s, with the calls cs in flight. The guard asks for
\* the approval whenever it mounts, or joins a request that is under way, while
\* it acts on what it has; a page of the same name stays mounted.
Show(p, s, cs) ==
    LET shown == IF p.name \in Public THEN p ELSE IF Valid(s) THEN Admitted(p) ELSE At("login")
    IN /\ page' = shown
       /\ session' = s
       /\ guard' = IF Guarded(p) /\ Valid(s) /\ ~Guarded(page) /\ guard.asked = "none" /\ ~Known(s)
                   THEN [guard EXCEPT !.asked = Asker(s)] ELSE guard
       /\ IF shown.name = page.name THEN ui' = ui /\ calls' = cs /\ cache' = cache
          ELSE Leave(shown.name, cs)

\* What the guard lets the driver see.
Visible(n) == page.name = n /\ (Guarded(page) => Approved)

\* The links of the sidebar, the pending page and the dashboard.
Navigate ==
    /\ page.name \notin Public \cup {"closed"}
    /\ \E n \in (Operations \cup {"pending"}) \ {page.name} : Show(At(n), session, calls)
    /\ UNCHANGED <<driver, guest, rides, faults>>

ReadingKnown(w) == IF w = "guest" \/ driver.known THEN "yes" ELSE "no"
Approval(w) == IF w = "driver" THEN driver.approved ELSE guest = "yes"
\* mapProfile's is_approved.
Reading(w) == IF Approval(w) THEN "yes" ELSE "no"

\* The answer to the guard's query: the approval of the driver who sent it, ...
GuardAnswer ==
    /\ guard.asked \in Users
    /\ LET known == Reading(guard.asked)
       IN /\ guard' = [value |-> known, whose |-> guard.asked, failed |-> FALSE, asked |-> "none"]
          /\ IF Guarded(page) /\ known = "no"
             THEN page' = At("pending") /\ Leave("pending", calls)
             ELSE UNCHANGED <<page, cache, ui, calls>>
    /\ driver' = ReconciledDriver /\ rides' = ReconciledRides
    /\ UNCHANGED <<session, guest, faults>>

\* ... or an error, a refused or a lost call. It hides the screens of an
\* approved driver.
GuardFails ==
    /\ guard.asked # "none" \/ (Guarded(page) /\ Known(session))
    /\ IF guard.asked # "nobody" /\ Valid(session) THEN faults > 0 /\ faults' = faults - 1 ELSE UNCHANGED faults
    /\ guard' = [guard EXCEPT !.failed = TRUE, !.asked = "none"]
    /\ IF Guarded(page) /\ Approved THEN Leave("pending", calls) ELSE UNCHANGED <<cache, ui, calls>>
    /\ UNCHANGED <<session, page, driver, guest, rides>>

\* The window gets the focus.
GuardFocus ==
    /\ Guarded(page) /\ guard.asked = "none" /\ ~Known(session)
    /\ guard' = [guard EXCEPT !.asked = Asker(session)]
    /\ UNCHANGED <<session, page, cache, ui, calls, driver, guest, rides, faults>>

\* The Retry button: refetch() restarts a request when there is a reading.
GuardRetry ==
    /\ Guarded(page) /\ guard.failed /\ (guard.asked = "none" \/ guard.value # "none")
    /\ guard' = [guard EXCEPT !.asked = Asker(session)]
    /\ UNCHANGED <<session, page, cache, ui, calls, driver, guest, rides, faults>>

\* DriverPublicGuard: with a valid token, to the screen the approval allows; to
\* the pending page when it cannot be read.
PublicRedirect ==
    /\ page.name \in Public /\ Valid(session) /\ session.call = "none"
    /\ \/ Show(At(IF Reading(session.who) = "yes" THEN "dashboard" ELSE "pending"), session, calls) /\ UNCHANGED faults
       \/ faults > 0 /\ faults' = faults - 1 /\ Show(At("pending"), session, calls)
    /\ UNCHANGED <<driver, guest, rides>>

(***************************************************************************)
(* Session                                                                 *)
(***************************************************************************)

\* DriverSessionProvider's effect: the stored token is used at once, while
\* /auth/me is asked; only an answer that fails ("boot") changes anything.
Open ==
    /\ page.name = "closed"
    /\ \E n \in {"login", "dashboard"}, call \in {"none", "boot"} :
          /\ IF call = "boot" /\ Valid(session) THEN faults > 0 /\ faults' = faults - 1 ELSE UNCHANGED faults
          /\ session.stored /\ session.expired => call = "boot"
          /\ ~session.stored => call = "none"
          /\ Show(At(n), [session EXCEPT !.live = session.stored, !.call = call], calls)
    /\ UNCHANGED <<driver, guest, rides>>

\* The session is dropped, whatever the failure was. No screen changes.
BootFails ==
    /\ session.call = "boot"
    /\ session' = [session EXCEPT !.call = "none", !.stored = FALSE, !.live = FALSE]
    /\ UNCHANGED <<page, guard, cache, ui, calls, driver, guest, rides, faults>>

\* DriverLoginForm: the session begins with the token ...
LogIn(w) ==
    /\ page = At("login") /\ ~Valid(session) /\ session.call = "none"
    /\ w = "driver" => driver.known
    /\ session' = [who |-> w, stored |-> TRUE, live |-> TRUE, expired |-> FALSE, call |-> "login"]
    /\ UNCHANGED <<page, guard, cache, ui, calls, driver, guest, rides, faults>>

\* ... and the profile decides where it leads.
LoggedIn ==
    /\ session.call = "login"
    /\ \/ /\ Valid(session) /\ UNCHANGED faults
          /\ Show(At(IF Reading(session.who) = "yes" THEN "dashboard" ELSE "pending"), [session EXCEPT !.call = "none"], calls)
       \/ /\ IF Valid(session) THEN faults > 0 /\ faults' = faults - 1 ELSE UNCHANGED faults
          /\ Show(At("pending"), [session EXCEPT !.call = "none"], calls)
    /\ UNCHANGED <<driver, guest, rides>>

\* DriverRegisterForm makes the account and leads to the login; the card flips.
Register ==
    /\ page = At("register")
    /\ driver' \in {driver, [driver EXCEPT !.known = TRUE]}
    /\ page' = At("login")
    /\ UNCHANGED <<session, guard, cache, ui, calls, guest, rides, faults>>

FlipCard ==
    /\ page = At("login") /\ session.call = "none" /\ ~driver.known
    /\ page' = At("register")
    /\ UNCHANGED <<session, guard, cache, ui, calls, driver, guest, rides, faults>>

New(k, r, a) == [kind |-> k, ride |-> r, arg |-> a, auth |-> Valid(session), code |-> 0, mine |-> TRUE, here |-> TRUE]

\* Logout in the menu: the driver is to go offline, nobody waits for it.
SignOut ==
    /\ page.name \notin Public \cup {"closed"} /\ faults > 0 /\ session.call = "none"
    /\ Cardinality(calls) < MaxCalls
    /\ faults' = faults - 1
    /\ Show(At("login"), [session EXCEPT !.stored = FALSE, !.live = FALSE],
            calls \cup (IF session.who = "driver"
                       THEN {[New("availability", NoRide, "OFFLINE") EXCEPT !.mine = FALSE]} ELSE {}))
    /\ UNCHANGED <<driver, guest, rides>>

TokenExpires ==
    /\ session.stored /\ ~session.expired /\ faults > 0
    /\ faults' = faults - 1
    /\ session' = [session EXCEPT !.expired = TRUE]
    /\ UNCHANGED <<page, guard, cache, ui, calls, driver, guest, rides>>

CloseTab ==
    /\ page.name # "closed" /\ faults > 0
    /\ faults' = faults - 1
    /\ page' = At("closed") /\ guard' = NoGuard /\ cache' = NoCache /\ ui' = FreshUi
    /\ session' = [session EXCEPT !.live = FALSE, !.call = "none"]
    /\ calls' = {[c EXCEPT !.mine = FALSE, !.here = FALSE] : c \in {d \in calls : d.code = 0}}
    /\ UNCHANGED <<driver, guest, rides>>

\* Every 15 s while a token is in memory; presence keeps the row's values.
Beating == session.live /\ Valid(session) /\ session.who = "driver"
Heartbeat ==
    /\ Beating
    /\ rides' = ReconciledRides
    /\ driver' = LET d == ReconciledDriver
                 IN IF d.online /\ d.approved
                    THEN [d EXCEPT !.key = IF d.available THEN "available" ELSE "busy"] ELSE d
    /\ UNCHANGED <<tab, calls, guest, faults>>

(***************************************************************************)
(* Queries                                                                 *)
(***************************************************************************)

\* The pages with DriverLayout.
Layout == page.name = "pending" \/ (Guarded(page) /\ Approved)

\* get_profile answers from presence, not from the row.
Availability(d) == CASE d.key = "available" -> "ONLINE" [] d.key = "busy" -> "BUSY" [] OTHER -> "OFFLINE"

\* When a page mounts, when the window gets the focus, after a toggle.
ReadProfile ==
    /\ Layout /\ Valid(session)
    /\ driver' = ReconciledDriver /\ rides' = ReconciledRides
    /\ cache' = [cache EXCEPT !.avail = IF session.who = "driver" THEN Availability(ReconciledDriver) ELSE "OFFLINE"]
    /\ UNCHANGED <<session, page, guard, ui, calls, guest, faults>>

\* Every 5 s.
ReadOffers ==
    /\ Layout /\ Valid(session)
    /\ cache' = [cache EXCEPT !.offers = Listed]
    /\ UNCHANGED <<session, page, guard, ui, calls, driver, guest, rides, faults>>

\* getActiveRide, every 3 or 5 s: the history names the ride, its detail the
\* stage.
ReadActive ==
    /\ Visible("dashboard") \/ Visible("active")
    /\ Valid(session)
    /\ cache' = [cache EXCEPT !.ride = Mine, !.stage = IF Mine = NoRide THEN "none" ELSE rides[Mine].status]
    /\ UNCHANGED <<session, page, guard, ui, calls, driver, guest, rides, faults>>

(***************************************************************************)
(* Buttons and answers                                                     *)
(***************************************************************************)

Idle(kinds) == ~\E c \in calls : c.here /\ c.kind \in kinds
Send(k, r, a) ==
    /\ session.who = "driver" /\ Cardinality(calls) < MaxCalls
    /\ calls' = calls \cup {New(k, r, a)}
    /\ UNCHANGED <<tab, driver, guest, rides, faults>>

\* The switch of the dashboard, disabled while busy.
ToggleAvailability ==
    /\ Visible("dashboard") /\ cache.avail \in {"ONLINE", "OFFLINE"} /\ Idle({"availability"})
    /\ Send("availability", NoRide, IF cache.avail = "ONLINE" THEN "OFFLINE" ELSE "ONLINE")

\* An offer of the list.
OpenOffer(r) ==
    /\ Visible("offers") /\ r \in cache.offers
    /\ Show(Offer(r), session, calls)
    /\ UNCHANGED <<driver, guest, rides, faults>>

OfferStays(r) ==
    /\ page = Offer(r) /\ Visible("offer") /\ r \notin cache.offers /\ ~ui.expired
    /\ Show(At("offers"), session, calls)
    /\ UNCHANGED <<driver, guest, rides, faults>>
\* The offer is no longer in the list.
OfferGone(r) ==
    /\ page = Offer(r) /\ Visible("offer") /\ r \notin cache.offers
    /\ Show(At("offers"), session, calls)
    /\ UNCHANGED <<driver, guest, rides, faults>>

\* OfferCountdown: the buttons are disabled when the browser's clock says so.
CountDown(r) ==
    /\ page = Offer(r) /\ Visible("offer") /\ r \in cache.offers /\ rides[r].offer # "PENDING" /\ ~ui.expired
    /\ ui' = [ui EXCEPT !.expired = TRUE]
    /\ UNCHANGED <<session, page, guard, cache, calls, driver, guest, rides, faults>>

Answer(r) ==
    /\ page = Offer(r) /\ Visible("offer") /\ r \in cache.offers /\ ~ui.expired
    /\ Idle({"accept", "reject"})
    /\ \E k \in {"accept", "reject"} : Send(k, r, "none")

\* The buttons of the active ride, by its stage, and the dialog that each opens.
DialogOf == [DRIVER_ASSIGNED |-> "DRIVER_EN_ROUTE", DRIVER_EN_ROUTE |-> "DRIVER_ARRIVED",
             DRIVER_ARRIVED |-> "RIDE_STARTED", RIDE_STARTED |-> "RIDE_COMPLETED"]
Offered(stage) == (IF stage \in Active THEN {DialogOf[stage]} ELSE {})
                    \cup (IF stage \in {"RIDE_STARTED", "RIDE_COMPLETED"} THEN {} ELSE {"cancel"})

OnRide == Visible("active") /\ cache.ride # NoRide

\* A button opens the dialog; Cancel closes it. Polls change the ride beneath.
Dialog ==
    /\ OnRide
    /\ \E d \in IF ui.dialog = "none" THEN Offered(cache.stage) ELSE {"none"} :
          ui' = [ui EXCEPT !.dialog = d]
    /\ UNCHANGED <<session, page, guard, cache, calls, driver, guest, rides, faults>>

\* Confirm acts on the ride that is shown by now.
Confirm ==
    /\ OnRide /\ ui.dialog # "none" /\ Idle({"stage", "cancel", "shown"})
    /\ IF ui.dialog = "cancel" THEN Send("cancel", cache.ride, "none")
       ELSE Send("stage", cache.ride, ui.dialog)

Undialog(c) == ui' = IF c.here THEN [ui EXCEPT !.dialog = "none"] ELSE ui

AvailabilityAnswer(c) ==
    /\ c.kind = "availability"
    /\ calls' = calls \ {c}
    /\ cache' = IF c.code = 200 /\ cache.avail # "none" THEN [cache EXCEPT !.avail = c.arg] ELSE cache
    /\ UNCHANGED <<session, page, guard, ui>>

\* The 410 that the page waits for never comes.
AcceptAnswer(c) ==
    /\ c.kind = "accept"
    /\ IF c.code = 200 THEN Show(At("active"), session, calls \ {c})
       ELSE /\ calls' = calls \ {c}
            /\ ui' = IF c.code = 410 /\ c.here THEN [ui EXCEPT !.expired = TRUE] ELSE ui
            /\ UNCHANGED <<session, page, guard, cache>>

RejectAnswer(c) ==
    /\ c.kind = "reject"
    /\ Show(At("dashboard"), session, calls \ {c})

CancelAnswer(c) ==
    /\ c.kind = "cancel"
    /\ IF c.code = 200 THEN Show(At("dashboard"), session, calls \ {c})
       ELSE calls' = calls \ {c} /\ Undialog(c) /\ UNCHANGED <<session, page, guard, cache>>

StageSettled(c) ==
    /\ c.kind = "stage" /\ Undialog(c)
    /\ calls' = calls \ {c}
    /\ cache' = IF Visible("active") THEN [cache EXCEPT !.ride = c.ride, !.stage = c.arg] ELSE cache
    /\ UNCHANGED <<session, page, guard>>
\* updateRideStage reads the active ride again before it answers; its own stage
\* stands in when there is none. A failure of the reading fails the whole.
StageAnswer(c) ==
    /\ c.kind = "stage" /\ Undialog(c)
    /\ calls' = calls \ {c}
    /\ cache' = IF c.code # 200 \/ ~Valid(session) \/ ~(Visible("active") \/ Visible("dashboard")) THEN cache
                ELSE IF Mine = NoRide THEN [cache EXCEPT !.ride = c.ride, !.stage = c.arg]
                ELSE [cache EXCEPT !.ride = Mine, !.stage = rides[Mine].status]
    /\ UNCHANGED <<session, page, guard>>

Answered(c) ==
    /\ c.mine /\ c.code # 0
    /\ \/ AvailabilityAnswer(c) \/ AcceptAnswer(c) \/ RejectAnswer(c) \/ CancelAnswer(c) \/ StageAnswer(c)
    /\ UNCHANGED <<driver, guest, rides, faults>>

(***************************************************************************)
(* The rest of the world                                                   *)
(***************************************************************************)

Only(d, rs) == driver' = d /\ rides' = rs /\ UNCHANGED <<tab, calls, guest, faults>>

\* _handle_onboarding_event
Approve == driver.known /\ ~driver.approved /\ Only([driver EXCEPT !.approved = TRUE], rides)
ApproveGuest ==
    /\ guest = "no" /\ guest' = "yes"
    /\ UNCHANGED <<tab, calls, driver, rides, faults>>

\* Dispatch offers a ride to a driver that its row calls eligible.
MakeOffer(r) ==
    /\ guest = "absent" \/ r <= SharedRides
    /\ rides[r].status = "none" /\ driver.approved /\ driver.online /\ driver.available
    /\ \A s \in Ride : s < r => rides[s].status # "none"
    /\ Only(driver, [rides EXCEPT ![r] = [status |-> "MATCHING", offer |-> "PENDING"]])

\* Time passes; the worker expires the offer.
OfferTime(r) ==
    /\ r \in Pending
    /\ Only(driver, [rides EXCEPT ![r].offer = IF @ = "PENDING" THEN "DUE" ELSE "EXPIRED"])

RiderCancels(r) ==
    /\ rides[r].status \in {"MATCHING"} \cup Active
    /\ Only(IF Own(r) THEN Freed(driver) ELSE driver, [rides EXCEPT ![r].status = "CANCELLED"])

\* The presence key outlives two missed heartbeats, no more.
PresenceLapses ==
    driver.key \in {"available", "busy"} /\ ~Beating /\ Only([driver EXCEPT !.key = "expired"], rides)

\* Any other driver's heartbeat or an administrator's list.
Reconcile == Lapsed /\ Only(ReconciledDriver, ReconciledRides)

(***************************************************************************)
(* Specification                                                           *)
(***************************************************************************)

Init ==
    /\ \E known, approved, stored \in BOOLEAN :
          /\ approved => known
          /\ stored => known
          /\ driver = [known |-> known, approved |-> approved, online |-> FALSE, available |-> FALSE, key |-> "none"]
          /\ session = [who |-> "driver", stored |-> stored, live |-> FALSE, expired |-> FALSE, call |-> "none"]
    /\ guest \in Guests
    /\ page = At("closed")
    /\ guard = NoGuard /\ cache = NoCache /\ ui = FreshUi
    /\ calls = {}
    /\ rides = [r \in Ride |-> [status |-> "none", offer |-> "none"]]
    /\ faults = MaxFaults

Next ==
    \/ Open \/ BootFails \/ (\E w \in Users : LogIn(w)) \/ LoggedIn \/ Register \/ FlipCard \/ SignOut \/ TokenExpires \/ CloseTab
    \/ Navigate \/ GuardAnswer \/ GuardFails \/ GuardFocus \/ GuardRetry \/ PublicRedirect
    \/ Heartbeat \/ ReadProfile \/ ReadOffers \/ ReadActive
    \/ ToggleAvailability \/ Dialog \/ Confirm
    \/ \E r \in Ride : OpenOffer(r) \/ OfferGone(r) \/ CountDown(r) \/ Answer(r)
    \/ \E c \in calls : Serve(c) \/ Lose(c) \/ Answered(c)
    \/ Approve \/ ApproveGuest \/ PresenceLapses \/ Reconcile
    \/ \E r \in Ride : MakeOffer(r) \/ OfferTime(r) \/ RiderCancels(r)

\* The browser's timers run, a started query ends, a key without heartbeats
\* runs out and somebody's call reconciles it.
Fairness ==
    /\ WF_vars(GuardAnswer \/ GuardFails) /\ WF_vars(ReadOffers) /\ WF_vars(ReadActive)
    /\ WF_vars(\E r \in Ride : OfferGone(r))
    /\ WF_vars(PresenceLapses) /\ WF_vars(Reconcile)

Spec == Init /\ [][Next]_vars
LiveSpec == Spec /\ Fairness

(***************************************************************************)
(* Properties                                                              *)
(***************************************************************************)

\* The tab, the calls in flight and the service's rows keep the shapes that
\* the application's types and the service's models give them.
TypeOK ==
    /\ session \in SessionState
    /\ page \in Page
    /\ guard \in [value : {"none", "no", "yes"}, whose : {"none", "driver", "guest"}, failed : BOOLEAN,
                 asked : {"none", "nobody", "driver", "guest"}]
    /\ cache \in CacheState /\ ui \in UiState
    /\ calls \subseteq [kind : {"availability", "accept", "reject", "stage", "cancel"}, ride : Ride \cup {NoRide},
                        arg : Status \cup {"ONLINE", "OFFLINE"}, auth : BOOLEAN, code : {0, 200, 401, 409, 500},
                        mine : BOOLEAN, here : BOOLEAN]
    /\ driver \in DriverRow /\ guest \in {"absent", "no", "yes"}
    /\ rides \in [Ride -> [status : Status, offer : {"none", "PENDING", "DUE", "ACCEPTED", "REJECTED", "EXPIRED"}]]
    /\ faults \in 0 .. MaxFaults

\* The screens of the operations, with their polls and buttons, appear only on
\* an approval that the service has confirmed, for one of those who sign in on
\* this tab: not while the guard is still asking for the first time, not after a
\* failure, not from what another screen has cached. On a tab of one driver this
\* is the approval of the driver who has signed in; the query survives a
\* sign-out, and on a shared tab it may be the one's who has left.
OperationsNeedApproval ==
    Layout /\ Guarded(page) => guard.whose \in Users /\ Approval(guard.whose)

\* That the operations appear only to a driver who is himself approved: untrue
\* on a shared tab.
OnlyApprovedOperate == Layout /\ Guarded(page) => Approval(session.who)

\* The stage shown is one that the ride has reached: late polls, answers of
\* pages left long ago and failed calls may show less, never more.
Reached(s) == {s} \cup CASE s = "CANCELLED" -> Active \cup {"RIDE_COMPLETED"}
                         [] OTHER -> {Stages[i] : i \in {j \in 1 .. 5 : \E k \in j .. 5 : Stages[k] = s}}
NeverAhead == cache.ride # NoRide => Own(cache.ride) /\ cache.stage \in Reached(rides[cache.ride].status)

\* The tab does not stay on what is over: the page of an offer that is no longer
\* pending is left without the driver's doing, and the active-ride page comes to
\* show the ride that whoever has signed in has, also when rider or dispatch ended the last one.
StaleScreen ==
    /\ Valid(session)
    /\ \/ \E r \in Ride \ Listed : page = Offer(r) /\ Visible("offer")
       \/ Visible("active") /\ cache.ride # Mine
ScreensCatchUp == []<>~StaleScreen

\* A driver who has signed out, and whose presence was known, does not stay on
\* the market, even when the call of the sign-out is lost.
SignedIn == session.stored /\ session.who = "driver"
SignedOutGoesOffline ==
    ~SignedIn /\ driver.online /\ driver.key # "none" ~> ~driver.online \/ SignedIn

\* An acceptance refused because the offer has run out is shown as an expired
\* offer.
LateAcceptShowsExpired ==
    [][\A c \in calls :
          c.kind = "accept" /\ c.code = 409 /\ rides[c.ride].offer = "EXPIRED"
            /\ page' = page /\ page = Offer(c.ride) /\ calls' = calls \ {c} => ui'.expired]_vars
=============================================================================
