# RideConnect: TLA+ models of the services and the web applications

This directory models the core of RideConnect (FastAPI services, PostgreSQL, Redis and
three single-page applications), checks it with TLC on small instances, and proves with
TLAPS what must hold for every size. Paths are relative to the repository; `M/` stands
for `src/services/marketplace_service/app/`, `O/` for `src/services/operations_service/app/`,
`R/`, `D/`, `P/` for the `src` directories of `src/frontend/rider_web`, `driver_web` and
`admin_panel`.

## 1. The system

| Component | State | Operations | Talks to |
|---|---|---|---|
| Ride lifecycle (`M/services/ride_service.py`) | `rides`, `ride_events` | create, cancel, en-route / arrived / start, complete, feedback, receipt, reports | dispatch, drivers, pricing, idempotency keys |
| Dispatch (`M/services/dispatch_service.py`) | `driver_offers`, Redis `dispatch:candidates:{ride}` | find candidates, offer the next one, accept, reject, redispatch, expire, recover | rides, drivers, event stream |
| Offer expiry worker (`M/workers/offer_expiry.py`) | one asyncio task, one session per pass | expire elapsed offers, recover rides without an offer, every 15 s | dispatch |
| Driver availability (`M/services/driver_service.py`) | `drivers` | go online / offline, suspend, profile, vehicle | rides (cancels those of a driver who leaves), presence |
| Driver presence (`M/services/driver_presence_service.py`) | Redis key with a 30 s TTL per driver and a sorted set | heartbeat, mark online / offline, clean up, reconcile with the database | drivers, rides |
| Onboarding consumer (`M/events/handlers.py`) | a Redis stream consumer group | approve a driver | operations service |
| Idempotency keys (`M/services/idempotency_service.py`, `M/api/rides.py`) | `idempotency_keys` | begin, complete, replay | ride creation, payment settings |
| Database sessions (`M/db/session.py`) | unit of work and identity map of each request | read, flush, commit, roll back | everything above |
| Onboarding, documents, regions, driver administration (`O/`) | applications, document rows, vehicles, regions | approve, reject, request information, review and upload documents, suspend, assign a region | marketplace, auth, streams |
| Rider web app (`R/`) | localStorage, session provider, ride context, query cache, screens | sign in, find addresses, estimate, book, track, rate, look at past trips | marketplace, auth, geocoder |
| Driver web app (`D/`) | localStorage, session provider, query cache, screens | register, verify, wait for approval, go online, answer offers, drive, keep profile, vehicle and documents | marketplace, operations, auth |
| Admin panel (`P/`) | token, query cache, screens | review applications and documents, edit drivers and vehicles, regions, redispatch | operations, marketplace |
| Pricing, tracking, rider profile | `fare_estimates`, `tracking_pings`, `riders` | estimate, ping, saved places | rides, dispatch (distance) |
| Event streams, notifications | Redis streams, `notification_jobs` | publish, consume | all services |
| Authentication | users, refresh tokens | sign up, log in, rotate, revoke | all services |
| Gateway, alerts, audit, dashboard, scripts | counters, alert rows, audit log | rate limit, proxy, refresh alerts, report | all services |
| First single-page application (`src/frontend/src`) | browser state | an earlier front end that `docker-compose.yml` still starts; its `/driver/...` calls reach no service | gateway |

What is hard here, in the services: every request is a coroutine with its own session.
It reads under READ COMMITTED, awaits, and commits later, with no row lock, no version
column and no unique constraint on a ride's pending offer. The worker does the same
with objects it keeps for a whole pass. Handlers overtake each other between read and
commit, a handler of several commits can stop after any of them, and the candidate list
in Redis outlives what it was computed from.

What is hard in the applications: every screen shows something it read earlier. An
answer arrives after the filter, the page, the text or the session that asked for it is
gone; a read that began before a write may land after it; polls, timers, reloads,
sign-outs and expiring tokens interleave with calls under way; several views of one fact
are computed from different routes; and other people change the same rows.

`PROJECT.json` lists the forty hazards that matter most, each at its line with the
properties about it; section 4 lists the others.

What makes each component correct: a ride's driver, its status and its offers agree; the
retry count stays below the cap; nobody is offered a ride who may not drive; an offer is
resolved and a matching ends without anybody's help; a completed ride is final; a repeated
request creates one ride and always gets the same answer. A screen belongs to somebody
who is signed in (and, for operations, approved); it shows what was asked for, never more
than has happened, and after a write what was written; it catches up with the services by
itself; nobody's work is undone by a form that was opened earlier; sums that mean the same
thing are the same.

## 2. Modules

| File | What it is |
|---|---|
| `RideDispatch` | rides, dispatch, the driver rows and the worker; implements `RideLifecycle` while operations do not overlap |
| `RideLifecycle` | abstract specification: the life of one ride, without tables, sessions or commits |
| `RequestPromise` | abstract specification: what an idempotency key stands for |
| `IdempotentCreate` | `POST /api/v1/rides/request` under a key; implements `RequestPromise` |
| `RiderApp` | the rider's application from sign-in to feedback, with the rides behind it |
| `AddressEntry` | the address editor of the rider's HomePage |
| `DriverApp` | the driver's application from log-in to the end of a ride, with the service behind it |
| `OnboardingService` | the rows of one application to drive, one operator per endpoint (operations and marketplace) |
| `AdminPanel` | the panel on that application; extends `OnboardingService` |
| `DriverOnboarding` | registration, verification, waiting and profile pages of the driver; extends `OnboardingService` |
| `TripRecords` | activity, history, spending and profile pages of the rider, history of the driver |
| `MC*.tla`, `MC*.cfg` | the instances TLC checks |
| `RideDispatch_proofs`, `IdempotentCreate_proofs` | proofs about the services: invariants of both, the refinements of `RideLifecycle` and `RequestPromise` |
| `RiderApp_proofs`, `DriverApp_proofs`, `AddressEntry_proofs`, `TripRecords_proofs`, `AdminPanel_proofs`, `DriverOnboarding_proofs` | proofs about the applications |

How they compose. `OnboardingService` is the shared back end of `AdminPanel` and
`DriverOnboarding`: in each of the two the other side's steps are actions of the
surroundings (`Outside`, `Move`), so every order of administrator, driver and approval
event is there. `RideDispatch` and `IdempotentCreate` meet in `create_ride`: the first
follows the ride from its commit through dispatch, the second the key around that commit.
`RiderApp` and `DriverApp` hold the service at the level their screens can tell apart (one
status per ride, one offer per ride); that level's steps (`RiderCancels`, `Reconcile`,
`Served`, ...) are the commits `RideDispatch` details. `AddressEntry` yields the addresses
`RiderApp` takes as one `SelectAddress`.

Definitions marked "Mistake" or "Mutant" are variants of the definition after them and are
used by nothing: exchanging one for the other shows that a property notices. `PROJECT.json`
names one per property of a run; the others break the single conjuncts of a combined one.

### RideDispatch

* `ride`, `offer`, `driver`: the three tables, one record per row with the columns that
  decide something. Status `"NONE"` is a row that does not exist yet.
* `overdue`: the offers whose `expires_at` has passed. Time is this set growing.
* `cand`: the Redis candidate lists, as sets: the ranking by distance only decides who
  is asked first, so an action takes any member.
* `sess`: what every request in flight, and the worker, knows. `tx` is the unit of work
  it will commit, `mem` its identity map, `cands` and `driver` local variables of
  `offer_next_candidate`, `todo` the worker's remaining rides.

A handler's action does all reading and deciding and leaves in `tx` the columns whose
value *changed*: SQLAlchemy writes only those (`Column`, `RideDiff`, `DriverDiff`).
`Commit` applies them to the rows as they are by then; any other step may come between.
`expire_on_commit=False` (`M/db/session.py`) makes `db.get` return the object already
held, so `offer_next_candidate` looks at `mem` first (`Loaded`), except after
`db.refresh`. `offer_next_candidate` (60 lines, three commits) is cut at its awaits into
`NothingToOffer`, `PickUntried`, `StartRetry`, `GiveUp`, `Reselect`, `InsertOffer` and
`Commit`; requests and the worker run the same actions.

| Code | Action |
|---|---|
| `create_ride` | `CreateRide` (look-up), `InsertRide`, then `FindCandidates` ... |
| `accept_offer`, `reject_offer`, `admin_redispatch_ride` | `AcceptOffer`, `RejectOffer`, `AdminRedispatch` |
| `cancel_ride`, `driver_status_action`, `complete_ride` | `CancelRide`, `DriverStatusAction`, `CompleteRide` |
| `update_availability`, `suspend`, `reconcile_expired_presence`, `_handle_onboarding_event` | `UpdateAvailability`, `Suspend`, `PresenceTimeout`, `ApproveDriver` |
| `expire_elapsed_offers`, `recover_stale_matching_rides` | `ExpireElapsed`, `RecoverStale`, `NextRide` |
| an exception, a crash, a restart | `Abort`, `RestartWorker` |
| `expires_at`, the TTL of the candidate list | `Elapse`, `CandidatesLapse` |

Abstracted: all reads of a handler's first phase are one step; addresses, region and ride
type are a constant key per ride (`RequestKey`), the region filter a constant relation
(`RegionMatch`); `REQUESTED` is never committed (`create_ride` moves to `MATCHING` in the
same transaction); `INACTIVE` is set by no code of this service; the idempotent replay of an
acceptance changes nothing; `PresenceTimeout` may hit any online driver; two expired
offers of one ride are one entry of `todo`. Ride events, timestamps, vehicles, reasons,
payouts and published events are left out.

### IdempotentCreate

`record` is the table of keys (a row has the hash of the request, here `body`, and the
stored answer, here `ride`), `rides` the rides, `rider` whether the rider has a row yet.
`answers` (what was sent) and the `key` of a ride are history: no action reads them.

| Code | Action |
|---|---|
| `begin`: no row of the key, a new one is added | `Begin` |
| `begin`: a row in progress, or of another request | no action: refused with 409, nothing changes |
| `begin`: the stored answer | `Replay` |
| `begin`: flush, and `IntegrityError` | `Flush` (waits while another transaction holds the unique key) |
| `ensure_rider_for_write` | `FindRider`, `AddRider` |
| `create_ride`: the open ride of the same request, insert and commit | `LookUp`, `InsertRide` |
| `complete` and its commit, the answer | `Complete` |
| the ride is completed or cancelled | `CloseRide` |
| an exception, a crash | `Abort` (only requests under a key of `MayFail`) |

`begin` does not commit: the first commit inside `create_ride` publishes the key's row
"in progress". For a rider without a row that commit is `AddRider`, before any ride
exists. One rider and one scope (`RIDE_CREATE`): the unique key of the table includes
both. The other scope overwrites columns of the rider's row; doing it twice changes
nothing more.

### RiderApp

One tab. `session` holds the three copies of the sign-in (localStorage, the provider's
state, the API client's token); `ctx` the ride context; `active` the stored id of the ride
in progress; `page`, `home`, `done`, `seen` what the screens hold; `recs`, `booking`,
`feedback` the calls in flight; `rides` the service. Every await is a step boundary: an
answer is a record that waits until it is applied.

| Code | Action |
|---|---|
| `useRiderSession`, `ProtectedRoute`, `LoginForm`, `RegisterForm` | `Boot`, `LogIn`, `SignUp`, `SignInAnswer`, `SignedIn`, `SignUpDone`, `SignOut`, `Guarded`, `TokenExpires`, `Reload` |
| `HomePage`'s recovery of the latest trip | `Started`, `RecoverActive`, `RecoverHistory`, `RecoverApply`; `Cancelled` is the effect's cleanup |
| addresses, estimates, `handleSearch` | `Readdress`, `Locate`, `SelectAddress`, `Search`, `SearchAnswer` |
| request, tracking | the booking calls, `Poll`, `Follow` |
| `RideCompletePage`: rate, skip, acknowledge | `Feedback` sends the call (`Buttons` says which are enabled: Skip stays so while a rating is pending, RideCompletePage.tsx:287 and 321); `FeedbackAnswer`, `FeedbackLost` |
| `submit_rider_feedback`, `acknowledge_completion` | `FeedbackRead` (the look at the ride, `StatusFor`), `FeedbackCommit` (what was decided then, on the ride as it is by then) |
| drivers, dispatch, administrators | the service's steps on `rides` |

`rides[r].crossed` is history: a skip that had read the ride unrated was still to be
committed when a rating was. No lock and no version column keeps the two apart
(ride_service.py:446, 492), so several calls of one trip overtake each other at both ends.
Abstracted: the selected fare goes with the estimates; one search at a time; signing up
comes before the first ride; once the last ride of the bound is closed the rider searches
no more (`RidesLeft`); the detail cached by the completion page, ActivityPage's
call of `getLatestRiderTrip` and the crash of RideSummaryPage's hook order are left out.
SearchResultsPage, DashboardPage, useBookingFlow and RideFlowContext are not routed.

### AddressEntry

`field` and `text` are the editor (a card on a desktop, a sheet on a phone), `settled` the
text as `useDebounce` last passed it on, `cache` react-query's entries under the text,
`locating` the requests for the browser's location, `recent` the stored places. `Type`,
`Settle`, `Answer`, `Fail`, `Age` (staleTime), `Refetch`, `Press`, `Close`, `Select`, `Swap`,
`LocateMe`, `Located`, `NotLocated`, `Leave` and `Return` interleave freely. `online` is what the
browser says of its network: an entry that is read without one is paused (`Stall`, or from the
start), neither loading nor failed, and goes on with the network (`GoOffline`, `GoOnline`,
`Resumed`). Places stand for their names; arrow keys and Enter may take any listed place; a failing reverse geocoder
is part of `Here`. The drawn route and gcTime are not modelled;
`AddressSearchPanel` is imported but never rendered.

### DriverApp

`session`, `page`, `guard` (DriverKycGuard's query), `cache`, `ui` (dialog, expired banner),
`calls`; `driver` and `rides` are the service's rows, with the driver's presence key.
Calls are sent, served and answered in separate steps (`Send`, `Serve`, `...Answer`), and
`Lose` drops one on either way. `Navigate`, `Show` and the guards decide what is visible;
`ReadProfile`, `ReadOffers`, `ReadActive`, `GuardAnswer` are the reads and polls; `Heartbeat`,
`PresenceLapses` and `Reconcile` the presence. Two drivers may share the tab: `LogIn(w)` is either
one's, `session.who` who is signed in, `guest` what the colleague's own approval is. Signing out
does not clear the query client (useDriverSession.tsx:92), so `guard` keeps its value and
`guard.whose` it is; the guard lets whoever is signed in see the operations on it until
a read of its own has been answered (`GuardAnswer`, `GuardFails`, `GuardFocus`, `GuardRetry`). One call at a time, one offer per ride; a
page reads afresh; history and detail of `getActiveRide`, and `StageAnswer` with its refetch,
are one step; the client's clock agrees with the server's.

### OnboardingService and AdminPanel

`OnboardingService` has the rows of one application (`profile`, `driver`, `docs`, `vehicle`,
`home` region, a `ride`, `events`) and each endpoint's whole effect as an operator.
A vehicle that is switched off (`Off` in a form's difference) is no active vehicle any more; an
upload by the panel of a document that needs an issuer is refused (422), for the panel
sends none.

`AdminPanel` adds the browser. `cache` holds what every query was last answered with and whether
it was invalidated since; it outlives the pages. The queue, the review and the regions are
not queries but state of their page (`Local`) and go with it. `reads` are the reads under way,
`calls` the writes with the stage they are in (sent, done, refused, unauthorized), `desk` the
open dialogs. The rules of react-query are in four operators: `Needed` (a mounted query is
read unless it is held, fresh and valid; `aged` chooses whether its staleTime of 10 or 30 seconds
is over; a read under way is joined), `Restart` (a refetch starts anew what is under way),
`Invalidate` (queries on the screen are read again, but a first read is joined; others are
marked) and `Focus`. `Start` begins a call, `Land` applies the endpoint, `Arrive` brings the
answer: to the review page a reload of its own (`ReloadReview`), to the regions a row
(`UpdateRow`), elsewhere the invalidation of the queries that the mutation's `onSuccess` names
(`Invalidated`), also when the page that sent it is gone. `broken` is the detail page's error
page, which unmounts the tabs. What the panel computes (`MergeDocuments`, `CanApprove`,
`RiskSignals` with the background check, `TimelineStatus`, `Diff`) is translated and not taken
as given. `moved` is history: queries that somebody else, a failure or a call that the query
does not hear of may have left behind.
Abstracted: log-in lands on the dashboard; a form of the vehicle changes one field at a
time; gcTime (five minutes; a collected entry is one never read); a hidden browser tab, which
pauses polls; the review page's own tabs; presence events are bounded like other events. Notes, creating
drivers and regions, region metrics, the KPI dashboard, alerts, audit logs and compliance
are not modelled.

### DriverOnboarding

`form` (values, touched, errors, stage) and `accounts` are the registration; `proof`, `otp`,
`routing` the verification pages; `cache`, `read` the query client, whose reads outlive
their page; `desk` the profile page with its editors; `calls` its writes. Invalidating starts a
read again only if its query holds an answer: a query's first read is joined (`Joins`), so a
vehicle saved meanwhile may not be shown (`MCDriverFirstRead` below). `Placeholder` is
getDriverVehicle's branch for a vehicle that looks like one (profile.ts:184): it is answered as
none. A password of blanks is valid (`ErrorOf`) and yet empty (`HasEmptyFields`), for only the
second trims. `moved` and a call's `blind` are history and tell whether anything came between
that the page could not know of: somebody else's doing, a failure, a first read that was joined,
a write of the page itself that was answered on another page, a second save sent before the
first was over, a placeholder.
Full name and phone go the way of the e-mail; the answer of the registration is apart from
its landing (`RegisterLands`, `RegisterAnswered`, `RegisterLost`). The routes under
`/driver/verify-*` are served by no service, so what they answer is external. Resending,
password strength, the account tab, signing out and gcTime are not modelled.

### TripRecords

`store`, `reads`, `bad` are the query client; `page`, `opt`, `selected` the screen; `since` and
`joined` are history. A list is read in two steps: `ListAnswer` takes a page of rides,
`DetailAnswer` each ride's detail, and rides move on between them. `Use` is a change of
page or filter with the keys that come into use, `Put` an answer. Rows carry the status of
the list and the fare of the detail, as the code merges them. Three lengths cut what the
services send: a page of rides (ten; `tour.size`), the list of
payments (eight; `tour.recent`) and that of their summary (500; `tour.summed`), and tours have
histories shorter and longer than each. What the code calls the total of trips is the length
of the page on the statistics and the trips (activity.ts:183, riderActivity.ts:116) and the
service's number on insights and profile (`Entry`); payments come in the order of their
completion (`Before`). UPCOMING and PAYMENTS (which find nothing) are one filter; a failed read
stands for all four attempts; the four queries of the profile page are one. `/drivers/earnings` and `/drivers/me/performance` exist nowhere (`Unserved`). Sorting,
averages, receipts and the mobile layout are left out.

## 3. Properties and runs

| Run (`cfg`) | Instance | Shows |
|---|---|---|
| `dispatch_serial` (`MCDispatchSerial`) | 1 ride, 2 drivers, 3 offers, 1 session, cap 1, no overlap | `TypeOK`, `OnePendingOffer`, `AssignmentBacked`, `PendingOfferNotStale`; `KeepsLifecycle` |
| `dispatch_live` (`MCDispatchLive`) | 1 driver, 4 offers, a session and the worker overlapping, fairness | `RetryCap`, `AssignedWasOffered`, `OffersOnlyToApproved`; `OfferResolved`, `MatchingEnds` |
| `dispatch_budget` (`MCDispatchBudget`) | 2 drivers (one of the region), 5 offers, every way of becoming eligible | `OfferBudget` |
| `dispatch_worker_dies` (`MCDispatchWorkerDies`) | as small as the counterexample needs | violated: `OfferExpiryAutomatic` |
| `create_keys` (`MCCreateKeys`) | 2 keys and none, 2 bodies, 2 requests, 2 rides, one key's requests may stop, fairness | `TypeOK`, `OneRidePerKey`, `OneAnswerPerKey`, `KeepsPromise`; `RequestEnds`, `KeyResolves` |
| `rider_app` (`MCRiderApp`) | 1 route, 1 ride; a fault and a feedback call on a phone, or two feedback calls at a time on a desktop; fairness | `TypeOK`, `FeedbackConsistent`, `SessionAgrees`; `TrackingLeaves` |
| `rider_refresh` (`MCRiderRefresh`) | the same without faults and feedback calls, desktop | violated: `RefreshRecovers` |
| `address_entry` (`MCAddressEntry`) | 5 texts, 2 places, 2 keys with a fault (a failed read, a lost network) or 1 with a visit, both devices | `TypeOK`, `EditorSpeaksOfItsText` |
| `driver_app` (`MCDriverApp`) | 1 ride, 1 fault, 1 call in flight, one driver or two (the second approved or not) on the tab, the ride offered on a tab of one; fairness | `TypeOK`, `OperationsNeedApproval`, `NeverAhead`; `ScreensCatchUp`, `SignedOutGoesOffline` |
| `admin_panel` (`MCAdminPanel`) | 2 documents, 2 vehicle fields, the tours below, fairness | `TypeOK`, `PagesShow`; `NoSilentUndo`, `TablesCatchUp` |
| `driver_onboarding` (`MCDriverOnboarding`) | the same rows, the tours below | `TypeOK`, `SentIffInOrder`, `OwnWritesShown`; `KnownVehicleKept` |
| `trip_records` (`MCTripRecords`) | 3 rides, pages of 1 or 2 rides, 1 recent payment, 1 to 4 in the summary, the tours below, fairness | `TypeOK`, `ScreenFollows`, `MoneyAddsUp`; `ScreensSettle` |

Some properties are conjunctions of parts that share a hazard; each part has its own
definition and comment:

* `PagesShow` = `PanelsAgree` (of an application that may be approved every risk signal is
  complete but the background check, which is pending, and that check is complete exactly when
  the timeline ends in Approved), `OwnWritesShown` (after its own writes a review or detail page
  shows what the services hold, whatever the cache kept of earlier pages),
  `TableMatchesFilter` (no row of an earlier filter).
* `SentIffInOrder` = `FormNeverStuck` (no leftover error holds the button of a form that is
  in order, unless its password is all blanks), `AccountsAsTyped` (no account is made of
  entries out of order).
* `ScreenFollows` = `ShownAsAsked`, `DetailFollowsList`, `NoOlderThanOpen`.
* `MoneyAddsUp` = `ViewsAgree` (read while nothing moves, the rider's views tell the same as
  far as their lists go: the statistics count the service's trips up to the length of a page,
  their money is part of the summary's and equal to it where the history is shorter than a page, the
  recent payments likewise), `MoneyIsEarned`.
* `EditorSpeaksOfItsText` = `SuggestionsMatchText`, `EmptyIsAnswered` (while there is a network,
  no "No results found" for a text that was not answered with nothing).

On the services:

* `RetryCap`: the cap is checked on one copy of the ride, incremented on it and committed
  later; stale copies never add up to more than the cap. `AssignedWasOffered`: whatever
  overtakes what, a ride names only a driver who was asked for this ride and whose offer
  was answered. `OffersOnlyToApproved` follows from approvals never being withdrawn, not
  from a check when the offer is made. TLC checks the three with one session beside the
  worker, `MCDispatchOverlap.cfg` with two sessions, two drivers and two offers,
  the proofs for any number.
* `KeepsLifecycle` (`Lifecycle!Spec`): read through `Life` (the stage of the row, the driver
  of the pending offer, the driver of the row, the retry count) every step of a request, of
  the worker and of the surroundings is a stutter or a move of `RideLifecycle`: `Ask` only
  while nobody else is asked, `Accept` only by the driver asked, `Advance` only to the next
  stage, `Round` only up to the cap. One commit may move several rides (a driver who leaves).
  A left-over offer of a cancelled ride can be accepted: the lifecycle says so because the
  code does it (`MCDispatchTransitions` below). `CompletedIsFinal` is part of what the
  lifecycle implies.
* `AssignmentBacked`, `PendingOfferNotStale`, `OnePendingOffer`, `CompletedIsFinal` say
  `Serial =>`, and `KeepsLifecycle` is checked with `Serial = TRUE`, because overlap
  breaks them: an acceptance between the worker's read and commit leaves a ride assigned
  without an accepted offer, and two dispatches of one ride insert two pending offers.
  Operations still may fail between their commits.
* `OfferBudget`: without redispatch a ride sends at most one offer per driver plus one per
  retry round. `admin_redispatch_ride` starts over by design.
* `MatchingEnds` ends with `Candidates(r) = {}`: with nobody eligible
  `offer_next_candidate` returns before the retry count is looked at.
* `OneRidePerKey`, `OneAnswerPerKey` hold through overlap, crashes and rides that are closed
  between two tries. `KeepsPromise`: every step maps to one of `RequestPromise` or a
  stutter. `KeyResolves` is about keys whose requests do not fail.

On the applications:

* `FeedbackConsistent`: ratings, skips and acknowledgements of one trip are read, committed and
  answered in any order. A rated trip is acknowledged, never pending again, and ends as skipped
  only through the one crossing the code leaves open: a skip that read the ride unrated and was
  committed after the rating. That it does end so is `MCRiderSkip`.
* `SessionAgrees`, `TrackingLeaves`: the three copies of the sign-in, and the poll that must not
  stop early (`NO_DRIVERS_FOUND` stops it, and an administrator may still redispatch: the
  property leaves that status out).
* `OperationsNeedApproval`: the screens of the operations are shown only on an approval that the
  service has given to the driver the guard's answer speaks of. On a shared tab that may be
  the colleague who has left: `MCDriverSwitch`.
* `NeverAhead`: late polls and answers may show less than has happened, never more.
  `ScreensCatchUp`: the offer that is gone and the ride somebody else ended leave the screen.
  `SignedOutGoesOffline`: when the call of the sign-out is lost the presence key lapses;
  a driver whose presence was never known (`key = "none"`) stays online.
* `NoSilentUndo`: a form sends only what differs from what it shows, so a form opened
  before somebody's edit does not undo it. `TablesCatchUp`: also through expired sessions
  and failing reads.
* `KnownVehicleKept`: a failed read and a placeholder look like "no vehicle", and adding one
  retires the one on file; a page that has seen the vehicle only changes it.
* `ScreensSettle`: loading ends unless a read failed on all attempts; then the spending
  and insights tabs stay blank.

### Findings

`PROJECT.json` lists two disagreements with the documents as violated runs:

* `OfferExpiryAutomatic` (SRD.md:181, "Offer expiry shall be handled automatically."): an
  exception ends the worker's task and nobody starts it again.
* `RefreshRecovers` (PRD.md:332, "Refresh after completion must recover correctly from
  backend truth."): setting the pickup while the recovery of the latest trip is under way
  cancels it, and the flag that it was tried stays set.

Further configurations are kept beside the project and are not part of its runs. The
first two check passing properties on another instance; the others end in a counterexample
of a statement stronger than the run's. Where no document makes that statement, the
configuration is there to show what the exception in the checked property stands for.

| cfg | Property | Statement |
|---|---|---|
| `MCDispatchOverlap` | `RetryCap`, ... | holds: two sessions, two drivers and the worker overlapping |
| `MCDriverShared` | `TypeOK`, `OperationsNeedApproval`, `NeverAhead` | hold: the ride is offered on a tab that two drivers share (1.5 million states) |
| `MCDispatchTransitions` | `RejectsInvalidTransitions` | SRD.md:167 on invalid transitions: a pending offer of a cancelled ride is accepted |
| `MCDispatchEligible` | `OffersOnlyToEligible` | PRD.md:323: the candidate list is up to an hour old |
| `MCDispatchDuplicates` | `NoDuplicateActiveRides` | PRD.md:320: two submits without a key both insert |
| `MCCreateRetry` | `RetryIsAnswered` | PRD.md:367: a request that stops before `complete` leaves its key in progress for ever |
| `MCDriverLate` | `LateAcceptShowsExpired` | driver_web_SPEC.md:314 expects 410 on a late acceptance; the service answers 409 |
| `MCDriverSwitch` | `OnlyApprovedOperate` | PRD.md:280: the second driver of a tab sees the operations on the first one's approval, which the query client keeps through the sign-out |
| `MCDriverPending` | `PendingOpens` | the waiting page's own text (DriverOnboardingPendingPage.tsx:49): it reads once and polls nothing |
| `MCAdminActivation` | `ActivationByApproval` | PRD.md:275: the event of an old approval activates a suspended driver |
| `MCRiderPriced` | `PricedForItsRoute` | no document says so: estimates of the previous addresses are stored under the new ones |
| `MCRiderSkip` | `RatingStands` | no document says so: a skip pressed while a rating is under way is committed after it, and the rated trip is SKIPPED |
| `MCAddressOffline` | `EmptyIsAnsweredOffline` | no document says so: a search paused without a network has no result and is not loading, and the sheet says "No results found" |
| `MCTripTotals` | `ViewsTellTheSame` | no document says so: with more rides than a page the statistics' total is the length of the page, and beyond its limit the list of payments is shorter |
| `MCAdminStale` | `PanelShowsServices` | no document says so: an approval on the review page is not heard by the detail page's query, which stays as it is for 30 seconds (useDriverDetail.ts:14); likewise a vehicle switched off is answered with 404, which leaves the one that was read before |
| `MCDriverBlank` | `InOrderIsEnabled` | no document says so: a password of eight blanks has no error, yet the button stays off |
| `MCDriverFirstRead` | `PageShowsServices` | no document says so: a vehicle saved while the page's first read is under way is not shown, for invalidating joins that read |
| `MCDriverPlaceholder` | `NoVehicleRetired` | no document says so: a vehicle taken for a placeholder is retired by the save that was meant to change it |
| `MCAddressLocation` | `LocationIsDefault` | rideconnect_ux_blueprint.md:480, "pickup may default to current location": a late location replaces a chosen pickup |

### Bounds

Every constant set is listed in the `.cfg` or in its MC module.

* *Dispatch*: a second driver is needed for blocked and untried candidates, a third offer
  for an offer after a retry round. `MaxRetries = 1` reaches a round, the cap and giving
  up; the default 5 only repeats the round. When all offer ids are used an insertion waits
  for ever, which bounds the state space; `CHECK_DEADLOCK FALSE` for that reason, and
  because a system nobody uses may stop. In the Live run the budget (one driver, cap 1: two
  offers) shows four ids are more than one ride can use. Drivers and sessions are
  interchangeable (`SYMMETRY`) in the Serial run and in `MCDispatchOverlap`.
* *Keys*: one key whose requests may stop and one whose requests do not, and requests
  without a key; a request starts only while there is an id for its ride (`IdsLeft`).
* *Applications*: one ride suffices where a second one starts like the first (`RiderApp`,
  `DriverApp`); one fault may be any of lost answer, expiry, reload or sign-out, at any
  point. `TripRecords` needs three rides for a history longer than a page and than the list
  of payments. In `DriverApp` a tab of two drivers gets no offer in the run (`SharedRides = 0`), which
  keeps it below three minutes; `MCDriverShared` has both. In `RiderApp` a fault and two feedback
  calls do not meet in one behaviour; each call may still be lost or overtaken by the other.
* *Tours* (`RiderApp`, `AdminPanel`, `DriverOnboarding`, `TripRecords`, `AddressEntry`): a behaviour draws
  one of a set of budgets: where it starts, which pages it sees, how many clicks, calls,
  faults and outside steps it has. Each tour pairs the actors that meet on its pages: two calls
  of the administrator where two can be under way together, a call and an event everywhere,
  a registration with six clicks and a fault, a profile page with a lost read, pages of the
  panel opened over a cache that has them from before, and so on.
  Steps of the code itself (reads, answers, polls, timers) have no budget.
* `MaxFiles` counts uploads of one document; `MaxRecent` is 2 instead of 5 places.

In all of them nobody has to click, hence `CHECK_DEADLOCK FALSE`.

### Fairness

| Specification | Fair | Why |
|---|---|---|
| `RideDispatch` | `Proceed`, `WorkerPass`, `Elapse` | the event loop runs a ready coroutine, the worker wakes every 15 s, time passes; no client ever has to act |
| `IdempotentCreate` | `Proceed` (weak), `Flush` of each request (strong) | a request goes on when it can; PostgreSQL queues who waits for a unique key, so nobody is overtaken for ever. Whether anybody repeats a request is open |
| `RiderApp` | `Boot`, the recovery's steps, `Poll` or `Follow` of some ride | effects run, calls end, the poll has an interval |
| `DriverApp` | `GuardAnswer` or `GuardFails`, `ReadOffers`, `ReadActive`, `OfferGone`, `PresenceLapses`, `Reconcile` | refetchInterval, the Redis TTL, the worker's reconciliation |
| `AdminPanel` | `Poll`, `LayoutPoll`, some answer to a read | refetchInterval and the presence stream |
| `TripRecords` | `Settles` | a read ends: with an answer, or with a failure where no route exists |

The runs of `AddressEntry` and `DriverOnboarding` check safety only and use no fairness
(`MCDriverPending` does: `Serve`, `Arrive` and `MovesOn`).

## 4. Hazards outside the list

The list of forty keeps the hazards with a property and the open ones that weigh most. Also seen while modelling:

*Covered by the properties above*: the worker's stale rides (dispatch_service.py:349) and
rounds cut short (137, 138, 285); the first-time rider's commit (ride_service.py:70); a key
reused with another payload (idempotency_service.py:40); the reset of list, selection and
filter in TripRecords (RideHistoryPage.tsx:44, 64; riderActivity.ts:245;
driverActivity.ts:98); what is typed after validation (DriverRegisterForm.tsx:202); the queue's
filter and the review's three readings (OnboardingPage.tsx:46, utils/onboarding.ts:226).

*Reachable in the models, and stated nowhere, so no property forbids them*: a driver turns
available during a ride and is offered a second one (driver_service.py:130); an offline
toggle cancels a ride assigned meanwhile (132); a suspended driver is set online again by
the end of a ride (391); a driver who signed out during a ride comes online when it ends
(ride_service.py:424); any failure of the first read signs the driver out
(useDriverSession.tsx:51); the located pickup wipes out what is typed on the sheet
(AddressSearchSheet.tsx:31); a vehicle form starts over when its parent reads again
(VehicleEditForm.tsx:168); of two uploads the last to land wins (DocumentsCard.tsx:66); a
document approval passes a file uploaded meanwhile (documents.py:40); an application is approved
on a readiness read earlier (DriverReviewPage.tsx:73); answers of two toggles of a region
land in any order (RegionsPage.tsx:349); a suspension that does not reach the marketplace
is answered as done (driver_admin_service.py:35).

*Outside the models*: the sorted set of presence (driver_presence_service.py:96, 126), lost
stream entries (streams.py:34), the compensations of a registration
(onboarding_service.py:218, 368), the rate limiter's two calls (rate_limit.py:31), alerts
resolved by a failed fetch (alert_service.py:37), the unlocked ride counter
(ride_service.py:425), the error messages of searches and routes
(HomePage.tsx:192, 364), the reason typed for another document
(DocumentsReviewTab.tsx:43).

## 5. Proofs

`RideDispatch_proofs` proves, for every set of rides, drivers, offers and sessions, every
cap and every choice of operations, `[]TypeOK` (`TypeCorrect`), `[]RetryCap`
(`RetryCapHolds`), `[]AssignedWasOffered` (`AssignedWasOfferedHolds`) and
`[]OffersOnlyToApproved` (`OffersOnlyToApprovedHolds`). None is inductive: a session writes
what it decided in an earlier state. The inductive invariant `IInv` therefore says what
each session in flight still promises (`GoodSession`): its unit of work keeps the cap,
answers only offers that exist, never withdraws an approval (`CleanTx`), and assigns a
driver only together with that driver's acceptance (`BackedTx`); the copies it holds respect
the cap; its candidates are approved. `Grows` is what makes a promise survive the steps of
others: offers are never deleted or redirected and approvals never withdrawn
(`GoodStays`). One lemma per action shows that it keeps `IInv`; `RowStep` covers a step of
a session, `EnvironmentStep` one of the surroundings, and `CommitStep` is where the promise
is redeemed.

Its second part is about operations that do not overlap (`Serial`). One operation is still
many steps, with commits between them, reads from the identity map and a crash that may
end it anywhere. `SerialInductive` (`Spec => [](Serial => SerialInv)`) says that at each
such point every ride is sound (`SoundRide`: at most one pending offer, and only while the
ride is matched or was cancelled; a driver only with that driver's accepted offer), what
the session in flight has read and relies upon (`Waits`), and that a unit of work under way
leaves every ride sound (`SerialTx`). From it follow `OnePendingOffer`, `AssignmentBacked`,
`PendingOfferNotStale` and the action property `CompletedIsFinal`. `LifecycleKept`
(`ASSUME Serial PROVE Spec => KeepsLifecycle`) is the refinement of `RideLifecycle`. What a
commit writes was decided steps before, so `SerialTx` also promises that a unit of work
under way is, ride by ride, a stutter or a legal move (`LegalMove`) of the lives as they
are now; each handler's lemma shows the promise when the unit of work is made, no other step
disturbs it while it waits, and `LifecycleStep` collects it at the commit. `AskedDriver`
and `SettledAsked` say whom the mapping names where offers are inserted, answered and
expired. The refinement is then used: `CourtedHolds` and `FaithfulHolds` are proved in the abstract
specification, which has one variable and nine moves, and hold of the code's steps by
`LifecycleKept`: a ride that waits for an answer is being matched or was cancelled
meanwhile and has no driver yet; a ride is never taken from its driver or handed to another.
`OfferBudget` needs a
second invariant, `BudgetInv`: a ride has had at most one offer per driver asked and one
per retry round (`Sent`, `Allowed`), and a session about to ask again has raised the bound
before, or asks a driver not asked yet (`Thrifty`). It is proved with the library's
theorems about finite sets.

`IdempotentCreate_proofs` proves, for every set of requests, keys, bodies and rides,
whichever keys' requests may fail, `[]TypeOK` (`TypeCorrect`), `[]OneRidePerKey`
(`OneRidePerKeyHolds`), `[]OneAnswerPerKey` (`OneAnswerPerKeyHolds`) and the refinement
`Spec => KeepsPromise` (`KeepsPromiseHolds`). Its `IInv` says who may hold a key
(`OneHolder`), what its row looks like meanwhile (`HeldRow`, `HeldRide`), that a ride or an
answer of a key implies a row (`Recorded`, `GoodRecord`), and that answers repeat the row
(`Replayable`). A request at `complete` may hold a ride of another key (the duplicate
look-up), which is why the invariant speaks of the holder's ride and not of the key's. The
refinement has one case per action: `Bind` for `InsertRide`, `Reply` for `Complete` and
`Replay`, else a stutter.

`AddressEntry_proofs` proves `[]TypeOK` (`TypesHold`) and `[]EditorSpeaksOfItsText`
(`EditorSpeaksHolds`) for every set of texts, every geocoder, both devices and any number
of keys, faults and visits. The second speaks of the text, the answers of the key that
trails behind; `IInv` says that an entry
holds nothing or what the geocoder knows of its trimmed key (`TrueEntry`), that the key
in use has an answer unless its read is under way, is paused or has failed (`Attended`); no read
is paused while there is a network (the last line of `TrueEntry`). Where text and key
differ as searches the editor is debouncing, and lists nothing (`Matching`). What `TypeOK`
says of the recent places, different ones and at most `MaxRecent`, rests on
`SavedIsDistinct`. The code filters the list; `Saved` says by positions where each place
goes, which is the same for a list without repetitions (what the theorem shows every list
to be, from a first visit on) and needs no induction over the sequence.

`AdminPanel_proofs` proves `NoSilentUndo` (`NoSilentUndoHolds`), `[]TypeOK`
(`PanelTypesHold`) and `[]PagesShow` (`PagesShowHolds`) for any tours, documents,
fields and number of calls under way. For the first: an action property alone is about the step in
which a call lands; what that call carries was decided when it was sent, perhaps by a page
closed since. `IInv` therefore says of every call under way that it carries only entries of
its sender (`GoodCall`). For the pages it says three things of every query of the review and
detail pages, on the screen or not (`Fresh`): what is held and was not invalidated is what the
services hold; what was invalidated and is on the screen is being read; and an answer on
its way is the services'. Each may be excused (`Excused`): somebody else wrote what the query
shows, or a call has landed whose answer is going to have it read (`Landed`). Between the
landing of a call and its answer the page shows what was; what the answer has read again
depends on the operation (`Invalidated`), so the proof compares, operation by operation, the
rows an endpoint writes with the queries that are read again. That the invariant speaks of all
queries and not of the page's is what carries it through a page that is closed and opened
again over the cache.

`RiderApp_proofs` proves `[]TypeOK`, `[]FeedbackConsistent` and `[]SessionAgrees` for any
number of rides, faults and calls. The invariant adds that nobody is signed in while the
session boots or a sign-in is under way, that every ride a page, a call or a stored key
names was made, that feedback calls are about completed rides, that a call which has read its ride and is
still to be committed writes what was right when it read it (`Promised`: what is to be
SUBMITTED is a rating's or the ride is rated, a skip on its way to a rated ride has left its
mark in `crossed`), and that the service numbers its rides without a gap: only so is the ride
that a booking makes a new one. A first attempt without the rides that the tracking page names was not inductive.

`DriverApp_proofs` proves `[]TypeOK`, `[]OperationsNeedApproval` and `[]NeverAhead` for any
rides, faults and calls, with one driver or two on the tab. The invariant is stated of values
(`Good` of the tab, `World` of the rows), so that a step of the service is a change of rows that
keeps what the tab may already know (`Kept`): a ride whose offer was accepted has been assigned,
an approval that the guard answered was given to the driver it was asked for, whoever is signed
in by now, a stage the server confirmed has been reached.

`TripRecords_proofs` proves `[]TypeOK`, `[]ScreenFollows` and `[]MoneyAddsUp` for any number
of rides and any size of a page. The answers of one moment are compared through
`ReadNow` and `EntryNow`: a read or an entry none of whose rides has moved since it was sent
repeats what the services hold. `FirstPage` and `ListPayments` cut a set by an order. The lemmas
about both speak of one operator (`First`): what stands before a row (`FewerBefore`), how many
rows a cut has (`CutIsFull`), and that the shorter of two lists is part of the longer
(`ShorterList`).

`DriverOnboarding_proofs` proves `[]TypeOK`, `[]SentIffInOrder`, `[]OwnWritesShown` and the
action property `KnownVehicleKept` for any documents, fields and visits. For the form: an
error that stands is right and its field was touched, and what is being sent was in order
(`FormInv`). For the profile page: cache and the answer on its way agree with the services
unless a write has landed and was not answered, one was answered and its query is being
read again, or something is known to have come between (`Fresh`), of which a first read that a
write joined is one; a save under way that adds
a vehicle was sent by a page that knew there was none (`PostSeen`). The attempt showed that
the history behind `KnownVehicleKept` was too narrow: when a save is sent from a page that is
then left and a second one lands first, or a save is answered on another page, the page had
not seen the vehicle either. The run's tours are too short for these; the theorem covers them.

Every inductive invariant was checked by TLC before it was proved, on the instance of its
run where the state space can be exhausted and on larger ones as far as TLC came.

The assumptions are the named ones of the modules: markers (`NoRide`, `None`, ...) are no
values, the worker is no session, offer ids are numbers, caps are natural numbers, the
drivers are finitely many (`DriverAssumption`, for `OfferBudget`), visits start on a page
(`VisitAssumption`, `PanelAssumption`), names of places are texts that trimming leaves alone.

Every safety property of a passing run is thus the statement of a theorem. Only
model-checked: liveness
(`OfferResolved`, `MatchingEnds`, `RequestEnds`, `KeyResolves`, `TrackingLeaves`,
`ScreensCatchUp`, `SignedOutGoesOffline`, `TablesCatchUp`, `ScreensSettle`), which is out of
this prover's reach.

## 6. Not modelled

* Pricing (decimal arithmetic without state), tracking pings (they rank candidates,
  which any order covers), saved places and payment settings (plain create, read, update,
  delete of one rider's rows), receipts and reports.
* Event delivery and notifications, registration's compensations across services, refresh
  tokens, the presence sorted set, alerts, the rate limiter: state machines of their own,
  next in the plan.
* The first single-page application (`src/frontend/src`): its `/driver/...` routes are served
  by nothing, and the three current applications replace it.
* Screens that are not routed (the rider's SearchResultsPage, DashboardPage and booking
  flow, the panel's older dashboard tables, KYC hooks and ride filters, old log-in forms);
  wording, layout, maps and icons; seeding and migration scripts.

## 7. Plan

1. `DriverPresence`: Redis key, sorted set and row; heartbeats, expiry, clean-up without
   reconciliation, a crash between the two stores.
2. `EventStream`: at-most-once delivery, notification jobs per event.
3. `RegistrationSaga`: sign-up, driver row, application and their compensation.
4. `AuthTokens`: rotation, revocation and deletion under concurrent refreshes.
5. `Alerts`, `RateLimit`, `Completion` (ratings and ride counts).

## 8. Running

    tlc -workers 2 -config MCDispatchSerial.cfg MCRideDispatch
    tlc -workers 2 -config MCAdminPanel.cfg MCAdminPanel
    tlc -workers 2 -config MCCreateKeys.cfg MCIdempotentCreate
    tlapm RideDispatch_proofs.tla

and likewise for the other rows of section 3. The longest run takes about three
minutes, the proofs of `RideDispatch` about five and the others about one minute each.
