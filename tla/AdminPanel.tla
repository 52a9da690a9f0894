------------------------------- MODULE AdminPanel -------------------------------
(***************************************************************************)
(* The admin panel: one administrator's browser working on one driver's    *)
(* application, beside other administrators, the driver's own profile page *)
(* and the services of OnboardingService.                                  *)
(*                                                                         *)
(* A page shows what it read; between the read and the click the services  *)
(* move on.  A click starts a call, the call lands at the service, and its *)
(* answer arrives at a page that may be gone.  The pages share one query   *)
(* cache, which outlives them until the browser loads the panel anew; the  *)
(* queue, the review and the regions are kept by their page alone.         *)
(***************************************************************************)
EXTENDS OnboardingService

CONSTANTS
  Tours        \* bounds: the page a behaviour starts on, the queries read by
               \* then, how far the application is, the pages it may open (with
               \* the dashboard, it also signs in and out), the
               \* calls the administrator starts in it, and the events (steps of
               \* the driver and of other administrators, reloads, failed reads,
               \* lost calls, expired sessions)

VARIABLES
  token,    \* access_token in local storage: none, valid or expired
  page,     \* the open page, or the open tab of the detail page
  filter,   \* the status filter of the page's table
  desk,     \* the page's own state: the quick action waiting for its
            \* confirmation (or None), whether the form of a new vehicle is
            \* open, whether the review is being loaded
  cache,    \* query -> what the browser holds, and whether it was invalidated
  broken,   \* the last read of the driver failed
  reads,    \* the reads under way
  moved,    \* history: queries whose answer may be out of date: for others'
            \* doing, or for a call whose answer has them read neither anew nor
            \* when a page next opens
  calls,    \* the calls under way
  tour      \* what is left of the bounds

screen  == <<token, page, filter, desk>>
queries == <<cache, broken, reads, moved>>
vars    == <<svc, screen, queries, calls, tour>>

Pages == {"login", "dashboard", "live", "drivers", "queue", "review",
          "profile", "documents", "vehicle", "regions"}

\* The tabs of a driver's detail page share its header, with the quick actions,
\* and the risk panel, which reads the documents.
TabQuery == [profile |-> "driver", documents |-> "documents", vehicle |-> "vehicle"]
DetailTabs == DOMAIN TabQuery
Owner(p) == IF p \in DetailTabs THEN "detail" ELSE p

Lists   == {"board", "drivers", "active"}           \* one query per filter
Local   == {"queue", "review", "regions"}           \* kept by the page
Owned   == {"review", "driver", "documents", "vehicle"}
Queries == Lists \cup Local \cup Owned \cup {"rides"}

QueriesOf(p, f) ==
  CASE p = "dashboard"  -> {"board", "rides"}
    [] p = "live"       -> {"rides"}
    [] p = "drivers"    -> {IF f = "ACTIVE" THEN "active" ELSE "drivers"}
    [] p \in Local      -> {p}
    [] p \in DetailTabs -> {"driver", "documents", TabQuery[p]}
    [] OTHER            -> {}

Visits == [first : Pages, loaded : SUBSET (Queries \ Local), start : Starts,
           pages : SUBSET Pages, calls : Nat, events : Nat]

ASSUME PanelAssumption == Tours \subseteq Visits

\* A driver who cannot be read turns the detail page into an error page.
Visible(p, f, failed) == IF p \in DetailTabs /\ failed THEN {"driver"} ELSE QueriesOf(p, f)
Now == Visible(page, filter, broken)

\* Mutant: the drivers' lists have no refetchInterval.
PolledRides == {"rides"}

\* The queries with a refetchInterval.
Polled == Lists \cup {"rides"}

Filters == [drivers |-> {"all", "ACTIVE"}, queue |-> {"all", "SUBMITTED"}]

----------------------------------------------------------------------------
(* What the panel computes from what it reads.                             *)

\* The rows of a table of one driver, under a status filter.
Rows(f, status) == IF f \in {"all", status} THEN {status} ELSE {}

\* The document rows the services send: only those that exist.
SentDocuments == [d \in {e \in Docs : docs[e].file > 0} |-> docs[d].status]

\* mergeDocuments: a row for every required type, missing ones marked.
MergeDocuments(rows) == [d \in Docs |-> IF d \in DOMAIN rows THEN rows[d] ELSE "MISSING"]

ReviewDetail == [profile |-> profile, docs |-> MergeDocuments(SentDocuments)]

Snapshot(q) ==
  CASE q \in {"board", "drivers"} -> Rows("all", driver.status)
    [] q = "active"    -> Rows("ACTIVE", driver.status)
    [] q = "rides"     -> ride
    [] q = "queue"     -> Rows(filter, profile)
    [] q = "review"    -> ReviewDetail
    [] q = "driver"    -> [status |-> driver.status, region |-> driver.region]
    [] q = "documents" -> SentDocuments
    [] q = "vehicle"   -> vehicle
    [] q = "regions"   -> home

\* Mutant: missing documents do not count.
ReadinessOfSubmitted(review) ==
  /\ review.profile # "APPROVED"
  /\ \A d \in Docs : review.docs[d] \in {"MISSING", "APPROVED"}

\* getApprovalReadiness.
CanApprove(review) ==
  /\ review.profile # "APPROVED"
  /\ \A d \in Docs : review.docs[d] # "MISSING"
  /\ \A d \in Docs : review.docs[d] \in {"MISSING", "APPROVED"}

IdentitySignal(review) ==
  LET identity == {review.docs[d] : d \in Docs \ MetaDocs}
  IN  IF identity \subseteq {"APPROVED"} THEN "complete"
      ELSE IF identity \cap {"REJECTED", "MISSING"} # {} THEN "flagged" ELSE "pending"

DocumentSignal(status) ==
  CASE status = "MISSING"  -> "missing"
    [] status = "APPROVED" -> "complete"
    [] status = "REJECTED" -> "flagged"
    [] OTHER               -> "pending"

\* buildRiskSignals: the identity documents together, each of the others, and a
\* background check, which is pending until the approval.
RiskSignals(review) ==
  [k \in MetaDocs \cup {"identity", "background"} |->
     CASE k = "identity"   -> IdentitySignal(review)
       [] k = "background" -> IF review.profile = "APPROVED" THEN "complete" ELSE "pending"
       [] OTHER            -> DocumentSignal(review.docs[k])]

\* buildTimelineStatus.
Rank == [SUBMITTED |-> 1, DOCS_PENDING |-> 2, REJECTED |-> 3, APPROVED |-> 4]
StepRank == [submitted |-> 1, review_started |-> 2, reviewed |-> 3, approved |-> 4]

TimelineStatus(status, step) ==
  CASE step = "approved" /\ status = "REJECTED" -> "rejected"
    [] Rank[status] > StepRank[step]            -> "complete"
    [] Rank[status] = StepRank[step]            -> "current"
    [] OTHER                                    -> "upcoming"

\* The buttons DriverQuickActions has for a driver.
QuickActions(status) ==
  CASE status = "PENDING_APPROVAL" -> {"approve", "reject", "ask_info"}
    [] status = "ACTIVE"           -> {"suspend", "ask_info"}
    [] status = "SUSPENDED"        -> {"reactivate", "ask_info"}

\* Mutant: the whole form is sent.
WholeForm(old, touched, who) ==
  [f \in Fields \cup touched |-> IF f \in touched THEN who ELSE old[f]]

\* buildDiff: the form sends the fields that differ from the vehicle it shows.
Diff(old, touched, who) == [f \in touched |-> who]

----------------------------------------------------------------------------
(* The queries.                                                            *)

NotRead == [held |-> FALSE, v |-> None, stale |-> FALSE]
NoDesk  == [ask |-> None, adding |-> FALSE, loading |-> FALSE]
Read(q, id, op, auth) ==
  [q |-> q, id |-> id, op |-> op, auth |-> auth, stage |-> "asked", v |-> None]
Asks(qs, auth) == {Read(q, 0, None, auth) : q \in qs}
SignedIn == token = "valid"

Reading(q) == \E r \in reads : r.q = q
Showing(p) == page = p /\ \A q \in Now : cache[q].held

\* What a component reads when it is mounted: what is not held, was invalidated,
\* or is older than its staleTime (aged).  A read under way is joined.
Needed(qs, aged) ==
  {q \in qs : \/ q \in Local
              \/ ~Reading(q) /\ (cache[q].held /\ ~cache[q].stale => q \in aged)}

\* A table or a page comes up: what the last page kept is gone, the cache stays.
Enter(p, f, failed, aged, auth) ==
  /\ page' = p /\ filter' = f
  /\ cache' = [q \in Queries |-> IF q \in Local THEN NotRead ELSE cache[q]]
  /\ reads' = {r \in reads : r.q \notin Local} \cup Asks(Needed(Visible(p, f, failed), aged), auth)
  /\ moved' = moved \ Local

\* A query is read, or read again from the start.  The driver's, when it holds
\* nothing, brings the page and its tab back.  out: invalidated just now.
Restart(qs, out) ==
  LET back == "driver" \in qs /\ broken /\ ~cache["driver"].held
      tab  == IF back THEN QueriesOf(page, filter) \ qs ELSE {}
  IN /\ broken' = (broken /\ ~back)
     /\ \E aged \in SUBSET tab :
          reads' = {r \in reads : r.q \notin qs} \cup Asks(qs \cup Needed(tab, aged \cup out), SignedIn)

\* invalidateQueries: what is on the screen is read again, unless it is being
\* read for the first time; the rest when it is next mounted.
Invalidate(qs) ==
  LET again == {q \in qs \cap Now : cache[q].held \/ ~Reading(q)} IN
  /\ cache' = [q \in Queries |-> IF q \in qs THEN [cache[q] EXCEPT !.stale = cache[q].held] ELSE cache[q]]
  /\ Restart(again, qs)
  /\ moved' = moved \cup {q \in qs \ again : \E r \in reads : r.q = q /\ r.stage = "old"}

\* History: an answer on its way is older than what happens now.
Outdated(qs) ==
  {IF r.q \in qs /\ r.stage = "served" THEN [r EXCEPT !.stage = "old"] ELSE r : r \in reads}
Moving(qs) == moved' = moved \cup qs /\ reads' = Outdated(qs)

Event == tour.events > 0 /\ tour' = [tour EXCEPT !.events = @ - 1]

----------------------------------------------------------------------------
(* The browser.                                                            *)

Deaf(cs) == {[c EXCEPT !.mine = FALSE, !.flag = FALSE] : c \in cs}

\* Mutant: the reads of the page that closes go on to the next one.
MountOver(p, aged, auth) ==
  LET failed == broken /\ cache["driver"].held IN
  /\ page' = p /\ filter' = "all"
  /\ cache' = cache
  /\ reads' = reads \cup Asks(Needed(Visible(p, "all", failed), aged), auth)
  /\ moved' = moved
  /\ broken' = failed
  /\ desk' = [NoDesk EXCEPT !.loading = p = "review"]
  /\ calls' = Deaf(calls)

\* Another page opens; the calls of the old one go on.
Mount(p, aged, auth) ==
  LET failed == broken /\ cache["driver"].held IN
  /\ Enter(p, "all", failed, aged, auth)
  /\ broken' = failed
  /\ desk' = [NoDesk EXCEPT !.loading = p = "review"]
  /\ calls' = Deaf(calls)

\* The browser loads the panel anew: nobody waits for a call any more.
Load(p, auth, cs) ==
  /\ page' = p /\ filter' = "all"
  /\ cache' = [q \in Queries |-> NotRead] /\ broken' = FALSE /\ moved' = {}
  /\ reads' = Asks(QueriesOf(p, "all"), auth)
  /\ desk' = [NoDesk EXCEPT !.loading = p = "review"]
  /\ calls' = {[c EXCEPT !.live = FALSE] : c \in Deaf(cs)}

\* A 401, whatever request it answers: the token is removed and the browser
\* loads the login page.
SignOut(cs) ==
  /\ token' = "none"
  /\ Load("login", FALSE, cs)

Init ==
  /\ tour \in Tours
  /\ SvcInit(tour.start)
  /\ token = (IF tour.first = "login" THEN "none" ELSE "valid")
  /\ page = tour.first /\ filter = "all"
  /\ desk = [NoDesk EXCEPT !.loading = page = "review"]
  /\ cache = [q \in Queries |-> IF q \in tour.loaded /\ Snapshot(q) # None
                                THEN [held |-> TRUE, v |-> Snapshot(q), stale |-> FALSE] ELSE NotRead]
  /\ broken = FALSE
  /\ reads = Asks(QueriesOf(page, "all") \ tour.loaded, TRUE)
  /\ moved = {} /\ calls = {}

Login ==
  /\ page = "login" /\ "dashboard" \in tour.pages
  /\ token' = "valid"
  /\ \E aged \in SUBSET QueriesOf("dashboard", "all") : Mount("dashboard", aged, TRUE)
  /\ UNCHANGED <<svc, tour>>

\* A link.  The detail page opens on its first tab.
Routes == Pages \ {"login", "documents", "vehicle"}
Open(p) ==
  /\ page # "login"
  /\ p \in (Routes \cap tour.pages) \ {page} /\ ~({p, page} \subseteq DetailTabs)
  /\ \E aged \in SUBSET QueriesOf(p, "all") : Mount(p, aged, SignedIn)
  /\ UNCHANGED <<svc, token, tour>>

\* The page is loaded anew, or an address is typed in.
Reload(p) ==
  /\ SignedIn /\ p \in Routes \cap tour.pages
  /\ Event
  /\ Load(p, TRUE, calls)
  /\ UNCHANGED <<svc, token>>

\* AuthGuard looks at the token's expiry when the layout is mounted, after a
\* reload that is; a link between two pages keeps the layout.
GuardRefuses ==
  /\ token = "expired"
  /\ SignOut(calls)
  /\ UNCHANGED <<svc, tour>>

DetailOpen(tab) == page = tab /\ tab \in DetailTabs /\ ~broken
QuickOps == {"approve", "reject", "suspend", "reactivate", "ask_info"}

\* What the last tab had open is gone; the header stays.
SwitchTab(p) ==
  /\ DetailOpen(page) /\ p \in (DetailTabs \cap tour.pages) \ {page}
  /\ page' = p
  /\ \E aged \in SUBSET {TabQuery[p]} :
       reads' = reads \cup Asks(Needed({TabQuery[p]}, aged), SignedIn)
  /\ desk' = [desk EXCEPT !.adding = FALSE]
  /\ calls' = {[c EXCEPT !.flag = @ /\ c.op \in QuickOps] : c \in calls}
  /\ UNCHANGED <<svc, token, filter, cache, broken, moved, tour>>

Logout ==
  /\ page # "login" /\ "dashboard" \in tour.pages
  /\ token' = "none"
  /\ Mount("login", {}, FALSE)
  /\ UNCHANGED <<svc, tour>>

\* The layout's report of unmatched rides is read every 15 seconds on every
\* page; of its answers only a 401 matters here.
LayoutPoll ==
  /\ page # "login" /\ token = "expired"
  /\ SignOut(calls)
  /\ UNCHANGED <<svc, tour>>

SetFilter(f) ==
  /\ page \in DOMAIN Filters /\ f \in Filters[page] \ {filter}
  /\ \E aged \in SUBSET QueriesOf(page, f) : Enter(page, f, broken, aged, SignedIn)
  /\ UNCHANGED <<svc, token, desk, broken, calls, tour>>

\* A refetchInterval; the window gets the focus back.
Poll(q) ==
  /\ q \in Now \cap Polled /\ ~Reading(q)
  /\ Restart({q}, {})
  /\ UNCHANGED <<svc, screen, cache, moved, calls, tour>>

Focus(q) ==
  /\ q \in Now \ Local /\ ~Reading(q)
  /\ Restart({q}, {})
  /\ UNCHANGED <<svc, screen, cache, moved, calls, tour>>

\* The dashboard's presence stream reports a change: all lists are out of date.
Presence ==
  /\ page = "dashboard" /\ Event
  /\ Invalidate(Lists)
  /\ UNCHANGED <<svc, screen, calls>>

Serve(r) ==
  /\ r.stage = "asked" /\ r.auth
  /\ reads' = (reads \ {r}) \cup {[r EXCEPT !.stage = "served", !.v = Snapshot(r.q)]}
  /\ UNCHANGED <<svc, screen, cache, broken, moved, calls, tour>>

ReadRefused(r) ==
  /\ r.stage = "asked" /\ ~r.auth
  /\ SignOut(calls)
  /\ UNCHANGED <<svc, tour>>

\* A driver without a vehicle is a 404, and a read that fails keeps what is
\* held.  The driver's answer brings an error page's tab back.
ReadAnswer(r) ==
  LET missing == r.q = "vehicle" /\ r.v = None
      back == r.q = "driver" /\ broken /\ page \in DetailTabs
      tab == IF back THEN QueriesOf(page, filter) \ {"driver"} ELSE {}
  IN
  /\ r.stage \in {"served", "old"}
  /\ cache' = IF missing THEN cache
              ELSE [cache EXCEPT ![r.q] = [held |-> TRUE, v |-> r.v, stale |-> FALSE]]
  /\ broken' = (broken /\ r.q # "driver")
  /\ \E aged \in SUBSET tab : reads' = (reads \ {r}) \cup Asks(Needed(tab, aged), SignedIn)
  /\ moved' = IF missing \/ (r.stage = "old" /\ r.q \in Local) THEN moved \cup {r.q}
              ELSE IF r.stage = "old" THEN moved ELSE moved \ {r.q}
  /\ desk' = [desk EXCEPT !.loading = @ /\ r.q # "review"]
  /\ UNCHANGED <<svc, token, page, filter, calls, tour>>

\* The driver's query turns the detail page into an error page; the queue and
\* the regions empty their tables; the others keep what they have.
ReadFails(r) ==
  LET gone == r.q = "driver" /\ page \in DetailTabs IN
  /\ Event
  /\ reads' = reads \ {r}
  /\ moved' = moved \cup ({r.q} \cap Owned)
  /\ broken' = (broken \/ r.q = "driver")
  /\ cache' = IF r.q \in {"queue", "regions"} THEN [cache EXCEPT ![r.q] = NotRead] ELSE cache
  /\ desk' = IF gone THEN NoDesk ELSE [desk EXCEPT !.loading = @ /\ r.q # "review"]
  /\ calls' = IF gone THEN Deaf(calls) ELSE calls
  /\ UNCHANGED <<svc, token, page, filter>>

----------------------------------------------------------------------------
(* The buttons.  A call occupies the pending flag of the mutation, or of   *)
(* the component, that made it, until that component is gone.              *)

Pending(ops) == \E c \in calls : c.flag /\ c.op \in ops

Start(op, doc, load) ==
  /\ tour.calls > 0
  /\ tour' = [tour EXCEPT !.calls = @ - 1]
  /\ calls' = calls \cup {[id |-> tour.calls, op |-> op, doc |-> doc, load |-> load,
                           from |-> Owner(page), stage |-> "sent", auth |-> SignedIn, answer |-> None,
                           mine |-> TRUE, flag |-> TRUE, live |-> TRUE]}
  /\ UNCHANGED <<svc, screen, queries>>

NoFields == [f \in {} |-> "admin"]
Decisions == {"approve", "reject", "info"}
DocumentOps == {"doc_approve", "doc_reject"}

\* The review page unmounts its content while it loads.
Reviewing == Showing("review") /\ ~desk.loading

\* OnboardingActionsCard: one flag (acting) for its buttons, and the note, until
\* the decision's own load of the page is over.
Acting == Pending(Decisions) \/ \E r \in reads : r.op \in Decisions

DecideProfile(op) ==
  /\ Reviewing /\ ~Acting
  /\ op = "approve" => CanApprove(cache["review"].v)
  /\ Start(op, None, NoFields)

\* DocumentsReviewTab's PreviewPanel: a flag of its own.
ReviewDocument(op, d) ==
  /\ Reviewing /\ ~Pending(DocumentOps)
  /\ op = "doc_approve" => cache["review"].v.docs[d] # "MISSING"
  /\ Start(op, d, NoFields)

QuickPending == Pending(QuickOps \ {"ask_info"})

OpenQuick(op) ==
  /\ DetailOpen(page) /\ cache["driver"].held
  /\ op \in QuickActions(cache["driver"].v.status) /\ op # desk.ask /\ ~QuickPending
  /\ desk' = [desk EXCEPT !.ask = op]
  /\ UNCHANGED <<svc, token, page, filter, queries, calls, tour>>

\* Confirm sends what was asked for, whatever the driver's status is by now.
ConfirmQuick ==
  /\ DetailOpen(page) /\ desk.ask # None /\ ~QuickPending
  /\ Start(desk.ask, None, NoFields)

DetailDocument(op, d) ==
  /\ DetailOpen("documents") /\ cache["documents"].held /\ ~Pending({op})
  /\ d \in DOMAIN cache["documents"].v /\ cache["documents"].v[d] = "SUBMITTED"
  /\ Start(op, d, NoFields)

AdminUpload(d) ==
  /\ DetailOpen("documents") /\ cache["documents"].held /\ ~Pending({"upload"})
  /\ Start("upload", d, NoFields)

SavingVehicle == Pending({"patch", "post"})

\* A field of the vehicle, or its switch.
EditVehicle(f) ==
  /\ DetailOpen("vehicle") /\ cache["vehicle"].held /\ ~desk.adding /\ ~SavingVehicle
  /\ Start("patch", None, Diff(cache["vehicle"].v, {f}, "admin"))

\* No vehicle was found, or it could not be read.  The form stays open though
\* one is read later.
OpenAdd ==
  /\ DetailOpen("vehicle") /\ ~cache["vehicle"].held /\ ~Reading("vehicle") /\ ~desk.adding
  /\ desk' = [desk EXCEPT !.adding = TRUE]
  /\ UNCHANGED <<svc, token, page, filter, queries, calls, tour>>

AddVehicle(off) ==
  /\ DetailOpen("vehicle") /\ (cache["vehicle"].held \/ ~Reading("vehicle")) /\ desk.adding
  /\ ~SavingVehicle
  /\ Start("post", None, [f \in Fields \cup off |-> "admin"])

\* ProfileTab: the region is saved by its own call, the rest by a PATCH that no
\* service answers.
SaveProfile(op) ==
  /\ DetailOpen("profile") /\ cache["driver"].held /\ ~Pending({op})
  /\ Start(op, None, NoFields)

\* The toggle has no pending flag: it can be clicked again before the answer.
ToggleHome == Showing("regions") /\ Start("toggle", None, NoFields)

SaveRegion == Showing("regions") /\ ~Pending({"put"}) /\ Start("put", None, NoFields)

RedispatchRide ==
  /\ page = "live" /\ cache["rides"].v = "NO_DRIVERS_FOUND" /\ ~Pending({"redispatch"})
  /\ Start("redispatch", None, NoFields)

----------------------------------------------------------------------------
(* A call lands at the services and its answer arrives.                    *)

\* The effect of a call, when the service accepts it.
Effect(c) ==
  \/ c.op = "approve"     /\ ApproveDriver
  \/ c.op = "reject"      /\ SetProfile("REJECTED")
  \/ c.op = "info"        /\ SetProfile("DOCS_PENDING")
  \/ c.op = "ask_info"    /\ UNCHANGED svc
  \/ c.op = "suspend"     /\ SuspendDriver
  \/ c.op = "doc_approve" /\ DecideDocument(c.doc, "APPROVED")
  \/ c.op = "doc_reject"  /\ DecideDocument(c.doc, "REJECTED")
  \/ c.op = "upload"      /\ c.doc \notin MetaDocs /\ UploadDocument(c.doc)
  \/ c.op = "patch"       /\ PatchVehicle(c.load)
  \/ c.op = "post"        /\ PostVehicle(c.load)
  \/ c.op = "region"      /\ AssignRegion("away")
  \/ c.op = "toggle"      /\ ToggleRegion
  \/ c.op = "put"         /\ PutRegion("admin")
  \/ c.op = "redispatch"  /\ Redispatch

\* No service answers a reactivation or a change of the driver's name; a
\* document that needs an issuer is refused, for the panel sends none.
Refused(c) ==
  \/ c.op \in {"reactivate", "profile"}
  \/ c.op \in DocumentOps /\ docs[c.doc].file = 0
  \/ c.op = "upload" /\ c.doc \in MetaDocs
  \/ c.op = "patch" /\ vehicle = None
  \/ c.op = "redispatch" /\ ride = "ENDED"

\* History: the queries of the review and detail pages whose answer a call
\* changes.
Touches(op) ==
  CASE op = "approve"                        -> {"driver", "review"}
    [] op \in {"reject", "info"}             -> {"review"}
    [] op \in {"suspend", "region"}          -> {"driver"}
    [] op \in DocumentOps \cup {"upload"}    -> {"documents", "review"}
    [] op \in {"patch", "post"}              -> {"vehicle"}
    [] OTHER                                 -> {}

\* Mutant: every mutation invalidates the driver.
InvalidatedDriver(op) == {"driver"}

\* The queries a mutation of the detail and live pages invalidates.
Invalidated(op) ==
  CASE op \in DocumentOps \cup {"upload"} -> {"documents"}
    [] op \in {"patch", "post"}           -> {"vehicle", "driver"} \cup Lists
    [] op = "region"                      -> {"driver"} \cup Lists
    [] op = "redispatch"                  -> {"rides"}
    [] op = "profile"                     -> {}
    [] OTHER                              -> {"driver"}

\* Handlers run though their page is gone; those of the review and the regions
\* page then change nothing.
Heard(c) == c.live /\ (c.from \in Local => c.mine)

\* History: the queries that a call's answer should have read again, its own
\* page's: the review page knows nothing of the cache.
Own(c) == IF ~Heard(c) THEN {}
          ELSE Touches(c.op) \cap (IF c.from = "review" THEN {"review"} ELSE Owned \ {"review"})

Move(c, d) == calls' = (calls \ {c}) \cup {d}
To(c, stage) == [c EXCEPT !.stage = stage]

Land(c) ==
  /\ c.stage = "sent" /\ c.auth
  /\ \/ /\ Effect(c)
        /\ Move(c, [To(c, "done") EXCEPT !.answer = IF c.op \in {"toggle", "put"} THEN home' ELSE None])
        /\ moved' = moved \cup (Touches(c.op) \ Own(c))
        /\ reads' = Outdated(Touches(c.op))
     \/ Refused(c) /\ Move(c, To(c, "refused")) /\ UNCHANGED <<svc, reads, moved>>
  /\ UNCHANGED <<screen, cache, broken, tour>>

LandUnauthorized(c) ==
  /\ c.stage = "sent" /\ ~c.auth
  /\ Move(c, To(c, "unauthorized"))
  /\ UNCHANGED <<svc, screen, queries, tour>>

\* operations_service answers SUSPENDED though the marketplace did not hear of
\* it.
SuspendSwallowed(c) ==
  /\ c.stage = "sent" /\ c.auth /\ c.op = "suspend" /\ Event
  /\ Move(c, To(c, "done"))
  /\ UNCHANGED <<svc, screen, queries>>

\* The request or its answer is lost.
CallLost(c) ==
  /\ c.stage \in {"sent", "done"} /\ Event
  /\ Move(c, To(c, "refused"))
  /\ moved' = IF c.stage = "done" THEN moved \cup Touches(c.op) ELSE moved
  /\ UNCHANGED <<svc, screen, cache, broken, reads>>

\* The review page loads itself again.  Two loads can be under way: the first
\* to end shows the content, the last has the last word.
ReloadReview(c) ==
  /\ c.from = "review"
  /\ reads' = reads \cup {Read("review", c.id, c.op, SignedIn)}
  /\ cache' = [cache EXCEPT !["review"].stale = cache["review"].held]
  /\ desk' = [desk EXCEPT !.loading = TRUE]
  /\ calls' = {[x EXCEPT !.flag = @ /\ x.op \notin DocumentOps] : x \in calls \ {c}}
  /\ UNCHANGED <<broken, moved>>

\* The regions page puts the answer into its row.
UpdateRow(c) ==
  /\ c.from = "regions"
  /\ cache' = IF ~cache["regions"].held THEN cache
              ELSE IF c.op = "put" THEN [cache EXCEPT !["regions"].v = c.answer]
              ELSE [cache EXCEPT !["regions"].v.active = c.answer.active]
  /\ calls' = calls \ {c}
  /\ UNCHANGED <<desk, broken, reads, moved>>

\* The detail and live pages have queries read again.
AfterMutation(c) ==
  /\ c.from \notin Local
  /\ Invalidate(Invalidated(c.op))
  /\ desk' = [desk EXCEPT !.ask = IF c.flag /\ c.op \in QuickOps THEN None ELSE @,
                          !.adding = @ /\ ~(c.flag /\ c.op = "post")]
  /\ calls' = calls \ {c}

AfterSuccess(c) == ReloadReview(c) \/ UpdateRow(c) \/ AfterMutation(c)

Arrive(c) ==
  /\ \/ c.stage = "done" /\ Heard(c) /\ AfterSuccess(c)
     \/ /\ c.stage = "refused" \/ (c.stage = "done" /\ ~Heard(c))
        /\ calls' = calls \ {c}
        /\ UNCHANGED <<desk, queries>>
  /\ UNCHANGED <<svc, token, page, filter, tour>>

\* The 401 may answer a call of an earlier session, not of an earlier load.
ArriveUnauthorized(c) ==
  /\ c.stage = "unauthorized"
  /\ IF c.live
     THEN SignOut(calls \ {c})
     ELSE calls' = calls \ {c} /\ UNCHANGED <<screen, queries>>
  /\ UNCHANGED <<svc, tour>>

----------------------------------------------------------------------------
(* The driver, the other administrators and the clock.                     *)

Outside(qs) ==
  /\ Event
  /\ Moving(qs)
  /\ UNCHANGED <<screen, cache, broken, calls>>

OtherAdmin ==
  \/ ApproveDriver /\ Outside(Touches("approve"))
  \/ SetProfile("REJECTED") /\ Outside(Touches("reject"))
  \/ SuspendDriver /\ Outside(Touches("suspend"))
  \/ \E d \in Docs, s \in {"APPROVED", "REJECTED"} : DecideDocument(d, s) /\ Outside(Touches("doc_approve"))

\* DocumentsCard sends a file once the details the document needs are typed in.
DriverUploads(d) == UploadDocument(d) /\ Outside(Touches("upload"))

\* The driver's form sends a diff too.
DriverPatches(f) == PatchVehicle(Diff(vehicle, {f}, "driver")) /\ Outside(Touches("patch"))

\* The driver's page creates a vehicle when it found none; a failed read looks
\* the same, so there may be one.
DriverCreates(off) ==
  PostVehicle([f \in Fields \cup off |-> "driver"]) /\ Outside(Touches("post"))

Consume ==
  /\ ConsumeApproval
  /\ Moving({"driver"})
  /\ UNCHANGED <<screen, cache, broken, calls, tour>>

RideStep ==
  /\ {"live", "dashboard"} \cap tour.pages # {}
  /\ RideMoves
  /\ UNCHANGED <<screen, queries, calls, tour>>

\* The session ends at the services: for the browser, its reads and its calls.
TokenExpires ==
  /\ SignedIn /\ Event
  /\ token' = "expired"
  /\ calls' = {[c EXCEPT !.auth = FALSE] : c \in calls}
  /\ reads' = {[r EXCEPT !.auth = FALSE] : r \in reads}
  /\ UNCHANGED <<svc, page, filter, desk, cache, broken, moved>>

----------------------------------------------------------------------------
Switches == {{}, {Off}}

Buttons ==
  \/ \E op \in Decisions : DecideProfile(op)
  \/ \E op \in DocumentOps, d \in Docs : ReviewDocument(op, d) \/ DetailDocument(op, d)
  \/ \E op \in QuickOps : OpenQuick(op)
  \/ ConfirmQuick
  \/ \E d \in Docs : AdminUpload(d)
  \/ \E f \in Fields \cup {Off} : EditVehicle(f)
  \/ OpenAdd
  \/ \E off \in Switches : AddVehicle(off)
  \/ \E op \in {"region", "profile"} : SaveProfile(op)
  \/ ToggleHome \/ SaveRegion \/ RedispatchRide

CallSteps(c) ==
  Land(c) \/ LandUnauthorized(c) \/ SuspendSwallowed(c) \/ CallLost(c)
  \/ Arrive(c) \/ ArriveUnauthorized(c)

ReadSteps(r) == Serve(r) \/ ReadRefused(r) \/ ReadAnswer(r) \/ ReadFails(r)

Elsewhere ==
  \/ OtherAdmin
  \/ \E off \in Switches : DriverCreates(off)
  \/ \E d \in Docs : DriverUploads(d)
  \/ \E f \in Fields \cup {Off} : DriverPatches(f)
  \/ Consume \/ RideStep \/ TokenExpires

Next ==
  \/ Login \/ Logout \/ GuardRefuses \/ LayoutPoll \/ Presence
  \/ \E p \in Pages : Open(p) \/ SwitchTab(p) \/ Reload(p)
  \/ \E q \in Queries : Poll(q) \/ Focus(q)
  \/ \E r \in reads : ReadSteps(r)
  \/ \E f \in {"all", "ACTIVE", "SUBMITTED"} : SetFilter(f)
  \/ Buttons
  \/ \E c \in calls : CallSteps(c)
  \/ Elsewhere

Spec == Init /\ [][Next]_vars

\* The browser's timers fire and its reads are answered.
Answered(q) == \E r \in reads : r.q = q /\ (Serve(r) \/ ReadRefused(r) \/ ReadAnswer(r))
Fairness ==
  /\ WF_vars(LayoutPoll)
  /\ \A q \in Lists \cup {"rides"} : WF_vars(Poll(q) \/ Answered(q))

LiveSpec == Spec /\ Fairness

----------------------------------------------------------------------------
(* Properties.                                                             *)

TypeOK ==
  /\ SvcTypeOK
  /\ token \in {"none", "valid", "expired"}
  /\ page \in Pages
  /\ filter \in UNION {Filters[p] : p \in DOMAIN Filters}
  /\ desk \in [ask : QuickOps \cup {None}, adding : BOOLEAN, loading : BOOLEAN]
  /\ \A q \in Queries : cache[q].held \in BOOLEAN /\ cache[q].stale \in BOOLEAN
  /\ \A q \in Local : cache[q].held \/ Reading(q) => q \in QueriesOf(page, filter)
  /\ broken \in BOOLEAN
  /\ \A r \in reads : r.q \in Queries /\ r.stage \in {"asked", "served", "old"}
  /\ \A r, s \in reads : r.q = s.q /\ r.q \notin Local => r = s
  /\ moved \subseteq Owned
  /\ tour \in Visits
  /\ \A c \in calls : c.from \in {"review", "detail", "live", "regions"}

\* The review page's readings of one application agree: of an application it
\* lets the administrator approve every risk signal is complete but the
\* background check, which is pending; and that check is complete exactly when
\* the timeline ends in Approved.
PanelsAgree ==
  LET review == cache["review"].v
      signals == RiskSignals(review)
  IN cache["review"].held =>
    /\ CanApprove(review) =>
         \A k \in DOMAIN signals : signals[k] = IF k = "background" THEN "pending" ELSE "complete"
    /\ signals["background"] = "complete" <=> TimelineStatus(review.profile, "approved") = "current"

\* A query of the page that is read and written by nobody here now.
Settled(q) ==
  q \in Now /\ cache[q].held /\ ~Reading(q) /\ \A c \in calls : q \notin Touches(c.op)

\* A page shows its own writes: a review or detail page shows what the services
\* hold, whatever the cache kept of an earlier page and whichever calls of this
\* or of earlier pages have ended meanwhile, unless somebody else or a failure
\* came between, or a call that the page's query does not hear of.
OwnWritesShown == \A q \in Owned : Settled(q) /\ q \notin moved => cache[q].v = Snapshot(q)

\* Not so of every call: the review page's decision is not heard by the detail
\* page's query, which stays as it is for 30 seconds (useDriverDetail.ts:14);
\* a vehicle that was switched off is a 404, which leaves it on the page.
PanelShowsServices == \A q \in Owned : Settled(q) => cache[q].v = Snapshot(q)

\* A table never shows a row its status filter leaves out, however the answers
\* of the earlier filter are delayed.
TableMatchesFilter ==
  page \in {"drivers", "queue"} /\ filter # "all" =>
    \A q \in Now : cache[q].held => cache[q].v \subseteq {filter}

\* What the administrator decides on is neither another filter's answer nor
\* older than the panel's own writes, and does not contradict itself.
PagesShow == PanelsAgree /\ OwnWritesShown /\ TableMatchesFilter

\* Nobody's edit of a vehicle is undone by a form that was opened before it:
\* a field that was changed never gets its first value back.
NoSilentUndo ==
  [][vehicle # None /\ vehicle' # None =>
       \A f \in Fields : vehicle'[f] = "init" => vehicle[f] = "init"]_vars

\* A polled table that is left alone catches up with the services again and
\* again: it does not show rows forever that are no longer so.
StaleTable ==
  \E q \in Now \cap (Lists \cup {"rides"}) : cache[q].held /\ cache[q].v # Snapshot(q)
TablesCatchUp == []<>~StaleTable \/ []<><<TRUE>>_<<page, filter>>

\* Only an approval activates a driver (docs/PRD.md: "Driver activation must be
\* controlled by admin approval only").
ActivationByApproval ==
  [][driver.status # "ACTIVE" /\ driver'.status = "ACTIVE" => events' > events]_vars
=============================================================================
