--------------------------- MODULE AdminPanel_proofs ---------------------------
(***************************************************************************)
(* Proofs about AdminPanel: nobody's edit of a vehicle is undone by a form *)
(* that was opened before it (NoSilentUndo), every variable is of its type *)
(* (TypeOK), and the pages show what they should (PagesShow).              *)
(*                                                                         *)
(* A call to the vehicle may land long after it was sent, and a page that  *)
(* read the vehicle earlier may send one.  What keeps the edits of others  *)
(* is that a call carries nothing but entries of whoever sent it: no call  *)
(* under way, of this page or of one that was left, has a first value to   *)
(* give back (GoodCall).                                                   *)
(*                                                                         *)
(* A page shows its own writes once nothing is under way any more.  Until  *)
(* then Fresh says of every query of the review and detail pages why it    *)
(* will: what is held and was not invalidated is what the services hold,   *)
(* unless it is excused (somebody else wrote it, or a call has landed      *)
(* whose answer will have it read again); what was invalidated and is on   *)
(* the screen is being read; and an answer on its way is the services'.    *)
(***************************************************************************)
EXTENDS AdminPanel, TLAPS

Names   == {"all", "ACTIVE", "SUBMITTED"}
Reviews == [profile : ProfileStatuses, docs : [Docs -> DocStatuses]]
ButtonPages == {"review", "detail", "live", "regions"}
Entries == Authors \ {"init"}

\* What a call carries is of a type that its endpoint stores; what it writes
\* into the vehicle was typed by somebody, and a new vehicle has every field.
GoodCall(c) ==
  /\ {"op", "doc", "load", "from", "stage", "auth", "answer", "mine", "flag", "live"} \subseteq DOMAIN c
  /\ c.from \in ButtonPages
  /\ c.from = "regions" => c.op \in {"toggle", "put"}
  /\ c.op \in DocumentOps \cup {"upload"} => c.doc \in Docs
  /\ c.op \in {"patch", "post"} => \A f \in DOMAIN c.load : c.load[f] \in Entries
  /\ c.op = "post" => c.load \in [Fields -> Authors] \cup [Fields \cup {Off} -> Authors]
GoodCalls == \A c \in calls : GoodCall(c) /\ (c.mine => c.from = Owner(page))

Desks == [ask : QuickOps \cup {None}, adding : BOOLEAN, loading : BOOLEAN]
Filtered(p, f) ==
  /\ f \in Names
  /\ f # "all" => p \in {"drivers", "queue"}
  /\ p = "drivers" => f \in {"all", "ACTIVE"}

PanelTypes ==
  /\ token \in {"none", "valid", "expired"}
  /\ page \in Pages /\ Filtered(page, filter)
  /\ desk \in Desks
  /\ broken \in BOOLEAN /\ moved \subseteq Owned /\ tour \in Visits

\* What a query of the review page or of a table may hold, under a filter.
Value(q, v, f) ==
  /\ q = "review" => v \in Reviews
  /\ q = "active" => v \subseteq {"ACTIVE"}
  /\ q = "queue" /\ f # "all" => v \subseteq {f}

Entry(q, e, f) ==
  /\ {"held", "v", "stale"} \subseteq DOMAIN e
  /\ e.held \in BOOLEAN /\ e.stale \in BOOLEAN
  /\ e.held => Value(q, e.v, f)

Answer(r, f) ==
  /\ {"q", "id", "op", "auth", "stage", "v"} \subseteq DOMAIN r
  /\ r.q \in Queries /\ r.stage \in {"asked", "served", "old"}
  /\ r.stage = "old" => r.q \in Owned
  /\ r.stage # "asked" => Value(r.q, r.v, f)

QueryTypes ==
  /\ DOMAIN cache = Queries
  /\ \A q \in Queries : Entry(q, cache[q], filter)
  /\ \A r \in reads : Answer(r, filter)
  /\ \A r, s \in reads : r.q = s.q /\ r.q \notin Local => r = s
  /\ \A q \in Local : cache[q].held \/ Reading(q) => q \in QueriesOf(page, filter)

\* A call has landed whose answer will have q read again.
Landed(q) == \E c \in calls : c.stage = "done" /\ q \in Own(c)
Excused(q) == q \in moved \/ Landed(q)

Fresh(q) ==
  /\ \A r \in reads : r.q = q =>
       /\ r.stage = "served" => r.v = Snapshot(q)
       /\ r.stage = "old" /\ q \notin Local => Excused(q)
  /\ cache[q].held /\ ~cache[q].stale /\ ~Excused(q) => cache[q].v = Snapshot(q)
  /\ cache[q].held /\ cache[q].stale /\ q \in Now => Reading(q) \/ q \in moved
FreshInv == \A q \in Owned : Fresh(q)

IInv == SvcTypeOK /\ PanelTypes /\ GoodCalls /\ QueryTypes /\ FreshInv

----------------------------------------------------------------------------
(* Sets, and what a page reads.                                            *)

LEMMA Sets ==
  /\ Lists = {"board", "drivers", "active"} /\ Local = {"queue", "review", "regions"}
  /\ Owned = {"review", "driver", "documents", "vehicle"}
  /\ Queries = {"board", "drivers", "active", "queue", "review", "regions",
                "driver", "documents", "vehicle", "rides"}
  /\ DetailTabs = {"profile", "documents", "vehicle"}
  /\ Pages = {"login", "dashboard", "live", "drivers", "queue", "review",
              "profile", "documents", "vehicle", "regions"}
  BY DEF Lists, Local, Owned, Queries, DetailTabs, TabQuery, Pages

LEMMA PageQueries ==
  ASSUME NEW f
  PROVE  /\ QueriesOf("login", f) = {} /\ QueriesOf("dashboard", f) = {"board", "rides"}
         /\ QueriesOf("live", f) = {"rides"}
         /\ QueriesOf("drivers", f) = {IF f = "ACTIVE" THEN "active" ELSE "drivers"}
         /\ QueriesOf("queue", f) = {"queue"} /\ QueriesOf("review", f) = {"review"}
         /\ QueriesOf("regions", f) = {"regions"}
         /\ QueriesOf("profile", f) = {"driver", "documents"}
         /\ QueriesOf("documents", f) = {"driver", "documents"}
         /\ QueriesOf("vehicle", f) = {"driver", "documents", "vehicle"}
  BY DEF QueriesOf, Local, DetailTabs, TabQuery

\* A page's queries, and the page that has a query of its own.
LEMMA OwnPages ==
  ASSUME NEW p \in Pages, NEW f
  PROVE  /\ QueriesOf(p, f) \subseteq Queries
         /\ QueriesOf(p, f) \cap Local = {p} \cap Local
         /\ "driver" \in QueriesOf(p, f) <=> p \in DetailTabs
         /\ p \in DetailTabs => QueriesOf(p, f) \subseteq Owned \ Local
         /\ \A failed \in BOOLEAN : Visible(p, f, failed) \subseteq QueriesOf(p, f)
         /\ \A failed \in BOOLEAN : failed /\ p \in DetailTabs => Visible(p, f, failed) = {"driver"}
         /\ \A failed \in BOOLEAN : ~(failed /\ p \in DetailTabs) => Visible(p, f, failed) = QueriesOf(p, f)
  <1>1. p \in DetailTabs => "driver" \in QueriesOf(p, f)
    BY PageQueries, Sets
  <1>2. QueriesOf(p, f) \subseteq Queries /\ QueriesOf(p, f) \cap Local = {p} \cap Local
    <2>1. CASE p = "drivers"
      BY <2>1, PageQueries, Sets
    <2>2. CASE p \in Local
      <3>1. QueriesOf(p, f) = {p}
        BY <2>2, PageQueries DEF Local
      <3> QED BY <2>2, <3>1, Sets
    <2>3. CASE p \in {"login", "dashboard", "live"}
      BY <2>3, PageQueries, Sets
    <2>4. CASE p \in DetailTabs
      BY <2>4, PageQueries, Sets
    <2> QED BY <2>1, <2>2, <2>3, <2>4, Sets
  <1>3. p \notin DetailTabs => "driver" \notin QueriesOf(p, f)
    BY PageQueries, Sets
  <1>4. p \in DetailTabs => QueriesOf(p, f) \subseteq Owned \ Local
    BY PageQueries, Sets
  <1> QED BY <1>1, <1>2, <1>3, <1>4 DEF Visible

\* A read that has just been asked for is of its type, whatever the query.
LEMMA AskedTyped ==
  ASSUME NEW q \in Queries, NEW id, NEW op, NEW auth, NEW f
  PROVE  Answer(Read(q, id, op, auth), f)
  BY DEF Read, Answer

LEMMA AskedReads ==
  ASSUME NEW qs \in SUBSET Queries, NEW auth, NEW r \in Asks(qs, auth)
  PROVE  r.q \in qs /\ r = Read(r.q, 0, None, auth) /\ r.stage = "asked" /\ \A f : Answer(r, f)
  <1>1. PICK q \in qs : r = Read(q, 0, None, auth)
    BY DEF Asks
  <1>2. r.q = q /\ r.stage = "asked"
    BY <1>1 DEF Read
  <1> QED BY <1>1, <1>2, AskedTyped

LEMMA AsksRead ==
  ASSUME NEW qs, NEW auth, NEW q \in qs
  PROVE  \E r \in Asks(qs, auth) : r.q = q
  <1>1. Read(q, 0, None, auth) \in Asks(qs, auth)
    BY DEF Asks
  <1>2. Read(q, 0, None, auth).q = q
    BY DEF Read
  <1> QED BY <1>1, <1>2

----------------------------------------------------------------------------
(* What the review and detail pages read.                                  *)

LEMMA SameReadings ==
  ASSUME NEW q \in Owned
  PROVE  /\ q = "review" /\ UNCHANGED <<profile, docs>> => Snapshot(q)' = Snapshot(q)
         /\ q = "driver" /\ UNCHANGED driver => Snapshot(q)' = Snapshot(q)
         /\ q = "documents" /\ UNCHANGED docs => Snapshot(q)' = Snapshot(q)
         /\ q = "vehicle" /\ UNCHANGED vehicle => Snapshot(q)' = Snapshot(q)
  <1>1. CASE q = "review"
    BY <1>1 DEF Snapshot, ReviewDetail, SentDocuments
  <1>2. CASE q = "driver"
    BY <1>2 DEF Snapshot
  <1>3. CASE q = "documents"
    BY <1>3 DEF Snapshot, SentDocuments
  <1>4. CASE q = "vehicle"
    BY <1>4 DEF Snapshot
  <1> QED BY <1>1, <1>2, <1>3, <1>4 DEF Owned

LEMMA SameServices ==
  ASSUME UNCHANGED svc, NEW q \in Owned
  PROVE  Snapshot(q)' = Snapshot(q)
  BY SameReadings DEF svc, Owned

\* A reading of the application, and of a table under its filter.
LEMMA ReadingTyped ==
  ASSUME SvcTypeOK, NEW q \in Queries
  PROVE  Value(q, Snapshot(q), filter)
  <1>1. MergeDocuments(SentDocuments) \in [Docs -> DocStatuses]
    <2>1. ASSUME NEW d \in Docs PROVE MergeDocuments(SentDocuments)[d] \in DocStatuses
      BY DEF MergeDocuments, SentDocuments, SvcTypeOK, DocRows, DocStatuses
    <2> QED BY <2>1 DEF MergeDocuments
  <1>2. ReviewDetail \in Reviews
    BY <1>1 DEF ReviewDetail, Reviews, SvcTypeOK
  <1>3. \A f, s : f # "all" => Rows(f, s) \subseteq {f}
    BY DEF Rows
  <1>4. CASE q = "review"
    BY <1>2, <1>4 DEF Value, Snapshot
  <1>5. CASE q = "active"
    BY <1>3, <1>5 DEF Value, Snapshot
  <1>6. CASE q = "queue"
    BY <1>3, <1>6 DEF Value, Snapshot
  <1> QED BY <1>4, <1>5, <1>6 DEF Value

\* The queries of the review and detail pages whose answer an effect changes.
LEMMA EffectTouches ==
  ASSUME NEW c, Effect(c), NEW q \in Owned, q \notin Touches(c.op)
  PROVE  Snapshot(q)' = Snapshot(q)
  <1>1. q = "review" => UNCHANGED <<profile, docs>>
    BY DEF Effect, Touches, DocumentOps, DecideDocument, UploadDocument, PatchVehicle, PostVehicle,
           ApproveDriver, SetProfile, SuspendDriver, AssignRegion, ToggleRegion, PutRegion, Redispatch, svc
  <1>2. q = "driver" => UNCHANGED driver
    BY DEF Effect, Touches, DocumentOps, DecideDocument, UploadDocument, PatchVehicle, PostVehicle,
           ApproveDriver, SetProfile, SuspendDriver, AssignRegion, ToggleRegion, PutRegion, Redispatch, svc
  <1>3. q = "documents" => UNCHANGED docs
    BY DEF Effect, Touches, DocumentOps, DecideDocument, UploadDocument, PatchVehicle, PostVehicle,
           ApproveDriver, SetProfile, SuspendDriver, AssignRegion, ToggleRegion, PutRegion, Redispatch, svc
  <1>4. q = "vehicle" => UNCHANGED vehicle
    BY DEF Effect, Touches, DocumentOps, DecideDocument, UploadDocument, PatchVehicle, PostVehicle,
           ApproveDriver, SetProfile, SuspendDriver, AssignRegion, ToggleRegion, PutRegion, Redispatch, svc
  <1> QED BY <1>1, <1>2, <1>3, <1>4, SameReadings DEF Owned

LEMMA TouchesOwned ==
  ASSUME NEW op
  PROVE  /\ Touches(op) \subseteq Owned
         /\ (Touches(op) \cap Owned) \ {"review"} \subseteq Invalidated(op)
         /\ op \in {"toggle", "put"} => Touches(op) = {}
  BY DEF Touches, Owned, Invalidated, DocumentOps

----------------------------------------------------------------------------
(* The services store what they should.                                    *)

LEMMA DriverTyped ==
  ASSUME driver \in DriverRows
  PROVE  /\ [driver EXCEPT !.status = "ACTIVE", !.approved = TRUE] \in DriverRows
         /\ [driver EXCEPT !.status = "SUSPENDED"] \in DriverRows
         /\ \A r \in Regions : [driver EXCEPT !.region = r] \in DriverRows
  BY DEF DriverRows, DriverStatuses

LEMMA ApplicationTyped ==
  ASSUME SvcTypeOK,
         \/ ApproveDriver \/ SuspendDriver \/ AssignRegion("away") \/ ConsumeApproval
         \/ \E s \in {"REJECTED", "DOCS_PENDING"} : SetProfile(s)
  PROVE  SvcTypeOK'
  <1>1. driver \in DriverRows /\ events \in Nat
    BY DEF SvcTypeOK
  <1>2. CASE ApproveDriver
    BY <1>1, <1>2, DriverTyped DEF ApproveDriver, SvcTypeOK, ProfileStatuses
  <1>3. CASE SuspendDriver
    BY <1>1, <1>3, DriverTyped DEF SuspendDriver, SvcTypeOK
  <1>4. CASE AssignRegion("away")
    <2>1. "away" \in Regions
      BY DEF Regions
    <2> QED BY <1>1, <1>4, <2>1, DriverTyped DEF AssignRegion, SvcTypeOK
  <1>5. CASE ConsumeApproval
    <2>1. [status |-> "ACTIVE", approved |-> TRUE, region |-> "home"] \in DriverRows
      BY DEF DriverRows, DriverStatuses, Regions
    <2>2. events' \in Nat
      BY <1>1, <1>5 DEF ConsumeApproval
    <2> QED BY <1>5, <2>1, <2>2 DEF ConsumeApproval, SvcTypeOK
  <1>6. ASSUME NEW s \in {"REJECTED", "DOCS_PENDING"}, SetProfile(s) PROVE SvcTypeOK'
    BY <1>6 DEF SetProfile, SvcTypeOK, ProfileStatuses
  <1> QED BY <1>2, <1>3, <1>4, <1>5, <1>6

LEMMA DocumentsTyped ==
  ASSUME SvcTypeOK, NEW d \in Docs, UploadDocument(d) \/ \E s \in {"APPROVED", "REJECTED"} : DecideDocument(d, s)
  PROVE  SvcTypeOK'
  <1>1. docs \in [Docs -> DocRows] /\ MaxFiles \in Nat
    BY OnboardingAssumption DEF SvcTypeOK
  <1>2. PICK row \in DocRows : docs' = [docs EXCEPT ![d] = row]
    <2>1. CASE UploadDocument(d)
      <3>1. PICK n \in 0..MaxFiles : n = docs[d].file + 1
        BY <1>1, <2>1 DEF UploadDocument, DocRows
      <3>2. docs' = [docs EXCEPT ![d] = [docs[d] EXCEPT !.status = "SUBMITTED", !.file = n]]
        BY <2>1, <3>1 DEF UploadDocument
      <3>3. [docs[d] EXCEPT !.status = "SUBMITTED", !.file = n] \in DocRows
        BY <1>1, <3>1 DEF DocRows, DocStatuses
      <3> QED BY <3>2, <3>3
    <2>2. ASSUME NEW s \in {"APPROVED", "REJECTED"}, DecideDocument(d, s)
          PROVE  \E row \in DocRows : docs' = [docs EXCEPT ![d] = row]
      <3>1. docs' = [docs EXCEPT ![d] = [docs[d] EXCEPT !.status = s]]
        BY <2>2 DEF DecideDocument
      <3>2. [docs[d] EXCEPT !.status = s] \in DocRows
        BY <1>1 DEF DocRows, DocStatuses
      <3> QED BY <3>1, <3>2
    <2> QED BY <2>1, <2>2
  <1>3. docs' \in [Docs -> DocRows]
    BY <1>1, <1>2
  <1>4. UNCHANGED <<profile, driver, vehicle, home, ride, events>>
    BY DEF UploadDocument, DecideDocument
  <1> QED BY <1>3, <1>4 DEF SvcTypeOK

LEMMA VehicleTyped ==
  ASSUME SvcTypeOK, NEW load,
         \/ PatchVehicle(load) /\ \A f \in DOMAIN load : load[f] \in Authors
         \/ PostVehicle(load) /\ (Off \in DOMAIN load \/ load \in [Fields -> Authors])
  PROVE  SvcTypeOK'
  <1>1. vehicle' \in Vehicles
    <2>1. vehicle # None => vehicle \in [Fields -> Authors]
      BY DEF SvcTypeOK, Vehicles
    <2> QED BY <2>1 DEF PatchVehicle, PostVehicle, Vehicles
  <1>2. UNCHANGED <<profile, driver, docs, home, ride, events>>
    BY DEF PatchVehicle, PostVehicle
  <1> QED BY <1>1, <1>2 DEF SvcTypeOK, Vehicles

LEMMA RegionRideTyped ==
  ASSUME SvcTypeOK, ToggleRegion \/ PutRegion("admin") \/ Redispatch \/ RideMoves
  PROVE  SvcTypeOK'
  <1>1. home \in [active : BOOLEAN, name : Authors]
    BY DEF SvcTypeOK
  <1>2. CASE ToggleRegion
    <2>1. (~home.active) \in BOOLEAN
      OBVIOUS
    <2>2. \A a \in BOOLEAN : [home EXCEPT !.active = a] \in [active : BOOLEAN, name : Authors]
      BY <1>1
    <2> QED BY <1>2, <2>1, <2>2 DEF ToggleRegion, SvcTypeOK
  <1>3. CASE PutRegion("admin")
    <2>1. [home EXCEPT !.name = "admin"] \in [active : BOOLEAN, name : Authors]
      BY <1>1 DEF Authors
    <2> QED BY <1>3, <2>1 DEF PutRegion, SvcTypeOK
  <1>4. CASE Redispatch \/ RideMoves
    BY <1>4 DEF Redispatch, RideMoves, SvcTypeOK
  <1> QED BY <1>2, <1>3, <1>4

LEMMA EffectTyped ==
  ASSUME SvcTypeOK, NEW c, GoodCall(c), Effect(c)
  PROVE  SvcTypeOK'
  <1>1. CASE c.op \in {"approve", "reject", "info", "suspend", "region"}
    BY <1>1, ApplicationTyped DEF Effect, DocumentOps
  <1>2. CASE c.op \in DocumentOps \cup {"upload"}
    <2>1. c.doc \in Docs
      BY <1>2 DEF GoodCall
    <2> QED BY <1>2, <2>1, DocumentsTyped DEF Effect, DocumentOps
  <1>3. CASE c.op \in {"patch", "post"}
    <2>1. PatchVehicle(c.load) \/ (PostVehicle(c.load) /\ c.op = "post")
      BY <1>3 DEF Effect
    <2>2. /\ \A f \in DOMAIN c.load : c.load[f] \in Authors
          /\ c.op = "post" => Off \in DOMAIN c.load \/ c.load \in [Fields -> Authors]
      BY <1>3 DEF GoodCall, Entries
    <2> QED BY <2>1, <2>2, VehicleTyped
  <1>4. CASE c.op \in {"toggle", "put", "redispatch"}
    BY <1>4, RegionRideTyped DEF Effect
  <1>5. CASE UNCHANGED svc
    BY <1>5 DEF svc, SvcTypeOK
  <1> QED BY <1>1, <1>2, <1>3, <1>4, <1>5 DEF Effect, DocumentOps

LEMMA SameStores ==
  ASSUME SvcTypeOK, UNCHANGED svc
  PROVE  SvcTypeOK'
  BY DEF SvcTypeOK, svc

LEMMA SvcInitTyped ==
  ASSUME NEW start \in Starts, SvcInit(start)
  PROVE  SvcTypeOK
  <1>1. {NoFile, OneFile, Reviewed} \subseteq DocRows
    BY OnboardingAssumption DEF NoFile, OneFile, Reviewed, DocRows, DocStatuses
  <1>2. docs \in [Docs -> DocRows]
    BY <1>1 DEF SvcInit
  <1>3. driver \in DriverRows
    BY DEF SvcInit, DriverRows, DriverStatuses, Regions
  <1>4. vehicle \in Vehicles
    BY DEF SvcInit, Vehicles, Authors
  <1> QED BY <1>2, <1>3, <1>4 DEF SvcInit, SvcTypeOK, ProfileStatuses, Authors

----------------------------------------------------------------------------
(* No edit of the vehicle is undone.                                       *)

\* What NoSilentUndo says of one step.
NotUndone ==
  vehicle # None /\ vehicle' # None =>
    \A f \in Fields : vehicle'[f] = "init" => vehicle[f] = "init"

LEMMA OthersKeepVehicle ==
  \/ ApproveDriver \/ SuspendDriver \/ ToggleRegion \/ Redispatch \/ ConsumeApproval \/ RideMoves
  \/ \E x \in {"REJECTED", "DOCS_PENDING"} : SetProfile(x)
  \/ AssignRegion("away") \/ PutRegion("admin")
  \/ \E d, x : DecideDocument(d, x)
  \/ \E d : UploadDocument(d)
  => UNCHANGED vehicle
  BY DEF ApproveDriver, SuspendDriver, ToggleRegion, Redispatch, ConsumeApproval, RideMoves,
         SetProfile, AssignRegion, PutRegion, DecideDocument, UploadDocument

\* A PATCH without a first value in it, and a POST of a whole vehicle without one.
LEMMA PatchUndoesNothing ==
  ASSUME NEW load, PatchVehicle(load), \A f \in DOMAIN load : load[f] \in Entries
  PROVE  NotUndone
  BY DEF PatchVehicle, NotUndone, Entries

LEMMA PostUndoesNothing ==
  ASSUME NEW load, PostVehicle(load), Off \in DOMAIN load \/ DOMAIN load = Fields,
         \A f \in DOMAIN load : load[f] \in Entries
  PROVE  NotUndone
  BY DEF PostVehicle, NotUndone, Entries

LEMMA EffectUndoesNothing ==
  ASSUME NEW c, GoodCall(c), Effect(c)
  PROVE  NotUndone
  <1>1. CASE c.op = "patch" /\ PatchVehicle(c.load)
    BY <1>1, PatchUndoesNothing DEF GoodCall
  <1>2. CASE c.op = "post" /\ PostVehicle(c.load)
    <2>1. Off \in DOMAIN c.load \/ DOMAIN c.load = Fields
      BY <1>2 DEF GoodCall
    <2> QED BY <1>2, <2>1, PostUndoesNothing DEF GoodCall
  <1>3. CASE UNCHANGED vehicle
    BY <1>3 DEF NotUndone
  <1> QED BY <1>1, <1>2, <1>3, OthersKeepVehicle DEF Effect, svc

\* Only a call that lands, the driver and the other administrators write the
\* vehicle.
LEMMA NothingUndone ==
  ASSUME GoodCalls, [Next]_vars
  PROVE  NotUndone
  <1>1. UNCHANGED vehicle => NotUndone
    BY DEF NotUndone
  <1>2. UNCHANGED svc => NotUndone
    BY <1>1 DEF svc
  <1>3. ASSUME NEW c \in calls, CallSteps(c) PROVE NotUndone
    <2>1. CASE Land(c)
      BY <1>2, <2>1, EffectUndoesNothing DEF Land, GoodCalls
    <2>2. ~Land(c) => UNCHANGED svc
      BY <1>3 DEF CallSteps, LandUnauthorized, SuspendSwallowed, CallLost, Arrive, ArriveUnauthorized
    <2> QED BY <1>2, <2>1, <2>2
  <1>4. CASE Elsewhere
    <2>1. ASSUME NEW off \in Switches, DriverCreates(off) PROVE NotUndone
      <3>1. PICK load : load = [f \in Fields \cup off |-> "driver"]
        OBVIOUS
      <3>2. PostVehicle(load) /\ (Off \in DOMAIN load \/ DOMAIN load = Fields)
        BY <2>1, <3>1 DEF DriverCreates, Switches
      <3> QED BY <3>1, <3>2, PostUndoesNothing DEF Entries, Authors
    <2>2. ASSUME NEW f \in Fields \cup {Off}, DriverPatches(f) PROVE NotUndone
      BY <2>2, PatchUndoesNothing DEF DriverPatches, Diff, Entries, Authors
    <2>3. OtherAdmin \/ Consume \/ RideStep \/ TokenExpires \/ (\E d \in Docs : DriverUploads(d))
            => UNCHANGED vehicle
      BY OthersKeepVehicle DEF OtherAdmin, Consume, RideStep, TokenExpires, DriverUploads, svc
    <2> QED BY <1>1, <1>4, <2>1, <2>2, <2>3 DEF Elsewhere
  <1>5. CASE Buttons
    BY <1>2, <1>5 DEF Buttons, DecideProfile, ReviewDocument, DetailDocument, OpenQuick, ConfirmQuick,
                      AdminUpload, EditVehicle, OpenAdd, AddVehicle, SaveProfile, ToggleHome,
                      SaveRegion, RedispatchRide, Start
  <1>6. CASE \/ Login \/ Logout \/ GuardRefuses \/ LayoutPoll \/ Presence
             \/ \E p \in Pages : Open(p) \/ SwitchTab(p) \/ Reload(p)
    BY <1>2, <1>6 DEF Login, Logout, GuardRefuses, LayoutPoll, Presence, Open, SwitchTab, Reload
  <1>7. CASE \/ \E q \in Queries : Poll(q) \/ Focus(q)
             \/ \E r \in reads : ReadSteps(r)
             \/ \E f \in {"all", "ACTIVE", "SUBMITTED"} : SetFilter(f)
    BY <1>2, <1>7 DEF Poll, Focus, ReadSteps, Serve, ReadRefused, ReadAnswer, ReadFails, SetFilter
  <1>8. CASE UNCHANGED vars
    BY <1>2, <1>8 DEF vars
  <1> QED BY <1>3, <1>4, <1>5, <1>6, <1>7, <1>8 DEF Next

----------------------------------------------------------------------------
(* Calls that stay, and calls that lose their page.                        *)

LEMMA OwnOf ==
  ASSUME NEW c, GoodCall(c)
  PROVE  /\ Own(c) \subseteq Touches(c.op) /\ Own(c) \subseteq Owned
         /\ c.from = "review" => Own(c) \subseteq {"review"}
         /\ c.from # "review" => "review" \notin Own(c) /\ Own(c) \subseteq Invalidated(c.op)
         /\ c.from = "regions" => Own(c) = {}
  <1>1. Own(c) \subseteq Touches(c.op) /\ Own(c) \subseteq Owned
    BY TouchesOwned DEF Own
  <1>2. c.from = "review" => Own(c) \subseteq {"review"}
    BY DEF Own
  <1>3. c.from # "review" => Own(c) \subseteq (Touches(c.op) \cap Owned) \ {"review"}
    BY DEF Own
  <1>4. c.from = "regions" => Own(c) = {}
    BY <1>1, TouchesOwned DEF GoodCall
  <1> QED BY <1>1, <1>2, <1>3, <1>4, TouchesOwned

LEMMA StillLanded ==
  ASSUME NEW q, \A c \in calls : c.stage = "done" /\ q \in Own(c)
                                   => \E d \in calls' : d.stage = "done" /\ q \in Own(d)
  PROVE  Landed(q) => Landed(q)'
  BY DEF Landed

LEMMA SameCalls ==
  ASSUME GoodCalls, UNCHANGED <<calls, page>>
  PROVE  GoodCalls' /\ \A q : Landed(q) => Landed(q)'
  BY DEF GoodCalls, Landed

\* The page of some calls is gone: the detail page's calls are heard all the same.
LEMMA DeafCalls ==
  ASSUME GoodCalls, NEW cs \in SUBSET calls
  PROVE  /\ \A d \in Deaf(cs) : GoodCall(d) /\ ~d.mine
         /\ \A q \in Owned \ {"review"} : \A c \in cs : c.stage = "done" /\ q \in Own(c) =>
              \E d \in Deaf(cs) : d.stage = "done" /\ q \in Own(d)
  <1>1. ASSUME NEW c \in cs, NEW d, d = [c EXCEPT !.mine = FALSE, !.flag = FALSE]
        PROVE  /\ GoodCall(d) /\ ~d.mine /\ d.stage = c.stage
               /\ \A q \in Owned \ {"review"} : q \in Own(c) => q \in Own(d)
    <2>2. GoodCall(c)
      BY DEF GoodCalls
    <2>3. /\ DOMAIN d = DOMAIN c /\ d.op = c.op /\ d.doc = c.doc /\ d.load = c.load /\ d.from = c.from
          /\ d.stage = c.stage /\ d.live = c.live /\ ~d.mine
      BY <1>1, <2>2 DEF GoodCall
    <2>4. GoodCall(d)
      BY <2>2, <2>3 DEF GoodCall
    <2>5. ASSUME NEW q \in Owned \ {"review"}, q \in Own(c) PROVE q \in Own(d)
      <3>1. c.from \notin Local
        BY <2>2, <2>5, OwnOf DEF GoodCall, ButtonPages, Local
      <3> QED BY <2>3, <2>5, <3>1 DEF Own, Heard
    <2> QED BY <2>3, <2>4, <2>5
  <1>2. ASSUME NEW d \in Deaf(cs) PROVE GoodCall(d) /\ ~d.mine
    <2>1. PICK c \in cs : d = [c EXCEPT !.mine = FALSE, !.flag = FALSE]
      BY DEF Deaf
    <2> QED BY <1>1, <2>1
  <1>3. ASSUME NEW q \in Owned \ {"review"}, NEW c \in cs, c.stage = "done", q \in Own(c)
        PROVE  \E d \in Deaf(cs) : d.stage = "done" /\ q \in Own(d)
    <2>1. PICK d \in Deaf(cs) : d = [c EXCEPT !.mine = FALSE, !.flag = FALSE]
      BY DEF Deaf
    <2> QED BY <1>1, <1>3, <2>1
  <1> QED BY <1>2, <1>3

LEMMA DeafKeeps ==
  ASSUME GoodCalls, calls' = Deaf(calls)
  PROVE  GoodCalls' /\ \A q \in Owned \ {"review"} : Landed(q) => Landed(q)'
  <1>1. GoodCalls'
    BY DeafCalls DEF GoodCalls
  <1>2. ASSUME NEW q \in Owned \ {"review"} PROVE Landed(q) => Landed(q)'
    BY DeafCalls, StillLanded
  <1> QED BY <1>1, <1>2

LEMMA AbandonedKeep ==
  ASSUME GoodCalls, NEW cs \in SUBSET calls, calls' = {[c EXCEPT !.live = FALSE] : c \in Deaf(cs)}
  PROVE  GoodCalls'
  <1>1. ASSUME NEW e \in calls' PROVE GoodCall(e) /\ ~e.mine
    <2>1. PICK d \in Deaf(cs) : e = [d EXCEPT !.live = FALSE]
      OBVIOUS
    <2>2. GoodCall(d) /\ ~d.mine
      BY DeafCalls
    <2>3. /\ DOMAIN e = DOMAIN d /\ e.op = d.op /\ e.doc = d.doc /\ e.load = d.load /\ e.from = d.from
          /\ ~e.mine
      BY <2>1, <2>2 DEF GoodCall
    <2> QED BY <2>2, <2>3 DEF GoodCall
  <1> QED BY <1>1 DEF GoodCalls

----------------------------------------------------------------------------
(* What keeps a query fresh.                                               *)

LEMMA FreshKept ==
  ASSUME NEW q \in Owned, Fresh(q), Snapshot(q)' = Snapshot(q),
         \A r \in reads' : r.q = q => r \in reads \/ r.stage = "asked",
         cache'[q] = cache[q], Excused(q) => Excused(q)',
         cache[q].held /\ cache[q].stale /\ q \in Now' => Reading(q)' \/ q \in moved'
  PROVE  Fresh(q)'
  BY DEF Fresh

LEMMA FreshUnheld ==
  ASSUME NEW q \in Owned, ~cache'[q].held, \A r \in reads' : r.q = q => r.stage = "asked"
  PROVE  Fresh(q)'
  BY DEF Fresh

\* A query under a new filter, which the lists do not keep.
LEMMA ValueElsewhere ==
  ASSUME NEW q, q \notin Local, NEW f, NEW g, NEW v
  PROVE  Value(q, v, f) => Value(q, v, g)
  BY DEF Value, Local

\* Some reads go on and others begin.
LEMMA Reread ==
  ASSUME QueryTypes, NEW kept \in SUBSET reads, NEW qs \in SUBSET Queries, NEW auth,
         reads' = kept \cup Asks(qs, auth),
         \A q \in qs \ Local : \A r \in kept : r.q # q,
         filter' = filter \/ \A r \in kept : r.q \notin Local
  PROVE  /\ \A r \in reads' : Answer(r, filter)'
         /\ \A r, s \in reads' : r.q = s.q /\ r.q \notin Local => r = s
         /\ \A r \in reads' : r \in kept \/ (r.q \in qs /\ r.stage = "asked")
         /\ \A q \in qs : Reading(q)'
         /\ \A r \in kept : Reading(r.q)'
  <1>1. ASSUME NEW r \in kept PROVE Answer(r, filter)'
    BY ValueElsewhere DEF QueryTypes, Answer
  <1>2. ASSUME NEW r \in Asks(qs, auth)
        PROVE  r.q \in qs /\ r = Read(r.q, 0, None, auth) /\ r.stage = "asked" /\ Answer(r, filter)'
    BY AskedReads
  <1>3. ASSUME NEW r \in reads', NEW s \in reads', r.q = s.q, r.q \notin Local PROVE r = s
    <2>1. CASE r \in kept /\ s \in kept
      BY <1>3, <2>1 DEF QueryTypes
    <2>2. CASE r \in Asks(qs, auth) /\ s \in Asks(qs, auth)
      BY <1>2, <1>3, <2>2
    <2>3. ~(r \in kept /\ s \in Asks(qs, auth)) /\ ~(s \in kept /\ r \in Asks(qs, auth))
      BY <1>2, <1>3
    <2> QED BY <2>1, <2>2, <2>3
  <1>4. ASSUME NEW q \in qs PROVE Reading(q)'
    BY AsksRead DEF Reading
  <1>5. ASSUME NEW r \in kept PROVE Reading(r.q)'
    BY DEF Reading
  <1> QED BY <1>1, <1>2, <1>3, <1>4, <1>5

----------------------------------------------------------------------------
(* The browser loads the panel, a page or a table comes up.                *)

LEMMA Desk == \A p : [NoDesk EXCEPT !.loading = p = "review"] \in Desks
  BY DEF NoDesk, Desks

LEMMA Unread == \A q, f : Entry(q, NotRead, f) /\ ~NotRead.held
  BY DEF Entry, NotRead

LEMMA LoadKeeps ==
  ASSUME IInv, NEW p \in Pages, NEW auth, NEW cs \in SUBSET calls, Load(p, auth, cs), UNCHANGED svc,
         token' \in {"none", "valid", "expired"}, tour' \in Visits
  PROVE  IInv'
  <1>1. /\ page' = p /\ filter' = "all" /\ broken' = FALSE /\ moved' = {}
        /\ cache' = [q \in Queries |-> NotRead]
        /\ reads' = {} \cup Asks(QueriesOf(p, "all"), auth)
        /\ desk' = [NoDesk EXCEPT !.loading = p = "review"]
        /\ calls' = {[c EXCEPT !.live = FALSE] : c \in Deaf(cs)}
    BY DEF Load
  <1>2. SvcTypeOK' /\ GoodCalls'
    BY <1>1, SameStores, AbandonedKeep DEF IInv
  <1>3. PanelTypes'
    BY <1>1, Desk DEF PanelTypes, Filtered, Names
  <1>4. QueriesOf(p, "all") \subseteq Queries /\ QueriesOf(p, "all") \cap Local = {p} \cap Local
    BY OwnPages
  <1>5. /\ \A r \in reads' : Answer(r, filter)'
        /\ \A r, s \in reads' : r.q = s.q /\ r.q \notin Local => r = s
        /\ \A r \in reads' : r.q \in QueriesOf(p, "all") /\ r.stage = "asked"
    <2>1. QueryTypes /\ {} \in SUBSET reads
      BY DEF IInv
    <2> QED BY <1>1, <1>4, <2>1, Reread
  <1>6. \A q \in Queries : cache'[q] = NotRead
    BY <1>1
  <1>7. QueryTypes'
    <2>1. ASSUME NEW q \in Local, cache'[q].held \/ Reading(q)' PROVE q \in QueriesOf(p, "all")
      BY <1>5, <1>6, <2>1, Unread, Sets DEF Reading
    <2> QED BY <1>1, <1>5, <1>6, <2>1, Unread DEF QueryTypes
  <1>8. FreshInv'
    <2> SUFFICES ASSUME NEW q \in Owned PROVE Fresh(q)'
      BY DEF FreshInv
    <2>1. ~cache'[q].held
      BY <1>6, Unread, Sets
    <2> QED BY <1>5, <2>1, FreshUnheld
  <1> QED BY <1>2, <1>3, <1>7, <1>8 DEF IInv

LEMMA EnterKeeps ==
  ASSUME IInv, NEW p \in Pages, NEW f, NEW failed \in BOOLEAN, NEW aged, NEW auth,
         Enter(p, f, failed, aged, auth), broken' = failed, UNCHANGED svc,
         \A q \in Owned \ {"review"} : Landed(q) => Landed(q)'
  PROVE  QueryTypes' /\ FreshInv' /\ moved' \subseteq Owned
  <1> DEFINE seen == Visible(p, f, failed)
             kept == {r \in reads : r.q \notin Local}
  <1>1. /\ page' = p /\ filter' = f /\ moved' = moved \ Local
        /\ cache' = [q \in Queries |-> IF q \in Local THEN NotRead ELSE cache[q]]
        /\ reads' = kept \cup Asks(Needed(seen, aged), auth)
    BY DEF Enter
  <1>2. /\ seen \subseteq Queries /\ seen \cap Local \subseteq QueriesOf(p, f)
        /\ Now' = seen
    BY <1>1, OwnPages DEF Now
  <1> HIDE DEF seen
  <1>3. Needed(seen, aged) \subseteq seen /\ \A q \in Needed(seen, aged) \ Local : ~Reading(q)
    BY DEF Needed
  <1>4. \A q \in seen : q \in Needed(seen, aged) \/ (q \notin Local /\ (Reading(q) \/ (cache[q].held /\ ~cache[q].stale)))
    BY DEF Needed
  <1>5. /\ \A r \in reads' : Answer(r, filter)'
        /\ \A r, s \in reads' : r.q = s.q /\ r.q \notin Local => r = s
        /\ \A r \in reads' : r \in kept \/ (r.q \in Needed(seen, aged) /\ r.stage = "asked")
        /\ \A q \in Needed(seen, aged) : Reading(q)'
        /\ \A r \in kept : Reading(r.q)'
    <2>1. QueryTypes /\ kept \in SUBSET reads /\ Needed(seen, aged) \in SUBSET Queries
      BY <1>2, <1>3 DEF IInv
    <2>2. \A q \in Needed(seen, aged) \ Local : \A r \in kept : r.q # q
      BY <1>3 DEF Reading
    <2>3. \A r \in kept : r.q \notin Local
      OBVIOUS
    <2> HIDE DEF kept
    <2> QED BY <1>1, <2>1, <2>2, <2>3, Reread
  <1>6. \A q \in Queries : cache'[q] = IF q \in Local THEN NotRead ELSE cache[q]
    BY <1>1
  <1>7. QueryTypes'
    <2>1. ASSUME NEW q \in Queries PROVE Entry(q, cache[q], filter)
      BY DEF IInv, QueryTypes
    <2>2. ASSUME NEW q \in Queries PROVE Entry(q, cache'[q], f)
      BY <1>6, <2>1, Unread, ValueElsewhere DEF Entry
    <2>3. ASSUME NEW q \in Local, cache'[q].held \/ Reading(q)' PROVE q \in QueriesOf(p, f)
      <3>1. Reading(q)'
        BY <1>6, <2>3, Unread, Sets
      <3>2. PICK r \in reads' : r.q = q
        BY <3>1 DEF Reading
      <3> QED BY <1>2, <1>3, <1>5, <3>2
    <2> QED BY <1>1, <1>5, <2>2, <2>3 DEF QueryTypes
  <1>8. ASSUME NEW q \in Owned PROVE Fresh(q)'
    <2>1. CASE q = "review"
      <3>1. q \in Local /\ q \in Queries
        BY <2>1, Sets
      <3> QED BY <1>5, <1>6, <3>1, Unread, FreshUnheld
    <2>2. CASE q # "review"
      <3>1. q \notin Local /\ q \in Queries /\ Fresh(q)
        BY <2>2, Sets DEF IInv, FreshInv
      <3>2. cache'[q] = cache[q] /\ Snapshot(q)' = Snapshot(q)
        BY <1>6, <3>1, SameServices
      <3>3. Excused(q) => Excused(q)'
        BY <1>1, <2>2, <3>1 DEF Excused
      <3>4. \A r \in reads' : r.q = q => r \in reads \/ r.stage = "asked"
        BY <1>5
      <3>5. Reading(q) => Reading(q)'
        BY <1>5, <3>1 DEF Reading
      <3>6. cache[q].held /\ cache[q].stale /\ q \in Now' => Reading(q)'
        BY <1>2, <1>4, <1>5, <3>5
      <3> QED BY <3>1, <3>2, <3>3, <3>4, <3>6, FreshKept
    <2> QED BY <2>1, <2>2
  <1>9. moved' \subseteq Owned
    BY <1>1 DEF IInv, PanelTypes
  <1> QED BY <1>7, <1>8, <1>9 DEF FreshInv

LEMMA MountKeeps ==
  ASSUME IInv, NEW p \in Pages, NEW aged, NEW auth, Mount(p, aged, auth), UNCHANGED svc,
         token' \in {"none", "valid", "expired"}, tour' \in Visits
  PROVE  IInv'
  <1>1. PICK failed \in BOOLEAN : failed = (broken /\ cache["driver"].held)
    OBVIOUS
  <1>2. /\ Enter(p, "all", failed, aged, auth) /\ broken' = failed /\ calls' = Deaf(calls)
        /\ desk' = [NoDesk EXCEPT !.loading = p = "review"]
    BY <1>1 DEF Mount
  <1>3. GoodCalls' /\ \A q \in Owned \ {"review"} : Landed(q) => Landed(q)'
    BY <1>2, DeafKeeps DEF IInv
  <1>4. QueryTypes' /\ FreshInv' /\ moved' \subseteq Owned
    BY <1>2, <1>3, EnterKeeps
  <1>5. PanelTypes'
    BY <1>2, <1>4, Desk DEF PanelTypes, Filtered, Names, Enter
  <1>6. SvcTypeOK'
    BY SameStores DEF IInv
  <1> QED BY <1>3, <1>4, <1>5, <1>6 DEF IInv

LEMMA SetFilterKeeps ==
  ASSUME IInv, NEW f \in Names, SetFilter(f)
  PROVE  IInv'
  <1>1. /\ page \in {"drivers", "queue"} /\ f \in Filters[page]
        /\ UNCHANGED <<svc, token, desk, broken, calls, tour>>
    BY DEF SetFilter, Filters
  <1>2. PICK aged : Enter(page, f, broken, aged, SignedIn)
    BY DEF SetFilter
  <1>3. page' = page /\ filter' = f
    BY <1>2 DEF Enter
  <1>4. GoodCalls' /\ \A q : Landed(q) => Landed(q)'
    BY <1>1, <1>3, SameCalls DEF IInv
  <1>5. page \in Pages /\ broken \in BOOLEAN
    BY DEF IInv, PanelTypes
  <1>6. QueryTypes' /\ FreshInv' /\ moved' \subseteq Owned
    BY <1>1, <1>2, <1>4, <1>5, EnterKeeps
  <1>7. Filtered(page, f)
    BY <1>1 DEF Filtered, Filters
  <1>8. PanelTypes'
    BY <1>1, <1>3, <1>6, <1>7 DEF IInv, PanelTypes
  <1>9. SvcTypeOK'
    BY <1>1, SameStores DEF IInv
  <1> QED BY <1>4, <1>6, <1>8, <1>9 DEF IInv

----------------------------------------------------------------------------
(* Queries are read again, and invalidated.                                *)

\* Some of what is on the screen is read again; of the queries in out, which
\* were invalidated, at least what is held and whatever is not being read yet.
LEMMA RestartKeeps ==
  ASSUME IInv, NEW qs \in SUBSET Now, NEW out, Restart(qs, out), UNCHANGED <<svc, page, filter>>,
         DOMAIN cache' = Queries,
         \A q \in Queries : cache'[q] = IF q \in out THEN [cache[q] EXCEPT !.stale = cache[q].held] ELSE cache[q],
         \A q \in (out \cap Now) \ qs : ~cache[q].held,
         moved \cup {q \in out \ qs : \E r \in reads : r.q = q /\ r.stage = "old"} \subseteq moved',
         \A q \in Owned \ out : Landed(q) => Landed(q)'
  PROVE  QueryTypes' /\ FreshInv' /\ broken' \in BOOLEAN
  <1>1. PICK back \in BOOLEAN : back = ("driver" \in qs /\ broken /\ ~cache["driver"].held)
    OBVIOUS
  <1>2. PICK tab : tab = IF back THEN QueriesOf(page, filter) \ qs ELSE {}
    OBVIOUS
  <1>3. broken' = (broken /\ ~back)
    BY <1>1 DEF Restart
  <1>4. PICK aged : reads' = {r \in reads : r.q \notin qs} \cup Asks(qs \cup Needed(tab, aged \cup out), SignedIn)
    BY <1>1, <1>2 DEF Restart
  <1>5. /\ page \in Pages /\ broken \in BOOLEAN /\ Now \subseteq QueriesOf(page, filter)
        /\ QueriesOf(page, filter) \subseteq Queries
        /\ back => tab \subseteq Owned \ Local
        /\ Now' \subseteq Now \cup tab \cup qs
    <2>1. page \in Pages /\ broken \in BOOLEAN
      BY DEF IInv, PanelTypes
    <2>2. Now \subseteq QueriesOf(page, filter) /\ QueriesOf(page, filter) \subseteq Queries
      BY <2>1, OwnPages DEF Now
    <2>3. back => page \in DetailTabs
      BY <1>1, <2>1, <2>2, OwnPages
    <2>4. Now' = Visible(page, filter, broken')
      BY DEF Now
    <2>5. CASE back
      BY <1>2, <1>3, <2>1, <2>2, <2>3, <2>4, <2>5, OwnPages
    <2>6. CASE ~back
      BY <1>2, <1>3, <2>1, <2>2, <2>4, <2>6 DEF Now
    <2> QED BY <2>1, <2>2, <2>5, <2>6
  <1>6. PICK ask : ask = qs \cup Needed(tab, aged \cup out)
    OBVIOUS
  <1>7. PICK kept : kept = {r \in reads : r.q \notin qs}
    OBVIOUS
  <1>8. Needed(tab, aged \cup out) \subseteq tab /\ \A q \in Needed(tab, aged \cup out) : q \notin Local => ~Reading(q)
    BY DEF Needed
  <1>9. \A q \in tab : q \in ask \/ Reading(q) \/ (cache[q].held /\ ~cache[q].stale /\ q \notin out)
    BY <1>6 DEF Needed
  <1>10. /\ \A r \in reads' : Answer(r, filter)'
         /\ \A r, s \in reads' : r.q = s.q /\ r.q \notin Local => r = s
         /\ \A r \in reads' : r \in kept \/ (r.q \in ask /\ r.stage = "asked")
         /\ \A q \in ask : Reading(q)'
         /\ \A r \in kept : Reading(r.q)'
    <2>1. QueryTypes /\ kept \in SUBSET reads /\ ask \in SUBSET Queries
      BY <1>2, <1>5, <1>6, <1>7, <1>8 DEF IInv
    <2>2. \A q \in ask \ Local : \A r \in kept : r.q # q
      BY <1>6, <1>7, <1>8 DEF Reading
    <2>3. reads' = kept \cup Asks(ask, SignedIn) /\ filter' = filter
      BY <1>4, <1>6, <1>7
    <2> QED BY <2>1, <2>2, <2>3, Reread
  <1>11. \A q : Reading(q) => Reading(q)'
    BY <1>6, <1>7, <1>10 DEF Reading
  <1>12. ASSUME NEW q \in Queries
         PROVE  /\ Entry(q, cache'[q], filter) /\ cache'[q].held = cache[q].held /\ cache'[q].v = cache[q].v
                /\ cache'[q].stale = IF q \in out THEN cache[q].held ELSE cache[q].stale
    BY DEF IInv, QueryTypes, Entry
  <1>13. QueryTypes'
    <2>1. ASSUME NEW q \in Local, cache'[q].held \/ Reading(q)' PROVE q \in QueriesOf(page, filter)
      <3>1. q \in Queries /\ (cache[q].held \/ Reading(q) => q \in QueriesOf(page, filter))
        BY Sets DEF IInv, QueryTypes
      <3>2. Reading(q)' => Reading(q) \/ q \in qs
        <4>1. tab \subseteq Owned \ Local
          BY <1>2, <1>5
        <4>2. q \in ask => q \in qs
          BY <1>6, <1>8, <4>1
        <4>3. \A r \in reads' : r.q = q => r \in reads \/ q \in ask
          BY <1>7, <1>10
        <4> QED BY <4>2, <4>3 DEF Reading
      <3> QED BY <1>5, <1>12, <2>1, <3>1, <3>2
    <2> QED BY <1>10, <1>12, <2>1 DEF QueryTypes
  <1>14. ASSUME NEW q \in Owned PROVE Fresh(q)'
    <2>1. Fresh(q) /\ q \in Queries /\ Snapshot(q)' = Snapshot(q)
      BY SameServices, Sets DEF IInv, FreshInv
    <2>2. \A r \in reads' : r.q = q => (r \in reads /\ q \notin qs) \/ r.stage = "asked"
      BY <1>7, <1>10
    <2>3. CASE q \in out
      <3>1. \A r \in reads' : r.q = q =>
              /\ r.stage = "served" => r.v = Snapshot(q)
              /\ r.stage = "old" => q \in moved'
        BY <2>1, <2>2, <2>3 DEF Fresh
      <3>2. cache'[q].held => cache'[q].stale
        BY <1>12, <2>1, <2>3
      <3>3. cache'[q].held /\ q \in Now' => Reading(q)'
        BY <1>5, <1>6, <1>9, <1>10, <1>11, <1>12, <2>1, <2>3
      <3> QED BY <2>1, <3>1, <3>2, <3>3 DEF Fresh, Excused
    <2>4. CASE q \notin out
      <3>1. cache'[q] = cache[q] /\ (Excused(q) => Excused(q)')
        BY <2>1, <2>4 DEF Excused
      <3>2. cache[q].held /\ cache[q].stale /\ q \in Now' => Reading(q)' \/ q \in moved'
        <4>1. q \in Now => (cache[q].held /\ cache[q].stale => Reading(q) \/ q \in moved)
          BY <2>1 DEF Fresh
        <4>2. q \in tab \cup qs => (cache[q].held /\ cache[q].stale => Reading(q)')
          BY <1>6, <1>9, <1>10, <1>11
        <4> QED BY <1>5, <1>11, <4>1, <4>2
      <3> QED BY <2>1, <2>2, <3>1, <3>2, FreshKept
    <2> QED BY <2>3, <2>4
  <1> QED BY <1>1, <1>3, <1>5, <1>13, <1>14 DEF FreshInv

\* A query is polled, or read again because the window has the focus.
LEMMA AgainKeeps ==
  ASSUME IInv, NEW q, Poll(q) \/ Focus(q)
  PROVE  IInv'
  <1>1. /\ {q} \in SUBSET Now /\ Restart({q}, {}) /\ UNCHANGED <<svc, screen, cache, moved, calls, tour>>
    BY DEF Poll, Focus
  <1>2. UNCHANGED <<token, page, filter, desk>>
    BY <1>1 DEF screen
  <1>3. QueryTypes' /\ FreshInv' /\ broken' \in BOOLEAN
    <2>1. DOMAIN cache' = Queries
      BY <1>1 DEF IInv, QueryTypes
    <2>2. \A x : Landed(x) => Landed(x)'
      BY <1>1 DEF Landed
    <2>3. /\ \A x \in Queries : cache'[x] = IF x \in {} THEN [cache[x] EXCEPT !.stale = cache[x].held] ELSE cache[x]
          /\ \A x \in ({} \cap Now) \ {q} : ~cache[x].held
          /\ moved \cup {x \in {} \ {q} : \E r \in reads : r.q = x /\ r.stage = "old"} \subseteq moved'
          /\ \A x \in Owned \ {} : Landed(x) => Landed(x)'
      BY <1>1, <2>2
    <2> QED BY <1>1, <1>2, <2>1, <2>3, RestartKeeps
  <1>4. PanelTypes'
    BY <1>1, <1>2, <1>3 DEF IInv, PanelTypes
  <1>5. SvcTypeOK' /\ GoodCalls'
    BY <1>1, <1>2, SameStores, SameCalls DEF IInv
  <1> QED BY <1>3, <1>4, <1>5 DEF IInv

LEMMA InvalidateKeeps ==
  ASSUME IInv, NEW qs \in SUBSET Queries, Invalidate(qs), UNCHANGED <<svc, page, filter>>,
         \A q \in Owned \ qs : Landed(q) => Landed(q)'
  PROVE  QueryTypes' /\ FreshInv' /\ broken' \in BOOLEAN /\ moved' \subseteq Owned
  <1>1. PICK again : again = {q \in qs \cap Now : cache[q].held \/ ~Reading(q)}
    OBVIOUS
  <1>2. /\ cache' = [q \in Queries |-> IF q \in qs THEN [cache[q] EXCEPT !.stale = cache[q].held] ELSE cache[q]]
        /\ Restart(again, qs)
        /\ moved' = moved \cup {q \in qs \ again : \E r \in reads : r.q = q /\ r.stage = "old"}
    BY <1>1 DEF Invalidate
  <1>3. QueryTypes' /\ FreshInv' /\ broken' \in BOOLEAN
    <2>1. again \in SUBSET Now /\ \A q \in (qs \cap Now) \ again : ~cache[q].held
      BY <1>1
    <2>2. DOMAIN cache' = Queries
      BY <1>2
    <2>3. \A q \in Queries : cache'[q] = IF q \in qs THEN [cache[q] EXCEPT !.stale = cache[q].held] ELSE cache[q]
      BY <1>2
    <2> QED BY <1>2, <2>1, <2>2, <2>3, RestartKeeps
  <1>4. moved' \subseteq Owned
    BY <1>2 DEF IInv, PanelTypes, QueryTypes, Answer
  <1> QED BY <1>3, <1>4

LEMMA PresenceKeeps ==
  ASSUME IInv, Presence
  PROVE  IInv'
  <1>1. /\ Invalidate(Lists) /\ Event /\ UNCHANGED <<svc, token, page, filter, desk, calls>>
    BY DEF Presence, screen
  <1>2. GoodCalls' /\ \A q : Landed(q) => Landed(q)'
    BY <1>1, SameCalls DEF IInv
  <1>3. QueryTypes' /\ FreshInv' /\ broken' \in BOOLEAN /\ moved' \subseteq Owned
    <2>1. Lists \in SUBSET Queries
      BY Sets
    <2> QED BY <1>1, <1>2, <2>1, InvalidateKeeps
  <1>4. tour' \in Visits
    BY <1>1 DEF IInv, PanelTypes, Event, Visits
  <1>5. PanelTypes' /\ SvcTypeOK'
    BY <1>1, <1>3, <1>4, SameStores DEF IInv, PanelTypes
  <1> QED BY <1>2, <1>3, <1>5 DEF IInv

----------------------------------------------------------------------------
(* Another tab of the detail page.                                         *)

LEMMA Reflagged ==
  ASSUME NEW c, GoodCall(c), NEW b, NEW d, d = [c EXCEPT !.flag = b]
  PROVE  GoodCall(d) /\ d.mine = c.mine /\ d.from = c.from /\ d.stage = c.stage /\ Own(d) = Own(c)
  <1>1. /\ DOMAIN d = DOMAIN c /\ d.op = c.op /\ d.doc = c.doc /\ d.load = c.load /\ d.from = c.from
        /\ d.stage = c.stage /\ d.live = c.live /\ d.mine = c.mine
    BY DEF GoodCall
  <1> QED BY <1>1 DEF GoodCall, Own, Heard

LEMMA TabOf ==
  ASSUME NEW p \in DetailTabs, NEW f
  PROVE  QueriesOf(p, f) = {"driver", "documents", TabQuery[p]} /\ TabQuery[p] \notin Local
  BY PageQueries, Sets DEF TabQuery

LEMMA SwitchTabKeeps ==
  ASSUME IInv, NEW p, SwitchTab(p)
  PROVE  IInv'
  <1>1. /\ page \in DetailTabs /\ ~broken /\ p \in DetailTabs /\ page' = p
        /\ desk' = [desk EXCEPT !.adding = FALSE]
        /\ calls' = {[c EXCEPT !.flag = @ /\ c.op \in QuickOps] : c \in calls}
        /\ UNCHANGED <<svc, token, filter, cache, broken, moved, tour>>
    BY DEF SwitchTab, DetailOpen
  <1>2. PICK aged : reads' = reads \cup Asks(Needed({TabQuery[p]}, aged), SignedIn)
    BY DEF SwitchTab
  <1>3. {page, p} \subseteq Pages /\ filter = "all" /\ Owner(p) = Owner(page)
    BY <1>1, Sets DEF IInv, PanelTypes, Filtered, Owner
  <1>4. GoodCalls' /\ \A q : Landed(q) => Landed(q)'
    <2>1. ASSUME NEW c \in calls, NEW d, d = [c EXCEPT !.flag = @ /\ c.op \in QuickOps]
          PROVE  /\ GoodCall(d) /\ d.stage = c.stage /\ Own(d) = Own(c)
                 /\ d.mine => d.from = Owner(page)
      BY <2>1, Reflagged DEF IInv, GoodCalls
    <2>2. ASSUME NEW d \in calls' PROVE GoodCall(d) /\ (d.mine => d.from = Owner(page'))
      <3>1. PICK c \in calls : d = [c EXCEPT !.flag = @ /\ c.op \in QuickOps]
        BY <1>1
      <3> QED BY <1>1, <1>3, <2>1, <3>1
    <2>3. ASSUME NEW q, NEW c \in calls, c.stage = "done", q \in Own(c)
          PROVE  \E d \in calls' : d.stage = "done" /\ q \in Own(d)
      <3>1. PICK d \in calls' : d = [c EXCEPT !.flag = @ /\ c.op \in QuickOps]
        BY <1>1
      <3> QED BY <2>1, <2>3, <3>1
    <2>4. GoodCalls'
      BY <2>2 DEF GoodCalls, Owner
    <2> QED BY <2>3, <2>4, StillLanded
  <1>5. /\ Now = {"driver", "documents", TabQuery[page]} /\ Now' = {"driver", "documents", TabQuery[p]}
        /\ TabQuery[p] \notin Local /\ TabQuery[p] \in Queries
    <2>1. Now = QueriesOf(page, filter) /\ Now' = QueriesOf(p, filter)
      BY <1>1 DEF Now, Visible
    <2>2. QueriesOf(p, filter) \subseteq Queries
      BY <1>3, OwnPages
    <2> QED BY <1>1, <2>1, <2>2, TabOf
  <1>6. PICK ask : ask = Needed({TabQuery[p]}, aged)
    OBVIOUS
  <1>7. /\ ask \subseteq {TabQuery[p]} /\ \A q \in ask : ~Reading(q)
        /\ TabQuery[p] \in ask \/ Reading(TabQuery[p]) \/ (cache[TabQuery[p]].held /\ ~cache[TabQuery[p]].stale)
    BY <1>5, <1>6 DEF Needed
  <1>8. /\ \A r \in reads' : Answer(r, filter)'
        /\ \A r, s \in reads' : r.q = s.q /\ r.q \notin Local => r = s
        /\ \A r \in reads' : r \in reads \/ (r.q \in ask /\ r.stage = "asked")
        /\ \A q \in ask : Reading(q)'
        /\ \A r \in reads : Reading(r.q)'
    <2>1. QueryTypes /\ reads \in SUBSET reads /\ ask \in SUBSET Queries
      BY <1>5, <1>7 DEF IInv
    <2>2. \A q \in ask \ Local : \A r \in reads : r.q # q
      BY <1>7 DEF Reading
    <2> QED BY <1>1, <1>2, <1>6, <2>1, <2>2, Reread
  <1>9. QueryTypes'
    <2>1. ASSUME NEW q \in Local, cache'[q].held \/ Reading(q)' PROVE q \in QueriesOf(p, filter)
      <3>1. q \notin QueriesOf(page, filter)
        BY <1>1, <1>3, OwnPages
      <3>2. ~cache[q].held /\ ~Reading(q)
        BY <3>1 DEF IInv, QueryTypes
      <3> QED BY <1>1, <1>5, <1>7, <1>8, <2>1, <3>2 DEF Reading
    <2> QED BY <1>1, <1>8, <2>1 DEF IInv, QueryTypes
  <1>10. ASSUME NEW q \in Owned PROVE Fresh(q)'
    <2>1. Fresh(q) /\ Snapshot(q)' = Snapshot(q)
      BY <1>1, SameServices DEF IInv, FreshInv
    <2>2. /\ \A r \in reads' : r.q = q => r \in reads \/ r.stage = "asked"
          /\ Reading(q) => Reading(q)'
      BY <1>8 DEF Reading
    <2>3. cache'[q] = cache[q] /\ (Excused(q) => Excused(q)')
      BY <1>1, <1>4 DEF Excused
    <2>4. cache[q].held /\ cache[q].stale /\ q \in Now' => Reading(q)' \/ q \in moved'
      <3>1. q \in Now => (cache[q].held /\ cache[q].stale => Reading(q) \/ q \in moved)
        BY <2>1 DEF Fresh
      <3> QED BY <1>1, <1>5, <1>7, <1>8, <2>2, <3>1
    <2> QED BY <2>1, <2>2, <2>3, <2>4, FreshKept
  <1>11. PanelTypes'
    BY <1>1, <1>3 DEF IInv, PanelTypes, Filtered, Names, Desks
  <1>12. SvcTypeOK'
    BY <1>1, SameStores DEF IInv
  <1> QED BY <1>4, <1>9, <1>10, <1>11, <1>12 DEF IInv, FreshInv

----------------------------------------------------------------------------
(* Reads are answered.                                                     *)

LEMMA ServeKeeps ==
  ASSUME IInv, NEW r \in reads, Serve(r)
  PROVE  IInv'
  <1>1. UNCHANGED <<svc, token, page, filter, desk, cache, broken, moved, calls, tour>>
    BY DEF Serve, screen
  <1>2. PICK n : n = [r EXCEPT !.stage = "served", !.v = Snapshot(r.q)]
    OBVIOUS
  <1>3. reads' = (reads \ {r}) \cup {n}
    BY <1>2 DEF Serve
  <1>4. Answer(r, filter)
    BY DEF IInv, QueryTypes
  <1>5. DOMAIN n = DOMAIN r /\ n.q = r.q /\ n.stage = "served" /\ n.v = Snapshot(r.q)
    BY <1>2, <1>4 DEF Answer
  <1>6. Answer(n, filter)
    BY <1>4, <1>5, ReadingTyped DEF IInv, Answer
  <1>7. \A q : Reading(q)' <=> Reading(q)
    BY <1>3, <1>5 DEF Reading
  <1>8. QueryTypes'
    <2>1. ASSUME NEW x \in reads', NEW y \in reads', x.q = y.q, x.q \notin Local PROVE x = y
      BY <1>3, <1>5, <2>1 DEF IInv, QueryTypes
    <2> QED BY <1>1, <1>3, <1>6, <1>7, <2>1 DEF IInv, QueryTypes
  <1>9. GoodCalls' /\ SvcTypeOK' /\ PanelTypes' /\ \A q : Landed(q) => Landed(q)'
    BY <1>1, SameCalls, SameStores DEF IInv, PanelTypes
  <1>10. ASSUME NEW q \in Owned PROVE Fresh(q)'
    <2>1. Fresh(q) /\ Snapshot(q)' = Snapshot(q) /\ (Excused(q) => Excused(q)')
      BY <1>1, <1>9, SameServices DEF IInv, FreshInv, Excused
    <2>2. ASSUME NEW x \in reads', x.q = q
          PROVE  /\ x.stage = "served" => x.v = Snapshot(q)
                 /\ x.stage = "old" /\ q \notin Local => Excused(q)
      BY <1>3, <1>5, <2>1, <2>2 DEF Fresh
    <2>3. Now' = Now
      BY <1>1 DEF Now
    <2> QED BY <1>1, <1>7, <2>1, <2>2, <2>3 DEF Fresh
  <1> QED BY <1>8, <1>9, <1>10 DEF IInv, FreshInv

LEMMA ReadAnswerKeeps ==
  ASSUME IInv, NEW r \in reads, ReadAnswer(r)
  PROVE  IInv'
  <1>1. PICK missing \in BOOLEAN : missing = (r.q = "vehicle" /\ r.v = None)
    OBVIOUS
  <1>2. PICK back \in BOOLEAN : back = (r.q = "driver" /\ broken /\ page \in DetailTabs)
    OBVIOUS
  <1>3. PICK tab : tab = IF back THEN QueriesOf(page, filter) \ {"driver"} ELSE {}
    OBVIOUS
  <1>4. /\ r.stage \in {"served", "old"}
        /\ cache' = IF missing THEN cache
                    ELSE [cache EXCEPT ![r.q] = [held |-> TRUE, v |-> r.v, stale |-> FALSE]]
        /\ broken' = (broken /\ r.q # "driver")
        /\ moved' = IF missing \/ (r.stage = "old" /\ r.q \in Local) THEN moved \cup {r.q}
                    ELSE IF r.stage = "old" THEN moved ELSE moved \ {r.q}
        /\ desk' = [desk EXCEPT !.loading = @ /\ r.q # "review"]
        /\ UNCHANGED <<svc, token, page, filter, calls, tour>>
    BY <1>1 DEF ReadAnswer
  <1>5. PICK aged : reads' = (reads \ {r}) \cup Asks(Needed(tab, aged), SignedIn)
    BY <1>2, <1>3 DEF ReadAnswer
  <1>6. /\ r.q \in Queries /\ Answer(r, filter) /\ Value(r.q, r.v, filter)
        /\ r.stage = "old" => r.q \in Owned
    BY <1>4 DEF IInv, QueryTypes, Answer
  <1>7. page \in Pages /\ broken \in BOOLEAN
    BY DEF IInv, PanelTypes
  <1>8. tab \subseteq Owned \ Local /\ "driver" \notin tab /\ tab \subseteq Queries
        /\ Now' \subseteq Now \cup tab \cup {r.q}
    <2>1. back => QueriesOf(page, filter) \subseteq Owned \ Local
      BY <1>2, <1>7, OwnPages
    <2>2. Now' = Visible(page, filter, broken')
      BY <1>4 DEF Now
    <2>3. back => Now' \subseteq tab \cup {r.q}
      BY <1>2, <1>3, <1>4, <1>7, <2>2, OwnPages
    <2>4. ~back => Now' = Now
      <3>1. CASE page \in DetailTabs
        BY <1>2, <1>4, <1>7, <2>2, <3>1 DEF Now
      <3>2. CASE page \notin DetailTabs
        BY <2>2, <3>2 DEF Now, Visible
      <3> QED BY <3>1, <3>2
    <2> QED BY <1>3, <2>1, <2>3, <2>4, Sets
  <1>9. PICK ask : ask = Needed(tab, aged)
    OBVIOUS
  <1>10. /\ ask \subseteq tab /\ \A q \in ask : ~Reading(q)
         /\ \A q \in tab : q \in ask \/ Reading(q) \/ (cache[q].held /\ ~cache[q].stale)
    BY <1>8, <1>9 DEF Needed
  <1>11. PICK kept : kept = reads \ {r}
    OBVIOUS
  <1>12. /\ \A x \in reads' : Answer(x, filter)'
         /\ \A x, y \in reads' : x.q = y.q /\ x.q \notin Local => x = y
         /\ \A x \in reads' : x \in kept \/ (x.q \in ask /\ x.stage = "asked")
         /\ \A q \in ask : Reading(q)'
         /\ \A x \in kept : Reading(x.q)'
    <2>1. QueryTypes /\ kept \in SUBSET reads /\ ask \in SUBSET Queries
      BY <1>8, <1>10, <1>11 DEF IInv
    <2>2. \A q \in ask \ Local : \A x \in kept : x.q # q
      BY <1>10, <1>11 DEF Reading
    <2>3. reads' = kept \cup Asks(ask, SignedIn) /\ filter' = filter
      BY <1>4, <1>5, <1>9, <1>11
    <2> QED BY <2>1, <2>2, <2>3, Reread
  <1>13. \A q : q # r.q /\ Reading(q) => Reading(q)'
    BY <1>11, <1>12 DEF Reading
  <1>14. ASSUME NEW q \in Queries
         PROVE  \/ cache'[q] = cache[q] /\ (q # r.q \/ missing)
                \/ q = r.q /\ ~missing /\ cache'[q] = [held |-> TRUE, v |-> r.v, stale |-> FALSE]
    BY <1>4, <1>6 DEF IInv, QueryTypes
  <1>15. QueryTypes'
    <2>1. DOMAIN cache' = Queries
      BY <1>4, <1>6 DEF IInv, QueryTypes
    <2>2. ASSUME NEW q \in Queries PROVE Entry(q, cache'[q], filter)
      <3>1. Entry(q, cache[q], filter)
        BY DEF IInv, QueryTypes
      <3>2. PICK n : n = [held |-> TRUE, v |-> r.v, stale |-> FALSE]
        OBVIOUS
      <3>3. DOMAIN n = {"held", "v", "stale"} /\ n.held = TRUE /\ n.v = r.v /\ n.stale = FALSE
        BY <3>2
      <3>4. Entry(r.q, n, filter)
        BY <1>6, <3>3 DEF Entry
      <3> QED BY <1>14, <3>1, <3>2, <3>4
    <2>3. ASSUME NEW q \in Local, cache'[q].held \/ Reading(q)' PROVE q \in QueriesOf(page, filter)
      <3>1. q \in Queries /\ q \notin ask /\ (cache[q].held \/ Reading(q) => q \in QueriesOf(page, filter))
        BY <1>8, <1>10, Sets DEF IInv, QueryTypes
      <3>2. cache'[q].held => cache[q].held \/ Reading(q)
        BY <1>14, <3>1 DEF Reading
      <3>3. Reading(q)' => Reading(q)
        BY <1>11, <1>12, <3>1 DEF Reading
      <3> QED BY <2>3, <3>1, <3>2, <3>3
    <2> QED BY <1>4, <1>12, <2>1, <2>2, <2>3 DEF QueryTypes
  <1>16. GoodCalls' /\ SvcTypeOK' /\ \A q : Landed(q) => Landed(q)'
    BY <1>4, SameCalls, SameStores DEF IInv
  <1>17. ASSUME NEW q \in Owned PROVE Fresh(q)'
    <2>1. Fresh(q) /\ q \in Queries /\ Snapshot(q)' = Snapshot(q)
      BY <1>4, SameServices, Sets DEF IInv, FreshInv
    <2>2. \A x \in reads' : x.q = q => (x \in reads /\ x # r) \/ x.stage = "asked"
      BY <1>11, <1>12
    <2>3. CASE q # r.q
      <3>1. cache'[q] = cache[q] /\ (Excused(q) => Excused(q)')
        BY <1>4, <1>14, <1>16, <2>1, <2>3 DEF Excused
      <3>2. cache[q].held /\ cache[q].stale /\ q \in Now' => Reading(q)' \/ q \in moved'
        <4>1. q \in Now => (cache[q].held /\ cache[q].stale => Reading(q) \/ q \in moved)
          BY <2>1 DEF Fresh
        <4> QED BY <1>4, <1>8, <1>10, <1>12, <1>13, <2>3, <4>1
      <3> QED BY <2>1, <2>2, <3>1, <3>2, FreshKept
    <2>4. CASE q = r.q /\ missing
      <3>1. q \in moved' /\ cache'[q] = cache[q]
        BY <1>4, <2>4
      <3> QED BY <2>1, <2>2, <3>1 DEF Fresh, Excused
    <2>5. CASE q = r.q /\ ~missing
      <3>1. cache'[q].held /\ cache'[q].v = r.v /\ ~cache'[q].stale
        BY <1>14, <2>1, <2>5
      <3>2. r.stage = "served" => r.v = Snapshot(q)
        BY <2>1, <2>5 DEF Fresh
      <3>3. r.stage = "old" => Excused(q)'
        <4>1. r.stage = "old" /\ q \notin Local => Excused(q)
          BY <2>1, <2>5 DEF Fresh
        <4>2. r.stage = "old" => (q \in moved => q \in moved') /\ (q \in Local => q \in moved')
          BY <1>4, <2>5
        <4> QED BY <1>16, <4>1, <4>2 DEF Excused
      <3>4. q \notin Local => \A x \in reads' : x.q = q => x.stage = "asked"
        <4>1. q \notin Local => \A x \in reads : x.q = q => x = r
          BY <2>5 DEF IInv, QueryTypes
        <4> QED BY <2>2, <4>1
      <3>5. \A x \in reads' : x.q = q => (x.stage = "served" => x.v = Snapshot(q))
        BY <2>1, <2>2 DEF Fresh
      <3> QED BY <1>4, <2>1, <3>1, <3>2, <3>3, <3>4, <3>5 DEF Fresh
    <2> QED BY <2>3, <2>4, <2>5
  <1>18. PanelTypes'
    <2>1. desk' \in Desks
      BY <1>4 DEF IInv, PanelTypes, Desks
    <2>2. moved' \subseteq Owned
      BY <1>1, <1>4, <1>6 DEF IInv, PanelTypes, Owned
    <2> QED BY <1>4, <1>7, <2>1, <2>2 DEF IInv, PanelTypes
  <1> QED BY <1>15, <1>16, <1>17, <1>18 DEF IInv, FreshInv

\* A read that fails excuses its query; the detail page becomes an error page.
LEMMA ReadFailsKeeps ==
  ASSUME IInv, NEW r \in reads, ReadFails(r)
  PROVE  IInv'
  <1>1. PICK gone \in BOOLEAN : gone = (r.q = "driver" /\ page \in DetailTabs)
    OBVIOUS
  <1>2. /\ Event /\ reads' = reads \ {r} /\ moved' = moved \cup ({r.q} \cap Owned)
        /\ broken' = (broken \/ r.q = "driver")
        /\ cache' = IF r.q \in {"queue", "regions"} THEN [cache EXCEPT ![r.q] = NotRead] ELSE cache
        /\ desk' = IF gone THEN NoDesk ELSE [desk EXCEPT !.loading = @ /\ r.q # "review"]
        /\ calls' = IF gone THEN Deaf(calls) ELSE calls
        /\ UNCHANGED <<svc, token, page, filter>>
    BY <1>1 DEF ReadFails
  <1>3. page \in Pages /\ broken \in BOOLEAN /\ tour' \in Visits
    BY <1>2 DEF IInv, PanelTypes, Event, Visits
  <1>4. Now' \subseteq Now
    <2>1. Now' = Visible(page, filter, broken')
      BY <1>2 DEF Now
    <2>2. broken' \in BOOLEAN /\ (broken => broken')
      BY <1>2, <1>3
    <2>3. CASE broken' /\ page \in DetailTabs
      <3>1. Now' = {"driver"}
        BY <1>3, <2>1, <2>2, <2>3, OwnPages
      <3>2. "driver" \in Now
        BY <1>3, <2>3, OwnPages DEF Now
      <3> QED BY <3>1, <3>2
    <2>4. CASE ~(broken' /\ page \in DetailTabs)
      BY <1>3, <2>1, <2>2, <2>4, OwnPages DEF Now
    <2> QED BY <2>3, <2>4
  <1>5. GoodCalls' /\ \A q \in Owned \ {"review"} : Landed(q) => Landed(q)'
    BY <1>2, SameCalls, DeafKeeps DEF IInv
  <1>6. ASSUME NEW q \in Queries
        PROVE  cache'[q] = cache[q] \/ (cache'[q] = NotRead /\ q \in {"queue", "regions"})
    BY <1>2 DEF IInv, QueryTypes
  <1>7. QueryTypes'
    <2>1. DOMAIN cache' = Queries
      BY <1>2 DEF IInv, QueryTypes
    <2>2. ASSUME NEW q \in Queries PROVE Entry(q, cache'[q], filter)
      BY <1>6, Unread DEF IInv, QueryTypes
    <2>3. ASSUME NEW q \in Local, cache'[q].held \/ Reading(q)' PROVE q \in QueriesOf(page, filter)
      <3>1. q \in Queries /\ (cache[q].held \/ Reading(q) => q \in QueriesOf(page, filter))
        BY Sets DEF IInv, QueryTypes
      <3>2. (Reading(q)' => Reading(q)) /\ (cache'[q].held => cache[q].held)
        BY <1>2, <1>6, <3>1, Unread DEF Reading
      <3> QED BY <2>3, <3>1, <3>2
    <2> QED BY <1>2, <2>1, <2>2, <2>3 DEF IInv, QueryTypes
  <1>8. ASSUME NEW q \in Owned PROVE Fresh(q)'
    <2>1. Fresh(q) /\ q \in Queries /\ Snapshot(q)' = Snapshot(q) /\ cache'[q] = cache[q]
      BY <1>2, <1>6, SameServices, Sets DEF IInv, FreshInv
    <2>2. Reading(q) => Reading(q)' \/ q \in moved'
      BY <1>2 DEF Reading
    <2>3. (q \in moved => q \in moved') /\ \A x \in reads' : x \in reads
      BY <1>2
    <2>4. CASE q # "review" \/ ~gone
      <3>1. Landed(q) => Landed(q)'
        BY <1>2, <1>5, <2>4, SameCalls DEF IInv
      <3> QED BY <1>4, <2>1, <2>2, <2>3, <3>1 DEF Fresh, Excused
    <2>5. CASE q = "review" /\ gone
      <3>1. q \notin QueriesOf(page, filter) /\ q \in Local
        BY <1>1, <1>3, <2>5, OwnPages, Sets
      <3>2. ~cache'[q].held /\ \A x \in reads : x.q # q
        BY <2>1, <3>1 DEF IInv, QueryTypes, Reading
      <3> QED BY <2>3, <3>2, FreshUnheld
    <2> QED BY <2>4, <2>5
  <1>9. desk' \in Desks
    BY <1>2 DEF IInv, PanelTypes, Desks, NoDesk
  <1>10. PanelTypes'
    BY <1>2, <1>3, <1>9 DEF IInv, PanelTypes
  <1>11. SvcTypeOK'
    BY <1>2, SameStores DEF IInv
  <1> QED BY <1>5, <1>7, <1>8, <1>10, <1>11 DEF IInv, FreshInv

\* A 401, or a new page: the browser loads the panel anew.
LEMMA SignOutKeeps ==
  ASSUME IInv, NEW cs \in SUBSET calls, SignOut(cs), UNCHANGED <<svc, tour>>
  PROVE  IInv'
  BY LoadKeeps, Sets DEF SignOut, IInv, PanelTypes

LEMMA PageKeeps ==
  ASSUME IInv,
         \/ Login \/ Logout \/ GuardRefuses \/ LayoutPoll
         \/ \E p \in Pages : Open(p) \/ Reload(p)
         \/ \E r \in reads : ReadRefused(r)
  PROVE  IInv'
  <1>0. tour \in Visits /\ token \in {"none", "valid", "expired"}
    BY DEF IInv, PanelTypes
  <1>1. CASE Login
    BY <1>0, <1>1, MountKeeps, Sets DEF Login
  <1>2. CASE Logout
    BY <1>0, <1>2, MountKeeps, Sets DEF Logout
  <1>3. CASE GuardRefuses \/ LayoutPoll \/ \E r \in reads : ReadRefused(r)
    BY <1>3, SignOutKeeps DEF GuardRefuses, LayoutPoll, ReadRefused
  <1>4. ASSUME NEW p \in Pages, Open(p) PROVE IInv'
    BY <1>0, <1>4, MountKeeps DEF Open
  <1>5. ASSUME NEW p \in Pages, Reload(p) PROVE IInv'
    <2>1. tour' \in Visits
      BY <1>0, <1>5 DEF Reload, Event, Visits
    <2> QED BY <1>0, <1>5, <2>1, LoadKeeps DEF Reload
  <1> QED BY <1>1, <1>2, <1>3, <1>4, <1>5

----------------------------------------------------------------------------
(* Steps that leave the queries as they are, and writes that make an answer *)
(* on its way an old one.                                                  *)

LEMMA AsideKeeps ==
  ASSUME IInv, UNCHANGED <<page, filter, cache, broken, reads>>,
         SvcTypeOK', GoodCalls', token' \in {"none", "valid", "expired"}, desk' \in Desks, tour' \in Visits,
         moved \subseteq moved', moved' \subseteq Owned,
         \A q \in Owned : Snapshot(q)' = Snapshot(q) /\ (Landed(q) => Excused(q)')
  PROVE  IInv'
  <1>1. PanelTypes' /\ QueryTypes'
    BY DEF IInv, PanelTypes, QueryTypes, Reading
  <1>2. ASSUME NEW q \in Owned PROVE Fresh(q)'
    <2>1. Fresh(q) /\ (Excused(q) => Excused(q)') /\ (Reading(q) => Reading(q)') /\ Now' = Now
      BY DEF IInv, FreshInv, Excused, Reading, Now
    <2> QED BY <2>1, FreshKept DEF Fresh
  <1> QED BY <1>1, <1>2 DEF IInv, FreshInv

LEMMA OutdatedKeeps ==
  ASSUME IInv, NEW qs \in SUBSET Owned, reads' = Outdated(qs), UNCHANGED <<screen, cache, broken>>,
         SvcTypeOK', GoodCalls', tour' \in Visits, moved' \subseteq Owned,
         \A q \in Owned : Excused(q) \/ q \in qs => Excused(q)',
         \A q \in Owned : q \in moved => q \in moved',
         \A q \in Owned \ qs : Snapshot(q)' = Snapshot(q)
  PROVE  IInv'
  <1>1. UNCHANGED <<token, page, filter, desk>>
    BY DEF screen
  <1>2. ASSUME NEW r \in reads, NEW x, x = IF r.q \in qs /\ r.stage = "served" THEN [r EXCEPT !.stage = "old"] ELSE r
        PROVE  /\ DOMAIN x = DOMAIN r /\ x.q = r.q /\ x.v = r.v
               /\ x.stage = IF r.q \in qs /\ r.stage = "served" THEN "old" ELSE r.stage
               /\ Answer(x, filter)
    <2>1. Answer(r, filter)
      BY DEF IInv, QueryTypes
    <2>2. /\ DOMAIN x = DOMAIN r /\ x.q = r.q /\ x.v = r.v
          /\ x.stage = IF r.q \in qs /\ r.stage = "served" THEN "old" ELSE r.stage
      BY <1>2, <2>1 DEF Answer
    <2> QED BY <2>1, <2>2 DEF Answer
  <1>3. ASSUME NEW x \in reads'
        PROVE  \E r \in reads : x = IF r.q \in qs /\ r.stage = "served" THEN [r EXCEPT !.stage = "old"] ELSE r
    BY DEF Outdated
  <1>4. \A q : Reading(q)' <=> Reading(q)
    <2>1. ASSUME NEW q, NEW r \in reads, r.q = q PROVE Reading(q)'
      <3>1. PICK x \in reads' : x = IF r.q \in qs /\ r.stage = "served" THEN [r EXCEPT !.stage = "old"] ELSE r
        BY DEF Outdated
      <3> QED BY <1>2, <2>1, <3>1 DEF Reading
    <2>2. ASSUME NEW q, NEW x \in reads', x.q = q PROVE Reading(q)
      BY <1>2, <1>3, <2>2 DEF Reading
    <2> QED BY <2>1, <2>2 DEF Reading
  <1>5. QueryTypes'
    <2>1. ASSUME NEW x \in reads' PROVE Answer(x, filter)
      BY <1>2, <1>3
    <2>2. ASSUME NEW x \in reads', NEW y \in reads', x.q = y.q, x.q \notin Local PROVE x = y
      <3>1. PICK r \in reads : x = IF r.q \in qs /\ r.stage = "served" THEN [r EXCEPT !.stage = "old"] ELSE r
        BY <1>3
      <3>2. PICK s \in reads : y = IF s.q \in qs /\ s.stage = "served" THEN [s EXCEPT !.stage = "old"] ELSE s
        BY <1>3
      <3>3. r.q = x.q /\ s.q = y.q
        BY <1>2, <3>1, <3>2
      <3>4. r = s
        BY <2>2, <3>3 DEF IInv, QueryTypes
      <3> QED BY <3>1, <3>2, <3>4
    <2> QED BY <1>1, <1>4, <2>1, <2>2 DEF IInv, QueryTypes
  <1>6. ASSUME NEW q \in Owned PROVE Fresh(q)'
    <2>1. Fresh(q) /\ Now' = Now
      BY <1>1 DEF IInv, FreshInv, Now
    <2>2. ASSUME NEW x \in reads', x.q = q
          PROVE  /\ x.stage = "served" => x.v = Snapshot(q)'
                 /\ x.stage = "old" /\ q \notin Local => Excused(q)'
      <3>1. PICK r \in reads : x = IF r.q \in qs /\ r.stage = "served" THEN [r EXCEPT !.stage = "old"] ELSE r
        BY <1>3
      <3>2. r.q = q /\ x.v = r.v /\ x.stage = IF q \in qs /\ r.stage = "served" THEN "old" ELSE r.stage
        BY <1>2, <2>2, <3>1
      <3> QED BY <2>1, <3>2 DEF Fresh
    <2>3. cache'[q].held /\ ~cache'[q].stale /\ ~Excused(q)' => cache'[q].v = Snapshot(q)'
      BY <2>1 DEF Fresh
    <2>4. cache'[q].held /\ cache'[q].stale /\ q \in Now' => Reading(q)' \/ q \in moved'
      BY <1>4, <2>1 DEF Fresh
    <2> QED BY <2>2, <2>3, <2>4 DEF Fresh
  <1>7. PanelTypes'
    BY <1>1 DEF IInv, PanelTypes
  <1> QED BY <1>5, <1>6, <1>7 DEF IInv, FreshInv

\* The session ends at the services.
LEMMA ExpiryKeeps ==
  ASSUME IInv, TokenExpires
  PROVE  IInv'
  <1>1. /\ Event /\ token' = "expired"
        /\ calls' = {[c EXCEPT !.auth = FALSE] : c \in calls}
        /\ reads' = {[r EXCEPT !.auth = FALSE] : r \in reads}
        /\ UNCHANGED <<svc, page, filter, desk, cache, broken, moved>>
    BY DEF TokenExpires
  <1>2. ASSUME NEW c \in calls, NEW d, d = [c EXCEPT !.auth = FALSE]
        PROVE  GoodCall(d) /\ d.stage = c.stage /\ Own(d) = Own(c) /\ (d.mine => d.from = Owner(page))
    <2>1. GoodCall(c) /\ (c.mine => c.from = Owner(page))
      BY DEF IInv, GoodCalls
    <2>2. /\ DOMAIN d = DOMAIN c /\ d.op = c.op /\ d.doc = c.doc /\ d.load = c.load /\ d.from = c.from
          /\ d.stage = c.stage /\ d.live = c.live /\ d.mine = c.mine
      BY <1>2, <2>1 DEF GoodCall
    <2> QED BY <2>1, <2>2 DEF GoodCall, Own, Heard
  <1>3. GoodCalls'
    <2>1. ASSUME NEW d \in calls' PROVE GoodCall(d) /\ (d.mine => d.from = Owner(page))
      BY <1>1, <1>2
    <2> QED BY <1>1, <2>1 DEF GoodCalls
  <1>4. ASSUME NEW q PROVE Landed(q) => Landed(q)'
    <2>1. ASSUME NEW c \in calls, c.stage = "done", q \in Own(c)
          PROVE  \E d \in calls' : d.stage = "done" /\ q \in Own(d)
      <3>1. PICK d \in calls' : d = [c EXCEPT !.auth = FALSE]
        BY <1>1
      <3> QED BY <1>2, <2>1, <3>1
    <2> QED BY <2>1, StillLanded
  <1>5. ASSUME NEW r \in reads, NEW x, x = [r EXCEPT !.auth = FALSE]
        PROVE  DOMAIN x = DOMAIN r /\ x.q = r.q /\ x.v = r.v /\ x.stage = r.stage /\ Answer(x, filter)
    <2>1. Answer(r, filter)
      BY DEF IInv, QueryTypes
    <2>2. DOMAIN x = DOMAIN r /\ x.q = r.q /\ x.v = r.v /\ x.stage = r.stage
      BY <1>5, <2>1 DEF Answer
    <2> QED BY <2>1, <2>2 DEF Answer
  <1>6. ASSUME NEW x \in reads' PROVE \E r \in reads : x = [r EXCEPT !.auth = FALSE]
    BY <1>1
  <1>7. \A q : Reading(q)' <=> Reading(q)
    <2>1. ASSUME NEW q, NEW r \in reads, r.q = q PROVE Reading(q)'
      <3>1. PICK x \in reads' : x = [r EXCEPT !.auth = FALSE]
        BY <1>1
      <3> QED BY <1>5, <2>1, <3>1 DEF Reading
    <2>2. ASSUME NEW q, NEW x \in reads', x.q = q PROVE Reading(q)
      BY <1>5, <1>6, <2>2 DEF Reading
    <2> QED BY <2>1, <2>2 DEF Reading
  <1>8. QueryTypes'
    <2>1. ASSUME NEW x \in reads' PROVE Answer(x, filter)
      BY <1>5, <1>6
    <2>2. ASSUME NEW x \in reads', NEW y \in reads', x.q = y.q, x.q \notin Local PROVE x = y
      <3>1. PICK r \in reads : x = [r EXCEPT !.auth = FALSE]
        BY <1>6
      <3>2. PICK s \in reads : y = [s EXCEPT !.auth = FALSE]
        BY <1>6
      <3>3. r.q = x.q /\ s.q = y.q
        BY <1>5, <3>1, <3>2
      <3>4. r = s
        BY <2>2, <3>3 DEF IInv, QueryTypes
      <3> QED BY <3>1, <3>2, <3>4
    <2> QED BY <1>1, <1>7, <2>1, <2>2 DEF IInv, QueryTypes
  <1>9. ASSUME NEW q \in Owned PROVE Fresh(q)'
    <2>1. Fresh(q) /\ Snapshot(q)' = Snapshot(q) /\ Now' = Now /\ (Excused(q) => Excused(q)')
      BY <1>1, <1>4, SameServices DEF IInv, FreshInv, Now, Excused
    <2>2. ASSUME NEW x \in reads', x.q = q
          PROVE  /\ x.stage = "served" => x.v = Snapshot(q)
                 /\ x.stage = "old" /\ q \notin Local => Excused(q)
      <3>1. PICK r \in reads : x = [r EXCEPT !.auth = FALSE]
        BY <1>6
      <3> QED BY <1>5, <2>1, <2>2, <3>1 DEF Fresh
    <2> QED BY <1>1, <1>7, <2>1, <2>2 DEF Fresh
  <1>10. tour' \in Visits
    BY <1>1 DEF IInv, PanelTypes, Event, Visits
  <1>11. PanelTypes' /\ SvcTypeOK'
    BY <1>1, <1>10, SameStores DEF IInv, PanelTypes
  <1> QED BY <1>3, <1>8, <1>9, <1>11 DEF IInv, FreshInv

----------------------------------------------------------------------------
(* The buttons.                                                            *)

LEMMA StartKeeps ==
  ASSUME IInv, NEW op, NEW doc, NEW load, Start(op, doc, load),
         Owner(page) \in ButtonPages, page = "regions" => op \in {"toggle", "put"},
         op \in DocumentOps \cup {"upload"} => doc \in Docs,
         op \in {"patch", "post"} => \A f \in DOMAIN load : load[f] \in Entries,
         op = "post" => load \in [Fields -> Authors] \cup [Fields \cup {Off} -> Authors]
  PROVE  IInv'
  <1>1. PICK c : c = [id |-> tour.calls, op |-> op, doc |-> doc, load |-> load,
                      from |-> Owner(page), stage |-> "sent", auth |-> SignedIn, answer |-> None,
                      mine |-> TRUE, flag |-> TRUE, live |-> TRUE]
    OBVIOUS
  <1>2. /\ calls' = calls \cup {c} /\ tour.calls > 0 /\ tour' = [tour EXCEPT !.calls = @ - 1]
        /\ UNCHANGED <<svc, token, page, filter, desk, cache, broken, reads, moved>>
    BY <1>1 DEF Start, screen, queries
  <1>3. GoodCall(c) /\ c.from = Owner(page)
    <2>1. Owner(page) = "regions" => page = "regions"
      BY DEF Owner
    <2> QED BY <1>1, <2>1 DEF GoodCall
  <1>4. GoodCalls' /\ \A q : Landed(q) => Landed(q)'
    BY <1>2, <1>3 DEF IInv, GoodCalls, Landed
  <1>5. tour' \in Visits
    BY <1>2 DEF IInv, PanelTypes, Visits
  <1> QED BY <1>2, <1>4, <1>5, AsideKeeps, SameServices, SameStores DEF IInv, PanelTypes, Excused

\* A click that starts no call.
LEMMA DeskKeeps ==
  ASSUME IInv, UNCHANGED <<svc, token, page, filter, queries, calls, tour>>, desk' \in Desks
  PROVE  IInv'
  <1>1. GoodCalls' /\ \A q : Landed(q) => Landed(q)'
    BY SameCalls DEF IInv
  <1> QED BY <1>1, AsideKeeps, SameServices, SameStores DEF IInv, PanelTypes, queries, Excused

LEMMA ButtonsKeep == IInv /\ Buttons => IInv'
  <1> SUFFICES ASSUME IInv, Buttons PROVE IInv'
    OBVIOUS
  <1>pages. page \in DetailTabs \cup {"review", "live", "regions"} => Owner(page) \in ButtonPages
    BY DEF Owner, DetailTabs, TabQuery, ButtonPages
  <1>desk. desk \in Desks
    BY DEF IInv, PanelTypes
  <1>1. ASSUME NEW op, op \notin DocumentOps \cup {"upload", "patch", "post"}, Start(op, None, NoFields),
               page \in DetailTabs \cup {"review", "live", "regions"},
               page = "regions" => op \in {"toggle", "put"}
        PROVE  IInv'
    BY <1>pages, <1>1, StartKeeps
  <1>2. ASSUME NEW op, op \notin {"patch", "post"}, NEW d \in Docs, Start(op, d, NoFields),
               page \in DetailTabs \cup {"review"}
        PROVE  IInv'
    BY <1>pages, <1>2, StartKeeps, Sets
  <1>3. ASSUME NEW op \in Decisions, DecideProfile(op) PROVE IInv'
    <2>1. op \notin DocumentOps \cup {"upload", "patch", "post"} /\ page = "review" /\ Start(op, None, NoFields)
      BY <1>3 DEF DecideProfile, Reviewing, Showing, Decisions, DocumentOps
    <2> QED BY <1>1, <2>1
  <1>4. ASSUME NEW op \in DocumentOps, NEW d \in Docs, ReviewDocument(op, d) \/ DetailDocument(op, d)
        PROVE  IInv'
    BY <1>2, <1>4 DEF ReviewDocument, DetailDocument, DocumentOps, Reviewing, Showing, DetailOpen
  <1>5. ASSUME NEW op \in QuickOps, OpenQuick(op) PROVE IInv'
    <2>1. desk' \in Desks
      BY <1>desk, <1>5 DEF OpenQuick, Desks
    <2> QED BY <1>5, <2>1, DeskKeeps DEF OpenQuick
  <1>6. CASE ConfirmQuick
    <2>1. /\ desk.ask \notin DocumentOps \cup {"upload", "patch", "post"} /\ page \in DetailTabs
          /\ Start(desk.ask, None, NoFields)
      BY <1>6, <1>desk DEF ConfirmQuick, DetailOpen, Desks, QuickOps, DocumentOps
    <2> QED BY <1>1, <2>1, Sets
  <1>7. ASSUME NEW d \in Docs, AdminUpload(d) PROVE IInv'
    BY <1>2, <1>7 DEF AdminUpload, DetailOpen
  <1>8. ASSUME NEW f \in Fields \cup {Off}, EditVehicle(f) PROVE IInv'
    <2>1. PICK load : load = [g \in {f} |-> "admin"]
      OBVIOUS
    <2>2. Start("patch", None, load) /\ page \in DetailTabs
      BY <1>8, <2>1 DEF EditVehicle, DetailOpen, Diff
    <2>3. \A g \in DOMAIN load : load[g] \in Entries
      BY <2>1 DEF Entries, Authors
    <2> QED BY <1>pages, <2>2, <2>3, StartKeeps, Sets DEF DocumentOps
  <1>9. ASSUME NEW off \in Switches, AddVehicle(off) PROVE IInv'
    <2>1. PICK load : load = [g \in Fields \cup off |-> "admin"]
      OBVIOUS
    <2>2. Start("post", None, load) /\ page \in DetailTabs
      BY <1>9, <2>1 DEF AddVehicle, DetailOpen
    <2>3. /\ \A g \in DOMAIN load : load[g] \in Entries
          /\ load \in [Fields -> Authors] \cup [Fields \cup {Off} -> Authors]
      BY <2>1 DEF Entries, Authors, Switches
    <2> QED BY <1>pages, <2>2, <2>3, StartKeeps, Sets DEF DocumentOps
  <1>10. ASSUME NEW op \in {"region", "profile"}, SaveProfile(op) PROVE IInv'
    BY <1>1, <1>10, Sets DEF SaveProfile, DetailOpen, DocumentOps
  <1>11. CASE ToggleHome \/ SaveRegion
    BY <1>1, <1>11 DEF ToggleHome, SaveRegion, Showing, DocumentOps
  <1>12. CASE RedispatchRide
    BY <1>1, <1>12 DEF RedispatchRide, DocumentOps
  <1>13. CASE OpenAdd
    <2>1. desk' \in Desks
      BY <1>desk, <1>13 DEF OpenAdd, Desks
    <2> QED BY <1>13, <2>1, DeskKeeps DEF OpenAdd
  <1> QED BY <1>3, <1>4, <1>5, <1>6, <1>7, <1>8, <1>9, <1>10, <1>11, <1>12, <1>13 DEF Buttons

----------------------------------------------------------------------------
(* The driver, the other administrators and the services by themselves.    *)

\* What each of their writes leaves alone.
LEMMA OutsideTouches ==
  ASSUME NEW q \in Owned
  PROVE  /\ ApproveDriver /\ q \notin Touches("approve") => Snapshot(q)' = Snapshot(q)
         /\ SetProfile("REJECTED") /\ q \notin Touches("reject") => Snapshot(q)' = Snapshot(q)
         /\ SuspendDriver /\ q \notin Touches("suspend") => Snapshot(q)' = Snapshot(q)
         /\ ConsumeApproval /\ q # "driver" => Snapshot(q)' = Snapshot(q)
         /\ RideMoves => Snapshot(q)' = Snapshot(q)
         /\ \A d, s : DecideDocument(d, s) /\ q \notin Touches("doc_approve") => Snapshot(q)' = Snapshot(q)
         /\ \A d : UploadDocument(d) /\ q \notin Touches("upload") => Snapshot(q)' = Snapshot(q)
         /\ \A load : PatchVehicle(load) /\ q \notin Touches("patch") => Snapshot(q)' = Snapshot(q)
         /\ \A load : PostVehicle(load) /\ q \notin Touches("post") => Snapshot(q)' = Snapshot(q)
  <1>1. ASSUME \/ q = "review" /\ UNCHANGED <<profile, docs>>
               \/ q = "driver" /\ UNCHANGED driver
               \/ q = "documents" /\ UNCHANGED docs
               \/ q = "vehicle" /\ UNCHANGED vehicle
        PROVE  Snapshot(q)' = Snapshot(q)
    BY <1>1, SameReadings
  <1>2. q \in {"review", "driver", "documents", "vehicle"}
    BY Sets
  <1>3. /\ Touches("approve") = {"driver", "review"} /\ Touches("reject") = {"review"}
        /\ Touches("suspend") = {"driver"} /\ Touches("doc_approve") = {"documents", "review"}
        /\ Touches("upload") = {"documents", "review"}
        /\ Touches("patch") = {"vehicle"} /\ Touches("post") = {"vehicle"}
    BY DEF Touches, DocumentOps
  <1>4. /\ ApproveDriver /\ q \notin Touches("approve") => Snapshot(q)' = Snapshot(q)
        /\ SetProfile("REJECTED") /\ q \notin Touches("reject") => Snapshot(q)' = Snapshot(q)
        /\ SuspendDriver /\ q \notin Touches("suspend") => Snapshot(q)' = Snapshot(q)
    BY <1>1, <1>2, <1>3 DEF ApproveDriver, SetProfile, SuspendDriver
  <1>5. /\ ConsumeApproval /\ q # "driver" => Snapshot(q)' = Snapshot(q)
        /\ RideMoves => Snapshot(q)' = Snapshot(q)
    BY <1>1, <1>2 DEF ConsumeApproval, RideMoves
  <1>6. /\ \A d, s : DecideDocument(d, s) /\ q \notin Touches("doc_approve") => Snapshot(q)' = Snapshot(q)
        /\ \A d : UploadDocument(d) /\ q \notin Touches("upload") => Snapshot(q)' = Snapshot(q)
    BY <1>1, <1>2, <1>3 DEF DecideDocument, UploadDocument
  <1>7. /\ \A load : PatchVehicle(load) /\ q \notin Touches("patch") => Snapshot(q)' = Snapshot(q)
        /\ \A load : PostVehicle(load) /\ q \notin Touches("post") => Snapshot(q)' = Snapshot(q)
    BY <1>1, <1>2, <1>3 DEF PatchVehicle, PostVehicle
  <1> QED BY <1>4, <1>5, <1>6, <1>7

\* A write of somebody else excuses the queries it touches.
LEMMA MovingKeeps ==
  ASSUME IInv, NEW qs \in SUBSET Owned, Moving(qs), UNCHANGED <<screen, cache, broken, calls>>,
         tour' \in Visits, SvcTypeOK', \A q \in Owned \ qs : Snapshot(q)' = Snapshot(q)
  PROVE  IInv'
  <1>1. moved' = moved \cup qs /\ reads' = Outdated(qs)
    BY DEF Moving
  <1>2. GoodCalls' /\ \A q : Landed(q) => Landed(q)'
    BY SameCalls DEF IInv, screen
  <1>3. \A q \in Owned : Excused(q) \/ q \in qs => Excused(q)'
    BY <1>1, <1>2 DEF Excused
  <1>4. moved' \subseteq Owned /\ \A q \in Owned : q \in moved => q \in moved'
    BY <1>1 DEF IInv, PanelTypes
  <1> QED BY <1>1, <1>2, <1>3, <1>4, OutdatedKeeps

LEMMA OutsideKeeps ==
  ASSUME IInv, NEW op, Outside(Touches(op)), SvcTypeOK',
         \A q \in Owned : q \notin Touches(op) => Snapshot(q)' = Snapshot(q)
  PROVE  IInv'
  <1>1. Event /\ Moving(Touches(op)) /\ UNCHANGED <<screen, cache, broken, calls>>
    BY DEF Outside
  <1>2. tour' \in Visits
    BY <1>1 DEF IInv, PanelTypes, Event, Visits
  <1>3. Touches(op) \in SUBSET Owned
    BY TouchesOwned
  <1> QED BY <1>1, <1>2, <1>3, MovingKeeps

LEMMA ElsewhereKeeps == IInv /\ Elsewhere => IInv'
  <1> SUFFICES ASSUME IInv, Elsewhere PROVE IInv'
    OBVIOUS
  <1>0. SvcTypeOK /\ tour \in Visits
    BY DEF IInv, PanelTypes
  <1>1. CASE OtherAdmin
    <2>1. CASE ApproveDriver /\ Outside(Touches("approve"))
      BY <1>0, <2>1, ApplicationTyped, OutsideTouches, OutsideKeeps
    <2>2. CASE SetProfile("REJECTED") /\ Outside(Touches("reject"))
      BY <1>0, <2>2, ApplicationTyped, OutsideTouches, OutsideKeeps
    <2>3. CASE SuspendDriver /\ Outside(Touches("suspend"))
      BY <1>0, <2>3, ApplicationTyped, OutsideTouches, OutsideKeeps
    <2>4. ASSUME NEW d \in Docs, NEW s \in {"APPROVED", "REJECTED"}, DecideDocument(d, s),
                 Outside(Touches("doc_approve"))
          PROVE  IInv'
      BY <1>0, <2>4, DocumentsTyped, OutsideTouches, OutsideKeeps
    <2> QED BY <1>1, <2>1, <2>2, <2>3, <2>4 DEF OtherAdmin
  <1>2. ASSUME NEW off \in Switches, DriverCreates(off) PROVE IInv'
    <2>1. PICK load : load = [f \in Fields \cup off |-> "driver"]
      OBVIOUS
    <2>2. PostVehicle(load) /\ Outside(Touches("post"))
      BY <1>2, <2>1 DEF DriverCreates
    <2>3. Off \in DOMAIN load \/ load \in [Fields -> Authors]
      BY <2>1 DEF Switches, Authors
    <2> QED BY <1>0, <2>2, <2>3, VehicleTyped, OutsideTouches, OutsideKeeps
  <1>3. ASSUME NEW d \in Docs, DriverUploads(d) PROVE IInv'
    BY <1>0, <1>3, DocumentsTyped, OutsideTouches, OutsideKeeps DEF DriverUploads
  <1>4. ASSUME NEW f \in Fields \cup {Off}, DriverPatches(f) PROVE IInv'
    <2>1. PICK load : load = [g \in {f} |-> "driver"]
      OBVIOUS
    <2>2. PatchVehicle(load) /\ Outside(Touches("patch"))
      BY <1>4, <2>1 DEF DriverPatches, Diff
    <2>3. \A g \in DOMAIN load : load[g] \in Authors
      BY <2>1 DEF Authors
    <2> QED BY <1>0, <2>2, <2>3, VehicleTyped, OutsideTouches, OutsideKeeps
  <1>5. CASE Consume
    <2>1. ConsumeApproval /\ Moving({"driver"}) /\ UNCHANGED <<screen, cache, broken, calls, tour>>
      BY <1>5 DEF Consume
    <2>2. {"driver"} \in SUBSET Owned /\ SvcTypeOK'
      BY <1>0, <2>1, ApplicationTyped, Sets
    <2>3. \A q \in Owned \ {"driver"} : Snapshot(q)' = Snapshot(q)
      BY <2>1, OutsideTouches
    <2> QED BY <1>0, <2>1, <2>2, <2>3, MovingKeeps
  <1>6. CASE RideStep
    <2>1. RideMoves /\ UNCHANGED <<screen, queries, calls, tour>>
      BY <1>6 DEF RideStep
    <2>2. SvcTypeOK' /\ \A q \in Owned : Snapshot(q)' = Snapshot(q)
      BY <1>0, <2>1, RegionRideTyped, OutsideTouches
    <2>3. GoodCalls' /\ \A q : Landed(q) => Landed(q)'
      BY <2>1, SameCalls DEF IInv, screen
    <2> QED BY <2>1, <2>2, <2>3, AsideKeeps DEF IInv, PanelTypes, screen, queries, Excused
  <1>7. CASE TokenExpires
    BY <1>7, ExpiryKeeps
  <1> QED BY <1>1, <1>2, <1>3, <1>4, <1>5, <1>6, <1>7 DEF Elsewhere

----------------------------------------------------------------------------
(* A call lands, and its answer arrives.                                   *)

LEMMA Staged ==
  ASSUME NEW c, GoodCall(c), NEW stage, NEW answer, NEW d,
         d = To(c, stage) \/ d = [To(c, stage) EXCEPT !.answer = answer]
  PROVE  GoodCall(d) /\ d.mine = c.mine /\ d.from = c.from /\ d.stage = stage /\ Own(d) = Own(c)
  <1>1. PICK t : t = To(c, stage)
    OBVIOUS
  <1>2. /\ DOMAIN t = DOMAIN c /\ t.op = c.op /\ t.doc = c.doc /\ t.load = c.load /\ t.from = c.from
        /\ t.stage = stage /\ t.live = c.live /\ t.mine = c.mine
    BY <1>1 DEF To, GoodCall
  <1>3. /\ DOMAIN d = DOMAIN c /\ d.op = c.op /\ d.doc = c.doc /\ d.load = c.load /\ d.from = c.from
        /\ d.stage = stage /\ d.live = c.live /\ d.mine = c.mine
    BY <1>1, <1>2 DEF GoodCall
  <1> QED BY <1>3 DEF GoodCall, Own, Heard

LEMMA MoveKeeps ==
  ASSUME GoodCalls, NEW c \in calls, NEW d, Move(c, d), GoodCall(d), d.mine = c.mine, d.from = c.from,
         UNCHANGED page
  PROVE  /\ GoodCalls'
         /\ \A q : Landed(q) => Landed(q)' \/ (c.stage = "done" /\ q \in Own(c))
         /\ d.stage = "done" => \A q \in Own(d) : Landed(q)'
  BY DEF GoodCalls, Landed, Move

LEMMA LandKeeps ==
  ASSUME IInv, NEW c \in calls, Land(c)
  PROVE  IInv'
  <1>1. /\ c.stage = "sent" /\ UNCHANGED <<screen, cache, broken, tour>>
        /\ GoodCall(c) /\ GoodCalls /\ SvcTypeOK /\ tour \in Visits /\ moved \subseteq Owned /\ page' = page
    BY DEF Land, IInv, GoodCalls, PanelTypes, screen
  <1>2. ASSUME NEW answer, Effect(c), Move(c, [To(c, "done") EXCEPT !.answer = answer]),
               moved' = moved \cup (Touches(c.op) \ Own(c)), reads' = Outdated(Touches(c.op))
        PROVE  IInv'
    <2>1. PICK d : d = [To(c, "done") EXCEPT !.answer = answer]
      OBVIOUS
    <2>2. GoodCall(d) /\ d.mine = c.mine /\ d.from = c.from /\ d.stage = "done" /\ Own(d) = Own(c)
      BY <1>1, <2>1, Staged
    <2>3. /\ GoodCalls' /\ \A q : Landed(q) => Landed(q)'
          /\ \A q \in Own(c) : Landed(q)'
      BY <1>1, <1>2, <2>1, <2>2, MoveKeeps
    <2>4. Touches(c.op) \in SUBSET Owned /\ moved' \subseteq Owned
      BY <1>1, <1>2, TouchesOwned
    <2>5. \A q \in Owned : Excused(q) \/ q \in Touches(c.op) => Excused(q)'
      BY <1>2, <2>3 DEF Excused
    <2>6. SvcTypeOK' /\ \A q \in Owned \ Touches(c.op) : Snapshot(q)' = Snapshot(q)
      BY <1>1, <1>2, EffectTyped, EffectTouches
    <2>7. \A q \in Owned : q \in moved => q \in moved'
      BY <1>2
    <2> QED BY <1>1, <1>2, <2>3, <2>4, <2>5, <2>6, <2>7, OutdatedKeeps
  <1>3. CASE Move(c, To(c, "refused")) /\ UNCHANGED <<svc, reads, moved>>
    <2>1. PICK d : d = To(c, "refused")
      OBVIOUS
    <2>2. GoodCalls' /\ \A q : Landed(q) => Landed(q)'
      BY <1>1, <1>3, <2>1, Staged, MoveKeeps
    <2> QED BY <1>1, <1>3, <2>2, AsideKeeps, SameServices, SameStores DEF IInv, PanelTypes, screen, Excused
  <1> QED BY <1>2, <1>3 DEF Land

LEMMA CallStageKeeps ==
  ASSUME IInv, NEW c \in calls, LandUnauthorized(c) \/ SuspendSwallowed(c) \/ CallLost(c)
  PROVE  IInv'
  <1>1. PICK stage : /\ Move(c, To(c, stage)) /\ UNCHANGED <<svc, screen, cache, broken, reads>>
                     /\ moved' = IF c.stage = "done" THEN moved \cup Touches(c.op) ELSE moved
    BY DEF LandUnauthorized, SuspendSwallowed, CallLost, queries
  <1>2. GoodCall(c) /\ GoodCalls /\ page' = page /\ moved \subseteq Owned
    BY <1>1 DEF IInv, GoodCalls, PanelTypes, screen
  <1>3. PICK d : d = To(c, stage)
    OBVIOUS
  <1>4. GoodCalls' /\ \A q : Landed(q) => Landed(q)' \/ (c.stage = "done" /\ q \in Own(c))
    BY <1>1, <1>2, <1>3, Staged, MoveKeeps
  <1>5. \A q : Landed(q) => Excused(q)'
    BY <1>1, <1>2, <1>4, OwnOf DEF Excused
  <1>6. tour' \in Visits
    BY DEF LandUnauthorized, SuspendSwallowed, CallLost, IInv, PanelTypes, Event, Visits
  <1>7. moved' \subseteq Owned /\ moved \subseteq moved'
    BY <1>1, <1>2, TouchesOwned
  <1> QED BY <1>1, <1>4, <1>5, <1>6, <1>7, AsideKeeps, SameServices, SameStores DEF IInv, PanelTypes, screen

\* A call is over that has nothing read again.
LEMMA OverKeeps ==
  ASSUME IInv, NEW c \in calls, calls' = calls \ {c}, c.stage # "done" \/ Own(c) = {}
  PROVE  UNCHANGED page => GoodCalls' /\ \A q : Landed(q) => Landed(q)'
  BY DEF IInv, GoodCalls, Landed

LEMMA ReloadReviewKeeps ==
  ASSUME IInv, NEW c \in calls, Heard(c), ReloadReview(c), UNCHANGED <<svc, token, page, filter, tour>>
  PROVE  IInv'
  <1>1. PICK n : n = Read("review", c.id, c.op, SignedIn)
    OBVIOUS
  <1>2. /\ c.from = "review" /\ reads' = reads \cup {n}
        /\ cache' = [cache EXCEPT !["review"].stale = cache["review"].held]
        /\ desk' = [desk EXCEPT !.loading = TRUE]
        /\ calls' = {[x EXCEPT !.flag = @ /\ x.op \notin DocumentOps] : x \in calls \ {c}}
        /\ UNCHANGED <<broken, moved>>
    BY <1>1 DEF ReloadReview
  <1>3. n.q = "review" /\ n.stage = "asked" /\ Answer(n, filter)
    BY <1>1, AskedTyped, Sets DEF Read
  <1>4. page = "review"
    <2>1. c.mine /\ c.from = Owner(page)
      BY <1>2, Sets DEF Heard, IInv, GoodCalls
    <2> QED BY <1>2, <2>1 DEF Owner
  <1>5. GoodCalls' /\ \A q \in Owned \ {"review"} : Landed(q) => Landed(q)'
    <2>1. ASSUME NEW x \in calls, NEW d, d = [x EXCEPT !.flag = @ /\ x.op \notin DocumentOps]
          PROVE  GoodCall(d) /\ d.stage = x.stage /\ Own(d) = Own(x) /\ (d.mine => d.from = Owner(page))
      BY <2>1, Reflagged DEF IInv, GoodCalls
    <2>2. GoodCalls'
      <3>1. ASSUME NEW d \in calls' PROVE GoodCall(d) /\ (d.mine => d.from = Owner(page))
        <4>1. PICK x \in calls : d = [x EXCEPT !.flag = @ /\ x.op \notin DocumentOps]
          BY <1>2
        <4> QED BY <2>1, <4>1
      <3> QED BY <3>1 DEF GoodCalls
    <2>3. ASSUME NEW q \in Owned \ {"review"}, NEW x \in calls, x.stage = "done", q \in Own(x)
          PROVE  \E d \in calls' : d.stage = "done" /\ q \in Own(d)
      <3>1. x # c
        BY <1>2, <2>3, OwnOf DEF IInv, GoodCalls
      <3>2. PICK d \in calls' : d = [x EXCEPT !.flag = @ /\ x.op \notin DocumentOps]
        BY <1>2, <3>1
      <3> QED BY <2>1, <2>3, <3>2
    <2> QED BY <2>2, <2>3, StillLanded
  <1>6. /\ DOMAIN cache' = Queries
        /\ \A q \in Queries : q # "review" => cache'[q] = cache[q]
        /\ Entry("review", cache'["review"], filter) /\ cache'["review"].held = cache["review"].held
        /\ cache'["review"].stale = cache["review"].held
    BY <1>2, Sets DEF IInv, QueryTypes, Entry
  <1>7. \A q : Reading(q)' <=> Reading(q) \/ q = "review"
    BY <1>2, <1>3 DEF Reading
  <1>8. QueryTypes'
    <2>1. \A q \in Queries : Entry(q, cache'[q], filter)
      BY <1>6 DEF IInv, QueryTypes
    <2>2. "review" \in QueriesOf(page, filter)
      BY <1>4, PageQueries
    <2>3. \A q \in Local : cache'[q].held \/ Reading(q)' => q \in QueriesOf(page, filter)
      BY <1>6, <1>7, <2>2, Sets DEF IInv, QueryTypes
    <2>4. \A r, s \in reads' : r.q = s.q /\ r.q \notin Local => r = s
      BY <1>2, <1>3, Sets DEF IInv, QueryTypes
    <2> QED BY <1>2, <1>3, <1>6, <2>1, <2>3, <2>4 DEF IInv, QueryTypes
  <1>9. ASSUME NEW q \in Owned PROVE Fresh(q)'
    <2>1. Fresh(q) /\ q \in Queries /\ Snapshot(q)' = Snapshot(q) /\ Now' = Now
      BY <1>2, SameServices, Sets DEF IInv, FreshInv, Now
    <2>2. \A r \in reads' : r.q = q => r \in reads \/ r.stage = "asked"
      BY <1>2, <1>3
    <2>3. CASE q = "review"
      BY <1>6, <1>7, <2>1, <2>2, <2>3, Sets DEF Fresh
    <2>4. CASE q # "review"
      <3>1. cache'[q] = cache[q] /\ (Excused(q) => Excused(q)')
        BY <1>2, <1>5, <1>6, <2>1, <2>4 DEF Excused
      <3>2. cache[q].held /\ cache[q].stale /\ q \in Now' => Reading(q)' \/ q \in moved'
        BY <1>2, <1>7, <2>1 DEF Fresh
      <3> QED BY <2>1, <2>2, <3>1, <3>2, FreshKept
    <2> QED BY <2>3, <2>4
  <1>10. PanelTypes'
    <2>1. desk' \in Desks
      BY <1>2 DEF IInv, PanelTypes, Desks
    <2> QED BY <1>2, <2>1 DEF IInv, PanelTypes
  <1> QED BY <1>5, <1>8, <1>9, <1>10, SameStores DEF IInv, FreshInv

LEMMA UpdateRowKeeps ==
  ASSUME IInv, NEW c \in calls, UpdateRow(c), UNCHANGED <<svc, token, page, filter, tour>>
  PROVE  IInv'
  <1>1. /\ c.from = "regions" /\ calls' = calls \ {c} /\ UNCHANGED <<desk, broken, reads, moved>>
        /\ cache' = IF ~cache["regions"].held THEN cache
                    ELSE IF c.op = "put" THEN [cache EXCEPT !["regions"].v = c.answer]
                    ELSE [cache EXCEPT !["regions"].v.active = c.answer.active]
    BY DEF UpdateRow
  <1>2. GoodCalls' /\ \A q : Landed(q) => Landed(q)'
    <2>1. Own(c) = {}
      BY <1>1, OwnOf DEF IInv, GoodCalls
    <2> QED BY <1>1, <2>1, OverKeeps
  <1>3. /\ DOMAIN cache' = Queries /\ \A q \in Queries : q # "regions" => cache'[q] = cache[q]
        /\ cache'["regions"].held = cache["regions"].held
        /\ \A q \in Queries : Entry(q, cache'[q], filter)
    <2>1. DOMAIN cache = Queries /\ Entry("regions", cache["regions"], filter) /\ "regions" \in Queries
      BY Sets DEF IInv, QueryTypes
    <2>2. PICK e : /\ cache' = cache \/ cache' = [cache EXCEPT !["regions"] = e]
                   /\ DOMAIN e = DOMAIN cache["regions"]
                   /\ e.held = cache["regions"].held /\ e.stale = cache["regions"].stale
      <3>1. PICK w : cache' = cache \/ cache' = [cache EXCEPT !["regions"] = [cache["regions"] EXCEPT !.v = w]]
        BY <1>1
      <3>2. PICK e : e = [cache["regions"] EXCEPT !.v = w]
        OBVIOUS
      <3>3. DOMAIN e = DOMAIN cache["regions"] /\ e.held = cache["regions"].held /\ e.stale = cache["regions"].stale
        BY <2>1, <3>2 DEF Entry
      <3> QED BY <3>1, <3>2, <3>3
    <2>3. Entry("regions", e, filter)
      BY <2>1, <2>2 DEF Entry, Value
    <2> QED BY <2>1, <2>2, <2>3 DEF IInv, QueryTypes
  <1>4. QueryTypes'
    BY <1>1, <1>3, Sets DEF IInv, QueryTypes, Reading
  <1>5. ASSUME NEW q \in Owned PROVE Fresh(q)'
    <2>1. /\ Fresh(q) /\ q \in Queries /\ Snapshot(q)' = Snapshot(q) /\ Now' = Now /\ cache'[q] = cache[q]
          /\ Excused(q) => Excused(q)'
      BY <1>1, <1>2, <1>3, SameServices, Sets DEF IInv, FreshInv, Now, Excused
    <2> QED BY <1>1, <2>1 DEF Fresh, Reading
  <1> QED BY <1>1, <1>2, <1>4, <1>5, SameStores DEF IInv, FreshInv, PanelTypes

LEMMA AfterMutationKeeps ==
  ASSUME IInv, NEW c \in calls, AfterMutation(c), UNCHANGED <<svc, token, page, filter, tour>>
  PROVE  IInv'
  <1>1. /\ c.from \notin Local /\ Invalidate(Invalidated(c.op)) /\ calls' = calls \ {c}
        /\ desk' = [desk EXCEPT !.ask = IF c.flag /\ c.op \in QuickOps THEN None ELSE @,
                                !.adding = @ /\ ~(c.flag /\ c.op = "post")]
    BY DEF AfterMutation
  <1>2. GoodCalls'
    BY <1>1 DEF IInv, GoodCalls
  <1>3. \A q \in Owned \ Invalidated(c.op) : Landed(q) => Landed(q)'
    <2>1. Own(c) \subseteq Invalidated(c.op)
      BY <1>1, OwnOf, Sets DEF IInv, GoodCalls
    <2> QED BY <1>1, <2>1 DEF Landed
  <1>4. Invalidated(c.op) \in SUBSET Queries
    BY Sets DEF Invalidated
  <1>5. QueryTypes' /\ FreshInv' /\ broken' \in BOOLEAN /\ moved' \subseteq Owned
    BY <1>1, <1>3, <1>4, InvalidateKeeps
  <1>6. PanelTypes'
    <2>1. desk' \in Desks
      BY <1>1 DEF IInv, PanelTypes, Desks
    <2> QED BY <1>5, <2>1 DEF IInv, PanelTypes
  <1> QED BY <1>2, <1>5, <1>6, SameStores DEF IInv

LEMMA ArriveKeeps ==
  ASSUME IInv, NEW c \in calls, Arrive(c) \/ ArriveUnauthorized(c)
  PROVE  IInv'
  <1>1. ASSUME Heard(c), AfterSuccess(c), UNCHANGED <<svc, token, page, filter, tour>> PROVE IInv'
    BY <1>1, ReloadReviewKeeps, UpdateRowKeeps, AfterMutationKeeps DEF AfterSuccess
  <1>2. ASSUME c.stage # "done" \/ ~Heard(c), calls' = calls \ {c},
               UNCHANGED <<svc, token, page, filter, tour, desk, queries>>
        PROVE  IInv'
    <2>1. GoodCalls' /\ \A q : Landed(q) => Landed(q)'
      BY <1>2, OverKeeps DEF Own
    <2> QED BY <1>2, <2>1, AsideKeeps, SameServices, SameStores DEF IInv, PanelTypes, queries, Excused
  <1>3. CASE Arrive(c)
    BY <1>1, <1>2, <1>3 DEF Arrive
  <1>4. CASE ArriveUnauthorized(c)
    <2>1. CASE SignOut(calls \ {c})
      BY <1>4, <2>1, SignOutKeeps DEF ArriveUnauthorized
    <2>2. CASE ~SignOut(calls \ {c})
      BY <1>2, <1>4, <2>2 DEF ArriveUnauthorized, screen
    <2> QED BY <2>1, <2>2
  <1> QED BY <1>3, <1>4

----------------------------------------------------------------------------
LEMMA InitInv == Init => IInv
  <1> SUFFICES ASSUME Init PROVE IInv
    OBVIOUS
  <1>1. /\ tour \in Visits /\ SvcInit(tour.start) /\ page = tour.first /\ filter = "all"
        /\ token = (IF tour.first = "login" THEN "none" ELSE "valid")
        /\ desk = [NoDesk EXCEPT !.loading = page = "review"]
        /\ cache = [q \in Queries |-> IF q \in tour.loaded /\ Snapshot(q) # None
                                      THEN [held |-> TRUE, v |-> Snapshot(q), stale |-> FALSE] ELSE NotRead]
        /\ broken = FALSE /\ reads = Asks(QueriesOf(page, "all") \ tour.loaded, TRUE)
        /\ moved = {} /\ calls = {}
    BY PanelAssumption DEF Init
  <1>2. tour.start \in Starts /\ page \in Pages /\ tour.loaded \subseteq Queries \ Local
    BY <1>1 DEF Visits
  <1>3. SvcTypeOK
    BY <1>1, <1>2, SvcInitTyped
  <1>4. PanelTypes /\ GoodCalls
    BY <1>1, <1>2, Desk DEF PanelTypes, GoodCalls, Filtered, Names
  <1>5. ASSUME NEW r \in reads
        PROVE  /\ r.q \in QueriesOf(page, filter) /\ r = Read(r.q, 0, None, TRUE) /\ r.stage = "asked"
               /\ Answer(r, filter)
    <2>1. QueriesOf(page, "all") \ tour.loaded \in SUBSET Queries
      BY <1>2, OwnPages
    <2> QED BY <1>1, <2>1, AskedReads
  <1>6. ASSUME NEW q \in Queries
        PROVE  /\ Entry(q, cache[q], filter)
               /\ cache[q].held => ~cache[q].stale /\ cache[q].v = Snapshot(q)
               /\ q \in Local => ~cache[q].held
    <2>1. PICK n : n = [held |-> TRUE, v |-> Snapshot(q), stale |-> FALSE]
      OBVIOUS
    <2>2. Entry(q, n, filter) /\ ~n.stale /\ n.v = Snapshot(q)
      BY <1>3, <2>1, ReadingTyped DEF Entry
    <2>3. (cache[q] = n /\ q \notin Local) \/ cache[q] = NotRead
      BY <1>1, <1>2, <2>1
    <2> QED BY <2>2, <2>3, Unread
  <1>7. QueryTypes
    <2>1. DOMAIN cache = Queries
      BY <1>1
    <2>2. \A q \in Local : cache[q].held \/ Reading(q) => q \in QueriesOf(page, filter)
      BY <1>5, <1>6, Sets DEF Reading
    <2> QED BY <1>5, <1>6, <2>1, <2>2 DEF QueryTypes
  <1>8. FreshInv
    BY <1>5, <1>6, Sets DEF FreshInv, Fresh
  <1> QED BY <1>3, <1>4, <1>7, <1>8 DEF IInv

LEMMA NextKeeps == IInv /\ [Next]_vars => IInv'
  <1> SUFFICES ASSUME IInv, [Next]_vars PROVE IInv'
    OBVIOUS
  <1>1. CASE UNCHANGED vars
    <2>1. desk \in Desks
      BY DEF IInv, PanelTypes
    <2> QED BY <1>1, <2>1, DeskKeeps DEF vars, screen
  <1>2. ASSUME NEW p \in Pages, Open(p) \/ SwitchTab(p) \/ Reload(p) PROVE IInv'
    BY <1>2, PageKeeps, SwitchTabKeeps
  <1>3. ASSUME NEW r \in reads, ReadSteps(r) PROVE IInv'
    BY <1>3, PageKeeps, ServeKeeps, ReadAnswerKeeps, ReadFailsKeeps DEF ReadSteps
  <1>4. ASSUME NEW f \in {"all", "ACTIVE", "SUBMITTED"}, SetFilter(f) PROVE IInv'
    BY <1>4, SetFilterKeeps DEF Names
  <1>5. ASSUME NEW c \in calls, CallSteps(c) PROVE IInv'
    BY <1>5, LandKeeps, CallStageKeeps, ArriveKeeps DEF CallSteps
  <1>6. CASE Login \/ Logout \/ GuardRefuses \/ LayoutPoll
    BY <1>6, PageKeeps
  <1> QED BY <1>1, <1>2, <1>3, <1>4, <1>5, <1>6, PresenceKeeps, AgainKeeps, ButtonsKeep, ElsewhereKeeps DEF Next

LEMMA InvHolds == Spec => []IInv
  <1> QED BY InitInv, NextKeeps, PTL DEF Spec

----------------------------------------------------------------------------
(* The properties.                                                         *)

LEMMA TypesFollow == IInv => TypeOK
  <1> SUFFICES ASSUME IInv PROVE TypeOK
    OBVIOUS
  <1>1. Names = UNION {Filters[p] : p \in DOMAIN Filters}
    BY DEF Names, Filters
  <1>2. \A q \in Queries : cache[q].held \in BOOLEAN /\ cache[q].stale \in BOOLEAN
    BY DEF IInv, QueryTypes, Entry
  <1>3. \A c \in calls : c.from \in {"review", "detail", "live", "regions"}
    BY DEF IInv, GoodCalls, GoodCall, ButtonPages
  <1> QED BY <1>1, <1>2, <1>3 DEF TypeOK, IInv, PanelTypes, Filtered, Desks, QueryTypes, Answer

\* The cards, the risk panel and the timeline of one application agree.
LEMMA ReadingsAgree ==
  ASSUME NEW review \in Reviews
  PROVE  /\ CanApprove(review) =>
              \A k \in DOMAIN RiskSignals(review) :
                RiskSignals(review)[k] = IF k = "background" THEN "pending" ELSE "complete"
         /\ RiskSignals(review)["background"] = "complete"
              <=> TimelineStatus(review.profile, "approved") = "current"
  <1>1. review.profile \in ProfileStatuses
    BY DEF Reviews
  <1>2. DOMAIN RiskSignals(review) = MetaDocs \cup {"identity", "background"}
    BY DEF RiskSignals
  <1>3. ASSUME CanApprove(review), NEW k \in DOMAIN RiskSignals(review)
        PROVE  RiskSignals(review)[k] = IF k = "background" THEN "pending" ELSE "complete"
    <2>1. MetaDocs \subseteq Docs /\ \A d \in Docs : review.docs[d] = "APPROVED"
      BY <1>3, OnboardingAssumption DEF CanApprove
    <2>2. IdentitySignal(review) = "complete"
      BY <2>1 DEF IdentitySignal
    <2>3. \A d \in MetaDocs : DocumentSignal(review.docs[d]) = "complete"
      BY <2>1 DEF DocumentSignal
    <2>4. review.profile # "APPROVED"
      BY <1>3 DEF CanApprove
    <2> QED BY <1>2, <1>3, <2>2, <2>3, <2>4 DEF RiskSignals
  <1>4. RiskSignals(review)["background"] = IF review.profile = "APPROVED" THEN "complete" ELSE "pending"
    BY DEF RiskSignals
  <1>5. TimelineStatus(review.profile, "approved") = "current" <=> review.profile = "APPROVED"
    BY <1>1 DEF TimelineStatus, Rank, StepRank, ProfileStatuses
  <1> QED BY <1>3, <1>4, <1>5

LEMMA PagesFollow == IInv => PagesShow
  <1> SUFFICES ASSUME IInv PROVE PagesShow
    OBVIOUS
  <1>1. PanelsAgree
    <2>1. cache["review"].held => cache["review"].v \in Reviews
      BY Sets DEF IInv, QueryTypes, Entry, Value
    <2> QED BY <2>1, ReadingsAgree DEF PanelsAgree
  <1>2. ASSUME NEW q \in Owned, Settled(q), q \notin moved PROVE cache[q].v = Snapshot(q)
    <2>1. Fresh(q) /\ cache[q].held /\ q \in Now /\ ~Reading(q)
      BY <1>2 DEF IInv, FreshInv, Settled
    <2>2. ~Landed(q)
      BY <1>2, OwnOf DEF IInv, GoodCalls, Landed, Settled
    <2>3. cache[q].stale \in BOOLEAN
      BY Sets DEF IInv, QueryTypes, Entry
    <2> QED BY <1>2, <2>1, <2>2, <2>3 DEF Fresh, Excused
  <1>3. ASSUME page \in {"drivers", "queue"}, filter # "all", NEW q \in Now, cache[q].held
        PROVE  cache[q].v \subseteq {filter}
    <2>1. Now = QueriesOf(page, filter)
      BY <1>3, Sets DEF Now, Visible
    <2>2. page = "drivers" => filter = "ACTIVE" /\ q = "active"
      BY <1>3, <2>1, PageQueries DEF IInv, PanelTypes, Filtered
    <2>3. page = "queue" => q = "queue"
      BY <1>3, <2>1, PageQueries
    <2>4. q \in Queries /\ Value(q, cache[q].v, filter)
      BY <1>3, <2>2, <2>3, Sets DEF IInv, QueryTypes, Entry
    <2> QED BY <1>3, <2>2, <2>3, <2>4 DEF Value
  <1> QED BY <1>1, <1>2, <1>3 DEF PagesShow, OwnWritesShown, TableMatchesFilter

\* However many pages are open, however long a call is under way and whoever
\* else works on the vehicle: an edit of it never gets the first value back.
THEOREM NoSilentUndoHolds == Spec => NoSilentUndo
  <1>1. IInv /\ [Next]_vars => [NotUndone]_vars
    BY NothingUndone DEF IInv
  <1> QED BY <1>1, InvHolds, PTL DEF Spec, NoSilentUndo, NotUndone

\* Everything the panel and the services keep is of its type: a query of the
\* shared cache has at most one read under way, the queue, the review and the
\* regions are neither held nor read by another page, and no call comes from a
\* page that has no buttons.
THEOREM PanelTypesHold == Spec => []TypeOK
  <1> QED BY InvHolds, TypesFollow, PTL

\* Whatever the administrator clicks, in whichever order the calls land and
\* their answers and readings come back, and whatever the cache keeps of an
\* earlier page: a review or detail page with nothing under way shows its own
\* writes, a table shows no row its filter leaves out, and of an application
\* that may be approved nothing but the background check is open.
THEOREM PagesShowHolds == Spec => []PagesShow
  <1> QED BY InvHolds, PagesFollow, PTL

=============================================================================
