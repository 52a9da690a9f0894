--------------------------- MODULE DriverOnboarding ---------------------------
(***************************************************************************)
(* How somebody becomes a driver, seen from the driver's browser: the      *)
(* registration form, the pages that verify the e-mail and the phone, the  *)
(* page that waits for the approval, and the profile page with its         *)
(* personal details, vehicle and documents.  The pages share one query     *)
(* cache: a read that is under way outlives the page that asked for it.    *)
(* Administrators and the services are OnboardingService.                  *)
(***************************************************************************)
EXTENDS OnboardingService

CONSTANT Tours   \* bound: the page a visit starts on (and its tab, and whether
                 \* its reads are in), how far the application is, whose
                 \* entries are a placeholder's, the pages it sees, its
                 \* clicks, faults and outside steps

VARIABLES
  page,      \* the route
  form,      \* the registration form
  accounts,  \* the registrations the service accepted
  proof,     \* what the verification service holds as proven
  otp,       \* the code sent to that service
  routing,   \* the profile read that decides where a verified driver goes
  cache,     \* query -> what the browser holds
  read,      \* query -> the read under way
  moved,     \* history: queries whose answer may be out of date: for others' doing,
             \* for a write that was answered on another page, or for one that
             \* was answered while the first read was under way
  desk,      \* the profile page: tab, editors, what is typed, the file being sent
  calls,     \* the profile page's writes under way
  contact,   \* who wrote the driver's name and phone last
  tour       \* what is left of the visit

formvars == <<form, accounts>>
proofvars == <<proof, otp, routing>>
queries == <<cache, read, moved>>
work == <<desk, calls, contact>>
vars == <<svc, page, formvars, proofvars, queries, work, tour>>

Pages   == {"register", "created", "login", "email", "phone", "pending", "profile", "dashboard"}
Inside  == {"email", "phone", "pending", "profile"}
Queries == {"email", "phone", "approval", "contact", "vehicle", "documents"}
Tabs    == {"personal", "vehicle", "documents"}
QueriesOf(p) == CASE p = "email"   -> {"email"}
                  [] p = "phone"   -> {"phone"}
                  [] p = "pending" -> {"approval"}
                  [] p = "profile" -> {"contact", "vehicle", "documents"}
                  [] OTHER         -> {}

Visits == [first : Pages, tab : Tabs, loaded : BOOLEAN, start : Starts, dummy : SUBSET Authors,
           pages : SUBSET Inside, clicks : Nat, faults : Nat, moves : Nat]

ASSUME VisitAssumption == Tours \subseteq Visits

Blank == [tab |-> "personal", details |-> FALSE, car |-> FALSE,
          typed |-> {}, meta |-> {}, busy |-> None]

Click == tour.clicks > 0 /\ tour' = [tour EXCEPT !.clicks = @ - 1]
Fault == tour.faults > 0 /\ tour' = [tour EXCEPT !.faults = @ - 1]
Move  == tour.moves > 0 /\ tour' = [tour EXCEPT !.moves = @ - 1]

----------------------------------------------------------------------------
(* The registration form.  The full name and the phone number go the way of *)
(* the e-mail.                                                              *)

FormFields == {"email", "region", "password", "confirm"}

\* "blank" is a password of eight or more blanks.
Entries == [email    |-> {"", "bad", "free", "taken"},
            region   |-> {"", "home"},
            password |-> {"", "short", "blank", "one"},
            confirm  |-> {"", "blank", "one"}]

Empty == [f \in FormFields |-> ""]
NewForm == [values |-> Empty, touched |-> {}, errors |-> Empty,
            regions |-> "loading", stage |-> "idle", sent |-> Empty, failed |-> FALSE]

\* validateField: a password is not trimmed.
ErrorOf(f, v) ==
  LET bad == \/ v[f] \in {"", "bad", "short"}
             \/ f = "confirm" /\ v.confirm # v.password
  IN IF bad THEN "invalid" ELSE ""

Fields4(v, es, fs) == [f \in FormFields |-> IF f \in fs THEN ErrorOf(f, v) ELSE es[f]]

\* Mutant: the password changes and the confirmation is not looked at again.
RecheckedOwn(f, touched) == touched \cap {f}

\* A change re-validates the field, once touched, and with the password the
\* confirmation.
Rechecked(f, touched) ==
  touched \cap (IF f = "password" THEN {"password", "confirm"} ELSE {f})

\* hasEmptyFields trims every value.
HasEmptyFields(v) == \E f \in FormFields : v[f] \in {"", "blank"}

\* The submit button.
Enabled ==
  /\ form.stage = "idle"
  /\ \A f \in FormFields : form.errors[f] = ""
  /\ ~HasEmptyFields(form.values)

Keep == UNCHANGED <<svc, proofvars, queries, work>>

\* The first region is preselected.
RegionsAnswer ==
  /\ page = "register" /\ form.regions = "loading"
  /\ form' = [form EXCEPT !.regions = "some",
                          !.values.region = IF @ = "" THEN "home" ELSE @]
  /\ Keep /\ UNCHANGED <<page, accounts, tour>>

\* The list is not asked for again.
RegionsFail ==
  /\ page = "register" /\ form.regions = "loading"
  /\ Fault
  /\ form' = [form EXCEPT !.regions = "none"]
  /\ Keep /\ UNCHANGED <<page, accounts>>

\* The fields stay open while the form is being sent.
Type(f, x) ==
  /\ page = "register" /\ x # form.values[f]
  /\ f = "region" => form.regions = "some"
  /\ Click
  /\ LET v == [form.values EXCEPT ![f] = x]
     IN form' = [form EXCEPT !.values = v,
                             !.errors = Fields4(v, @, Rechecked(f, form.touched))]
  /\ Keep /\ UNCHANGED <<page, accounts>>

Blur(f) ==
  /\ page = "register"
  /\ f = "region" => form.regions = "some"
  /\ form' = [form EXCEPT !.touched = @ \cup {f}, !.errors = Fields4(form.values, @, {f})]
  /\ Keep /\ UNCHANGED <<page, accounts, tour>>

\* Mutant: only the fields that were left once are validated.
CheckedTouched == form.touched

\* validateAll looks at every field, touched or not.
Checked == FormFields

Submit ==
  /\ page = "register" /\ Enabled
  /\ LET es == Fields4(form.values, form.errors, Checked)
         valid == \A f \in Checked : es[f] = ""
     IN form' = [form EXCEPT !.errors = es, !.touched = FormFields, !.failed = FALSE,
                             !.stage = IF valid THEN "sent" ELSE "idle",
                             !.sent = IF valid THEN form.values ELSE @]
  /\ Keep /\ UNCHANGED <<page, accounts, tour>>

\* An account per e-mail address.
RegisterLands ==
  /\ form.stage = "sent"
  /\ LET free == form.sent.email # "taken" /\ \A a \in accounts : a.email # form.sent.email
     IN /\ form' = [form EXCEPT !.stage = IF free THEN "made" ELSE "refused"]
        /\ accounts' = IF free THEN accounts \cup {form.sent} ELSE accounts
  /\ Keep /\ UNCHANGED <<page, tour>>

RegisterLost ==
  /\ form.stage \in {"sent", "made"}
  /\ Fault
  /\ form' = [form EXCEPT !.stage = "lost"]
  /\ Keep /\ UNCHANGED <<page, accounts>>

\* A refusal marks the e-mail field, whatever it holds by now.
RegisterAnswered ==
  /\ form.stage \in {"made", "refused", "lost"}
  /\ page' = IF form.stage = "made" THEN "created" ELSE page
  /\ form' = [form EXCEPT !.stage = "idle",
                          !.errors.email = IF form.stage = "refused" THEN "taken" ELSE @,
                          !.failed = form.stage = "lost"]
  /\ Keep /\ UNCHANGED <<accounts, tour>>

GoToSignIn ==
  /\ page \in {"register", "created"} /\ form.stage = "idle"
  /\ page' = "login"
  /\ Keep /\ UNCHANGED <<formvars, tour>>

----------------------------------------------------------------------------
(* The queries.                                                            *)

Idle == [stage |-> "idle", v |-> None]
Asked == [stage |-> "asked", v |-> None]
Holds(q) == cache[q].held
Reading(q) == read[q].stage # "idle"
Yes(q) == Holds(q) /\ cache[q].v = TRUE

\* getDriverVehicle's looksLikePlaceholderVehicle: a driver who is not approved
\* (and so has no rides yet) is called "Driver", and the vehicle is a Toyota
\* Camry with a plate of the pattern DRV.....
Placeholder ==
  /\ ~driver.approved /\ contact \in tour.dummy
  /\ vehicle # None /\ \A f \in Fields : vehicle[f] \in tour.dummy

Answer(q) == CASE q = "email"     -> "email" \in proof
               [] q = "phone"     -> "phone" \in proof
               [] q = "approval"  -> driver.approved
               [] q = "contact"   -> [who |-> contact, approved |-> driver.approved]
               [] q = "vehicle"   -> IF Placeholder THEN None ELSE vehicle
               [] q = "documents" -> [d \in Docs |-> [file |-> docs[d].file, status |-> docs[d].status]]

\* What the profile page makes of a read that fails: no vehicle, no document.
\* The other queries keep what they hold.
OnError(q) == CASE q = "vehicle"   -> [held |-> TRUE, v |-> None]
                [] q = "documents" -> [held |-> TRUE, v |-> [d \in Docs |-> [file |-> 0, status |-> "MISSING"]]]
                [] OTHER           -> cache[q]

\* History: an answer on its way is older than what happens now.
Outdated(q, qs) ==
  IF q \in qs /\ read[q].stage = "served" THEN [read[q] EXCEPT !.stage = "old"] ELSE read[q]
Moving(qs) ==
  /\ moved' = moved \cup qs
  /\ read' = [q \in Queries |-> Outdated(q, qs)]

\* A page reads its queries when it opens, over whatever the cache holds; a
\* read that is still under way is joined.
Ask(qs) ==
  /\ read' = [q \in Queries |-> IF q \in qs /\ ~Reading(q) THEN Asked ELSE Outdated(q, qs)]
  /\ moved' = moved \cup {q \in qs : read[q].stage = "served"}
  /\ UNCHANGED cache

\* A query's first read is joined by whoever wants another: only a query that
\* has been answered once is read again from the start.
Joins(q) == Reading(q) /\ ~Holds(q)

\* Mutant: a read under way is left to end.
JoinRead(q) == IF page = "profile" /\ ~Reading(q) THEN [read EXCEPT ![q] = Asked] ELSE read

\* invalidateQueries: a query on the screen is read again, any other is out of
\* date until a page reads it.
Invalidate(q) ==
  [read EXCEPT ![q] = IF page # "profile" THEN Outdated(q, {q})
                      ELSE IF Joins(q) THEN read[q] ELSE Asked]

\* The e-mail page leads on as soon as it knows.
Landing(p) == IF p = "email" /\ Yes("email") THEN "phone" ELSE p

\* The phone page asks where to go when it finds the phone verified.
Route(p, known) == IF p = "phone" /\ known THEN "asked" ELSE routing

Mount(p) ==
  LET at == Landing(p) IN
  /\ page' = at
  /\ Ask(QueriesOf(p) \cup QueriesOf(at))
  /\ routing' = Route(at, Yes("phone"))
  /\ desk' = Blank
  /\ calls' = {[c EXCEPT !.mine = FALSE] : c \in calls}

Open(p) ==
  /\ page \in Inside /\ p \in tour.pages /\ p # page
  /\ Click
  /\ Mount(p)
  /\ UNCHANGED <<svc, formvars, proof, otp, contact>>

\* Another look at the window reads what is not being read.
Focus ==
  /\ page \in Inside
  /\ Click
  /\ Ask({q \in QueriesOf(page) : ~Reading(q)})
  /\ UNCHANGED <<svc, page, formvars, proofvars, work>>

\* The button of the e-mail page, off while that reads, and of the waiting page,
\* which is not there before its first answer.
Refresh ==
  /\ page \in {"email", "pending"}
  /\ \A q \in QueriesOf(page) : Reading(q) => page = "pending" /\ Holds(q)
  /\ Click
  /\ read' = [q \in Queries |-> IF q \in QueriesOf(page) THEN Asked ELSE read[q]]
  /\ UNCHANGED <<svc, page, formvars, proofvars, cache, moved, work>>

Serve(q) ==
  /\ read[q].stage = "asked"
  /\ read' = [read EXCEPT ![q] = [stage |-> "served", v |-> Answer(q)]]
  /\ UNCHANGED <<svc, page, formvars, proofvars, cache, moved, work, tour>>

\* The editor of the vehicle starts over whenever the page is drawn anew.
Redrawn(changed) == IF changed THEN [desk EXCEPT !.typed = {}] ELSE desk

Take(q, held) ==
  /\ cache' = [cache EXCEPT ![q] = held]
  /\ read' = [read EXCEPT ![q] = Idle]
  /\ desk' = Redrawn(q \in QueriesOf("profile") /\ held # cache[q])

Arrive(q) ==
  /\ read[q].stage \in {"served", "old"}
  /\ IF q = "email" /\ page = "email" /\ read[q].v
     THEN /\ page' = "phone"
          /\ cache' = [cache EXCEPT ![q] = [held |-> TRUE, v |-> TRUE]]
          /\ read' = [read EXCEPT ![q] = Idle, !["phone"] = IF Reading("phone") THEN @ ELSE Asked]
          /\ routing' = Route("phone", Yes("phone"))
          /\ UNCHANGED <<desk, moved>>
     ELSE /\ Take(q, [held |-> TRUE, v |-> read[q].v])
          /\ routing' = IF q = "phone" /\ ~Yes(q) THEN Route(page, read[q].v) ELSE routing
          /\ moved' = IF read[q].stage = "old" THEN moved ELSE moved \ {q}
          /\ UNCHANGED page
  /\ UNCHANGED <<svc, formvars, proof, otp, calls, contact, tour>>

\* Every attempt of a read fails.
ReadFails(q) ==
  /\ Reading(q)
  /\ Fault
  /\ Take(q, OnError(q))
  /\ moved' = moved \cup {q}
  /\ UNCHANGED <<svc, page, formvars, proofvars, calls, contact>>

----------------------------------------------------------------------------
(* Verification.  No service of this system answers these routes: what      *)
(* answers them is outside.                                                 *)

\* The link in the e-mail is opened.
ProveEmail ==
  /\ "email" \notin proof
  /\ Move
  /\ proof' = proof \cup {"email"}
  /\ UNCHANGED <<svc, page, formvars, otp, routing, queries, work>>

SendCode ==
  /\ page = "phone" /\ otp \in {"none", "failed"}
  /\ Click
  /\ otp' = "sent"
  /\ UNCHANGED <<svc, page, formvars, proof, routing, queries, work>>

CodeAnswered ==
  /\ otp = "sent"
  /\ \/ otp' = "proven" /\ proof' = proof \cup {"phone"}
     \/ otp' = "failed" /\ UNCHANGED proof
  /\ UNCHANGED <<svc, page, formvars, routing, queries, work, tour>>

\* Mutant: the page of an earlier flow that no route leads to.
HomeKyc == IF driver.approved THEN "dashboard" ELSE "kyc"

Home == IF driver.approved THEN "dashboard" ELSE "pending"

\* After the code, or after the status said so, the driver's profile decides
\* where to go, wherever the driver is by then.
MovesOn ==
  /\ page \in Inside
  /\ \/ otp = "proven" /\ otp' = "none" /\ UNCHANGED routing
     \/ routing = "asked" /\ routing' = "none" /\ UNCHANGED otp
  /\ page' = Home
  /\ Ask(QueriesOf(Home))
  /\ desk' = Blank
  /\ calls' = {[c EXCEPT !.mine = FALSE] : c \in calls}
  /\ UNCHANGED <<svc, formvars, proof, contact, tour>>

\* That read fails: the code counts as refused, the status leads nowhere.
MoveFails ==
  /\ Fault
  /\ \/ otp \in {"sent", "proven"} /\ otp' = "failed" /\ UNCHANGED routing
     \/ routing = "asked" /\ routing' = "failed" /\ UNCHANGED otp
  /\ UNCHANGED <<svc, page, formvars, proof, queries, work>>

----------------------------------------------------------------------------
(* Waiting for the approval.                                               *)

GoToDashboard ==
  /\ page = "pending" /\ Yes("approval")
  /\ page' = "dashboard"
  /\ UNCHANGED <<svc, formvars, proofvars, queries, work, tour>>

----------------------------------------------------------------------------
(* The profile page.                                                       *)

AtTab(t) == page = "profile" /\ desk.tab = t /\ Holds("contact")
QueryOf(kind) == CASE kind = "contact" -> "contact" [] kind = "upload" -> "documents" [] OTHER -> "vehicle"
Saving(q) == \E c \in calls : c.mine /\ QueryOf(c.kind) = q

\* The editors stay open under another tab, what was typed does not stay.
SwitchTab(t) ==
  /\ page = "profile" /\ desk.tab # t
  /\ Click
  /\ desk' = [desk EXCEPT !.tab = t, !.typed = {}, !.meta = {}, !.busy = None]
  /\ calls' = {[c EXCEPT !.mine = @ /\ c.kind # "upload"] : c \in calls}
  /\ UNCHANGED <<svc, page, formvars, proofvars, queries, contact>>

EditDetails ==
  /\ AtTab("personal")
  /\ Click
  /\ desk' = [desk EXCEPT !.details = ~@]
  /\ UNCHANGED <<svc, page, formvars, proofvars, queries, calls, contact>>

\* Edit, Add vehicle and Cancel.
EditCar ==
  /\ AtTab("vehicle") /\ (desk.car => ~Saving("vehicle"))
  /\ Click
  /\ desk' = [desk EXCEPT !.car = ~@, !.typed = {}]
  /\ UNCHANGED <<svc, page, formvars, proofvars, queries, calls, contact>>

\* A field of the vehicle, or its switch.
TypeCar(f) ==
  /\ AtTab("vehicle") /\ desk.car /\ ~Saving("vehicle") /\ f \notin desk.typed
  /\ desk' = [desk EXCEPT !.typed = @ \cup {f}]
  /\ UNCHANGED <<svc, page, formvars, proofvars, queries, calls, contact, tour>>

\* A document's number, dates and issuer: those shown from the last upload do
\* not count as typed.
TypeMeta(d) ==
  /\ AtTab("documents") /\ d \in MetaDocs \ desk.meta
  /\ desk' = [desk EXCEPT !.meta = @ \cup {d}]
  /\ UNCHANGED <<svc, page, formvars, proofvars, queries, calls, contact, tour>>

Send(kind, d, payload, blind) ==
  calls' = calls \cup {[id |-> tour.clicks, kind |-> kind, doc |-> d, payload |-> payload,
                        blind |-> blind, at |-> "sent", mine |-> TRUE]}
NoFields == [f \in {} |-> "driver"]

SaveDetails ==
  /\ AtTab("personal") /\ desk.details /\ ~Saving("contact")
  /\ Click
  /\ Send("contact", None, NoFields, FALSE)
  /\ desk' = Redrawn(TRUE)
  /\ UNCHANGED <<svc, page, formvars, proofvars, queries, contact>>

\* Mutant: a vehicle that is being read again counts as none.
KindOfStale == IF Holds("vehicle") /\ cache["vehicle"].v # None /\ ~Reading("vehicle") THEN "patch" ELSE "post"

\* The save is a change if the page holds a vehicle, else a new vehicle.
KindOfSave == IF Holds("vehicle") /\ cache["vehicle"].v # None THEN "patch" ELSE "post"

\* A new vehicle needs every field, a change those typed.  Saving draws the
\* page anew: a save that fails leaves an editor that has forgotten it.
SaveCar ==
  /\ AtTab("vehicle") /\ desk.car /\ desk.typed # {} /\ ~Saving("vehicle")
  /\ (Holds("vehicle") /\ cache["vehicle"].v # None) \/ Fields \subseteq desk.typed
  /\ Click
  /\ Send(KindOfSave, None, [f \in desk.typed |-> "driver"],
          \/ ~Holds("vehicle") \/ "vehicle" \in moved \/ Placeholder
          \/ \E c \in calls : QueryOf(c.kind) = "vehicle")
  /\ desk' = Redrawn(TRUE)
  /\ UNCHANGED <<svc, page, formvars, proofvars, queries, contact>>

\* The file chosen last is the one whose button waits.
Upload(d) ==
  /\ AtTab("documents") /\ Holds("documents") /\ desk.busy # d
  /\ d \in MetaDocs => d \in desk.meta
  /\ docs[d].file + Cardinality({c \in calls : c.doc = d}) < MaxFiles
  /\ Click
  /\ Send("upload", d, NoFields, FALSE)
  /\ desk' = [desk EXCEPT !.busy = d]
  /\ UNCHANGED <<svc, page, formvars, proofvars, queries, contact>>

Effect(c) ==
  CASE c.kind = "contact" -> contact' = "driver" /\ UNCHANGED svc
    [] c.kind = "upload"  -> UploadDocument(c.doc) /\ UNCHANGED contact
    [] c.kind = "post"    -> PostVehicle(c.payload) /\ UNCHANGED contact
    [] c.kind = "patch"   -> PatchVehicle(c.payload) /\ UNCHANGED contact

\* History: a vehicle that comes while a save is on its way was not there to be
\* seen.
Blinded(cs, qs) == {[c EXCEPT !.blind = @ \/ "vehicle" \in qs] : c \in cs}

\* History: whether the driver's vehicle is hidden depends on the name too.
Touches(c) == {QueryOf(c.kind)} \cup (IF Placeholder' # Placeholder THEN {"vehicle"} ELSE {})

\* The services write, for a page that may be gone.
Land(c) ==
  /\ c.at = "sent"
  /\ Effect(c)
  /\ UNCHANGED <<page, formvars, proofvars, cache, desk, tour>>
  /\ calls' = Blinded(calls \ {c}, Touches(c)) \cup {[c EXCEPT !.at = "done"]}
  /\ read' = [q \in Queries |-> Outdated(q, Touches(c))]
  /\ moved' = moved \cup (Touches(c) \ {QueryOf(c.kind)})

\* There is no active vehicle to change.
Refused(c) ==
  /\ c.at = "sent" /\ c.kind = "patch" /\ vehicle = None
  /\ calls' = (calls \ {c}) \cup {[c EXCEPT !.at = "failed"]}
  /\ UNCHANGED <<svc, page, formvars, proofvars, queries, desk, contact, tour>>

\* The call is lost, or its answer, or the read that follows it inside the call.
CallLost(c) ==
  /\ c.at \in {"sent", "done"}
  /\ Fault
  /\ calls' = (calls \ {c}) \cup {[c EXCEPT !.at = "failed"]}
  /\ Moving({QueryOf(c.kind)})
  /\ UNCHANGED <<svc, page, formvars, proofvars, cache, desk, contact>>

Released(c) == IF c.mine /\ c.kind = "upload" THEN [desk EXCEPT !.busy = None] ELSE Redrawn(c.mine)

\* Success closes the editor and has the query read again; the call is over
\* when that read is.  What the page learns from a first read that it joined
\* may be older than the write.
Answered(c) ==
  /\ c.at = "done"
  /\ LET q == QueryOf(c.kind)
         again == page = "profile" /\ ~Joins(q)
         over == {x \in calls : again /\ x.at = "reading" /\ QueryOf(x.kind) = q}
     IN
     /\ read' = Invalidate(q)
     /\ moved' = IF again THEN moved ELSE moved \cup {q}
     /\ calls' = (calls \ ({c} \cup over))
                   \cup (IF page = "profile" THEN {[c EXCEPT !.at = "reading"]} ELSE {})
     /\ desk' = CASE c.mine /\ q = "contact" -> [Redrawn(TRUE) EXCEPT !.details = FALSE]
                  [] c.mine /\ q = "vehicle" -> [Redrawn(TRUE) EXCEPT !.car = FALSE]
                  [] OTHER -> IF \E x \in over : x.mine THEN [desk EXCEPT !.busy = None] ELSE desk
  /\ UNCHANGED <<svc, page, formvars, proofvars, cache, contact, tour>>

Ended(c) ==
  /\ \/ c.at = "failed"
     \/ c.at = "reading" /\ ~Reading(QueryOf(c.kind))
  /\ calls' = calls \ {c}
  /\ desk' = Released(c)
  /\ UNCHANGED <<svc, page, formvars, proofvars, queries, contact, tour>>

----------------------------------------------------------------------------
(* Everybody else.                                                         *)

Elsewhere(qs) ==
  /\ Move
  /\ Moving(qs)
  /\ calls' = Blinded(calls, qs)
  /\ UNCHANGED <<page, formvars, proofvars, cache, desk, contact>>

Approve ==
  /\ ~driver.approved /\ ApproveDriver
  /\ Elsewhere({"approval", "contact"} \cup IF Placeholder THEN {"vehicle"} ELSE {})
Decide(d, status) == DecideDocument(d, status) /\ Elsewhere({"documents"})
AdminEdits(f) == PatchVehicle([x \in {f} |-> "admin"]) /\ Elsewhere({"vehicle"})
AdminAdds == vehicle = None /\ PostVehicle([f \in Fields |-> "admin"]) /\ Elsewhere({"vehicle"})

----------------------------------------------------------------------------

Init ==
  /\ tour \in Tours
  /\ SvcInit(tour.start)
  /\ page = tour.first
  /\ form = NewForm /\ accounts = {}
  /\ proof = IF tour.first = "phone" THEN {"email"} ELSE {}
  /\ otp = "none" /\ routing = "none"
  /\ contact = "init" /\ moved = {} /\ calls = {}
  /\ desk = [Blank EXCEPT !.tab = tour.tab]
  /\ cache = [q \in Queries |-> IF tour.loaded /\ q \in QueriesOf(page)
                                THEN [held |-> TRUE, v |-> Answer(q)] ELSE [held |-> FALSE, v |-> None]]
  /\ read = [q \in Queries |-> IF ~tour.loaded /\ q \in QueriesOf(page) THEN Asked ELSE Idle]

FormSteps ==
  \/ RegionsAnswer \/ RegionsFail \/ Submit
  \/ RegisterLands \/ RegisterLost \/ RegisterAnswered \/ GoToSignIn
  \/ \E f \in FormFields : Blur(f) \/ \E x \in Entries[f] : Type(f, x)

ReadSteps == \E q \in Queries : Serve(q) \/ Arrive(q) \/ ReadFails(q)

DeskSteps ==
  \/ \E t \in Tabs : SwitchTab(t)
  \/ EditDetails \/ SaveDetails \/ EditCar \/ SaveCar
  \/ \E f \in Fields \cup {Off} : TypeCar(f)
  \/ \E d \in Docs : TypeMeta(d) \/ Upload(d)
  \/ \E c \in calls : Land(c) \/ Refused(c) \/ CallLost(c) \/ Answered(c) \/ Ended(c)

Next ==
  \/ FormSteps \/ ReadSteps \/ DeskSteps
  \/ \E p \in Inside : Open(p)
  \/ Focus \/ Refresh \/ GoToDashboard
  \/ ProveEmail \/ SendCode \/ CodeAnswered \/ MovesOn \/ MoveFails
  \/ Approve \/ AdminAdds
  \/ \E f \in Fields \cup {Off} : AdminEdits(f)
  \/ \E d \in Docs, status \in {"APPROVED", "REJECTED"} : Decide(d, status)

Spec == Init /\ [][Next]_vars

\* The services answer and the browser runs what waits for the answer.
Fairness ==
  /\ WF_vars(\E q \in Queries : Serve(q) \/ Arrive(q))
  /\ WF_vars(MovesOn)

LiveSpec == Spec /\ Fairness

----------------------------------------------------------------------------
(* Properties.                                                             *)

Values(q) == CASE q = "vehicle"   -> Vehicles
               [] q = "contact"   -> [who: Authors, approved: BOOLEAN]
               [] q = "documents" -> [Docs -> [file: 0..MaxFiles, status: DocStatuses]]
               [] OTHER           -> BOOLEAN
Kinds == {"contact", "post", "patch", "upload"}

\* Nothing the form validates is wrong.
InOrder ==
  /\ page = "register" /\ form.stage = "idle" /\ form.regions = "some"
  /\ \A f \in FormFields : ErrorOf(f, form.values) = ""
  /\ form.errors.email # "taken"

\* A query of the profile page that nobody reads or writes now.
Settled(q) == Holds(q) /\ ~Reading(q) /\ \A c \in calls : QueryOf(c.kind) # q

\* Every variable keeps its type.
TypeOK ==
  /\ SvcTypeOK
  /\ page \in Pages
  /\ \A f \in FormFields : form.values[f] \in Entries[f]
  /\ form.touched \subseteq FormFields
  /\ form.regions \in {"loading", "some", "none"}
  /\ form.stage \in {"idle", "sent", "made", "refused", "lost"}
  /\ proof \subseteq {"email", "phone"}
  /\ otp \in {"none", "sent", "proven", "failed"}
  /\ routing \in {"none", "asked", "failed"}
  /\ \A q \in Queries : /\ Holds(q) => cache[q].v \in Values(q)
                        /\ read[q].stage \in {"idle", "asked", "served", "old"}
                        /\ read[q].stage \in {"served", "old"} => read[q].v \in Values(q)
  /\ moved \subseteq Queries
  /\ desk \in [tab: Tabs, details: BOOLEAN, car: BOOLEAN, typed: SUBSET (Fields \cup {Off}),
               meta: SUBSET MetaDocs, busy: Docs \cup {None}]
  /\ \A c \in calls : /\ c.kind \in Kinds /\ c.doc \in Docs \cup {None}
                      /\ c.at \in {"sent", "done", "reading", "failed"}
  /\ contact \in Authors

\* A registration form whose entries are all in order can be sent: no error
\* of an earlier entry holds the button, whichever fields were changed after
\* they were left and in which order.  Only the service's word that an address
\* is taken does, until the address is looked at again, and a password of
\* blanks, which has no error and yet counts as empty
\* (DriverRegisterForm.tsx:47, 247).
FormNeverStuck ==
  InOrder /\ form.values.password # "blank" => Enabled

\* Not so with one: the button stays disabled and no field says why.
InOrderIsEnabled == InOrder => Enabled

\* An account is made of entries that were in order when the form was sent,
\* whatever was typed since: no account has a password its owner mistyped.
AccountsAsTyped == \A a \in accounts : \A f \in FormFields : ErrorOf(f, a) = ""

\* The form sends what is in order, always and nothing else.
SentIffInOrder == FormNeverStuck /\ AccountsAsTyped

\* Once a write of the profile page is over and its query has been read again,
\* the page shows what the services hold: no read that began before the write
\* has the last word, unless it was the first read of the query, or somebody
\* else or a failure came between.
OwnWritesShown ==
  page = "profile" =>
    \A q \in QueriesOf("profile") : Settled(q) /\ q \notin moved => cache[q].v = Answer(q)

\* Not so of a write that is answered while the first read is under way, even
\* with nobody else about: invalidating joins that read.
PageShowsServices ==
  page = "profile" => \A q \in QueriesOf("profile") : Settled(q) => cache[q].v = Answer(q)

\* A vehicle the driver's page has seen is changed, never retired for a new
\* one: only a save that could not have seen it adds one in its place, because
\* the page had not read the vehicle, its reading had failed or was out of
\* date (the first read, joined by an earlier save, is), another save was not
\* over, the vehicle was taken for a placeholder, or it came while the save
\* was on its way.
KnownVehicleKept ==
  [][\A c \in calls :
       (c.kind = "post" /\ vehicle # None /\ Land(c)) => c.blind]_vars

\* Not so without these exceptions: a vehicle is retired that its driver meant
\* to change.
NoVehicleRetired ==
  [][\A c \in calls : ~(c.kind = "post" /\ vehicle # None /\ Land(c))]_vars

\* The waiting page: "Once your marketplace profile is approved, dashboard
\* access will open automatically."
PendingOpens == (page = "pending" /\ driver.approved) ~> page # "pending"

=============================================================================
