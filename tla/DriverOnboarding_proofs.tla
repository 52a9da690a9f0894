----------------------- MODULE DriverOnboarding_proofs -----------------------
(***************************************************************************)
(* Proofs about DriverOnboarding, for any documents, fields and visits:    *)
(* every variable is of its type (TypeOK), the registration form sends     *)
(* what is in order, always and nothing else (SentIffInOrder), the profile *)
(* page shows its own writes (OwnWritesShown), and a vehicle that it has   *)
(* seen is not retired for a new one (KnownVehicleKept).                   *)
(*                                                                         *)
(* The form: an error that stands is an error of what the field holds now, *)
(* unless the service gave it (FormInv).  The profile page: what the cache *)
(* holds, and the answer on its way, agree with the services unless        *)
(* something is known to have come between: a write of the page that has   *)
(* landed and was not answered yet, a reading that such an answer started, *)
(* or somebody else's doing (Fresh).  A save that adds a vehicle and is    *)
(* still to land was sent by a page that knew there was none (PostSeen).   *)
(***************************************************************************)
EXTENDS DriverOnboarding, TLAPS

ProfileQueries == {"contact", "vehicle", "documents"}

Words == {"", "bad", "free", "taken", "home", "short", "blank", "one"}
Filled == {v \in [FormFields -> Words] : \A f \in FormFields : v[f] \in Entries[f]}
ErrorSets == [FormFields -> {"", "invalid", "taken"}]
Forms == [values : Filled, touched : SUBSET FormFields, errors : ErrorSets,
          regions : {"loading", "some", "none"}, stage : {"idle", "sent", "made", "refused", "lost"},
          sent : Filled, failed : BOOLEAN]

\* An error that stands is right and its field has been left once; what is
\* being sent was in order.
Standing(v, errors, touched) ==
  \A f \in FormFields : errors[f] = "invalid" => f \in touched /\ ErrorOf(f, v) = "invalid"
Correct(v) == \A f \in FormFields : ErrorOf(f, v) = ""

FormInv ==
  /\ form \in Forms
  /\ form.regions # "some" => form.values.region = "" /\ form.errors.region = ""
  /\ \A f \in FormFields \ {"email"} : form.errors[f] # "taken"
  /\ Standing(form.values, form.errors, form.touched)
  /\ form.stage = "sent" => Correct(form.sent)
  /\ AccountsAsTyped

Routes ==
  /\ page \in Pages /\ proof \subseteq {"email", "phone"}
  /\ otp \in {"none", "sent", "proven", "failed"} /\ routing \in {"none", "asked", "failed"}

CacheRows(q) == {[held |-> FALSE, v |-> None]} \cup [held : {TRUE}, v : Values(q)]
ReadRows(q) == {Idle, Asked} \cup [stage : {"served", "old"}, v : Values(q)]
QueryTypes ==
  /\ DOMAIN cache = Queries /\ DOMAIN read = Queries /\ moved \subseteq Queries
  /\ \A q \in Queries : cache[q] \in CacheRows(q) /\ read[q] \in ReadRows(q)

Desks == [tab : Tabs, details : BOOLEAN, car : BOOLEAN, typed : SUBSET (Fields \cup {Off}),
          meta : SUBSET MetaDocs, busy : Docs \cup {None}]

\* A write carries what its endpoint stores.
Typed(c) ==
  /\ {"kind", "doc", "payload", "blind", "at", "mine"} \subseteq DOMAIN c
  /\ c.kind \in Kinds /\ c.doc \in Docs \cup {None} /\ c.blind \in BOOLEAN
  /\ c.at \in {"sent", "done", "reading", "failed"}
  /\ c.kind = "upload" => c.doc \in Docs
  /\ c.kind = "patch" => \A f \in DOMAIN c.payload : c.payload[f] \in Authors
  /\ c.kind = "post" => Off \in DOMAIN c.payload \/ c.payload \in [Fields -> Authors]

Stores == SvcTypeOK /\ contact \in Authors

\* A write of q has landed and was not answered yet; one was answered and q is
\* being read again.
Landed(q) == \E c \in calls : QueryOf(c.kind) = q /\ c.at = "done"
Rereading(q) == Reading(q) /\ \E c \in calls : QueryOf(c.kind) = q /\ c.at = "reading"

Fresh(q) ==
  /\ read[q].stage = "old" => q \in moved \/ Landed(q)
  /\ read[q].stage = "served" => read[q].v = Answer(q)
  /\ Holds(q) /\ q \notin moved /\ ~Landed(q) /\ ~Rereading(q) => cache[q].v = Answer(q)

PostSeen(c) == c.kind = "post" /\ c.at = "sent" /\ ~c.blind => vehicle = None

CallInv == \A c \in calls : Typed(c) /\ PostSeen(c)
FreshInv == \A q \in ProfileQueries : Fresh(q)

IInv ==
  /\ FormInv /\ Routes /\ Stores /\ QueryTypes /\ desk \in Desks /\ CallInv /\ FreshInv
  /\ tour \in Visits

\* A step spends the visit and leaves it the visit that it is.
VisitGoesOn == tour' \in Visits /\ tour'.dummy = tour.dummy

----------------------------------------------------------------------------
(* Sets and small facts.                                                   *)

LEMMA Sets ==
  /\ ProfileQueries \subseteq Queries /\ QueriesOf("profile") = ProfileQueries
  /\ \A p \in Pages : QueriesOf(p) \subseteq Queries
  /\ Inside \subseteq Pages /\ "dashboard" \in Pages /\ "pending" \in Pages
  BY DEF ProfileQueries, Queries, QueriesOf, Pages, Inside

LEMMA WrittenQueries ==
  /\ \A k \in Kinds : QueryOf(k) \in ProfileQueries
  /\ QueryOf("contact") = "contact" /\ QueryOf("upload") = "documents"
  /\ QueryOf("post") = "vehicle" /\ QueryOf("patch") = "vehicle"
  BY DEF QueryOf, ProfileQueries, Kinds

LEMMA AnswerTyped ==
  ASSUME Stores, NEW q \in Queries
  PROVE  Answer(q) \in Values(q)
  <1>1. CASE q \in {"email", "phone", "approval"}
    <2>1. Values(q) = BOOLEAN
      BY <1>1 DEF Values
    <2>2. driver.approved \in BOOLEAN
      BY DEF Stores, SvcTypeOK, DriverRows
    <2>3. q = "email" => Answer(q) \in BOOLEAN
      BY DEF Answer
    <2>4. q = "phone" => Answer(q) \in BOOLEAN
      BY DEF Answer
    <2>5. q = "approval" => Answer(q) \in BOOLEAN
      BY <2>2 DEF Answer
    <2> QED BY <1>1, <2>1, <2>3, <2>4, <2>5
  <1>2. CASE q = "contact"
    BY <1>2 DEF Answer, Values, Stores, SvcTypeOK, DriverRows
  <1>3. CASE q = "vehicle"
    BY <1>3 DEF Answer, Values, Stores, SvcTypeOK, Vehicles
  <1>4. CASE q = "documents"
    <2>1. docs \in [Docs -> DocRows]
      BY DEF Stores, SvcTypeOK
    <2>2. [d \in Docs |-> [file |-> docs[d].file, status |-> docs[d].status]]
            \in [Docs -> [file : 0..MaxFiles, status : DocStatuses]]
      BY <2>1 DEF DocRows
    <2> QED BY <1>4, <2>2 DEF Answer, Values
  <1> QED BY <1>1, <1>2, <1>3, <1>4 DEF Queries

\* An answer of one of the profile page's queries is somebody's doing.
LEMMA SameAnswers ==
  ASSUME VisitGoesOn, NEW q \in ProfileQueries
  PROVE  /\ q = "contact" /\ UNCHANGED <<contact, driver>> => Answer(q)' = Answer(q)
         /\ q = "vehicle" /\ UNCHANGED <<contact, driver, vehicle>> => Answer(q)' = Answer(q)
         /\ q = "documents" /\ UNCHANGED docs => Answer(q)' = Answer(q)
  <1>1. CASE q = "contact"
    BY <1>1 DEF Answer
  <1>2. CASE q = "vehicle"
    <2>1. UNCHANGED <<contact, driver, vehicle>> => (Placeholder' <=> Placeholder)
      BY DEF Placeholder, VisitGoesOn
    <2> QED BY <1>2, <2>1 DEF Answer
  <1>3. CASE q = "documents"
    BY <1>3 DEF Answer
  <1> QED BY <1>1, <1>2, <1>3 DEF ProfileQueries

LEMMA NothingAnswersAlike ==
  ASSUME VisitGoesOn, UNCHANGED <<svc, contact>>
  PROVE  /\ \A q \in ProfileQueries : Answer(q)' = Answer(q)
         /\ Stores => Stores'
  BY SameAnswers DEF svc, ProfileQueries, Stores, SvcTypeOK

----------------------------------------------------------------------------
(* Calls that only go on.                                                  *)

\* The same call, which may have lost its page or been overtaken.
Alike(c, d) ==
  /\ DOMAIN d = DOMAIN c /\ d.kind = c.kind /\ d.doc = c.doc /\ d.payload = c.payload /\ d.at = c.at
  /\ d.blind \in BOOLEAN /\ (c.blind => d.blind)
SameCalls ==
  /\ \A c \in calls : \E d \in calls' : Alike(c, d)
  /\ \A d \in calls' : \E c \in calls : Alike(c, d)

LEMMA SameStages ==
  ASSUME SameCalls
  PROVE  /\ \A q : Landed(q)' <=> Landed(q)
         /\ \A q : UNCHANGED read => (Rereading(q)' <=> Rereading(q))
         /\ \A q : Reading(q)' /\ Rereading(q) => Rereading(q)'
         /\ \A q : Reading(q) /\ Rereading(q)' => Rereading(q)
  <1>1. \A q : Landed(q)' <=> Landed(q)
    BY DEF SameCalls, Alike, Landed
  <1>2. \A q : (\E c \in calls : QueryOf(c.kind) = q /\ c.at = "reading")
               <=> (\E c \in calls' : QueryOf(c.kind) = q /\ c.at = "reading")
    BY DEF SameCalls, Alike
  <1> QED BY <1>1, <1>2 DEF Rereading, Reading

LEMMA SameTypes ==
  ASSUME CallInv, SameCalls
  PROVE  /\ \A d \in calls' : Typed(d)
         /\ UNCHANGED vehicle => CallInv'
  <1>1. ASSUME NEW d \in calls' PROVE Typed(d) /\ (UNCHANGED vehicle => PostSeen(d)')
    <2>1. PICK c \in calls : Alike(c, d)
      BY DEF SameCalls
    <2>2. Typed(c) /\ PostSeen(c)
      BY DEF CallInv
    <2> QED BY <2>1, <2>2 DEF Alike, Typed, PostSeen
  <1> QED BY <1>1 DEF CallInv, Typed

LEMMA LeftBehind ==
  ASSUME CallInv, calls' = {[c EXCEPT !.mine = FALSE] : c \in calls}
  PROVE  SameCalls
  <1>1. ASSUME NEW c \in calls PROVE Alike(c, [c EXCEPT !.mine = FALSE])
    BY DEF CallInv, Typed, Alike
  <1> QED BY <1>1 DEF SameCalls

LEMMA TabLeft ==
  ASSUME CallInv, calls' = {[c EXCEPT !.mine = @ /\ c.kind # "upload"] : c \in calls}
  PROVE  SameCalls
  <1>1. ASSUME NEW c \in calls PROVE Alike(c, [c EXCEPT !.mine = @ /\ c.kind # "upload"])
    BY DEF CallInv, Typed, Alike
  <1> QED BY <1>1 DEF SameCalls

LEMMA Overtaken ==
  ASSUME CallInv, NEW qs, calls' = Blinded(calls, qs)
  PROVE  SameCalls
  <1>1. ASSUME NEW c \in calls PROVE Alike(c, [c EXCEPT !.blind = @ \/ "vehicle" \in qs])
    BY DEF CallInv, Typed, Alike
  <1> QED BY <1>1 DEF SameCalls, Blinded

LEMMA StillCalls ==
  ASSUME CallInv, UNCHANGED calls
  PROVE  SameCalls
  BY DEF CallInv, SameCalls, Alike, Typed

----------------------------------------------------------------------------
(* The registration form.                                                  *)

LEMMA Errors ==
  ASSUME NEW v, NEW es \in ErrorSets, NEW fs
  PROVE  /\ Fields4(v, es, fs) \in ErrorSets
         /\ \A f \in FormFields : Fields4(v, es, fs)[f] = IF f \in fs THEN ErrorOf(f, v) ELSE es[f]
  <1>1. \A f : ErrorOf(f, v) \in {"", "invalid"}
    BY DEF ErrorOf
  <1> QED BY <1>1 DEF Fields4, ErrorSets

LEMMA EntryWords ==
  /\ \A f \in FormFields : Entries[f] \subseteq Words /\ "" \in Entries[f]
  /\ "region" \in FormFields /\ "home" \in Entries["region"]
  <1>1. /\ Entries["email"] = {"", "bad", "free", "taken"} /\ Entries["region"] = {"", "home"}
        /\ Entries["password"] = {"", "short", "blank", "one"} /\ Entries["confirm"] = {"", "blank", "one"}
    BY DEF Entries
  <1> QED BY <1>1 DEF FormFields, Words

\* A field that gets another entry.
LEMMA Fillings ==
  ASSUME NEW v \in Filled, NEW f \in FormFields, NEW x \in Entries[f]
  PROVE  /\ [v EXCEPT ![f] = x] \in Filled
         /\ [v EXCEPT ![f] = x][f] = x
         /\ \A g \in FormFields \ {f} : [v EXCEPT ![f] = x][g] = v[g]
  <1>1. v \in [FormFields -> Words] /\ \A g \in FormFields : v[g] \in Entries[g]
    BY DEF Filled
  <1>2. x \in Words
    BY EntryWords
  <1>3. [v EXCEPT ![f] = x] \in [FormFields -> Words]
    BY <1>1, <1>2
  <1> QED BY <1>1, <1>3 DEF Filled

\* The first region is preselected.
LEMMA Preselected ==
  ASSUME NEW v \in Filled
  PROVE  /\ [v EXCEPT !["region"] = "home"] \in Filled
         /\ \A f \in FormFields \ {"region"} : [v EXCEPT !["region"] = "home"][f] = v[f]
  <1>1. PICK f \in FormFields : f = "region"
    BY EntryWords
  <1>2. "home" \in Entries[f]
    BY <1>1, EntryWords
  <1>3. [v EXCEPT !["region"] = "home"] = [v EXCEPT ![f] = "home"]
    BY <1>1
  <1> QED BY <1>1, <1>2, <1>3, Fillings

\* The service refuses the e-mail, or leaves its error as it is.
LEMMA Marked ==
  ASSUME NEW es \in ErrorSets, NEW x \in {"taken", es["email"]}
  PROVE  /\ [es EXCEPT !["email"] = x] \in ErrorSets
         /\ \A f \in FormFields \ {"email"} : [es EXCEPT !["email"] = x][f] = es[f]
         /\ \A v, touched : Standing(v, es, touched) => Standing(v, [es EXCEPT !["email"] = x], touched)
  <1>1. "email" \in FormFields /\ es["email"] \in {"", "invalid", "taken"}
    BY DEF FormFields, ErrorSets
  <1>2. [es EXCEPT !["email"] = x] \in ErrorSets
    BY <1>1 DEF ErrorSets
  <1>3. \A f \in FormFields : [es EXCEPT !["email"] = x][f] = IF f = "email" THEN x ELSE es[f]
    BY DEF ErrorSets
  <1>4. \A f \in FormFields : [es EXCEPT !["email"] = x][f] = "invalid" => es[f] = "invalid"
    BY <1>3
  <1> QED BY <1>2, <1>3, <1>4 DEF Standing

\* Typing into one field leaves the errors of the others right: those that
\* depend on it are looked at again.
LEMMA TypingIsRechecked ==
  ASSUME NEW v \in Filled, NEW es \in ErrorSets, NEW touched \in SUBSET FormFields,
         Standing(v, es, touched), NEW f \in FormFields, NEW w,
         \A g \in FormFields \ {f} : w[g] = v[g]
  PROVE  Standing(w, Fields4(w, es, Rechecked(f, touched)), touched)
  <1> SUFFICES ASSUME NEW g \in FormFields, Fields4(w, es, Rechecked(f, touched))[g] = "invalid"
               PROVE  g \in touched /\ ErrorOf(g, w) = "invalid"
    BY DEF Standing
  <1>1. Fields4(w, es, Rechecked(f, touched))[g] = IF g \in Rechecked(f, touched) THEN ErrorOf(g, w) ELSE es[g]
    BY Errors
  <1>2. CASE g \in Rechecked(f, touched)
    BY <1>1, <1>2 DEF Rechecked
  <1>3. CASE g \notin Rechecked(f, touched)
    <2>1. es[g] = "invalid"
      BY <1>1, <1>3
    <2>2. g \in touched /\ ErrorOf(g, v) = "invalid"
      BY <2>1 DEF Standing
    <2>3. g # f /\ (g = "confirm" => f # "password")
      BY <1>3, <2>2 DEF Rechecked
    <2>4. w[g] = v[g] /\ (g = "confirm" => w.confirm = v.confirm /\ w.password = v.password)
      BY <2>3 DEF FormFields
    <2> QED BY <2>2, <2>4 DEF ErrorOf
  <1> QED BY <1>2, <1>3

LEMMA TypeKeeps ==
  ASSUME FormInv, NEW f \in FormFields, NEW x \in Entries[f], Type(f, x)
  PROVE  FormInv'
  <1> DEFINE v == [form.values EXCEPT ![f] = x]
             es == Fields4(v, form.errors, Rechecked(f, form.touched))
  <1>1. form \in Forms
    BY DEF FormInv
  <1>2. form' = [form EXCEPT !.values = v, !.errors = es] /\ UNCHANGED accounts
        /\ (f = "region" => form.regions = "some")
    BY DEF Type
  <1>3. form.values \in Filled /\ form.errors \in ErrorSets
        /\ form.touched \in SUBSET FormFields
    BY <1>1 DEF Forms
  <1>4. v \in Filled /\ \A g \in FormFields \ {f} : v[g] = form.values[g]
    BY <1>3, Fillings
  <1>5. es \in ErrorSets
        /\ \A g \in FormFields : es[g] = IF g \in Rechecked(f, form.touched) THEN ErrorOf(g, v) ELSE form.errors[g]
    BY <1>3, Errors
  <1>6. Standing(v, es, form.touched)
    BY <1>3, <1>4, TypingIsRechecked DEF FormInv
  <1>7. \A g : ErrorOf(g, v) # "taken"
    BY DEF ErrorOf
  <1>8. form.regions # "some" => v.region = form.values.region /\ es.region = form.errors.region
    <2> SUFFICES ASSUME form.regions # "some" PROVE v.region = form.values.region /\ es.region = form.errors.region
      OBVIOUS
    <2>1. f # "region" /\ "region" \in FormFields /\ "region" \notin Rechecked(f, form.touched)
      BY <1>2 DEF FormFields, Rechecked
    <2> QED BY <1>4, <1>5, <2>1
  <1> HIDE DEF v, es
  <1>9. /\ form' \in Forms /\ form'.values = v /\ form'.errors = es
        /\ form'.touched = form.touched /\ form'.regions = form.regions /\ form'.stage = form.stage
        /\ form'.sent = form.sent
    BY <1>1, <1>2, <1>4, <1>5 DEF Forms
  <1>10. \A g \in FormFields \ {"email"} : es[g] # "taken"
    BY <1>5, <1>7 DEF FormInv
  <1> QED BY <1>2, <1>6, <1>8, <1>9, <1>10 DEF FormInv, AccountsAsTyped

LEMMA BlurKeeps ==
  ASSUME FormInv, NEW f \in FormFields, Blur(f)
  PROVE  FormInv'
  <1> DEFINE es == Fields4(form.values, form.errors, {f})
             ts == form.touched \cup {f}
  <1>1. form \in Forms
    BY DEF FormInv
  <1>2. form' = [form EXCEPT !.touched = ts, !.errors = es] /\ UNCHANGED accounts
        /\ (f = "region" => form.regions = "some")
    BY DEF Blur
  <1>3. form.errors \in ErrorSets
    BY <1>1 DEF Forms
  <1>4. es \in ErrorSets /\ ts \in SUBSET FormFields
        /\ \A g \in FormFields : es[g] = IF g \in {f} THEN ErrorOf(g, form.values) ELSE form.errors[g]
    BY <1>1, <1>3, Errors DEF Forms
  <1>5. Standing(form.values, es, ts)
    BY <1>4 DEF Standing, FormInv
  <1>6. \A g \in FormFields \ {"email"} : es[g] # "taken"
    BY <1>4 DEF FormInv, ErrorOf
  <1>7. form.regions # "some" => es.region = form.errors.region
    BY <1>2, <1>4 DEF FormFields
  <1> HIDE DEF es, ts
  <1>8. /\ form' \in Forms /\ form'.values = form.values /\ form'.errors = es
        /\ form'.touched = ts /\ form'.regions = form.regions /\ form'.stage = form.stage
        /\ form'.sent = form.sent
    BY <1>1, <1>2, <1>4 DEF Forms
  <1> QED BY <1>2, <1>5, <1>6, <1>7, <1>8 DEF FormInv, AccountsAsTyped

LEMMA SubmitKeeps ==
  ASSUME FormInv, Submit
  PROVE  FormInv'
  <1> DEFINE es == Fields4(form.values, form.errors, Checked)
             valid == \A f \in Checked : es[f] = ""
  <1>1. form \in Forms
    BY DEF FormInv
  <1>2. /\ form' = [form EXCEPT !.errors = es, !.touched = FormFields, !.failed = FALSE,
                                !.stage = IF valid THEN "sent" ELSE "idle",
                                !.sent = IF valid THEN form.values ELSE form.sent]
        /\ UNCHANGED accounts /\ form.values.region # ""
    BY <1>1 DEF Submit, Enabled, HasEmptyFields, FormFields, Forms
  <1>3. form.errors \in ErrorSets
    BY <1>1 DEF Forms
  <1>4. es \in ErrorSets
        /\ \A g \in FormFields : es[g] = ErrorOf(g, form.values)
    BY <1>3, Errors DEF Checked
  <1>5. Standing(form.values, es, FormFields)
    BY <1>4 DEF Standing
  <1>6. \A g \in FormFields \ {"email"} : es[g] # "taken"
    BY <1>4 DEF ErrorOf
  <1>7. valid => Correct(form.values)
    BY <1>4 DEF Correct, Checked
  <1> HIDE DEF es, valid
  <1>8. /\ form' \in Forms /\ form'.values = form.values /\ form'.errors = es
        /\ form'.touched = FormFields /\ form'.regions = form.regions
        /\ form'.stage = "sent" => valid /\ form'.sent = form.values
    BY <1>1, <1>2, <1>4 DEF Forms
  <1>9. form'.regions = "some"
    BY <1>2, <1>8 DEF FormInv
  <1> QED BY <1>2, <1>5, <1>6, <1>7, <1>8, <1>9 DEF FormInv, AccountsAsTyped

LEMMA RegionsKeep ==
  ASSUME FormInv, RegionsAnswer \/ RegionsFail
  PROVE  FormInv'
  <1>1. form \in Forms /\ form.regions = "loading" /\ UNCHANGED accounts
    BY DEF FormInv, RegionsAnswer, RegionsFail
  <1>2. form.values.region = "" /\ form.errors.region = ""
    BY <1>1 DEF FormInv
  <1>3. CASE RegionsFail
    <2>1. form' = [form EXCEPT !.regions = "none"]
      BY <1>3 DEF RegionsFail
    <2>2. /\ form' \in Forms /\ form'.values = form.values /\ form'.errors = form.errors
          /\ form'.touched = form.touched /\ form'.stage = form.stage /\ form'.sent = form.sent
      BY <1>1, <2>1 DEF Forms
    <2> QED BY <1>1, <1>2, <2>2 DEF FormInv, AccountsAsTyped
  <1>4. CASE RegionsAnswer
    <2>1. form.values \in Filled
      BY <1>1 DEF Forms
    <2>2. form' = [form EXCEPT !.regions = "some", !.values = [form.values EXCEPT !["region"] = "home"]]
      BY <1>1, <1>2, <1>4, <2>1 DEF RegionsAnswer, Forms, Filled
    <2>3. PICK v \in Filled : /\ form' = [form EXCEPT !.regions = "some", !.values = v]
                              /\ \A f \in FormFields \ {"region"} : v[f] = form.values[f]
      BY <2>1, <2>2, Preselected
    <2>4. \A f \in FormFields \ {"region"} : ErrorOf(f, v) = ErrorOf(f, form.values)
      BY <2>3 DEF ErrorOf, FormFields
    <2>5. /\ form' \in Forms /\ form'.values = v /\ form'.errors = form.errors /\ form'.regions = "some"
          /\ form'.touched = form.touched /\ form'.stage = form.stage /\ form'.sent = form.sent
      BY <1>1, <2>3 DEF Forms
    <2>6. Standing(v, form.errors, form.touched)
      BY <1>2, <2>4 DEF Standing, FormInv
    <2> QED BY <1>1, <2>5, <2>6 DEF FormInv, AccountsAsTyped
  <1> QED BY <1>3, <1>4

LEMMA RegistrationKeeps ==
  ASSUME FormInv, RegisterLands \/ RegisterLost \/ RegisterAnswered \/ GoToSignIn
  PROVE  FormInv'
  <1>1. form \in Forms
    BY DEF FormInv
  <1>2. CASE RegisterLands
    <2>1. PICK s \in {"made", "refused"} : form' = [form EXCEPT !.stage = s]
      BY <1>2 DEF RegisterLands
    <2>2. accounts' \in {accounts, accounts \cup {form.sent}} /\ Correct(form.sent)
      BY <1>2 DEF RegisterLands, FormInv
    <2>3. AccountsAsTyped'
      BY <2>2 DEF AccountsAsTyped, Correct, FormInv
    <2>4. /\ form' \in Forms /\ form'.values = form.values /\ form'.errors = form.errors /\ form'.stage = s
          /\ form'.touched = form.touched /\ form'.regions = form.regions
      BY <1>1, <2>1 DEF Forms
    <2> QED BY <2>3, <2>4 DEF FormInv
  <1>3. CASE RegisterLost
    <2>1. form' = [form EXCEPT !.stage = "lost"] /\ UNCHANGED accounts
      BY <1>3 DEF RegisterLost
    <2>2. /\ form' \in Forms /\ form'.values = form.values /\ form'.errors = form.errors /\ form'.stage = "lost"
          /\ form'.touched = form.touched /\ form'.regions = form.regions
      BY <1>1, <2>1 DEF Forms
    <2> QED BY <2>1, <2>2 DEF FormInv, AccountsAsTyped
  <1>4. CASE RegisterAnswered
    <2>1. form.errors \in ErrorSets
      BY <1>1 DEF Forms
    <2>2. PICK x \in {"taken", form.errors["email"]}, b \in BOOLEAN :
            form' = [form EXCEPT !.stage = "idle", !.errors = [form.errors EXCEPT !["email"] = x], !.failed = b]
      <3>1. form' = [form EXCEPT !.stage = "idle", !.failed = (form.stage = "lost"),
                                 !.errors = [form.errors EXCEPT !["email"] =
                                               IF form.stage = "refused" THEN "taken" ELSE form.errors["email"]]]
        BY <1>1, <1>4, <2>1 DEF RegisterAnswered, Forms
      <3> QED BY <3>1
    <2>3. PICK es \in ErrorSets :
            /\ form' = [form EXCEPT !.stage = "idle", !.errors = es, !.failed = b]
            /\ \A f \in FormFields \ {"email"} : es[f] = form.errors[f]
            /\ Standing(form.values, es, form.touched)
      BY <2>1, <2>2, Marked DEF FormInv
    <2>4. /\ form' \in Forms /\ form'.values = form.values /\ form'.errors = es /\ form'.stage = "idle"
          /\ form'.touched = form.touched /\ form'.regions = form.regions
      BY <1>1, <2>3 DEF Forms
    <2>5. es.region = form.errors.region /\ UNCHANGED accounts
      BY <1>4, <2>3 DEF FormFields, RegisterAnswered
    <2> QED BY <2>3, <2>4, <2>5 DEF FormInv, AccountsAsTyped
  <1>5. CASE GoToSignIn
    BY <1>5 DEF GoToSignIn, formvars, FormInv, AccountsAsTyped
  <1> QED BY <1>2, <1>3, <1>4, <1>5

LEMMA NewFormInv ==
  ASSUME form = NewForm, accounts = {}
  PROVE  FormInv
  <1>1. Empty \in Filled /\ Empty \in ErrorSets
    BY EntryWords DEF Empty, Filled, ErrorSets, Words
  <1>2. /\ \A f \in FormFields : Empty[f] = ""
        /\ Empty.region = ""
    BY DEF Empty, FormFields
  <1>3. form \in Forms
    BY <1>1 DEF NewForm, Forms
  <1>4. form.values = Empty /\ form.errors = Empty /\ form.stage = "idle"
    BY DEF NewForm
  <1>5. \A f \in FormFields : form.errors[f] = ""
    BY <1>2, <1>4
  <1>6. form.values.region = "" /\ form.errors.region = ""
    BY <1>2, <1>4
  <1> QED BY <1>3, <1>4, <1>5, <1>6 DEF FormInv, Standing, AccountsAsTyped

\* An error that closed the button over a form in order would stand or be the
\* service's.
LEMMA FormInOrder ==
  ASSUME FormInv
  PROVE  SentIffInOrder
  <1>1. ASSUME form.stage = "idle", \A f \in FormFields : ErrorOf(f, form.values) = "",
               form.errors.email # "taken", form.values.password # "blank", NEW f \in FormFields
        PROVE  form.errors[f] = "" /\ form.values[f] \notin {"", "blank"}
    <2>1. form.errors[f] \in {"", "invalid", "taken"}
      BY DEF FormInv, Forms, ErrorSets
    <2>2. form.errors[f] # "invalid"
      BY <1>1 DEF FormInv, Standing
    <2>3. form.errors[f] # "taken"
      BY <1>1 DEF FormInv
    <2>4. form.values[f] # ""
      BY <1>1 DEF ErrorOf
    <2>5. form.values[f] # "blank"
      <3>1. form.values[f] \in Entries[f]
        BY DEF FormInv, Forms, Filled
      <3>1a. ErrorOf(f, form.values) = ""
        BY <1>1
      <3>1b. f = "confirm" => form.values.confirm = form.values.password
        BY <3>1a DEF ErrorOf
      <3>2. /\ f = "email" => "blank" \notin Entries[f]
            /\ f = "region" => "blank" \notin Entries[f]
        <4>1. Entries["email"] = {"", "bad", "free", "taken"} /\ Entries["region"] = {"", "home"}
          BY DEF Entries
        <4>2. "blank" \notin {"", "bad", "free", "taken"} /\ "blank" \notin {"", "home"}
          OBVIOUS
        <4>3. ASSUME f = "email" PROVE "blank" \notin Entries[f]
          BY <4>1, <4>2, <4>3
        <4>4. ASSUME f = "region" PROVE "blank" \notin Entries[f]
          BY <4>1, <4>2, <4>4
        <4> QED BY <4>3, <4>4
      <3> QED BY <1>1, <3>1, <3>1b, <3>2 DEF FormFields
    <2> QED BY <2>1, <2>2, <2>3, <2>4, <2>5
  <1>2. FormNeverStuck
    BY <1>1 DEF FormNeverStuck, InOrder, Enabled, HasEmptyFields
  <1> QED BY <1>2 DEF SentIffInOrder, FormInv

----------------------------------------------------------------------------
(* Steps that leave the profile page and its queries alone.                *)

LEMMA Bystander ==
  ASSUME IInv, VisitGoesOn, UNCHANGED <<svc, queries, work>>, FormInv', Routes'
  PROVE  IInv'
  <1>1. UNCHANGED <<svc, contact, cache, read, moved, desk, calls, vehicle>>
    BY DEF queries, work, svc
  <1>2. QueryTypes' /\ (desk \in Desks)' /\ CallInv'
    BY <1>1 DEF IInv, QueryTypes, CallInv, PostSeen
  <1>3. Stores' /\ \A q \in ProfileQueries : Answer(q)' = Answer(q)
    BY <1>1, NothingAnswersAlike DEF IInv
  <1>4. \A q : (Landed(q)' <=> Landed(q)) /\ (Rereading(q)' <=> Rereading(q)) /\ (Holds(q)' <=> Holds(q))
    BY <1>1 DEF Landed, Rereading, Reading, Holds
  <1>5. FreshInv'
    BY <1>1, <1>3, <1>4 DEF FreshInv, Fresh, IInv
  <1> QED BY <1>2, <1>3, <1>5 DEF IInv, VisitGoesOn

LEMMA FormStepsKeep ==
  ASSUME IInv, VisitGoesOn, FormSteps
  PROVE  IInv'
  <1>1. FormInv'
    BY TypeKeeps, BlurKeeps, SubmitKeeps, RegionsKeep, RegistrationKeeps DEF IInv, FormSteps
  <1>2. UNCHANGED <<svc, proofvars, queries, work>>
    BY DEF FormSteps, RegionsAnswer, RegionsFail, Submit, RegisterLands, RegisterLost, RegisterAnswered,
           GoToSignIn, Blur, Type, Keep
  <1>3. page' \in {page, "created", "login"}
    BY DEF FormSteps, RegionsAnswer, RegionsFail, Submit, RegisterLands, RegisterLost, RegisterAnswered,
           GoToSignIn, Blur, Type
  <1>4. Routes'
    BY <1>2, <1>3 DEF IInv, Routes, proofvars, Pages
  <1> QED BY <1>1, <1>2, <1>4, Bystander

LEMMA FormSame ==
  ASSUME FormInv, UNCHANGED formvars
  PROVE  FormInv'
  BY DEF formvars, FormInv, AccountsAsTyped

LEMMA VerificationKeeps ==
  ASSUME IInv, VisitGoesOn, ProveEmail \/ SendCode \/ CodeAnswered \/ MoveFails \/ GoToDashboard
  PROVE  IInv'
  <1>1. UNCHANGED <<svc, formvars, queries, work>>
    BY DEF ProveEmail, SendCode, CodeAnswered, MoveFails, GoToDashboard
  <1>2. Routes'
    <2>1. page' \in {page, "dashboard"}
      BY DEF ProveEmail, SendCode, CodeAnswered, MoveFails, GoToDashboard
    <2>2. proof' \subseteq {"email", "phone"}
      BY DEF ProveEmail, SendCode, CodeAnswered, MoveFails, GoToDashboard, proofvars, IInv, Routes
    <2>3. otp' \in {"none", "sent", "proven", "failed"}
      BY DEF ProveEmail, SendCode, CodeAnswered, MoveFails, GoToDashboard, proofvars, IInv, Routes
    <2>4. routing' \in {"none", "asked", "failed"}
      BY DEF ProveEmail, SendCode, CodeAnswered, MoveFails, GoToDashboard, proofvars, IInv, Routes
    <2> QED BY <2>1, <2>2, <2>3, <2>4 DEF IInv, Routes, Pages
  <1>3. FormInv'
    BY <1>1, FormSame DEF IInv
  <1> QED BY <1>1, <1>2, <1>3, Bystander

----------------------------------------------------------------------------
(* Pages open and read.                                                    *)

LEMMA BlankDesk == Blank \in Desks
  BY DEF Blank, Desks, Tabs

\* An answer on its way becomes an old one, and nothing else changes.
LEMMA OutdatedRead ==
  ASSUME QueryTypes, NEW q \in Queries, NEW qs
  PROVE  /\ Outdated(q, qs) \in ReadRows(q)
         /\ \/ Outdated(q, qs) = read[q] /\ ~(q \in qs /\ read[q].stage = "served")
            \/ Outdated(q, qs).stage = "old" /\ q \in qs /\ read[q].stage = "served"
  <1>1. read[q] \in ReadRows(q)
    BY DEF QueryTypes
  <1>2. CASE q \in qs /\ read[q].stage = "served"
    <2>1. Outdated(q, qs) = [read[q] EXCEPT !.stage = "old"]
      BY <1>2 DEF Outdated
    <2>2. read[q] \in [stage : {"served", "old"}, v : Values(q)]
      BY <1>1, <1>2 DEF ReadRows, Idle, Asked
    <2>3. Outdated(q, qs) \in [stage : {"served", "old"}, v : Values(q)] /\ Outdated(q, qs).stage = "old"
      BY <2>1, <2>2
    <2> QED BY <1>2, <2>3 DEF ReadRows
  <1>3. CASE ~(q \in qs /\ read[q].stage = "served")
    BY <1>1, <1>3 DEF Outdated
  <1> QED BY <1>2, <1>3

\* Reads that begin, over whatever the cache holds.
LEMMA AskKeeps ==
  ASSUME IInv, VisitGoesOn, NEW qs \in SUBSET Queries, Ask(qs), UNCHANGED <<svc, formvars, contact>>,
         Routes', (desk \in Desks)', SameCalls
  PROVE  IInv'
  <1>1. /\ read' = [q \in Queries |-> IF q \in qs /\ ~Reading(q) THEN Asked ELSE Outdated(q, qs)]
        /\ moved' = moved \cup {q \in qs : read[q].stage = "served"} /\ UNCHANGED cache
    BY DEF Ask
  <1>2. ASSUME NEW q \in Queries
        PROVE  /\ read'[q] \in ReadRows(q)
               /\ read'[q].stage = "old" => read[q].stage = "old" \/ q \in moved'
               /\ read'[q].stage = "served" => read'[q] = read[q]
               /\ Reading(q) => Reading(q)'
    <2>1. CASE q \in qs /\ ~Reading(q)
      BY <1>1, <2>1 DEF Asked, ReadRows
    <2>2. CASE ~(q \in qs /\ ~Reading(q))
      <3>1. read'[q] = Outdated(q, qs)
        BY <1>1, <2>2
      <3>2. q \in qs /\ read[q].stage = "served" => q \in moved'
        BY <1>1
      <3> QED BY <3>1, <3>2, OutdatedRead DEF IInv, Reading
    <2> QED BY <2>1, <2>2
  <1>3. QueryTypes'
    BY <1>1, <1>2 DEF IInv, QueryTypes
  <1>4. Stores' /\ \A q \in ProfileQueries : Answer(q)' = Answer(q)
    BY NothingAnswersAlike DEF IInv
  <1>5. ASSUME NEW q \in ProfileQueries PROVE Fresh(q)'
    <2>1. Fresh(q) /\ q \in Queries
      BY Sets DEF IInv, FreshInv
    <2>2. (Landed(q)' <=> Landed(q)) /\ (Rereading(q) => Rereading(q)')
      BY <1>2, <2>1, SameStages DEF Rereading
    <2>3. read'[q].stage = "old" => q \in moved' \/ Landed(q)'
      BY <1>1, <1>2, <2>1, <2>2 DEF Fresh
    <2>4. cache'[q] = cache[q] /\ (q \in moved => q \in moved')
      BY <1>1
    <2>5. read'[q].stage = "served" => read'[q] = read[q] /\ read[q].stage = "served"
      BY <1>2, <2>1
    <2> QED BY <1>4, <2>1, <2>2, <2>3, <2>4, <2>5 DEF Fresh, Holds
  <1>6. CallInv' /\ FormInv'
    BY SameTypes, FormSame DEF IInv, svc
  <1> QED BY <1>3, <1>4, <1>5, <1>6 DEF IInv, VisitGoesOn, FreshInv

LEMMA OpenKeeps ==
  ASSUME IInv, VisitGoesOn, NEW p \in Inside, Open(p)
  PROVE  IInv'
  <1> DEFINE at == Landing(p)
  <1>1. at \in Pages /\ p \in Pages
    BY DEF Landing, Inside, Pages
  <1>2. /\ page' = at /\ Ask(QueriesOf(p) \cup QueriesOf(at)) /\ routing' = Route(at, Yes("phone"))
        /\ desk' = Blank /\ calls' = {[c EXCEPT !.mine = FALSE] : c \in calls}
        /\ UNCHANGED <<svc, formvars, proof, otp, contact>>
    BY DEF Open, Mount
  <1> HIDE DEF at
  <1>3. QueriesOf(p) \cup QueriesOf(at) \in SUBSET Queries
    BY <1>1, Sets
  <1>4. SameCalls
    BY <1>2, LeftBehind DEF IInv
  <1>5. Routes'
    BY <1>1, <1>2 DEF IInv, Routes, Route
  <1> QED BY <1>2, <1>3, <1>4, <1>5, AskKeeps, BlankDesk

LEMMA MovesOnKeeps ==
  ASSUME IInv, VisitGoesOn, MovesOn
  PROVE  IInv'
  <1>1. Home \in Pages
    BY DEF Home, Pages
  <1>2. /\ page' = Home /\ Ask(QueriesOf(Home)) /\ desk' = Blank
        /\ calls' = {[c EXCEPT !.mine = FALSE] : c \in calls}
        /\ UNCHANGED <<svc, formvars, proof, contact>>
        /\ otp' \in {otp, "none"} /\ routing' \in {routing, "none"}
    BY DEF MovesOn
  <1>3. QueriesOf(Home) \in SUBSET Queries
    BY <1>1, Sets
  <1>4. SameCalls
    BY <1>2, LeftBehind DEF IInv
  <1>5. Routes'
    BY <1>1, <1>2 DEF IInv, Routes
  <1> QED BY <1>2, <1>3, <1>4, <1>5, AskKeeps, BlankDesk

LEMMA FocusKeeps ==
  ASSUME IInv, VisitGoesOn, Focus
  PROVE  IInv'
  <1>1. PICK qs \in SUBSET Queries : Ask(qs)
    BY Sets DEF Focus
  <1>2. UNCHANGED <<svc, page, formvars, proofvars, desk, calls, contact>>
    BY DEF Focus, work
  <1>3. SameCalls
    BY <1>2, StillCalls DEF IInv
  <1>4. Routes' /\ (desk \in Desks)'
    BY <1>2 DEF IInv, Routes, proofvars
  <1> QED BY <1>1, <1>2, <1>3, <1>4, AskKeeps

----------------------------------------------------------------------------
(* The services answer, and their answers reach the cache.                 *)

\* A step of the cache leaves the queries it is not about as they are.
LEMMA CacheStep ==
  ASSUME IInv, VisitGoesOn, UNCHANGED <<svc, formvars, contact, calls>>, Routes', (desk \in Desks)', QueryTypes',
         \A q \in ProfileQueries :
           \/ Fresh(q)'
           \/ read'[q] = read[q] /\ cache'[q] = cache[q] /\ (q \in moved' <=> q \in moved)
  PROVE  IInv'
  <1>1. Stores' /\ \A q \in ProfileQueries : Answer(q)' = Answer(q)
    BY NothingAnswersAlike DEF IInv
  <1>2. ASSUME NEW q \in ProfileQueries, read'[q] = read[q], cache'[q] = cache[q], q \in moved' <=> q \in moved
        PROVE  Fresh(q)'
    <2>1. (Landed(q)' <=> Landed(q)) /\ (Rereading(q)' <=> Rereading(q)) /\ (Holds(q)' <=> Holds(q))
      BY <1>2 DEF Landed, Rereading, Reading, Holds
    <2> QED BY <1>1, <1>2, <2>1 DEF Fresh, IInv, FreshInv
  <1>3. FreshInv'
    BY <1>2 DEF FreshInv
  <1>4. CallInv' /\ FormInv'
    BY FormSame DEF IInv, CallInv, PostSeen, svc
  <1> QED BY <1>1, <1>3, <1>4 DEF IInv, VisitGoesOn

LEMMA ServeKeeps ==
  ASSUME IInv, VisitGoesOn, NEW q \in Queries, Serve(q)
  PROVE  IInv'
  <1>1. /\ read' = [read EXCEPT ![q] = [stage |-> "served", v |-> Answer(q)]]
        /\ UNCHANGED <<svc, page, formvars, proofvars, cache, moved, desk, calls, contact>>
    BY DEF Serve, work
  <1>2. DOMAIN read = Queries /\ Answer(q) \in Values(q)
    BY AnswerTyped DEF IInv, QueryTypes
  <1>3. /\ DOMAIN read' = Queries /\ read'[q] = [stage |-> "served", v |-> Answer(q)]
        /\ \A x \in Queries \ {q} : read'[x] = read[x]
    BY <1>1, <1>2
  <1>4. read'[q] \in ReadRows(q)
    BY <1>2, <1>3 DEF ReadRows
  <1>5. QueryTypes'
    BY <1>1, <1>3, <1>4 DEF IInv, QueryTypes
  <1>6. ASSUME q \in ProfileQueries PROVE Fresh(q)'
    <2>1. Fresh(q) /\ read[q].stage = "asked"
      BY <1>6 DEF IInv, FreshInv, Serve
    <2>2. (Landed(q)' <=> Landed(q)) /\ (Rereading(q) => Rereading(q)')
      BY <1>1, <1>3 DEF Landed, Rereading, Reading
    <2>3. Answer(q)' = Answer(q)
      BY <1>1, <1>6, NothingAnswersAlike
    <2> QED BY <1>1, <1>3, <2>1, <2>2, <2>3 DEF Fresh, Holds
  <1>7. Routes' /\ (desk \in Desks)'
    BY <1>1 DEF IInv, Routes, proofvars
  <1>8. \A x \in ProfileQueries : x # q => x \in Queries
    BY Sets
  <1> QED BY <1>1, <1>3, <1>5, <1>6, <1>7, <1>8, CacheStep

\* The buttons that read again are on pages whose queries the profile page has
\* not got.
LEMMA RefreshKeeps ==
  ASSUME IInv, VisitGoesOn, Refresh
  PROVE  IInv'
  <1>1. /\ read' = [q \in Queries |-> IF q \in QueriesOf(page) THEN Asked ELSE read[q]]
        /\ page \in {"email", "pending"} /\ UNCHANGED <<svc, page, formvars, proofvars, cache, moved, work>>
    BY DEF Refresh
  <1>2. \A q \in Queries : read'[q] \in ReadRows(q)
    BY <1>1 DEF IInv, QueryTypes, ReadRows
  <1>3. QueryTypes'
    BY <1>1, <1>2 DEF IInv, QueryTypes
  <1>4. \A q \in ProfileQueries : q \in Queries /\ q \notin QueriesOf(page)
    BY <1>1, Sets DEF QueriesOf, ProfileQueries
  <1>5. Routes' /\ (desk \in Desks)'
    BY <1>1 DEF IInv, Routes, proofvars, work
  <1> QED BY <1>1, <1>3, <1>4, <1>5, CacheStep DEF work

LEMMA RedrawnDesk ==
  ASSUME desk \in Desks
  PROVE  \A b \in BOOLEAN : Redrawn(b) \in Desks
  <1>1. [desk EXCEPT !.typed = {}] \in Desks
    BY DEF Desks
  <1> QED BY <1>1 DEF Redrawn

\* What is taken into the cache ends the read.
LEMMA TakeTyped ==
  ASSUME IInv, VisitGoesOn, NEW q \in Queries, NEW held \in CacheRows(q), Take(q, held)
  PROVE  /\ cache'[q] = held /\ read'[q] = Idle
         /\ \A x \in Queries \ {q} : cache'[x] = cache[x] /\ read'[x] = read[x]
         /\ moved' \subseteq Queries => QueryTypes'
         /\ (desk \in Desks)'
  <1>1. DOMAIN cache = Queries /\ DOMAIN read = Queries
    BY DEF IInv, QueryTypes
  <1>2. cache' = [cache EXCEPT ![q] = held] /\ read' = [read EXCEPT ![q] = Idle]
        /\ desk' = Redrawn(q \in QueriesOf("profile") /\ held # cache[q])
    BY DEF Take
  <1>3. /\ DOMAIN cache' = Queries /\ DOMAIN read' = Queries
        /\ cache'[q] = held /\ read'[q] = Idle
        /\ \A x \in Queries \ {q} : cache'[x] = cache[x] /\ read'[x] = read[x]
    BY <1>1, <1>2
  <1>4. Idle \in ReadRows(q)
    BY DEF ReadRows
  <1>5. desk' \in Desks
    BY <1>2, RedrawnDesk DEF IInv
  <1> QED BY <1>3, <1>4, <1>5 DEF IInv, QueryTypes

LEMMA ReadFailsKeeps ==
  ASSUME IInv, VisitGoesOn, NEW q \in Queries, ReadFails(q)
  PROVE  IInv'
  <1>1. /\ Take(q, OnError(q)) /\ moved' = moved \cup {q}
        /\ UNCHANGED <<svc, page, formvars, proofvars, calls, contact>>
    BY DEF ReadFails
  <1>2. OnError(q) \in CacheRows(q)
    <2>1. q = "vehicle" => OnError(q) = [held |-> TRUE, v |-> None] /\ None \in Values(q)
      BY DEF OnError, Values, Vehicles
    <2>2. q = "documents" => /\ OnError(q) = [held |-> TRUE, v |-> [d \in Docs |-> [file |-> 0, status |-> "MISSING"]]]
                             /\ [d \in Docs |-> [file |-> 0, status |-> "MISSING"]] \in Values(q)
      <3>1. 0 \in 0..MaxFiles /\ "MISSING" \in DocStatuses
        BY OnboardingAssumption DEF DocStatuses
      <3> QED BY <3>1 DEF OnError, Values
    <2>3. q \notin {"vehicle", "documents"} => OnError(q) = cache[q]
      BY DEF OnError
    <2>4. \A v \in Values(q) : [held |-> TRUE, v |-> v] \in CacheRows(q)
      BY DEF CacheRows
    <2>5. cache[q] \in CacheRows(q)
      BY DEF IInv, QueryTypes
    <2>6. CASE q = "vehicle"
      BY <2>1, <2>4, <2>6
    <2>7. CASE q = "documents"
      BY <2>2, <2>4, <2>7
    <2>8. CASE q \notin {"vehicle", "documents"}
      BY <2>3, <2>5, <2>8
    <2> QED BY <2>6, <2>7, <2>8
  <1>3. /\ read'[q] = Idle /\ QueryTypes' /\ (desk \in Desks)'
        /\ \A x \in Queries \ {q} : cache'[x] = cache[x] /\ read'[x] = read[x]
    BY <1>1, <1>2, TakeTyped DEF IInv, QueryTypes
  <1>4. Fresh(q)'
    BY <1>1, <1>3 DEF Fresh, Idle
  <1>5. Routes'
    BY <1>1 DEF IInv, Routes, proofvars
  <1>6. \A x \in ProfileQueries : x # q => /\ read'[x] = read[x] /\ cache'[x] = cache[x]
                                           /\ (x \in moved' <=> x \in moved)
    BY <1>1, <1>3, Sets
  <1> QED BY <1>1, <1>3, <1>4, <1>5, <1>6, CacheStep

LEMMA ArriveKeeps ==
  ASSUME IInv, VisitGoesOn, NEW q \in Queries, Arrive(q)
  PROVE  IInv'
  <1>1. read[q].stage \in {"served", "old"} /\ UNCHANGED <<svc, formvars, proof, otp, calls, contact>>
    BY DEF Arrive
  <1>2. read[q].v \in Values(q)
    BY <1>1 DEF IInv, QueryTypes, ReadRows, Idle, Asked
  <1>3. CASE q = "email" /\ page = "email" /\ read[q].v
    <2> DEFINE r == IF Reading("phone") THEN read["phone"] ELSE Asked
    <2>1. /\ page' = "phone" /\ routing' = Route("phone", Yes("phone")) /\ UNCHANGED <<desk, moved>>
          /\ cache' = [cache EXCEPT ![q] = [held |-> TRUE, v |-> TRUE]]
          /\ read' = [read EXCEPT ![q] = Idle, !["phone"] = r]
      BY <1>3 DEF Arrive, IInv, QueryTypes, Queries
    <2>2. "phone" \in Queries /\ r \in ReadRows("phone")
      BY DEF IInv, QueryTypes, Queries, ReadRows
    <2> HIDE DEF r
    <2>3. DOMAIN cache = Queries /\ DOMAIN read = Queries
      BY DEF IInv, QueryTypes
    <2>4. /\ DOMAIN cache' = Queries /\ DOMAIN read' = Queries
          /\ cache'[q] = [held |-> TRUE, v |-> TRUE] /\ read'[q] = Idle /\ read'["phone"] = r
          /\ \A x \in Queries \ {q} : cache'[x] = cache[x]
          /\ \A x \in Queries \ {q, "phone"} : read'[x] = read[x]
      BY <1>3, <2>1, <2>2, <2>3
    <2>5. cache'[q] \in CacheRows(q) /\ read'[q] \in ReadRows(q)
      <3>1. Values(q) = BOOLEAN
        BY <1>3 DEF Values
      <3> QED BY <2>4, <3>1 DEF CacheRows, ReadRows
    <2>6. QueryTypes'
      <3>1. \A x \in Queries : cache'[x] \in CacheRows(x)
        BY <2>4, <2>5 DEF IInv, QueryTypes
      <3>2. \A x \in Queries : read'[x] \in ReadRows(x)
        BY <2>2, <2>4, <2>5 DEF IInv, QueryTypes
      <3> QED BY <2>1, <2>4, <3>1, <3>2 DEF IInv, QueryTypes
    <2>7. \A x \in ProfileQueries : x \in Queries \ {q, "phone"}
      BY <1>3 DEF ProfileQueries, Queries
    <2>8. Routes' /\ (desk \in Desks)'
      BY <1>1, <2>1 DEF IInv, Routes, Route, Pages
    <2> QED BY <1>1, <2>1, <2>4, <2>6, <2>7, <2>8, CacheStep
  <1>4. CASE ~(q = "email" /\ page = "email" /\ read[q].v)
    <2> DEFINE held == [held |-> TRUE, v |-> read[q].v]
    <2>1. /\ Take(q, held) /\ UNCHANGED page
          /\ moved' = IF read[q].stage = "old" THEN moved ELSE moved \ {q}
          /\ routing' = IF q = "phone" /\ ~Yes(q) THEN Route(page, read[q].v) ELSE routing
      BY <1>4 DEF Arrive
    <2>2. held \in CacheRows(q)
      BY <1>2 DEF CacheRows
    <2>3. /\ cache'[q] = held /\ read'[q] = Idle /\ QueryTypes' /\ (desk \in Desks)'
          /\ \A x \in Queries \ {q} : cache'[x] = cache[x] /\ read'[x] = read[x]
      BY <2>1, <2>2, TakeTyped DEF IInv, QueryTypes
    <2>4. Routes'
      BY <1>1, <2>1 DEF IInv, Routes, Route
    <2>5. ASSUME q \in ProfileQueries PROVE Fresh(q)'
      <3>1. Fresh(q) /\ Answer(q)' = Answer(q)
        BY <1>1, <2>5, NothingAnswersAlike DEF IInv, FreshInv
      <3>2. Landed(q)' <=> Landed(q)
        BY <1>1 DEF Landed
      <3>3. CASE read[q].stage = "old"
        BY <2>1, <2>3, <3>1, <3>2, <3>3 DEF Fresh, Idle
      <3>4. CASE read[q].stage = "served"
        BY <2>3, <3>1, <3>2, <3>4 DEF Fresh, Idle
      <3> QED BY <1>1, <3>3, <3>4
    <2>6. \A x \in ProfileQueries : x # q => /\ read'[x] = read[x] /\ cache'[x] = cache[x]
                                             /\ (x \in moved' <=> x \in moved)
      BY <2>1, <2>3, Sets
    <2> QED BY <1>1, <2>3, <2>4, <2>5, <2>6, CacheStep
  <1> QED BY <1>3, <1>4

----------------------------------------------------------------------------
(* The profile page: its editors and its writes.                           *)

LEMMA DeskTyped ==
  ASSUME desk \in Desks
  PROVE  /\ \A t \in Tabs : [desk EXCEPT !.tab = t, !.typed = {}, !.meta = {}, !.busy = None] \in Desks
         /\ \A b \in BOOLEAN : [desk EXCEPT !.details = b] \in Desks /\ [desk EXCEPT !.car = b] \in Desks
         /\ \A b \in BOOLEAN : [desk EXCEPT !.car = b, !.typed = {}] \in Desks
         /\ \A fs \in SUBSET (Fields \cup {Off}) : [desk EXCEPT !.typed = fs] \in Desks
         /\ \A ds \in SUBSET MetaDocs : [desk EXCEPT !.meta = ds] \in Desks
         /\ \A d \in Docs \cup {None} : [desk EXCEPT !.busy = d] \in Desks
         /\ desk.details \in BOOLEAN /\ desk.car \in BOOLEAN
         /\ desk.typed \in SUBSET (Fields \cup {Off}) /\ desk.meta \in SUBSET MetaDocs
  BY DEF Desks

\* The editors, and calls that lose their page.
LEMMA DeskStep ==
  ASSUME IInv, VisitGoesOn, UNCHANGED <<svc, page, formvars, proofvars, queries, contact>>, (desk \in Desks)', SameCalls
  PROVE  IInv'
  <1>1. UNCHANGED <<cache, read, moved, vehicle>>
    BY DEF queries, svc
  <1>2. Stores' /\ \A q \in ProfileQueries : Answer(q)' = Answer(q)
    BY NothingAnswersAlike DEF IInv
  <1>3. \A q : (Landed(q)' <=> Landed(q)) /\ (Rereading(q)' <=> Rereading(q)) /\ (Holds(q)' <=> Holds(q))
    BY <1>1, SameStages DEF Holds
  <1>4. FreshInv'
    BY <1>1, <1>2, <1>3 DEF FreshInv, Fresh, IInv
  <1>5. CallInv' /\ FormInv' /\ Routes' /\ QueryTypes'
    BY <1>1, SameTypes, FormSame DEF IInv, Routes, proofvars, QueryTypes
  <1> QED BY <1>2, <1>4, <1>5 DEF IInv, VisitGoesOn

LEMMA EditorsKeep ==
  ASSUME IInv, VisitGoesOn,
         \/ EditDetails \/ EditCar
         \/ \E t \in Tabs : SwitchTab(t)
         \/ \E f \in Fields \cup {Off} : TypeCar(f)
         \/ \E d \in Docs : TypeMeta(d)
  PROVE  IInv'
  <1>0. desk \in Desks
    BY DEF IInv
  <1>1. UNCHANGED <<svc, page, formvars, proofvars, queries, contact>>
    BY DEF EditDetails, EditCar, SwitchTab, TypeCar, TypeMeta
  <1>2. SameCalls
    BY StillCalls, TabLeft DEF IInv, EditDetails, EditCar, SwitchTab, TypeCar, TypeMeta
  <1>3. desk' \in Desks
    <2>1. CASE EditDetails
      <3>1. (~desk.details) \in BOOLEAN /\ desk' = [desk EXCEPT !.details = ~desk.details]
        BY <1>0, <2>1 DEF EditDetails, Desks
      <3> QED BY <1>0, <3>1, DeskTyped
    <2>2. CASE EditCar
      <3>1. (~desk.car) \in BOOLEAN /\ desk' = [desk EXCEPT !.car = ~desk.car, !.typed = {}]
        BY <1>0, <2>2 DEF EditCar, Desks
      <3> QED BY <1>0, <3>1, DeskTyped
    <2>3. ASSUME NEW t \in Tabs, SwitchTab(t) PROVE desk' \in Desks
      BY <1>0, <2>3, DeskTyped DEF SwitchTab
    <2>4. ASSUME NEW f \in Fields \cup {Off}, TypeCar(f) PROVE desk' \in Desks
      <3>1. desk.typed \cup {f} \in SUBSET (Fields \cup {Off}) /\ desk' = [desk EXCEPT !.typed = desk.typed \cup {f}]
        BY <1>0, <2>4 DEF TypeCar, Desks
      <3> QED BY <1>0, <3>1, DeskTyped
    <2>5. ASSUME NEW d \in Docs, TypeMeta(d) PROVE desk' \in Desks
      <3>1. desk.meta \cup {d} \in SUBSET MetaDocs /\ desk' = [desk EXCEPT !.meta = desk.meta \cup {d}]
        BY <1>0, <2>5 DEF TypeMeta, Desks
      <3> QED BY <1>0, <3>1, DeskTyped
    <2> QED BY <2>1, <2>2, <2>3, <2>4, <2>5
  <1> QED BY <1>1, <1>2, <1>3, DeskStep

----------------------------------------------------------------------------
(* The driver sends a write.                                               *)

\* A write sent by a page that knew what it was about.
LEMMA SentStep ==
  ASSUME IInv, VisitGoesOn, NEW d, Typed(d), d.at = "sent", PostSeen(d), calls' = calls \cup {d},
         (desk \in Desks)', UNCHANGED <<svc, page, formvars, proofvars, queries, contact>>
  PROVE  IInv'
  <1>1. UNCHANGED <<cache, read, moved, vehicle>>
    BY DEF queries, svc
  <1>2. Stores' /\ \A q \in ProfileQueries : Answer(q)' = Answer(q)
    BY NothingAnswersAlike DEF IInv
  <1>3. \A q : (Landed(q)' <=> Landed(q)) /\ (Rereading(q)' <=> Rereading(q)) /\ (Holds(q)' <=> Holds(q))
    BY <1>1 DEF Landed, Rereading, Reading, Holds
  <1>4. FreshInv'
    BY <1>1, <1>2, <1>3 DEF FreshInv, Fresh, IInv
  <1>5. CallInv'
    BY <1>1 DEF IInv, CallInv, PostSeen
  <1>6. FormInv' /\ Routes' /\ QueryTypes'
    BY <1>1, FormSame DEF IInv, Routes, proofvars, QueryTypes
  <1> QED BY <1>2, <1>4, <1>5, <1>6 DEF IInv, VisitGoesOn

\* A save that adds a vehicle is of a page whose cache says there is none, with
\* nothing that could have made it wrong.
LEMMA SaveSeesVehicle ==
  ASSUME IInv, Holds("vehicle"), "vehicle" \notin moved,
         ~Placeholder, \A c \in calls : QueryOf(c.kind) # "vehicle", cache["vehicle"].v = None
  PROVE  vehicle = None
  <1>1. Fresh("vehicle")
    BY DEF IInv, FreshInv, ProfileQueries
  <1>2. Answer("vehicle") = vehicle
    BY DEF Answer
  <1> QED BY <1>1, <1>2 DEF Fresh, Landed, Rereading

LEMMA SendsKeep ==
  ASSUME IInv, VisitGoesOn, SaveDetails \/ SaveCar \/ \E d \in Docs : Upload(d)
  PROVE  IInv'
  <1>0. desk \in Desks /\ desk.typed \in SUBSET (Fields \cup {Off})
    BY DeskTyped DEF IInv
  <1> DEFINE Call(kind, d, payload, blind) ==
               [id |-> tour.clicks, kind |-> kind, doc |-> d, payload |-> payload,
                blind |-> blind, at |-> "sent", mine |-> TRUE]
  <1>1. CASE SaveDetails
    <2>1. /\ calls' = calls \cup {Call("contact", None, NoFields, FALSE)} /\ desk' = Redrawn(TRUE)
          /\ UNCHANGED <<svc, page, formvars, proofvars, queries, contact>>
      BY <1>1 DEF SaveDetails, Send
    <2>2. Typed(Call("contact", None, NoFields, FALSE)) /\ PostSeen(Call("contact", None, NoFields, FALSE))
      BY DEF Typed, PostSeen, Kinds
    <2>3. Call("contact", None, NoFields, FALSE).at = "sent"
      OBVIOUS
    <2> HIDE DEF Call
    <2> QED BY <1>0, <2>1, <2>2, <2>3, RedrawnDesk, SentStep
  <1>2. CASE SaveCar
    <2> DEFINE payload == [f \in desk.typed |-> "driver"]
               blind == \/ ~Holds("vehicle") \/ "vehicle" \in moved \/ Placeholder
                        \/ \E c \in calls : QueryOf(c.kind) = "vehicle"
               d == Call(KindOfSave, None, payload, blind)
    <2>1. /\ calls' = calls \cup {d} /\ desk' = Redrawn(TRUE)
          /\ (Holds("vehicle") /\ cache["vehicle"].v # None) \/ Fields \subseteq desk.typed
          /\ UNCHANGED <<svc, page, formvars, proofvars, queries, contact>>
      BY <1>2 DEF SaveCar, Send
    <2>2. /\ {"kind", "doc", "payload", "blind", "at", "mine"} \subseteq DOMAIN d
          /\ d.kind = KindOfSave /\ d.doc = None /\ d.payload = payload /\ d.blind = blind /\ d.at = "sent"
      OBVIOUS
    <2>3. KindOfSave \in {"post", "patch"}
          /\ (KindOfSave = "post" => Fields \subseteq desk.typed /\ (Holds("vehicle") => cache["vehicle"].v = None))
      BY <2>1 DEF KindOfSave
    <2>4. "driver" \in Authors
      BY DEF Authors
    <2>5. /\ \A f \in DOMAIN payload : payload[f] \in Authors
          /\ Fields \subseteq desk.typed => Off \in DOMAIN payload \/ payload \in [Fields -> Authors]
      <3>1. Fields \subseteq desk.typed => Off \in desk.typed \/ desk.typed = Fields
        BY <1>0
      <3> QED BY <2>4, <3>1
    <2>6. blind \in BOOLEAN
      OBVIOUS
    <2>7. PostSeen(d)
      BY <2>2, <2>3, SaveSeesVehicle DEF PostSeen
    <2> HIDE DEF d, payload, blind
    <2>8. Typed(d)
      BY <2>2, <2>3, <2>5, <2>6 DEF Typed, Kinds
    <2> QED BY <1>0, <2>1, <2>2, <2>7, <2>8, RedrawnDesk, SentStep
  <1>3. ASSUME NEW d \in Docs, Upload(d) PROVE IInv'
    <2>1. /\ calls' = calls \cup {Call("upload", d, NoFields, FALSE)} /\ desk' = [desk EXCEPT !.busy = d]
          /\ UNCHANGED <<svc, page, formvars, proofvars, queries, contact>>
      BY <1>3 DEF Upload, Send
    <2>2. Typed(Call("upload", d, NoFields, FALSE)) /\ PostSeen(Call("upload", d, NoFields, FALSE))
      BY DEF Typed, PostSeen, Kinds
    <2>3. Call("upload", d, NoFields, FALSE).at = "sent"
      OBVIOUS
    <2> HIDE DEF Call
    <2> QED BY <1>0, <2>1, <2>2, <2>3, DeskTyped, SentStep
  <1> QED BY <1>1, <1>2, <1>3

----------------------------------------------------------------------------
(* The services write, and their answers come back.                        *)

LEMMA DriverTyped ==
  ASSUME SvcTypeOK, ApproveDriver
  PROVE  SvcTypeOK'
  <1>1. driver \in DriverRows /\ events \in Nat
    BY DEF SvcTypeOK
  <1>2. [driver EXCEPT !.status = "ACTIVE", !.approved = TRUE] \in DriverRows
    BY <1>1 DEF DriverRows, DriverStatuses
  <1> QED BY <1>1, <1>2 DEF ApproveDriver, SvcTypeOK, ProfileStatuses

LEMMA DocumentsTyped ==
  ASSUME SvcTypeOK, NEW d \in Docs, UploadDocument(d) \/ \E s \in {"APPROVED", "REJECTED"} : DecideDocument(d, s)
  PROVE  SvcTypeOK'
  <1>1. docs \in [Docs -> DocRows] /\ MaxFiles \in Nat
    BY OnboardingAssumption DEF SvcTypeOK
  <1>2. PICK row \in DocRows : docs' = [docs EXCEPT ![d] = row]
    <2>1. CASE UploadDocument(d)
      <3>1. PICK n \in 0..MaxFiles : n = docs[d].file + 1
        BY <1>1, <2>1 DEF UploadDocument, DocRows
      <3>2. docs' = [docs EXCEPT ![d] = [docs[d] EXCEPT !.status = "SUBMITTED", !.file = n]]
        BY <2>1, <3>1 DEF UploadDocument
      <3>3. [docs[d] EXCEPT !.status = "SUBMITTED", !.file = n] \in DocRows
        BY <1>1, <3>1 DEF DocRows, DocStatuses
      <3> QED BY <3>2, <3>3
    <2>2. ASSUME NEW s \in {"APPROVED", "REJECTED"}, DecideDocument(d, s)
          PROVE  \E row \in DocRows : docs' = [docs EXCEPT ![d] = row]
      <3>1. docs' = [docs EXCEPT ![d] = [docs[d] EXCEPT !.status = s]]
        BY <2>2 DEF DecideDocument
      <3>2. [docs[d] EXCEPT !.status = s] \in DocRows
        BY <1>1 DEF DocRows, DocStatuses
      <3> QED BY <3>1, <3>2
    <2> QED BY <2>1, <2>2
  <1>3. docs' \in [Docs -> DocRows]
    BY <1>1, <1>2
  <1>4. UNCHANGED <<profile, driver, vehicle, home, ride, events>>
    BY DEF UploadDocument, DecideDocument
  <1> QED BY <1>3, <1>4 DEF SvcTypeOK

LEMMA VehicleTyped ==
  ASSUME SvcTypeOK, NEW load,
         \/ PatchVehicle(load) /\ \A f \in DOMAIN load : load[f] \in Authors
         \/ PostVehicle(load) /\ (Off \in DOMAIN load \/ load \in [Fields -> Authors])
  PROVE  SvcTypeOK'
  <1>1. vehicle' \in Vehicles
    <2>1. vehicle # None => vehicle \in [Fields -> Authors]
      BY DEF SvcTypeOK, Vehicles
    <2> QED BY <2>1 DEF PatchVehicle, PostVehicle, Vehicles
  <1>2. UNCHANGED <<profile, driver, docs, home, ride, events>>
    BY DEF PatchVehicle, PostVehicle
  <1> QED BY <1>1, <1>2 DEF SvcTypeOK, Vehicles

\* A write is of one query, and leaves the answers alone that it does not touch.
LEMMA EffectOfWrite ==
  ASSUME Stores, VisitGoesOn, NEW c, Typed(c), Effect(c)
  PROVE  /\ Stores'
         /\ \A q \in ProfileQueries \ Touches(c) : Answer(q)' = Answer(q)
         /\ "vehicle" \notin Touches(c) => UNCHANGED vehicle
  <1>0. c.kind \in {"contact", "upload", "post", "patch"}
    BY DEF Typed, Kinds
  <1>1. CASE c.kind = "contact"
    <2>1. contact' = "driver" /\ UNCHANGED <<profile, driver, docs, vehicle, home, ride, events>>
      BY <1>1 DEF Effect, svc
    <2>2. Stores'
      BY <2>1 DEF Stores, SvcTypeOK, Authors
    <2>3. "vehicle" \notin Touches(c) => Answer("vehicle")' = Answer("vehicle")
      BY <2>1 DEF Touches, Answer
    <2>4. "contact" \in Touches(c)
      BY <1>1 DEF Touches, QueryOf
    <2> QED BY <2>1, <2>2, <2>3, <2>4, SameAnswers DEF ProfileQueries
  <1>2. CASE c.kind = "upload"
    <2>1. UploadDocument(c.doc) /\ UNCHANGED contact /\ c.doc \in Docs
      BY <1>2 DEF Effect, Typed
    <2>2. Stores'
      BY <2>1, DocumentsTyped DEF Stores
    <2>3. UNCHANGED <<driver, vehicle, contact>>
      BY <2>1 DEF UploadDocument
    <2>4. "documents" \in Touches(c)
      BY <1>2 DEF Touches, QueryOf
    <2> QED BY <2>2, <2>3, <2>4, SameAnswers DEF ProfileQueries
  <1>3. CASE c.kind \in {"post", "patch"}
    <2>1. UNCHANGED contact /\ \/ PatchVehicle(c.payload) /\ \A f \in DOMAIN c.payload : c.payload[f] \in Authors
                               \/ PostVehicle(c.payload) /\ (\/ Off \in DOMAIN c.payload
                                                              \/ c.payload \in [Fields -> Authors])
      BY <1>3 DEF Effect, Typed
    <2>2. Stores'
      BY <2>1, VehicleTyped DEF Stores
    <2>3. UNCHANGED <<driver, docs, contact>>
      BY <2>1 DEF PatchVehicle, PostVehicle
    <2>4. "vehicle" \in Touches(c)
      BY <1>3 DEF Touches, QueryOf
    <2> QED BY <2>2, <2>3, <2>4, SameAnswers DEF ProfileQueries
  <1> QED BY <1>0, <1>1, <1>2, <1>3

\* A step of one call: the queries it does not touch stay as they are.
LEMMA CallStep ==
  ASSUME IInv, VisitGoesOn, NEW qs, UNCHANGED <<page, formvars, proofvars, cache>>, (desk \in Desks)', Stores', CallInv',
         QueryTypes', \A x \in ProfileQueries \cap qs : Fresh(x)',
         \A x \in ProfileQueries \ qs :
           /\ Answer(x)' = Answer(x) /\ read'[x] = read[x] /\ (x \in moved' <=> x \in moved)
           /\ (Landed(x)' <=> Landed(x)) /\ (Rereading(x)' <=> Rereading(x))
  PROVE  IInv'
  <1>1. FreshInv'
    BY DEF FreshInv, Fresh, Holds, IInv
  <1>2. FormInv' /\ Routes'
    BY FormSame DEF IInv, Routes, proofvars
  <1> QED BY <1>1, <1>2 DEF IInv, VisitGoesOn

LEMMA StageTyped ==
  ASSUME NEW c, Typed(c)
  PROVE  \A s \in {"done", "reading", "failed"} :
           LET d == [c EXCEPT !.at = s]
           IN Typed(d) /\ d.at = s /\ d.kind = c.kind
  BY DEF Typed

LEMMA LandKeeps ==
  ASSUME IInv, VisitGoesOn, NEW c \in calls, Land(c)
  PROVE  IInv'
  <1>0. PICK qs : qs = Touches(c)
    OBVIOUS
  <1> DEFINE q == QueryOf(c.kind)
             done == [c EXCEPT !.at = "done"]
  <1>1. /\ c.at = "sent" /\ Effect(c) /\ calls' = Blinded(calls \ {c}, qs) \cup {done}
        /\ read' = [x \in Queries |-> Outdated(x, qs)] /\ moved' = moved \cup (qs \ {q})
        /\ UNCHANGED <<page, formvars, proofvars, cache, desk>>
    BY <1>0 DEF Land
  <1>2. Typed(c) /\ q \in ProfileQueries
    BY WrittenQueries DEF IInv, CallInv, Typed
  <1>2a. q \in qs /\ qs \subseteq Queries
    BY <1>0, <1>2, Sets DEF Touches, ProfileQueries
  <1>3. Typed(done) /\ done.at = "done" /\ done.kind = c.kind
    BY <1>2, StageTyped
  <1>4. /\ Stores' /\ \A x \in ProfileQueries \ qs : Answer(x)' = Answer(x)
        /\ "vehicle" \notin qs => UNCHANGED vehicle
    BY <1>0, <1>1, <1>2, EffectOfWrite DEF IInv
  <1> HIDE DEF q, done
  <1>5. ASSUME NEW x \in calls
        PROVE  LET d == [x EXCEPT !.blind = @ \/ "vehicle" \in qs]
               IN /\ d.kind = x.kind /\ d.at = x.at /\ Typed(d) /\ (d.at = "sent" => PostSeen(d)')
    <2> DEFINE d == [x EXCEPT !.blind = @ \/ "vehicle" \in qs]
    <2>1. Typed(x) /\ PostSeen(x)
      BY DEF IInv, CallInv
    <2>2. Typed(d) /\ d.kind = x.kind /\ d.at = x.at /\ (d.blind <=> (x.blind \/ "vehicle" \in qs))
      BY <2>1 DEF Typed
    <2> HIDE DEF d
    <2>3. PostSeen(d)'
      BY <1>4, <2>1, <2>2 DEF PostSeen
    <2> QED BY <2>2, <2>3 DEF d
  <1>6. \A d \in calls' : d = done \/ \E x \in calls \ {c} : d = [x EXCEPT !.blind = @ \/ "vehicle" \in qs]
    BY <1>1 DEF Blinded
  <1>7. \A x \in calls \ {c} : [x EXCEPT !.blind = @ \/ "vehicle" \in qs] \in calls'
    BY <1>1 DEF Blinded
  <1>8. CallInv'
    <2>1. ASSUME NEW d \in calls' PROVE Typed(d) /\ PostSeen(d)'
      <3>1. CASE d = done
        BY <1>3, <3>1 DEF PostSeen
      <3>2. CASE \E x \in calls \ {c} : d = [x EXCEPT !.blind = @ \/ "vehicle" \in qs]
        BY <1>5, <3>2 DEF PostSeen
      <3> QED BY <1>6, <3>1, <3>2
    <2> QED BY <2>1 DEF CallInv, Typed
  <1>8a. \A x \in Queries : /\ read'[x] \in ReadRows(x) /\ (x \notin qs => read'[x] = read[x])
                            /\ (x \in qs => read'[x].stage # "served")
                            /\ (Reading(x) <=> Reading(x)')
    BY <1>1, OutdatedRead DEF IInv, Reading
  <1>9. \A x \in ProfileQueries \ {q} : (Landed(x)' <=> Landed(x)) /\ (Rereading(x)' <=> Rereading(x))
    <2>1. ASSUME NEW x \in ProfileQueries \ {q}, NEW s \in {"done", "reading"}
          PROVE  (\E d \in calls' : QueryOf(d.kind) = x /\ d.at = s)
                   <=> (\E d \in calls : QueryOf(d.kind) = x /\ d.at = s)
      <3>1. QueryOf(done.kind) = q
        BY <1>3 DEF q
      <3>2. ASSUME NEW d \in calls', QueryOf(d.kind) = x, d.at = s
            PROVE  \E y \in calls : QueryOf(y.kind) = x /\ y.at = s
        <4>1. PICK y \in calls \ {c} : d = [y EXCEPT !.blind = @ \/ "vehicle" \in qs]
          BY <1>6, <3>1, <3>2
        <4>2. d.kind = y.kind /\ d.at = y.at
          BY <1>5, <4>1
        <4> QED BY <3>2, <4>2
      <3>3. ASSUME NEW y \in calls, QueryOf(y.kind) = x, y.at = s
            PROVE  \E d \in calls' : QueryOf(d.kind) = x /\ d.at = s
        <4>1. y # c
          BY <3>3 DEF q
        <4> QED BY <1>5, <1>7, <3>3, <4>1
      <3> QED BY <3>2, <3>3
    <2>2. ASSUME NEW x \in ProfileQueries \ {q} PROVE Rereading(x)' <=> Rereading(x)
      <3>1. Reading(x) <=> Reading(x)'
        BY <1>8a, Sets
      <3>2. (\E d \in calls' : QueryOf(d.kind) = x /\ d.at = "reading")
            <=> (\E d \in calls : QueryOf(d.kind) = x /\ d.at = "reading")
        BY <2>1
      <3> QED BY <3>1, <3>2 DEF Rereading
    <2> QED BY <2>1, <2>2 DEF Landed
  <1>10. ASSUME NEW x \in ProfileQueries \cap qs PROVE Fresh(x)'
    <2>1. x \in Queries
      BY Sets
    <2>2. CASE x = q
      <3>1. Landed(q)'
        BY <1>1, <1>3 DEF Landed, q
      <3> QED BY <1>8a, <2>1, <2>2, <3>1 DEF Fresh
    <2>3. CASE x # q
      BY <1>1, <1>8a, <2>1, <2>3 DEF Fresh
    <2> QED BY <2>2, <2>3
  <1>11. (desk \in Desks)' /\ QueryTypes'
    BY <1>1, <1>2a, <1>8a DEF IInv, QueryTypes
  <1>12. \A x \in ProfileQueries \ qs : read'[x] = read[x] /\ (x \in moved' <=> x \in moved)
    BY <1>1, <1>8a, Sets
  <1> QED BY <1>1, <1>2a, <1>4, <1>8, <1>9, <1>10, <1>11, <1>12, CallStep

LEMMA CallLostKeeps ==
  ASSUME IInv, VisitGoesOn, NEW c \in calls, CallLost(c)
  PROVE  IInv'
  <1> DEFINE q == QueryOf(c.kind)
             failed == [c EXCEPT !.at = "failed"]
  <1>1. /\ c.at \in {"sent", "done"} /\ calls' = (calls \ {c}) \cup {failed}
        /\ moved' = moved \cup {q} /\ read' = [x \in Queries |-> Outdated(x, {q})]
        /\ UNCHANGED <<svc, page, formvars, proofvars, cache, desk, contact>>
    BY DEF CallLost, Moving
  <1>2. Typed(c) /\ q \in ProfileQueries /\ q \in Queries
    BY WrittenQueries, Sets DEF IInv, CallInv, Typed
  <1>3. Typed(failed) /\ failed.at = "failed" /\ failed.kind = c.kind
    BY <1>2, StageTyped
  <1>4. Stores' /\ UNCHANGED vehicle /\ \A x \in ProfileQueries : Answer(x)' = Answer(x)
    BY <1>1, NothingAnswersAlike DEF IInv, svc
  <1>5. \A x \in Queries : /\ read'[x] \in ReadRows(x) /\ (x # q => read'[x] = read[x])
                           /\ (x = q => read'[x].stage # "served")
    BY <1>1, OutdatedRead DEF IInv
  <1>6. QueryTypes'
    BY <1>1, <1>2, <1>5 DEF IInv, QueryTypes
  <1>7. CallInv'
    BY <1>1, <1>3, <1>4 DEF IInv, CallInv, PostSeen
  <1>8. Fresh(q)'
    BY <1>1, <1>2, <1>5 DEF Fresh
  <1>9. \A x \in ProfileQueries \ {q} : read'[x] = read[x] /\ (Landed(x)' <=> Landed(x)) /\ (Rereading(x)' <=> Rereading(x))
    <2>1. \A x \in ProfileQueries \ {q} : x \in Queries
      BY Sets
    <2> QED BY <1>1, <1>3, <1>5, <2>1 DEF Landed, Rereading, Reading
  <1>10. (desk \in Desks)'
    BY <1>1 DEF IInv
  <1>11. \A x \in ProfileQueries \ {q} : x \in moved' <=> x \in moved
    BY <1>1
  <1> HIDE DEF q, failed
  <1> QED BY <1>1, <1>4, <1>6, <1>7, <1>8, <1>9, <1>10, <1>11, CallStep

\* A change of a vehicle that is not there.
LEMMA RefusedKeeps ==
  ASSUME IInv, VisitGoesOn, NEW c \in calls, Refused(c)
  PROVE  IInv'
  <1> DEFINE failed == [c EXCEPT !.at = "failed"]
  <1>1. /\ c.at = "sent" /\ calls' = (calls \ {c}) \cup {failed}
        /\ UNCHANGED <<svc, page, formvars, proofvars, cache, read, moved, desk, contact>>
    BY DEF Refused, queries
  <1>2. Typed(c)
    BY DEF IInv, CallInv
  <1>3. Typed(failed) /\ failed.at = "failed" /\ failed.kind = c.kind
    BY <1>2, StageTyped
  <1>4. Stores' /\ UNCHANGED vehicle /\ \A x \in ProfileQueries : Answer(x)' = Answer(x)
    BY <1>1, NothingAnswersAlike DEF IInv, svc
  <1>5. QueryTypes' /\ (desk \in Desks)'
    BY <1>1 DEF IInv, QueryTypes
  <1>6. CallInv'
    BY <1>1, <1>3, <1>4 DEF IInv, CallInv, PostSeen
  <1>7. \A x : (Landed(x)' <=> Landed(x)) /\ (Rereading(x)' <=> Rereading(x))
    BY <1>1, <1>3 DEF Landed, Rereading, Reading
  <1> HIDE DEF failed
  <1>8. \A x \in ProfileQueries \ {} :
          /\ Answer(x)' = Answer(x) /\ read'[x] = read[x] /\ (x \in moved' <=> x \in moved)
          /\ (Landed(x)' <=> Landed(x)) /\ (Rereading(x)' <=> Rereading(x))
    BY <1>1, <1>4, <1>7
  <1>9. \A x \in ProfileQueries \cap {} : Fresh(x)'
    OBVIOUS
  <1> QED BY <1>1, <1>4, <1>5, <1>6, <1>8, <1>9, CallStep

LEMMA EditorCloses ==
  ASSUME desk \in Desks
  PROVE  /\ [Redrawn(TRUE) EXCEPT !.details = FALSE] \in Desks
         /\ [Redrawn(TRUE) EXCEPT !.car = FALSE] \in Desks
  <1>1. Redrawn(TRUE) \in Desks
    BY RedrawnDesk
  <1> QED BY <1>1 DEF Desks

LEMMA AnsweredKeeps ==
  ASSUME IInv, VisitGoesOn, NEW c \in calls, Answered(c)
  PROVE  IInv'
  <1> DEFINE q == QueryOf(c.kind)
             again == page = "profile" /\ ~Joins(q)
             over == {x \in calls : again /\ x.at = "reading" /\ QueryOf(x.kind) = q}
             reading == [c EXCEPT !.at = "reading"]
             row == IF page # "profile" THEN Outdated(q, {q}) ELSE IF Joins(q) THEN read[q] ELSE Asked
  <1>1. /\ c.at = "done"
        /\ read' = [read EXCEPT ![q] = row]
        /\ moved' = IF again THEN moved ELSE moved \cup {q}
        /\ calls' = (calls \ ({c} \cup over)) \cup (IF page = "profile" THEN {reading} ELSE {})
        /\ UNCHANGED <<svc, page, formvars, proofvars, cache, contact>>
    BY DEF Answered, Invalidate
  <1>2. Typed(c) /\ q \in ProfileQueries /\ q \in Queries
    BY WrittenQueries, Sets DEF IInv, CallInv, Typed
  <1>3. Typed(reading) /\ reading.at = "reading" /\ reading.kind = c.kind
    BY <1>2, StageTyped
  <1>4. Stores' /\ UNCHANGED vehicle /\ \A x \in ProfileQueries : Answer(x)' = Answer(x)
    BY <1>1, NothingAnswersAlike DEF IInv, svc
  <1>5. row \in ReadRows(q) /\ (row.stage = "served" => row = read[q])
    <2>1. CASE page # "profile"
      BY <1>2, <2>1, OutdatedRead DEF IInv
    <2>2. CASE page = "profile"
      BY <1>2, <2>2 DEF IInv, QueryTypes, ReadRows, Asked
    <2> QED BY <2>1, <2>2
  <1>6. again => row = Asked /\ page = "profile"
    OBVIOUS
  <1>8. (desk \in Desks)'
    <2>1. \/ desk' \in {[Redrawn(TRUE) EXCEPT !.details = FALSE], [Redrawn(TRUE) EXCEPT !.car = FALSE]}
          \/ desk' \in {[desk EXCEPT !.busy = None], desk}
      BY DEF Answered
    <2> QED BY <2>1, EditorCloses, DeskTyped DEF IInv
  <1> HIDE DEF row, reading, again
  <1>9. /\ DOMAIN read' = Queries /\ read'[q] = row
        /\ \A x \in Queries : x # q => read'[x] = read[x]
    BY <1>1, <1>2 DEF IInv, QueryTypes
  <1>10. QueryTypes'
    BY <1>1, <1>2, <1>5, <1>9 DEF IInv, QueryTypes
  <1>11. CallInv'
    BY <1>1, <1>3, <1>4 DEF IInv, CallInv, PostSeen
  <1>12. Fresh(q)'
    <2>0. Fresh(q)
      BY <1>2 DEF IInv, FreshInv
    <2>1. CASE again
      <3>1. Rereading(q)'
        BY <1>1, <1>3, <1>6, <1>9, <2>1 DEF Rereading, Reading, Asked
      <3> QED BY <1>6, <1>9, <2>1, <3>1 DEF Fresh, Asked
    <2>2. CASE ~again
      BY <1>1, <1>2, <1>4, <1>5, <1>9, <2>0, <2>2 DEF Fresh
    <2> QED BY <2>1, <2>2
  <1>13. \A x \in ProfileQueries \ {q} : read'[x] = read[x] /\ (Landed(x)' <=> Landed(x)) /\ (Rereading(x)' <=> Rereading(x))
    <2>1. \A x \in ProfileQueries \ {q} : x \in Queries
      BY Sets
    <2> QED BY <1>1, <1>3, <1>9, <2>1 DEF Landed, Rereading, Reading
  <1>14. \A x \in ProfileQueries \ {q} : x \in moved' <=> x \in moved
    BY <1>1
  <1> HIDE DEF q, over
  <1> QED BY <1>1, <1>4, <1>8, <1>10, <1>11, <1>12, <1>13, <1>14, CallStep

LEMMA EndedKeeps ==
  ASSUME IInv, VisitGoesOn, NEW c \in calls, Ended(c)
  PROVE  IInv'
  <1>1. /\ c.at = "failed" \/ (c.at = "reading" /\ ~Reading(QueryOf(c.kind)))
        /\ calls' = calls \ {c} /\ desk' = Released(c)
        /\ UNCHANGED <<svc, page, formvars, proofvars, cache, read, moved, contact>>
    BY DEF Ended, queries
  <1>2. Stores' /\ UNCHANGED vehicle /\ \A x \in ProfileQueries : Answer(x)' = Answer(x)
    BY <1>1, NothingAnswersAlike DEF IInv, svc
  <1>3. CallInv'
    BY <1>1, <1>2 DEF IInv, CallInv, PostSeen
  <1>4. \A x : (Landed(x)' <=> Landed(x)) /\ (Rereading(x)' <=> Rereading(x))
    BY <1>1 DEF Landed, Rereading, Reading
  <1>5. (desk \in Desks)'
    <2>1. Released(c) \in {[desk EXCEPT !.busy = None], [desk EXCEPT !.typed = {}], desk}
      BY DEF Released, Redrawn
    <2> QED BY <1>1, <2>1, DeskTyped DEF IInv
  <1>6. QueryTypes'
    BY <1>1 DEF IInv, QueryTypes
  <1>7. \A x \in ProfileQueries : Fresh(x)'
    BY <1>1, <1>2, <1>4 DEF Fresh, Holds, IInv, FreshInv
  <1>8. FormInv' /\ Routes'
    BY <1>1, FormSame DEF IInv, Routes, proofvars
  <1> QED BY <1>2, <1>3, <1>5, <1>6, <1>7, <1>8 DEF IInv, VisitGoesOn, FreshInv

----------------------------------------------------------------------------
(* Everybody else.                                                         *)

LEMMA ElsewhereKeeps ==
  ASSUME IInv, VisitGoesOn, NEW qs \in SUBSET Queries, Elsewhere(qs), SvcTypeOK',
         \A x \in ProfileQueries \ qs : UNCHANGED contact => Answer(x)' = Answer(x),
         "vehicle" \notin qs => UNCHANGED vehicle
  PROVE  IInv'
  <1>1. /\ moved' = moved \cup qs /\ read' = [x \in Queries |-> Outdated(x, qs)]
        /\ calls' = Blinded(calls, qs)
        /\ UNCHANGED <<page, formvars, proofvars, cache, desk, contact>>
    BY DEF Elsewhere, Moving
  <1>2. SameCalls
    BY <1>1, Overtaken DEF IInv
  <1>3. Stores'
    BY <1>1 DEF IInv, Stores
  <1>4. \A x \in Queries : /\ read'[x] \in ReadRows(x) /\ (x \notin qs => read'[x] = read[x])
                           /\ (x \in qs => read'[x].stage # "served")
                           /\ (Reading(x) <=> Reading(x)')
    BY <1>1, OutdatedRead DEF IInv, Reading
  <1>5. QueryTypes'
    BY <1>1, <1>4 DEF IInv, QueryTypes
  <1>6. CallInv'
    <2>1. \A d \in calls' : Typed(d)
      BY <1>2, SameTypes DEF IInv
    <2>2. CASE "vehicle" \in qs
      <3>1. ASSUME NEW d \in calls' PROVE d.blind
        <4>1. PICK x \in calls : d = [x EXCEPT !.blind = @ \/ "vehicle" \in qs]
          BY <1>1 DEF Blinded
        <4>2. Typed(x)
          BY DEF IInv, CallInv
        <4> QED BY <2>2, <4>1, <4>2 DEF Typed
      <3> QED BY <2>1, <3>1 DEF CallInv, PostSeen, Typed
    <2>3. CASE "vehicle" \notin qs
      BY <1>2, <2>3, SameTypes DEF IInv
    <2> QED BY <2>2, <2>3
  <1>7. ASSUME NEW x \in ProfileQueries PROVE Fresh(x)'
    <2>1. Fresh(x) /\ x \in Queries
      BY Sets DEF IInv, FreshInv
    <2>2. (Landed(x)' <=> Landed(x)) /\ (Rereading(x) => Rereading(x)')
      <3>1. Reading(x)' /\ Rereading(x) => Rereading(x)'
        BY <1>2, SameStages
      <3>2. Rereading(x) => Reading(x)
        BY DEF Rereading
      <3> QED BY <1>2, <1>4, <2>1, <3>1, <3>2, SameStages
    <2>3. CASE x \in qs
      BY <1>1, <1>4, <2>1, <2>3 DEF Fresh
    <2>4. CASE x \notin qs
      BY <1>1, <1>4, <2>1, <2>2, <2>4 DEF Fresh, Holds
    <2> QED BY <2>3, <2>4
  <1>8. FormInv' /\ Routes' /\ (desk \in Desks)'
    BY <1>1, FormSame DEF IInv, Routes, proofvars
  <1> QED BY <1>3, <1>5, <1>6, <1>7, <1>8 DEF IInv, VisitGoesOn, FreshInv

LEMMA OthersKeep ==
  ASSUME IInv, VisitGoesOn,
         \/ Approve \/ AdminAdds
         \/ \E f \in Fields \cup {Off} : AdminEdits(f)
         \/ \E d \in Docs, status \in {"APPROVED", "REJECTED"} : Decide(d, status)
  PROVE  IInv'
  <1>0. SvcTypeOK
    BY DEF IInv, Stores
  <1>1. CASE Approve
    <2> DEFINE qs == {"approval", "contact"} \cup IF Placeholder THEN {"vehicle"} ELSE {}
    <2>1. ApproveDriver /\ Elsewhere(qs) /\ UNCHANGED <<docs, vehicle>>
      BY <1>1 DEF Approve, ApproveDriver
    <2>2. \A x \in ProfileQueries \ qs : Answer(x)' = Answer(x)
      <3>1. driver'.approved
        BY <1>0, <2>1 DEF ApproveDriver, SvcTypeOK, DriverRows
      <3>2. ~Placeholder => Answer("vehicle")' = Answer("vehicle")
        BY <2>1, <3>1 DEF Answer, Placeholder
      <3> QED BY <2>1, <3>2, SameAnswers DEF ProfileQueries
    <2>3. qs \subseteq Queries
      BY DEF Queries
    <2> HIDE DEF qs
    <2> QED BY <1>0, <2>1, <2>2, <2>3, DriverTyped, ElsewhereKeeps
  <1>2. ASSUME NEW load, Elsewhere({"vehicle"}),
               \/ PatchVehicle(load) /\ \A f \in DOMAIN load : load[f] \in Authors
               \/ PostVehicle(load) /\ (Off \in DOMAIN load \/ load \in [Fields -> Authors])
        PROVE  IInv'
    <2>1. UNCHANGED <<driver, docs>>
      BY <1>2 DEF PatchVehicle, PostVehicle
    <2>2. \A x \in ProfileQueries \ {"vehicle"} : UNCHANGED contact => Answer(x)' = Answer(x)
      BY <2>1, SameAnswers DEF ProfileQueries
    <2>3. {"vehicle"} \subseteq Queries
      BY DEF Queries
    <2> QED BY <1>0, <1>2, <2>2, <2>3, VehicleTyped, ElsewhereKeeps
  <1>3. "admin" \in Authors
    BY DEF Authors
  <1>4. CASE AdminAdds
    <2>1. [f \in Fields |-> "admin"] \in [Fields -> Authors]
      BY <1>3
    <2> QED BY <1>2, <1>4, <2>1 DEF AdminAdds
  <1>5. ASSUME NEW f \in Fields \cup {Off}, AdminEdits(f) PROVE IInv'
    <2>1. \A g \in DOMAIN [x \in {f} |-> "admin"] : [x \in {f} |-> "admin"][g] \in Authors
      BY <1>3
    <2> QED BY <1>2, <1>5, <2>1 DEF AdminEdits
  <1>6. ASSUME NEW d \in Docs, NEW status \in {"APPROVED", "REJECTED"}, Decide(d, status) PROVE IInv'
    <2>1. DecideDocument(d, status) /\ Elsewhere({"documents"}) /\ UNCHANGED <<driver, vehicle>>
      BY <1>6 DEF Decide, DecideDocument
    <2>2. \A x \in ProfileQueries \ {"documents"} : UNCHANGED contact => Answer(x)' = Answer(x)
      BY <2>1, SameAnswers DEF ProfileQueries
    <2>3. {"documents"} \subseteq Queries
      BY DEF Queries
    <2> QED BY <1>0, <2>1, <2>2, <2>3, DocumentsTyped, ElsewhereKeeps
  <1> QED BY <1>1, <1>4, <1>5, <1>6

----------------------------------------------------------------------------
(* The invariant is inductive.                                             *)

LEMMA SvcInitTyped ==
  ASSUME NEW start \in Starts, SvcInit(start)
  PROVE  SvcTypeOK
  <1>1. {NoFile, OneFile, Reviewed} \subseteq DocRows
    BY OnboardingAssumption DEF NoFile, OneFile, Reviewed, DocRows, DocStatuses
  <1>2. docs \in [Docs -> DocRows]
    BY <1>1 DEF SvcInit
  <1>3. driver \in DriverRows
    BY DEF SvcInit, DriverRows, DriverStatuses, Regions
  <1>4. vehicle \in Vehicles
    BY DEF SvcInit, Vehicles, Authors
  <1> QED BY <1>2, <1>3, <1>4 DEF SvcInit, SvcTypeOK, ProfileStatuses, Authors

LEMMA InitInv == Init => IInv
  <1> SUFFICES ASSUME Init PROVE IInv
    OBVIOUS
  <1>1. tour \in Visits /\ tour.first \in Pages /\ tour.tab \in Tabs /\ tour.start \in Starts
    BY VisitAssumption DEF Init, Visits
  <1>2. FormInv
    BY NewFormInv DEF Init
  <1>3. Routes
    BY <1>1 DEF Init, Routes
  <1>4. Stores
    BY <1>1, SvcInitTyped DEF Init, Stores, Authors
  <1>5. desk \in Desks
    <2>1. \A t \in Tabs : [Blank EXCEPT !.tab = t] \in Desks
      BY BlankDesk DEF Desks
    <2> QED BY <1>1, <2>1 DEF Init
  <1>6. QueryTypes /\ FreshInv
    <2>1. \A q \in Queries : Answer(q) \in Values(q)
      BY <1>4, AnswerTyped
    <2>2. /\ cache = [q \in Queries |-> IF tour.loaded /\ q \in QueriesOf(page)
                                        THEN [held |-> TRUE, v |-> Answer(q)] ELSE [held |-> FALSE, v |-> None]]
          /\ read = [q \in Queries |-> IF ~tour.loaded /\ q \in QueriesOf(page) THEN Asked ELSE Idle]
          /\ moved = {}
      BY DEF Init
    <2>3. ASSUME NEW q \in Queries
          PROVE  /\ cache[q] \in CacheRows(q) /\ (cache[q].held => cache[q].v = Answer(q))
                 /\ read[q] \in {Idle, Asked}
      BY <2>1, <2>2 DEF CacheRows
    <2>4. \A q \in ProfileQueries : q \in Queries
      BY Sets
    <2> QED BY <2>2, <2>3, <2>4 DEF QueryTypes, ReadRows, FreshInv, Fresh, Holds, Idle, Asked
  <1>7. CallInv
    BY DEF Init, CallInv
  <1> QED BY <1>1, <1>2, <1>3, <1>4, <1>5, <1>6, <1>7 DEF IInv

LEMMA StutterKeeps ==
  ASSUME IInv, VisitGoesOn, UNCHANGED vars
  PROVE  IInv'
  <1>1. UNCHANGED <<svc, page, formvars, proofvars, queries, work>>
    BY DEF vars
  <1>2. Routes'
    BY <1>1 DEF IInv, Routes, proofvars
  <1> QED BY <1>1, <1>2, FormSame, Bystander DEF IInv

\* A visit is spent click by click.
LEMMA VisitSpent ==
  ASSUME tour \in Visits, [Next]_vars
  PROVE  VisitGoesOn
  <1>1. Click \/ Fault \/ Move => VisitGoesOn
    BY DEF Click, Fault, Move, VisitGoesOn, Visits
  <1>2. UNCHANGED tour => VisitGoesOn
    BY DEF VisitGoesOn
  <1>3. CASE FormSteps
    BY <1>1, <1>2, <1>3 DEF FormSteps, RegionsAnswer, RegionsFail, Submit, RegisterLands, RegisterLost,
                            RegisterAnswered, GoToSignIn, Blur, Type
  <1>4. CASE ReadSteps
    BY <1>1, <1>2, <1>4 DEF ReadSteps, Serve, Arrive, ReadFails
  <1>5. CASE DeskSteps
    <2>1. CASE \/ EditDetails \/ SaveDetails \/ EditCar \/ SaveCar
               \/ \E t \in Tabs : SwitchTab(t)
               \/ \E f \in Fields \cup {Off} : TypeCar(f)
               \/ \E d \in Docs : TypeMeta(d) \/ Upload(d)
      BY <1>1, <1>2, <2>1 DEF EditDetails, SaveDetails, EditCar, SaveCar, SwitchTab, TypeCar, TypeMeta, Upload
    <2>2. CASE \E c \in calls : Land(c) \/ Refused(c) \/ CallLost(c) \/ Answered(c) \/ Ended(c)
      BY <1>1, <1>2, <2>2 DEF Land, Refused, CallLost, Answered, Ended
    <2> QED BY <1>5, <2>1, <2>2 DEF DeskSteps
  <1>6. CASE \/ Focus \/ Refresh \/ GoToDashboard \/ \E p \in Inside : Open(p)
             \/ ProveEmail \/ SendCode \/ CodeAnswered \/ MovesOn \/ MoveFails
    BY <1>1, <1>2, <1>6 DEF Focus, Refresh, GoToDashboard, Open, ProveEmail, SendCode, CodeAnswered, MovesOn, MoveFails
  <1>7. CASE \/ Approve \/ AdminAdds
             \/ \E f \in Fields \cup {Off} : AdminEdits(f)
             \/ \E d \in Docs, status \in {"APPROVED", "REJECTED"} : Decide(d, status)
    BY <1>1, <1>7 DEF Approve, AdminAdds, AdminEdits, Decide, Elsewhere
  <1>8. CASE UNCHANGED vars
    BY <1>2, <1>8 DEF vars
  <1> QED BY <1>3, <1>4, <1>5, <1>6, <1>7, <1>8 DEF Next

LEMMA NextKeeps == IInv /\ [Next]_vars => IInv'
  <1> SUFFICES ASSUME IInv, [Next]_vars PROVE IInv'
    OBVIOUS
  <1>0. VisitGoesOn
    BY VisitSpent DEF IInv
  <1>1. CASE FormSteps
    BY <1>0, <1>1, FormStepsKeep
  <1>2. CASE ReadSteps
    BY <1>0, <1>2, ServeKeeps, ArriveKeeps, ReadFailsKeeps DEF ReadSteps
  <1>3. CASE DeskSteps
    BY <1>0, <1>3, EditorsKeep, SendsKeep, LandKeeps, RefusedKeeps, CallLostKeeps, AnsweredKeeps, EndedKeeps DEF DeskSteps
  <1>4. ASSUME NEW p \in Inside, Open(p) PROVE IInv'
    BY <1>0, <1>4, OpenKeeps
  <1>5. CASE Focus \/ Refresh \/ MovesOn
    BY <1>0, <1>5, FocusKeeps, RefreshKeeps, MovesOnKeeps
  <1>6. CASE ProveEmail \/ SendCode \/ CodeAnswered \/ MoveFails \/ GoToDashboard
    BY <1>0, <1>6, VerificationKeeps
  <1>7. CASE \/ Approve \/ AdminAdds
             \/ \E f \in Fields \cup {Off} : AdminEdits(f)
             \/ \E d \in Docs, status \in {"APPROVED", "REJECTED"} : Decide(d, status)
    BY <1>0, <1>7, OthersKeep
  <1>8. CASE UNCHANGED vars
    BY <1>0, <1>8, StutterKeeps
  <1> QED BY <1>1, <1>2, <1>3, <1>4, <1>5, <1>6, <1>7, <1>8 DEF Next

LEMMA InvHolds == Spec => []IInv
  BY InitInv, NextKeeps, PTL DEF Spec

----------------------------------------------------------------------------
(* What follows.                                                           *)

LEMMA TypesFollow == IInv => TypeOK
  <1> SUFFICES ASSUME IInv PROVE TypeOK
    OBVIOUS
  <1>1. /\ \A f \in FormFields : form.values[f] \in Entries[f]
        /\ form.touched \subseteq FormFields /\ form.regions \in {"loading", "some", "none"}
        /\ form.stage \in {"idle", "sent", "made", "refused", "lost"}
    BY DEF IInv, FormInv, Forms, Filled
  <1>2. ASSUME NEW q \in Queries
        PROVE  /\ Holds(q) => cache[q].v \in Values(q)
               /\ read[q].stage \in {"idle", "asked", "served", "old"}
               /\ read[q].stage \in {"served", "old"} => read[q].v \in Values(q)
    <2>1. cache[q] \in CacheRows(q) /\ read[q] \in ReadRows(q)
      BY DEF IInv, QueryTypes
    <2>2. Holds(q) => cache[q].v \in Values(q)
      <3>1. CASE cache[q] = [held |-> FALSE, v |-> None]
        BY <3>1 DEF Holds
      <3>2. CASE cache[q] \in [held : {TRUE}, v : Values(q)]
        BY <3>2
      <3> QED BY <2>1, <3>1, <3>2 DEF CacheRows
    <2>3. CASE read[q] \in {Idle, Asked}
      BY <2>2, <2>3 DEF Idle, Asked
    <2>4. CASE read[q] \in [stage : {"served", "old"}, v : Values(q)]
      BY <2>2, <2>4
    <2> QED BY <2>1, <2>3, <2>4 DEF ReadRows
  <1>3. \A c \in calls : /\ c.kind \in Kinds /\ c.doc \in Docs \cup {None}
                         /\ c.at \in {"sent", "done", "reading", "failed"}
    BY DEF IInv, CallInv, Typed
  <1> QED BY <1>1, <1>2, <1>3 DEF TypeOK, IInv, Routes, Stores, QueryTypes, Desks

LEMMA OrderFollows == IInv => SentIffInOrder
  BY FormInOrder DEF IInv

LEMMA WritesFollow == IInv => OwnWritesShown
  <1> SUFFICES ASSUME IInv, NEW q \in QueriesOf("profile"),
                      Holds(q), ~Reading(q), q \notin moved, \A c \in calls : QueryOf(c.kind) # q
               PROVE  cache[q].v = Answer(q)
    BY DEF OwnWritesShown, Settled
  <1> QED BY Sets DEF IInv, FreshInv, Fresh, Landed, Rereading

LEMMA KeptFollows ==
  IInv => \A c \in calls : (c.kind = "post" /\ vehicle # None /\ Land(c)) => c.blind
  BY DEF IInv, CallInv, PostSeen, Typed, Land

----------------------------------------------------------------------------
(* Theorems.                                                               *)

\* Every variable keeps its type, for any documents, fields and visits.
THEOREM OnboardingTypesHold == Spec => []TypeOK
  BY InvHolds, TypesFollow, PTL

\* The registration form sends what is in order, always and nothing else,
\* whatever is typed, left and re-typed before, during and after a send.
THEOREM SentIffInOrderHolds == Spec => []SentIffInOrder
  BY InvHolds, OrderFollows, PTL

\* The profile page shows its own writes once they are over, however many
\* are under way and wherever the driver was when they were answered.
THEOREM OwnWritesShownHolds == Spec => []OwnWritesShown
  BY InvHolds, WritesFollow, PTL

\* A vehicle the page has seen is never retired for a new one.
THEOREM KnownVehicleKeptHolds == Spec => KnownVehicleKept
  BY InvHolds, KeptFollows, PTL DEF Spec, KnownVehicleKept

=============================================================================
