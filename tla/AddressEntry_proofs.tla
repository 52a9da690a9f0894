-------------------------- MODULE AddressEntry_proofs --------------------------
(***************************************************************************)
(* Proofs about AddressEntry: whatever keys, timers, late and remembered   *)
(* answers do, the editor speaks of the text it shows, and however often   *)
(* places are selected, the recent ones are different and few.             *)
(*                                                                         *)
(* The properties speak of the text, the answers of the key, which trails  *)
(* behind.  Where both are searches of one trimmed text what an entry      *)
(* holds is what the geocoder knows of it; where they are not the editor   *)
(* is debouncing and lists nothing.  "Nothing found" needs besides that    *)
(* the entry of the key in use has an answer unless a read of it is under  *)
(* way or has failed, and that no read is paused while there is a network. *)
(***************************************************************************)
EXTENDS AddressEntry, TLAPS

Entry == [data : (SUBSET Place) \cup {None}, fresh : BOOLEAN, read : {"idle", "fetching", "paused"}, failed : BOOLEAN]

Shapes ==
    /\ pickup \in Place \cup {None} /\ dropoff \in Place \cup {None}
    /\ field \in Fields \cup {None}
    /\ text \in Text /\ settled \in Text
    /\ cache \in [Text -> Entry]
    /\ home \in BOOLEAN /\ online \in BOOLEAN

\* An entry holds nothing or what the geocoder knows; only such an answer is
\* fresh, and only searches are read.
TrueEntry(key) ==
    /\ cache[key].data \in {None, Finds[Trim[key]]}
    /\ cache[key].fresh => cache[key].data # None
    /\ cache[key].read # "idle" => Trim[key] \in Long
    /\ cache[key].read = "paused" => ~online

\* The key in use is answered, its read is under way or paused, or has failed.
Attended ==
    Enabled(field, settled) =>
        cache[settled].data # None \/ cache[settled].read # "idle" \/ cache[settled].failed

IInv ==
    /\ Shapes
    /\ \A key \in Text : TrueEntry(key)
    /\ Attended
    /\ ~home => field = None

(***************************************************************************)
(* The invariant gives the property.                                       *)
(***************************************************************************)

\* What the entry of the settled text holds, where text and key agree.
LEMMA Matching ==
    ASSUME IInv, ~ShowsRecent, ~Debouncing
    PROVE  /\ Trim[settled] = Trim[text]
           /\ Data(settled) \subseteq Finds[Trim[text]]
           /\ cache[settled].data # None => Data(settled) = Finds[Trim[text]]
  BY DEF IInv, Shapes, TrueEntry, ShowsRecent, Debouncing, Data

LEMMA InvariantMatches == ASSUME IInv PROVE SuggestionsMatchText
  <1> SUFFICES ASSUME field # None, ~ShowsRecent
               PROVE  Listed \subseteq Finds[Trim[text]]
    BY DEF SuggestionsMatchText
  <1>1. Listed \subseteq Results
    BY DEF Listed
  <1>2. CASE Debouncing
    BY <1>1, <1>2 DEF Results
  <1>3. CASE ~Debouncing
    BY <1>1, <1>3, Matching DEF Results
  <1> QED BY <1>2, <1>3

LEMMA InvariantAnswers == ASSUME IInv PROVE EmptyIsAnswered
  <1> SUFFICES ASSUME online, field # None, NothingFound
               PROVE  Finds[Trim[text]] = {}
    BY DEF EmptyIsAnswered
  <1>1. ~ShowsRecent /\ ~Debouncing /\ cache[settled].read # "fetching" /\ ~cache[settled].failed
        /\ Data(settled) = {}
    BY DEF NothingFound, Loading, Results
  <1>2. Enabled(field, settled)
    BY <1>1, Matching DEF Enabled, ShowsRecent
  <1>3. cache[settled].data # None
    BY <1>1, <1>2 DEF IInv, Attended, Shapes, TrueEntry, Entry
  <1> QED BY <1>1, <1>3, Matching

(***************************************************************************)
(* Reading an entry.                                                       *)
(***************************************************************************)

LEMMA SendKeeps ==
    ASSUME NEW e \in Entry
    PROVE  /\ Send(e) \in Entry /\ Send(e).read = (IF online THEN "fetching" ELSE "paused")
           /\ Send(e).data = e.data /\ Send(e).fresh = e.fresh
  BY DEF Send, Entry

\* Whichever key f and key make the one in use, its entry is attended to, and
\* all entries stay true.
LEMMA ObservedKeeps ==
    ASSUME IInv, NEW f \in Fields \cup {None}, NEW key \in Text,
           cache' = Observed(f, key), field' = f, settled' = key, UNCHANGED online
    PROVE  /\ cache' \in [Text -> Entry]
           /\ \A k \in Text : TrueEntry(k)'
           /\ Attended'
  <1> USE DEF IInv, Shapes
  <1>1. CASE Enabled(f, key) /\ (~Enabled(field, settled) \/ key # settled)
              /\ ~cache[key].fresh /\ cache[key].read = "idle"
    <2>1. cache' = [cache EXCEPT ![key] = Send(cache[key])]
      BY <1>1 DEF Observed
    <2>2. cache' \in [Text -> Entry]
      BY <2>1, SendKeeps
    <2>3. ASSUME NEW k \in Text PROVE TrueEntry(k)'
      <3>1. CASE k = key
        BY <1>1, <2>1, <3>1, SendKeeps DEF TrueEntry, Enabled
      <3>2. CASE k # key
        BY <2>1, <3>2 DEF TrueEntry
      <3> QED BY <3>1, <3>2
    <2>4. Attended'
      BY <2>1, SendKeeps DEF Attended
    <2> QED BY <2>2, <2>3, <2>4
  <1>2. CASE ~(Enabled(f, key) /\ (~Enabled(field, settled) \/ key # settled)
                /\ ~cache[key].fresh /\ cache[key].read = "idle")
    <2>1. cache' = cache
      BY <1>2 DEF Observed
    <2>2. \A k \in Text : TrueEntry(k)'
      BY <2>1 DEF TrueEntry
    <2>3. Attended'
      BY <1>2, <2>1 DEF Attended, Enabled, TrueEntry
    <2> QED BY <2>1, <2>2, <2>3
  <1> QED BY <1>1, <1>2

\* Steps that leave the entries alone keep the key in use, or use none.
LEMMA EntriesKeep ==
    ASSUME IInv, UNCHANGED <<cache, online>>, UNCHANGED <<field, settled>> \/ field' = None
    PROVE  (\A k \in Text : TrueEntry(k)') /\ Attended'
  BY DEF IInv, Attended, Enabled, TrueEntry

\* Names of places are texts.
LEMMA NamesAreTexts ==
    ASSUME NEW p \in Place \cup {None}
    PROVE  Name(p) \in Text
  BY EntryAssumption DEF Name

(***************************************************************************)
(* Every step keeps the invariant.                                         *)
(***************************************************************************)

LEMMA InitInv == Init => IInv
  <1> SUFFICES ASSUME Init PROVE IInv
    OBVIOUS
  <1>1. Shapes
    BY EntryAssumption DEF Init, Shapes, Unread, Entry, Fields
  <1>2. ASSUME NEW key \in Text PROVE TrueEntry(key)
    BY EntryAssumption DEF Init, TrueEntry, Unread
  <1>3. Attended
    BY DEF Init, Attended, Enabled
  <1> QED BY <1>1, <1>2, <1>3 DEF IInv, Init

LEMMA SettleKeeps == ASSUME IInv, Settle PROVE IInv'
  <1>1. field \in Fields \cup {None} /\ text \in Text
    BY DEF IInv, Shapes
  <1>2. cache' \in [Text -> Entry] /\ (\A k \in Text : TrueEntry(k)') /\ Attended'
    BY <1>1, ObservedKeeps DEF Settle, browser
  <1> QED BY <1>2 DEF IInv, Shapes, Settle, ride, browser

LEMMA PressKeeps == ASSUME IInv, NEW f \in Fields, Press(f) PROVE IInv'
  <1>1. Name(Value(f)) \in Text
    BY NamesAreTexts DEF IInv, Shapes, Value
  <1>2. cache' \in [Text -> Entry] /\ (\A k \in Text : TrueEntry(k)') /\ Attended'
    BY ObservedKeeps DEF Press, IInv, Shapes, browser
  <1> QED BY <1>1, <1>2 DEF IInv, Shapes, Press, ride, browser

LEMMA AnswerKeeps == ASSUME IInv, NEW key \in Text, Answer(key) PROVE IInv'
  <1> DEFINE new == [data |-> Finds[Trim[key]], fresh |-> TRUE, read |-> "idle", failed |-> FALSE]
  <1>1. Trim[key] \in Long
    BY DEF Answer, IInv, TrueEntry
  <1>2. Finds[Trim[key]] \in SUBSET Place /\ Finds[Trim[key]] # None
    BY <1>1, EntryAssumption
  <1>3. new \in Entry
    BY <1>2 DEF Entry
  <1>4. cache' = [cache EXCEPT ![key] = new]
    BY DEF Answer
  <1>5. Shapes'
    BY <1>3, <1>4 DEF IInv, Shapes, Answer, ride, editor, browser
  <1>6. ASSUME NEW k \in Text PROVE TrueEntry(k)'
    BY <1>2, <1>4 DEF IInv, Shapes, TrueEntry, Answer, browser
  <1>7. Attended'
    BY <1>2, <1>4 DEF IInv, Shapes, Attended, Enabled, Answer, editor
  <1> QED BY <1>5, <1>6, <1>7 DEF IInv, Answer, editor, browser

LEMMA FailKeeps == ASSUME IInv, NEW key \in Text, Fail(key) PROVE IInv'
  <1>1. cache' = [cache EXCEPT ![key].read = "idle", ![key].failed = TRUE]
    BY DEF Fail
  <1>2. Shapes'
    <2>1. cache[key] \in Entry
      BY DEF IInv, Shapes
    <2>2. [cache[key] EXCEPT !.read = "idle", !.failed = TRUE] \in Entry
      BY <2>1 DEF Entry
    <2>3. cache' = [cache EXCEPT ![key] = [cache[key] EXCEPT !.read = "idle", !.failed = TRUE]]
      BY <1>1 DEF IInv, Shapes
    <2> QED BY <2>2, <2>3 DEF IInv, Shapes, Fail, ride, editor, browser
  <1>3. ASSUME NEW k \in Text PROVE TrueEntry(k)'
    BY <1>1 DEF IInv, Shapes, Entry, TrueEntry, Fail, browser
  <1>4. Attended'
    BY <1>1 DEF IInv, Shapes, Entry, Attended, Enabled, Fail, editor
  <1> QED BY <1>2, <1>3, <1>4 DEF IInv, Fail, editor, browser

LEMMA AgeKeeps == ASSUME IInv, NEW key \in Text, Age(key) PROVE IInv'
  <1>1. cache' = [cache EXCEPT ![key].fresh = FALSE]
    BY DEF Age
  <1>2. Shapes'
    <2>1. cache' = [cache EXCEPT ![key] = [cache[key] EXCEPT !.fresh = FALSE]]
      BY <1>1 DEF IInv, Shapes
    <2>2. [cache[key] EXCEPT !.fresh = FALSE] \in Entry
      BY DEF IInv, Shapes, Entry
    <2> QED BY <2>1, <2>2 DEF IInv, Shapes, Age, ride, editor, browser
  <1>3. ASSUME NEW k \in Text PROVE TrueEntry(k)'
    BY <1>1 DEF IInv, Shapes, Entry, TrueEntry, Age, browser
  <1>4. Attended'
    BY <1>1 DEF IInv, Shapes, Entry, Attended, Enabled, Age, editor
  <1> QED BY <1>2, <1>3, <1>4 DEF IInv, Age, editor, browser

LEMMA RefetchKeeps == ASSUME IInv, Refetch PROVE IInv'
  <1>1. cache' = [cache EXCEPT ![settled] = Send(cache[settled])]
    BY DEF Refetch
  <1>2. cache[settled] \in Entry /\ settled \in Text
    BY DEF IInv, Shapes
  <1>3. Shapes'
    BY <1>1, <1>2, SendKeeps DEF IInv, Shapes, Refetch, ride, editor, browser
  <1>4. ASSUME NEW k \in Text PROVE TrueEntry(k)'
    <2>1. CASE k = settled
      BY <1>1, <1>2, <2>1, SendKeeps DEF IInv, Shapes, TrueEntry, Refetch, Enabled, browser
    <2>2. CASE k # settled
      BY <1>1, <2>2 DEF IInv, Shapes, TrueEntry, Refetch, browser
    <2> QED BY <2>1, <2>2
  <1>5. Attended'
    BY <1>1, <1>2, SendKeeps DEF IInv, Shapes, Attended, Refetch, editor
  <1> QED BY <1>3, <1>4, <1>5 DEF IInv, Refetch, editor, browser

LEMMA GoOfflineKeeps == ASSUME IInv, GoOffline PROVE IInv'
  <1> USE DEF GoOffline, ride, editor
  <1>1. Shapes'
    BY DEF IInv, Shapes
  <1>2. ASSUME NEW k \in Text PROVE TrueEntry(k)'
    BY DEF IInv, TrueEntry
  <1>3. Attended'
    BY DEF IInv, Attended, Enabled
  <1> QED BY <1>1, <1>2, <1>3 DEF IInv

LEMMA StallKeeps == ASSUME IInv, NEW key \in Text, Stall(key) PROVE IInv'
  <1>1. cache' = [cache EXCEPT ![key].read = "paused"]
    BY DEF Stall
  <1>2. Shapes'
    BY <1>1 DEF IInv, Shapes, Stall, ride, editor, browser, Entry
  <1>3. ASSUME NEW k \in Text PROVE TrueEntry(k)'
    BY <1>1 DEF IInv, Shapes, Entry, TrueEntry, Stall, browser
  <1>4. Attended'
    BY <1>1 DEF IInv, Shapes, Entry, Attended, Enabled, Stall, editor
  <1> QED BY <1>2, <1>3, <1>4 DEF IInv, Stall, editor, browser

\* No read stays paused.
LEMMA GoOnlineKeeps == ASSUME IInv, GoOnline PROVE IInv'
  <1>1. ASSUME NEW k \in Text
        PROVE  /\ cache'[k] \in Entry
               /\ cache'[k].data = cache[k].data /\ cache'[k].fresh = cache[k].fresh
               /\ cache'[k].read \in {cache[k].read, "fetching"} /\ cache'[k].read # "paused"
               /\ cache'[k].read # "idle" => cache[k].read # "idle" \/ Enabled(field, k)
               /\ cache'[k].failed # cache[k].failed => cache'[k].read = "fetching"
    <2>1. cache[k] \in Entry
      BY DEF IInv, Shapes
    <2>2. cache'[k] = IF Resumed(k) THEN [cache[k] EXCEPT !.read = "fetching"]
           ELSE IF k = settled /\ Enabled(field, k) /\ cache[k].read = "idle" /\ ~cache[k].fresh
           THEN [cache[k] EXCEPT !.read = "fetching", !.failed = cache[k].failed /\ cache[k].data # None]
           ELSE cache[k]
      BY DEF GoOnline
    <2> QED BY <2>1, <2>2 DEF Entry, Resumed
  <1>2. cache' \in [Text -> Entry]
    BY <1>1 DEF GoOnline
  <1>3. Shapes'
    BY <1>2 DEF IInv, Shapes, GoOnline, ride, editor
  <1>4. ASSUME NEW k \in Text PROVE TrueEntry(k)'
    BY <1>1 DEF IInv, TrueEntry, Enabled
  <1>5. Attended'
    <2>1. settled \in Text /\ field' = field /\ settled' = settled
      BY DEF IInv, Shapes, GoOnline, editor
    <2>2. cache[settled].read # "idle" => cache'[settled].read # "idle"
      BY <1>1, <2>1
    <2>3. cache'[settled].read # "fetching" => cache'[settled].failed = cache[settled].failed
      BY <1>1, <2>1
    <2>4. cache'[settled].data = cache[settled].data
      BY <1>1, <2>1
    <2> QED BY <2>1, <2>2, <2>3, <2>4 DEF IInv, Attended, Enabled
  <1> QED BY <1>3, <1>4, <1>5 DEF IInv, GoOnline, editor

\* The editor's other steps, the swap, the location and the page's visits leave
\* the entries alone.
LEMMA OthersKeep ==
    ASSUME IInv,
           \/ Close \/ Swap \/ LocateMe \/ Leave \/ Return
           \/ \E t \in Text : Type(t)
           \/ \E p \in Place : Select(p)
           \/ \E who \in locating : Located(who) \/ NotLocated(who)
           \/ UNCHANGED vars
    PROVE  IInv'
  <1> USE DEF IInv, Shapes, ride, editor, browser
  <1>1. CASE Close
    BY <1>1, EntriesKeep DEF Close
  <1>2. CASE Swap
    BY <1>2, EntriesKeep DEF Swap
  <1>3. CASE LocateMe
    BY <1>3, EntriesKeep DEF LocateMe
  <1>4. CASE Leave
    BY <1>4, EntriesKeep, EntryAssumption DEF Leave
  <1>5. CASE Return
    <2>1. Name(dropoff) \in Text
      BY NamesAreTexts
    <2>2. field = None
      BY <1>5 DEF Return
    <2> QED BY <1>5, <2>1, <2>2, EntriesKeep, EntryAssumption DEF Return
  <1>6. CASE \E t \in Text : Type(t)
    BY <1>6, EntriesKeep DEF Type
  <1>7. CASE \E p \in Place : Select(p)
    BY <1>7, EntriesKeep, EntryAssumption DEF Select
  <1>8. CASE \E who \in locating : Located(who)
    BY <1>8, EntriesKeep, EntryAssumption DEF Located
  <1>9. CASE \E who \in locating : NotLocated(who)
    BY <1>9, EntriesKeep DEF NotLocated
  <1>10. CASE UNCHANGED vars
    BY <1>10, EntriesKeep DEF vars
  <1> QED BY <1>1, <1>2, <1>3, <1>4, <1>5, <1>6, <1>7, <1>8, <1>9, <1>10

LEMMA StepKeeps == IInv /\ [Next]_vars => IInv'
  <1> SUFFICES ASSUME IInv, [Next]_vars PROVE IInv'
    OBVIOUS
  <1> QED
    BY SettleKeeps, PressKeeps, AnswerKeeps, FailKeeps, AgeKeeps, RefetchKeeps, GoOfflineKeeps,
       StallKeeps, GoOnlineKeeps, OthersKeep DEF Next

(***************************************************************************)
(* The recent places, the location and the device.                         *)
(***************************************************************************)

Distinct(places) == places \in Seq(Place) /\ Len(places) <= MaxRecent /\ IsInjective(places)

Rest ==
    /\ Distinct(recent)
    /\ locating \subseteq {"page", "rider"} /\ asked \in BOOLEAN
    /\ tour \in Tours

\* Where a place that is there stands.
LEMMA PositionIs ==
    ASSUME NEW place \in Place, Distinct(recent)
    PROVE  \/ /\ Position(place) \in 1..Len(recent)
              /\ recent[Position(place)] = place
           \/ /\ Position(place) = Len(recent) + 1
              /\ \A i \in 1..Len(recent) : recent[i] # place
  <1>1. DOMAIN recent = 1..Len(recent)
    BY DEF Distinct
  <1> QED BY <1>1 DEF Position, ToSet

\* saveRecentPlace keeps the places different and few.
LEMMA SavedIsDistinct ==
    ASSUME NEW place \in Place, Distinct(recent)
    PROVE  Distinct(Saved(place))
  <1> DEFINE old == Position(place)
             length == IF old <= Len(recent) THEN Len(recent) ELSE old
             kept == IF length < MaxRecent THEN length ELSE MaxRecent
             At(i) == IF i = 1 THEN place ELSE IF i <= old THEN recent[i - 1] ELSE recent[i]
             new == [i \in 1..kept |-> At(i)]
  <1>1. /\ Len(recent) \in Nat /\ MaxRecent \in Nat \ {0}
        /\ \A i \in 1..Len(recent) : recent[i] \in Place
        /\ \A i, j \in 1..Len(recent) : recent[i] = recent[j] => i = j
    BY EntryAssumption DEF Distinct, IsInjective
  <1>2. /\ old \in 1..(Len(recent) + 1)
        /\ \A i \in 1..Len(recent) : recent[i] = place => i = old
        /\ old <= Len(recent) => recent[old] = place
    BY <1>1, PositionIs
  <1>3. Saved(place) = new
    BY DEF Saved, Latest
  <1> HIDE DEF old
  <1>4. /\ length \in Nat /\ kept \in Nat /\ kept <= MaxRecent /\ kept <= length
        /\ \A i \in 2..kept : i <= old => i - 1 \in 1..Len(recent)
        /\ \A i \in 2..kept : ~(i <= old) => i \in 1..Len(recent)
    BY <1>1, <1>2
  <1> HIDE DEF length, kept
  <1>5. ASSUME NEW i \in 1..kept PROVE At(i) \in Place
    BY <1>1, <1>4, <1>5
  <1>6. new \in Seq(Place) /\ Len(new) = kept
    BY <1>4, <1>5
  <1>7. ASSUME NEW i \in 1..kept, NEW j \in 1..kept, At(i) = At(j)
        PROVE  i = j
    <2>1. ASSUME NEW k \in 2..kept PROVE At(k) # place
      BY <1>1, <1>2, <1>4
    <2>2. CASE i = 1 \/ j = 1
      BY <1>4, <1>7, <2>1, <2>2
    <2>3. CASE i # 1 /\ j # 1
      <3>1. i \in 2..kept /\ j \in 2..kept
        BY <1>4, <2>3
      <3>2. CASE i <= old /\ j <= old
        BY <1>1, <1>2, <1>4, <1>7, <3>1, <3>2
      <3>3. CASE ~(i <= old) /\ ~(j <= old)
        BY <1>1, <1>2, <1>4, <1>7, <3>1, <3>3
      <3>4. CASE i <= old /\ ~(j <= old)
        BY <1>1, <1>2, <1>4, <1>7, <3>1, <3>4
      <3>5. CASE ~(i <= old) /\ j <= old
        BY <1>1, <1>2, <1>4, <1>7, <3>1, <3>5
      <3> QED BY <3>2, <3>3, <3>4, <3>5
    <2> QED BY <2>2, <2>3
  <1>8. IsInjective(new)
    BY <1>7 DEF IsInjective
  <1> QED BY <1>3, <1>4, <1>6, <1>8 DEF Distinct

LEMMA InitRest == Init => Rest
  <1> SUFFICES ASSUME Init PROVE Rest
    OBVIOUS
  <1>1. MaxRecent >= 1
    BY EntryAssumption
  <1>2. Distinct(recent)
    <2>1. CASE recent = <<>>
      BY <1>1, <2>1, EntryAssumption DEF Distinct, IsInjective
    <2>2. CASE \E p \in Place : recent = <<p>>
      BY <1>1, <2>2, EntryAssumption DEF Distinct, IsInjective
    <2> QED BY <2>1, <2>2 DEF Init
  <1> QED BY <1>2 DEF Init, Rest

\* Only a selection changes the recent places.
LEMMA RestKeeps == Rest /\ [Next]_vars => Rest'
  <1> SUFFICES ASSUME Rest, [Next]_vars PROVE Rest'
    OBVIOUS
  <1> USE DEF Rest, ride, editor, browser
  <1>1. CASE Settle
    BY <1>1 DEF Settle
  <1>2. CASE Refetch \/ Close
    BY <1>2 DEF Refetch, Close
  <1>3. CASE Swap
    BY <1>3 DEF Swap, Locates
  <1>4. CASE LocateMe
    BY <1>4 DEF LocateMe
  <1>5. CASE Leave
    BY <1>5 DEF Leave
  <1>6. CASE Return
    BY <1>6 DEF Return, Locates
  <1>7. CASE \E key \in Text : Answer(key) \/ Fail(key) \/ Age(key) \/ Type(key)
    BY <1>7 DEF Answer, Fail, Age, Type
  <1>8. CASE \E f \in Fields : Press(f)
    BY <1>8 DEF Press
  <1>9. CASE \E p \in Place : Select(p)
    <2>1. PICK p \in Place : Select(p)
      BY <1>9
    <2>2. recent' = Saved(p) /\ Distinct(Saved(p))
      BY <2>1, SavedIsDistinct DEF Select
    <2>3. Distinct(recent')
      BY <2>2
    <2> QED BY <2>1, <2>3 DEF Select, Distinct
  <1>10. CASE \E who \in locating : Located(who) \/ NotLocated(who)
    BY <1>10 DEF Located, NotLocated
  <1>12. CASE GoOffline \/ GoOnline \/ \E key \in Text : Stall(key)
    BY <1>12 DEF GoOffline, GoOnline, Stall
  <1>11. CASE UNCHANGED vars
    BY <1>11 DEF vars
  <1> QED BY <1>1, <1>2, <1>3, <1>4, <1>5, <1>6, <1>7, <1>8, <1>9, <1>10, <1>11, <1>12 DEF Next

(***************************************************************************)
(* The theorems.                                                           *)
(***************************************************************************)

\* However long the rider selects places, the recent ones are different and at
\* most MaxRecent, and all other variables have their types.
THEOREM TypesHold == Spec => []TypeOK
  <1>1. IInv /\ Rest => TypeOK
    BY DEF IInv, Shapes, Rest, Distinct, Entry, TypeOK
  <1> QED BY <1>1, InitInv, StepKeeps, InitRest, RestKeeps, PTL DEF Spec

\* For every geocoder, every set of texts, every device and any number of keys,
\* faults and visits: the suggestions are of the text shown, and while there is
\* a network "No results found" is said only of a text that was answered with nothing.
THEOREM EditorSpeaksHolds == Spec => []EditorSpeaksOfItsText
  <1>1. IInv => EditorSpeaksOfItsText
    BY InvariantMatches, InvariantAnswers DEF EditorSpeaksOfItsText
  <1> QED BY <1>1, InitInv, StepKeeps, PTL DEF Spec

=============================================================================
