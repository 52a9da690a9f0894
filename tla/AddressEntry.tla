----------------------------- MODULE AddressEntry -----------------------------
(***************************************************************************)
(* The addresses of a ride on the rider's HomePage: the editor of one      *)
(* field (the card on a desktop, a sheet on a phone), whose text reaches   *)
(* the geocoder 300 ms after the last key and whose answers are kept by    *)
(* react-query; the location the browser finds, at start-up or when asked; *)
(* the recent places in localStorage; the network, which comes and goes.   *)
(* Keys, timers, answers and locations interleave freely.  What is done    *)
(* with the addresses is RiderApp.                                         *)
(***************************************************************************)
EXTENDS Naturals, Sequences, SequencesExt

CONSTANTS
  Text,        \* what the editor may hold; the names of places are texts
  Place,       \* addresses, each standing for its name
  Long,        \* texts of two characters or more, trimmed
  Blank,       \* the empty text
  Trim,        \* text -> the text without spaces at its ends
  Finds,       \* Long -> the places the geocoder knows
  Here,        \* where the rider is
  MaxRecent,
  Tours,       \* bounds: on which device, keys pressed, faults and visits
  None

ASSUME EntryAssumption ==
  /\ Place \subseteq Text /\ Here \in Place /\ Blank \in Text \ Long /\ Long \subseteq Text
  /\ Trim \in [Text -> Text] /\ Finds \in [Long -> SUBSET Place]
  /\ \A p \in Place : Trim[p] = p
  /\ MaxRecent \in Nat \ {0}
  /\ None \notin Text /\ \A found \in SUBSET Place : found # None
  /\ \A t \in Tours : t.phone \in BOOLEAN /\ {t.keys, t.faults, t.visits} \subseteq Nat

VARIABLES
  pickup, dropoff,  \* RideContext
  field,      \* addressField: the field being edited, or None
  text,       \* the text of the editor
  settled,    \* ... as useDebounce last passed it on
  cache,      \* react-query's entries: the text is the key, spaces included
  locating,   \* the location requests in flight, of the page or of the rider
  asked,      \* mountedRef: the page has asked for the location
  recent,     \* rc_recent_places
  home,       \* HomePage is shown
  online,     \* onlineManager: what the browser says of its network
  tour, left

vars == <<pickup, dropoff, field, text, settled, cache, locating, asked, recent, home, online, tour, left>>
ride == <<pickup, dropoff>>
editor == <<field, text, settled>>
browser == <<locating, asked, recent, home, online>>

Fields == {"pickup", "dropoff"}
Unread == [data |-> None, fresh |-> FALSE, read |-> "idle", failed |-> FALSE]

Use(what) == left[what] > 0 /\ left' = [left EXCEPT ![what] = @ - 1]

----------------------------------------------------------------------------
(* useAddressSearch *)

Debouncing == Trim[text] \in Long /\ Trim[text] # Trim[settled]

Data(key) == IF cache[key].data = None THEN {} ELSE cache[key].data

\* Mutant: the answers of the last key stay until the next one's come.
ResultsLast == Data(settled)

Results == IF Debouncing THEN {} ELSE Data(settled)

Loading == field # None /\ (Debouncing \/ cache[settled].read = "fetching")

Enabled(f, key) == f # None /\ Trim[key] \in Long

\* A read that starts without a network is paused, and is not a failed one.
Send(entry) == [entry EXCEPT !.read = IF online THEN "fetching" ELSE "paused",
                             !.failed = @ /\ entry.data # None]

\* A key that becomes the enabled one is read unless its answer is fresh; a
\* read under way, or paused, is joined.
Observed(f, key) ==
  IF Enabled(f, key) /\ (~Enabled(field, settled) \/ key # settled)
       /\ ~cache[key].fresh /\ cache[key].read = "idle"
  THEN [cache EXCEPT ![key] = Send(@)]
  ELSE cache

Settle ==
  /\ home /\ settled # text
  /\ settled' = text
  /\ cache' = Observed(field, text)
  /\ UNCHANGED <<ride, field, text, browser, tour, left>>

Answer(key) ==
  /\ cache[key].read = "fetching"
  /\ cache' = [cache EXCEPT ![key] = [data |-> Finds[Trim[key]], fresh |-> TRUE,
                                      read |-> "idle", failed |-> FALSE]]
  /\ UNCHANGED <<ride, editor, browser, tour, left>>

\* The last of the attempts failed; an earlier answer is kept.
Fail(key) ==
  /\ cache[key].read = "fetching" /\ Use("faults")
  /\ cache' = [cache EXCEPT ![key].read = "idle", ![key].failed = TRUE]
  /\ UNCHANGED <<ride, editor, browser, tour>>

\* staleTime is over.
Age(key) ==
  /\ cache[key].fresh /\ Use("faults")
  /\ cache' = [cache EXCEPT ![key].fresh = FALSE]
  /\ UNCHANGED <<ride, editor, browser, tour>>

\* The window gets the focus, or "Try again" is pressed.
Refetch ==
  /\ Enabled(field, settled) /\ cache[settled].read = "idle" /\ ~cache[settled].fresh
  /\ cache' = [cache EXCEPT ![settled] = Send(@)]
  /\ UNCHANGED <<ride, editor, browser, tour, left>>

----------------------------------------------------------------------------
(* The network *)

GoOffline ==
  /\ online /\ online' = FALSE /\ Use("faults")
  /\ UNCHANGED <<ride, editor, cache, locating, asked, recent, home, tour>>

\* An attempt fails without a network, and the next one waits for it.
Stall(key) ==
  /\ ~online /\ cache[key].read = "fetching"
  /\ cache' = [cache EXCEPT ![key].read = "paused"]
  /\ UNCHANGED <<ride, editor, browser, tour, left>>

\* Mutant: only the read of the key in use goes on.
ResumedInUse(key) == cache[key].read = "paused" /\ key = settled /\ Enabled(field, key)

Resumed(key) == cache[key].read = "paused"

\* Every paused read goes on, and the key in use is read again if it is stale.
GoOnline ==
  /\ ~online /\ online' = TRUE
  /\ cache' = [key \in Text |->
       IF Resumed(key) THEN [cache[key] EXCEPT !.read = "fetching"]
       ELSE IF key = settled /\ Enabled(field, key) /\ cache[key].read = "idle" /\ ~cache[key].fresh
       THEN [cache[key] EXCEPT !.read = "fetching", !.failed = @ /\ cache[key].data # None]
       ELSE cache[key]]
  /\ UNCHANGED <<ride, editor, locating, asked, recent, home, tour, left>>

----------------------------------------------------------------------------
(* The editor *)

Name(place) == IF place = None THEN Blank ELSE place
Value(f) == IF f = "pickup" THEN pickup ELSE dropoff

\* The sheet of a phone covers the page.
Covered == tour.phone /\ field # None

Press(f) ==
  /\ home /\ field # f /\ ~Covered
  /\ field' = f /\ text' = Name(Value(f))
  /\ cache' = Observed(f, settled)
  /\ UNCHANGED <<ride, settled, browser, tour, left>>

Type(t) ==
  /\ field # None /\ t # text /\ Use("keys")
  /\ text' = t
  /\ UNCHANGED <<ride, field, settled, cache, browser, tour>>

\* Escape, Tab, or a press beside the sheet.
Close ==
  /\ field # None
  /\ field' = None
  /\ UNCHANGED <<ride, text, settled, cache, browser, tour, left>>

ShowsRecent == Trim[text] \notin Long

\* Mutant: a failed search looks like an empty one, as it does on a desktop.
NothingFoundFailed == ~ShowsRecent /\ ~Loading /\ Results = {}

\* "No results found", on the sheet.
NothingFound == ~ShowsRecent /\ ~Loading /\ ~cache[settled].failed /\ Results = {}

\* The card lists what it has beside the skeletons; the sheet waits.
Listed ==
  IF ShowsRecent THEN ToSet(recent)
  ELSE IF tour.phone /\ (Loading \/ cache[settled].failed) THEN {} ELSE Results

Latest(length) == 1..(IF length < MaxRecent THEN length ELSE MaxRecent)

\* Mutant: the place is put in front of what is there.
SavedTwice(place) ==
  [i \in Latest(Len(recent) + 1) |-> IF i = 1 THEN place ELSE recent[i - 1]]

\* Where the place stands, or the first free position.
Position(place) ==
  IF place \in ToSet(recent) THEN CHOOSE i \in DOMAIN recent : recent[i] = place ELSE Len(recent) + 1

\* saveRecentPlace: the place, which stands at most once, goes to the front, the ones
\* that stood before it move back by one, and the list is cut.
Saved(place) ==
  LET old == Position(place)
      length == IF old <= Len(recent) THEN Len(recent) ELSE old
  IN  [i \in Latest(length) |-> IF i = 1 THEN place ELSE IF i <= old THEN recent[i - 1] ELSE recent[i]]

\* The sheet keeps its text until it opens again.
Select(place) ==
  /\ field # None /\ place \in Listed
  /\ recent' = Saved(place)
  /\ IF field = "pickup" THEN pickup' = place /\ UNCHANGED dropoff
                         ELSE dropoff' = place /\ UNCHANGED pickup
  /\ field' = None
  /\ text' = IF tour.phone THEN text ELSE Blank
  /\ UNCHANGED <<settled, cache, locating, asked, home, online, tour, left>>

----------------------------------------------------------------------------
(* The location *)

\* HomePage's effect: once per visit, when there is no pickup.
Locates(here, place, done) ==
  IF here /\ ~done /\ place = None
  THEN locating' = locating \cup {"page"} /\ asked' = TRUE
  ELSE asked' = done /\ UNCHANGED locating

\* The swap button, or one field dragged over the other.
Swap ==
  /\ home /\ ~Covered /\ pickup # dropoff
  /\ Use("keys")
  /\ pickup' = dropoff /\ dropoff' = pickup
  /\ Locates(home, dropoff, asked)
  /\ UNCHANGED <<editor, cache, recent, home, online, tour>>

LocateMe ==
  /\ home /\ ~Covered /\ "rider" \notin locating /\ Use("keys")
  /\ locating' = locating \cup {"rider"}
  /\ UNCHANGED <<ride, editor, cache, asked, recent, home, online, tour>>

\* The answer is the pickup, whatever the pickup is by now and whichever page is
\* shown; the sheet of the pickup starts again from its name.
Located(who) ==
  /\ who \in locating
  /\ locating' = locating \ {who}
  /\ pickup' = Here
  /\ text' = IF tour.phone /\ field = "pickup" /\ pickup # Here THEN Here ELSE text
  /\ UNCHANGED <<dropoff, field, settled, cache, asked, recent, home, online, tour, left>>

NotLocated(who) ==
  /\ who \in locating /\ Use("faults")
  /\ locating' = locating \ {who}
  /\ UNCHANGED <<ride, editor, cache, asked, recent, home, online, tour>>

----------------------------------------------------------------------------
(* The page *)

\* The context and the answers outlive the page; after a completed ride the
\* context is cleared (clearRide).
Leave ==
  /\ home /\ home' = FALSE /\ Use("visits")
  /\ field' = None /\ text' = Blank /\ settled' = Blank /\ asked' = FALSE
  /\ \/ UNCHANGED ride
     \/ pickup' = None /\ dropoff' = None
  /\ UNCHANGED <<cache, locating, recent, online, tour>>

\* A sheet starts from the name of the drop-off.
Return ==
  /\ ~home /\ home' = TRUE
  /\ text' = (IF tour.phone THEN Name(dropoff) ELSE Blank) /\ settled' = text'
  /\ Locates(TRUE, pickup, FALSE)
  /\ UNCHANGED <<ride, field, cache, recent, online, tour, left>>

Init ==
  /\ tour \in Tours
  /\ left = [keys |-> tour.keys, faults |-> tour.faults, visits |-> tour.visits]
  /\ pickup = None /\ dropoff = None
  /\ field = None /\ text = Blank /\ settled = Blank
  /\ cache = [key \in Text |-> Unread]
  /\ locating = {"page"} /\ asked = TRUE /\ home = TRUE /\ online = TRUE
  /\ recent \in {<<>>} \cup {<<p>> : p \in Place \ {Here}}

Next ==
  \/ Settle \/ Refetch \/ Close \/ Swap \/ LocateMe \/ Leave \/ Return \/ GoOffline \/ GoOnline
  \/ \E key \in Text : Answer(key) \/ Fail(key) \/ Stall(key) \/ Age(key) \/ Type(key)
  \/ \E f \in Fields : Press(f)
  \/ \E p \in Place : Select(p)
  \/ \E who \in locating : Located(who) \/ NotLocated(who)

Spec == Init /\ [][Next]_vars

----------------------------------------------------------------------------
(* Properties *)

\* The recent places are at most MaxRecent different ones.
TypeOK ==
  /\ {pickup, dropoff} \subseteq Place \cup {None}
  /\ field \in Fields \cup {None}
  /\ {text, settled} \subseteq Text
  /\ \A key \in Text : cache[key].data = None \/ cache[key].data \in SUBSET Place
  /\ locating \subseteq {"page", "rider"}
  /\ {asked, home, online} \subseteq BOOLEAN
  /\ recent \in Seq(Place) /\ Len(recent) <= MaxRecent /\ IsInjective(recent)
  /\ tour \in Tours

\* The editor never offers the places of another text than the one it shows,
\* however keys, timers, late and remembered answers follow each other
\* (rider_web: useAddressSearch.ts:10, 19).
SuggestionsMatchText ==
  field # None /\ ~ShowsRecent => Listed \subseteq Finds[Trim[text]]

\* While there is a network the sheet says that nothing was found only of a text
\* the geocoder answered with nothing: not of one whose search has not been
\* answered, failed, or was paused without a network and has just gone on
\* (AddressSearchSheet.tsx:62).
EmptyIsAnswered ==
  online /\ tour.phone /\ field # None /\ NothingFound => Finds[Trim[text]] = {}

\* Not so without one: a paused search is neither loading nor failed, and the sheet
\* finds nothing for a text that was never sent.
EmptyIsAnsweredOffline ==
  tour.phone /\ field # None /\ NothingFound => Finds[Trim[text]] = {}

\* What the editor says is about the text it shows.
EditorSpeaksOfItsText == SuggestionsMatchText /\ EmptyIsAnswered

\* docs/rideconnect_ux_blueprint.md:480: "pickup may default to current location
\* if allowed".  The location the page asked for replaces a pickup the rider has
\* chosen before it was found.
LocationIsDefault ==
  [][locating \ locating' = {"page"} /\ pickup # None => pickup' = pickup]_vars
=============================================================================
