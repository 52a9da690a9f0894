----------------------- MODULE IdempotentCreate_proofs -----------------------
(***************************************************************************)
(* Proofs about IdempotentCreate: type correctness, one ride and one       *)
(* answer per key, and that the handlers implement RequestPromise.         *)
(*                                                                         *)
(* Between the flush of a key's row and the commit that publishes it only  *)
(* PostgreSQL's unique index tells the requests apart; afterwards the row  *)
(* does.  IInv says so: one request holds a key, the row it will replace   *)
(* has no answer, and no other ride was inserted under the key.            *)
(***************************************************************************)
EXTENDS IdempotentCreate, TLAPS

Holds(s) == sess[s].pc \in Begun /\ sess[s].key # NoKey

\* A key is held by one request at a time.
OneHolder ==
    \A s, t \in Request : Holds(s) /\ Holds(t) /\ sess[s].key = sess[t].key => s = t

\* The row of a key that is held has no answer, and is of the holder's request.
HeldRow ==
    \A s \in Request : Holds(s) =>
        /\ record[sess[s].key].ride = NoRide
        /\ record[sess[s].key].body \in {NoBody, sess[s].body}

\* Until the holder has a ride there is none of its key; then there is no other.
HeldRide ==
    \A s \in Request, r \in Ride : Holds(s) /\ rides[r].key = sess[s].key =>
        sess[s].pc = "complete" /\ sess[s].ride = r

\* A request in flight has a body, and its ride was made for that body.
GoodRequest ==
    \A s \in Request :
        /\ sess[s].pc # "idle" => sess[s].body \in Body
        /\ sess[s].pc = "flush" => sess[s].key \in Key
        /\ sess[s].pc = "complete" =>
              sess[s].ride \in Ride /\ rides[sess[s].ride].status # "NONE" /\ rides[sess[s].ride].body = sess[s].body

\* A ride inserted under a key is what the committed row of the key stands for.
Recorded ==
    \A r \in Ride : rides[r].key # NoKey =>
        /\ rides[r].status # "NONE" /\ rides[r].body \in Body
        /\ record[rides[r].key].body = rides[r].body
        /\ record[rides[r].key].ride \in {NoRide, r}

\* A row that does not exist holds no answer; a stored answer has a request.
GoodRecord ==
    \A k \in Key : record[k].body = NoBody => record[k].ride = NoRide

\* Every answer sent under a key is the stored one.
Replayable ==
    \A a \in answers : a.key # NoKey => record[a.key] = [body |-> a.body, ride |-> a.ride]

IInv ==
    /\ TypeOK
    /\ OneHolder
    /\ HeldRow
    /\ HeldRide
    /\ GoodRequest
    /\ Recorded
    /\ GoodRecord
    /\ OneRidePerKey
    /\ Replayable

-----------------------------------------------------------------------------

USE NoneAssumption

LEMMA InitInv == ASSUME Init PROVE IInv
<1>1. TypeOK
  BY DEF Init, TypeOK, RecordRow, NoRecord, RideRow, Header, Session, Idle
<1>2. \A s \in Request : sess[s] = Idle
  BY DEF Init
<1>3. \A s \in Request : ~Holds(s)
  BY <1>2 DEF Holds, Idle
<1>4. OneHolder /\ HeldRow /\ HeldRide
  BY <1>3 DEF OneHolder, HeldRow, HeldRide
<1>5. GoodRequest
  BY <1>2 DEF GoodRequest, Idle
<1>6. Recorded /\ GoodRecord /\ OneRidePerKey /\ Replayable
  BY DEF Init, Recorded, GoodRecord, NoRecord, OneRidePerKey, Replayable
<1> QED BY <1>1, <1>4, <1>5, <1>6 DEF IInv

\* A request that ends, goes on or starts, with the tables as they are.
LEMMA SessionStep ==
    ASSUME IInv, NEW s \in Request, NEW state \in Session, Put(s, state),
           UNCHANGED <<record, rides, answers>>, rider' \in BOOLEAN,
           state.pc # "idle" => state.body \in Body,
           state.pc = "flush" => state.key \in Key,
           state.pc = "complete" =>
              state.ride \in Ride /\ rides[state.ride].status # "NONE" /\ rides[state.ride].body = state.body,
           state.pc \in Begun /\ state.key # NoKey =>
              /\ \A t \in Request \ {s} : Holds(t) => sess[t].key # state.key
              /\ record[state.key].ride = NoRide
              /\ record[state.key].body \in {NoBody, state.body}
              /\ \A r \in Ride : rides[r].key = state.key => state.pc = "complete" /\ state.ride = r
    PROVE  IInv'
<1>1. /\ sess'[s] = state
      /\ \A t \in Request \ {s} : sess'[t] = sess[t]
  BY DEF IInv, TypeOK, Put
<1>2. /\ Holds(s)' <=> (state.pc \in Begun /\ state.key # NoKey)
      /\ \A t \in Request \ {s} : Holds(t)' <=> Holds(t)
  BY <1>1 DEF Holds
<1>3. TypeOK'
  BY DEF IInv, TypeOK, Put
<1>4. OneHolder'
  BY <1>1, <1>2 DEF IInv, OneHolder
<1>5. HeldRow'
  BY <1>1, <1>2 DEF IInv, HeldRow
<1>6. HeldRide'
  BY <1>1, <1>2 DEF IInv, HeldRide
<1>7. GoodRequest'
  BY <1>1 DEF IInv, GoodRequest
<1>8. (Recorded /\ GoodRecord /\ OneRidePerKey /\ Replayable)'
  BY DEF IInv, Recorded, GoodRecord, OneRidePerKey, Replayable
<1> QED BY <1>3, <1>4, <1>5, <1>6, <1>7, <1>8 DEF IInv

LEMMA IdleGood == Idle \in Session /\ Idle.pc = "idle"
BY DEF Idle, Session, Header

LEMMA BeginStep ==
    ASSUME IInv, NEW s \in Request, NEW k \in Header, NEW b \in Body, Begin(s, k, b)
    PROVE  IInv'
<1>1. CASE k = NoKey
  <2> DEFINE state == [pc |-> "rider", key |-> k, body |-> b, ride |-> NoRide]
  <2>1. state \in Session
    BY DEF Session
  <2> QED BY <1>1, <2>1, SessionStep DEF Begin, IInv, TypeOK
<1>2. CASE k # NoKey
  <2> DEFINE state == [pc |-> "flush", key |-> k, body |-> b, ride |-> NoRide]
  <2>1. state \in Session
    BY DEF Session
  <2> QED BY <1>2, <2>1, SessionStep DEF Begin, Begun, Header, IInv, TypeOK
<1> QED BY <1>1, <1>2

LEMMA ReplayStep ==
    ASSUME IInv, NEW k \in Key, NEW b \in Body, Replay(k, b)
    PROVE  IInv'
<1>1. UNCHANGED <<rider, record, rides, sess>>
  BY DEF Replay
<1> DEFINE a == [key |-> k, body |-> b, ride |-> record[k].ride]
<1>2. a \in Answer /\ answers' = answers \cup {a}
  BY DEF IInv, TypeOK, Replay, HasAnswer, Answer, Header, RecordRow
<1>3. TypeOK'
  BY <1>1, <1>2 DEF IInv, TypeOK
<1>4. record[k] = [body |-> b, ride |-> record[k].ride]
  BY DEF IInv, TypeOK, Replay, HasAnswer, RecordRow
<1>5. Replayable'
  BY <1>1, <1>2, <1>4 DEF IInv, Replayable
<1>6. (OneHolder /\ HeldRow /\ HeldRide /\ GoodRequest /\ Recorded /\ GoodRecord /\ OneRidePerKey)'
  BY <1>1 DEF IInv, OneHolder, HeldRow, HeldRide, GoodRequest, Recorded, GoodRecord, OneRidePerKey, Holds
<1> QED BY <1>3, <1>5, <1>6 DEF IInv

\* A request in flight that goes to another step before it has a ride.
LEMMA StayStep ==
    ASSUME IInv, NEW s \in Request, NEW pc \in {"rider", "addrider", "lookup", "insert"}, At(s, pc),
           sess[s].pc \in Begun \ {"complete"}, UNCHANGED <<rider, record, rides, answers>>
    PROVE  IInv'
<1> DEFINE state == [sess[s] EXCEPT !.pc = pc]
<1>1. sess[s] \in Session
  BY DEF IInv, TypeOK
<1>2. /\ state \in Session /\ state.pc = pc
      /\ state.key = sess[s].key /\ state.body = sess[s].body /\ state.ride = sess[s].ride
  BY <1>1 DEF Session
<1>3. state.body \in Body
  BY <1>2 DEF IInv, GoodRequest, Begun
<1>4. state.key # NoKey => Holds(s)
  BY <1>2 DEF Holds
<1> HIDE DEF state
<1>5. state.pc \in Begun /\ state.key # NoKey =>
        /\ \A t \in Request \ {s} : Holds(t) => sess[t].key # state.key
        /\ record[state.key].ride = NoRide
        /\ record[state.key].body \in {NoBody, state.body}
        /\ \A r \in Ride : rides[r].key # state.key
  BY <1>2, <1>4 DEF IInv, OneHolder, HeldRow, HeldRide
<1>6. Put(s, state)
  BY DEF At, state
<1> QED BY <1>2, <1>3, <1>5, <1>6, SessionStep DEF IInv, TypeOK

LEMMA AbortStep ==
    ASSUME IInv, NEW s \in Request, Put(s, Idle), UNCHANGED <<rider, record, rides, answers>>
    PROVE  IInv'
BY IdleGood, SessionStep DEF Begun, IInv, TypeOK

LEMMA FlushStep ==
    ASSUME IInv, NEW s \in Request, Flush(s)
    PROVE  IInv'
<1>1. CASE Put(s, Idle)
  BY <1>1, AbortStep DEF Flush
<1>2. CASE record[sess[s].key] = NoRecord /\ At(s, "rider")
  <2> DEFINE state == [sess[s] EXCEPT !.pc = "rider"]
  <2>1. sess[s] \in Session /\ sess[s].key \in Key /\ sess[s].body \in Body
    BY DEF IInv, TypeOK, GoodRequest, Flush
  <2>2. /\ state \in Session /\ state.pc = "rider"
        /\ state.key = sess[s].key /\ state.body = sess[s].body
    BY <2>1 DEF Session
  <2>3. Put(s, state)
    BY <1>2 DEF At
  <2> HIDE DEF state
  <2>4. \A t \in Request \ {s} : Holds(t) => sess[t].key # state.key
    BY <1>2, <2>2 DEF Flush, Free, Holds
  <2>5. record[state.key] = NoRecord
    BY <1>2, <2>2
  <2>6. \A r \in Ride : rides[r].key # state.key
    BY <2>1, <2>2, <2>5 DEF IInv, Recorded, NoRecord
  <2> QED BY <2>1, <2>2, <2>3, <2>4, <2>5, <2>6, SessionStep DEF Flush, NoRecord, IInv, TypeOK
<1> QED BY <1>1, <1>2 DEF Flush

LEMMA FindRiderStep ==
    ASSUME IInv, NEW s \in Request, FindRider(s)
    PROVE  IInv'
BY StayStep DEF FindRider, Begun

LEMMA LookUpStep ==
    ASSUME IInv, NEW s \in Request, LookUp(s)
    PROVE  IInv'
<1>1. CASE At(s, "insert")
  BY <1>1, StayStep DEF LookUp, Begun
<1>2. ASSUME NEW r \in Duplicates(sess[s].body), Put(s, [sess[s] EXCEPT !.pc = "complete", !.ride = r])
      PROVE  IInv'
  <2> DEFINE state == [sess[s] EXCEPT !.pc = "complete", !.ride = r]
  <2>1. sess[s] \in Session /\ sess[s].body \in Body /\ r \in Ride
    BY DEF IInv, TypeOK, GoodRequest, LookUp, Duplicates
  <2>2. /\ state \in Session /\ state.pc = "complete" /\ state.ride = r
        /\ state.key = sess[s].key /\ state.body = sess[s].body
    BY <2>1 DEF Session
  <2>3. state.key # NoKey => Holds(s)
    BY <2>2 DEF LookUp, Holds, Begun
  <2>4. rides[r].status # "NONE" /\ rides[r].body = state.body
    BY <2>2 DEF Duplicates
  <2>5. Put(s, state)
    BY <1>2
  <2> HIDE DEF state
  <2>6. state.key # NoKey =>
          /\ \A t \in Request \ {s} : Holds(t) => sess[t].key # state.key
          /\ record[state.key].ride = NoRide
          /\ record[state.key].body \in {NoBody, state.body}
          /\ \A q \in Ride : rides[q].key # state.key
    BY <2>2, <2>3 DEF IInv, OneHolder, HeldRow, HeldRide, LookUp
  <2> QED BY <2>1, <2>2, <2>4, <2>5, <2>6, SessionStep DEF LookUp, IInv, TypeOK
<1> QED BY <1>1, <1>2 DEF LookUp

\* What a commit of the key's row does to the rows of the other keys and holders.
LEMMA StoredFacts ==
    ASSUME IInv, NEW s \in Request, sess[s].pc \in Begun, NEW ride \in Ride \cup {NoRide},
           record' = Stored(sess[s].key, [body |-> sess[s].body, ride |-> ride])
    PROVE  /\ record' \in [Key -> RecordRow]
           /\ sess[s].key # NoKey => record'[sess[s].key] = [body |-> sess[s].body, ride |-> ride]
           /\ \A k \in Key : k # sess[s].key => record'[k] = record[k]
           /\ \A t \in Request \ {s} : Holds(t) => sess[t].key # sess[s].key /\ record'[sess[t].key] = record[sess[t].key]
           /\ GoodRecord'
<1>1. sess[s] \in Session /\ sess[s].body \in Body /\ sess[s].key \in Header
  BY DEF IInv, TypeOK, GoodRequest, Begun, Session
<1>2. [body |-> sess[s].body, ride |-> ride] \in RecordRow
  BY <1>1 DEF RecordRow
<1>3. /\ record' \in [Key -> RecordRow]
      /\ sess[s].key # NoKey => record'[sess[s].key] = [body |-> sess[s].body, ride |-> ride]
      /\ \A k \in Key : k # sess[s].key => record'[k] = record[k]
  BY <1>1, <1>2 DEF IInv, TypeOK, Stored, Header
<1>4. \A t \in Request \ {s} : Holds(t) => sess[t].key # sess[s].key
  BY DEF IInv, OneHolder, Holds
<1>5. \A t \in Request : Holds(t) => sess[t].key \in Key
  BY DEF IInv, TypeOK, Session, Header, Holds
<1>6. GoodRecord'
  BY <1>1, <1>3 DEF IInv, GoodRecord
<1> QED BY <1>3, <1>4, <1>5, <1>6

\* While a request holds a key and no ride has been stored for it, nobody was
\* answered under it.
LEMMA HeldUnanswered ==
    ASSUME IInv, NEW s \in Request, Holds(s), NEW a \in answers
    PROVE  a.key # sess[s].key
<1>1. a.ride \in Ride /\ record[sess[s].key].ride = NoRide /\ sess[s].key # NoKey
  BY DEF IInv, TypeOK, HeldRow, Answer, Holds
<1>2. SUFFICES ASSUME a.key = sess[s].key PROVE FALSE
  OBVIOUS
<1>3. record[a.key] = [body |-> a.body, ride |-> a.ride]
  BY <1>1, <1>2 DEF IInv, Replayable
<1>4. record[a.key].ride = a.ride
  BY <1>3
<1> QED BY <1>1, <1>2, <1>4

LEMMA AddRiderStep ==
    ASSUME IInv, NEW s \in Request, AddRider(s)
    PROVE  IInv'
<1>1. CASE Put(s, Idle) /\ UNCHANGED <<rider, record>>
  BY <1>1, AbortStep DEF AddRider
<1>2. CASE rider' = TRUE /\ record' = InProgress(s) /\ At(s, "lookup")
  <2> DEFINE k == sess[s].key
  <2>1. sess[s].pc = "addrider" /\ sess[s].pc \in Begun
    BY DEF AddRider, Begun
  <2>2. /\ record' \in [Key -> RecordRow]
        /\ k # NoKey => record'[k] = [body |-> sess[s].body, ride |-> NoRide]
        /\ \A j \in Key : j # k => record'[j] = record[j]
        /\ \A t \in Request \ {s} : Holds(t) => sess[t].key # k /\ record'[sess[t].key] = record[sess[t].key]
        /\ GoodRecord'
    BY <1>2, <2>1, StoredFacts DEF InProgress
  <2>3. /\ sess[s] \in Session
        /\ sess'[s] = [sess[s] EXCEPT !.pc = "lookup"]
        /\ \A t \in Request \ {s} : sess'[t] = sess[t]
        /\ sess' \in [Request -> Session]
    BY <1>2 DEF IInv, TypeOK, At, Put, Session
  <2>4. /\ sess'[s].pc = "lookup" /\ sess'[s].key = k /\ sess'[s].body = sess[s].body
        /\ \A t \in Request : Holds(t)' <=> Holds(t)
    BY <2>1, <2>3 DEF Session, Holds, Begun
  <2>5. UNCHANGED <<rides, answers>>
    BY DEF AddRider
  <2>6. TypeOK'
    BY <1>2, <2>2, <2>3, <2>5 DEF IInv, TypeOK
  <2>7. OneHolder'
    <3> SUFFICES ASSUME NEW t \in Request, NEW u \in Request, Holds(t)', Holds(u)', sess'[t].key = sess'[u].key
                 PROVE  t = u
      BY DEF OneHolder
    <3>1. Holds(t) /\ Holds(u) /\ sess[t].key = sess[u].key
      BY <2>3, <2>4
    <3> QED BY <3>1 DEF IInv, OneHolder
  <2>8. HeldRow'
    <3> SUFFICES ASSUME NEW t \in Request, Holds(t)'
                 PROVE  record'[sess'[t].key].ride = NoRide /\ record'[sess'[t].key].body \in {NoBody, sess'[t].body}
      BY DEF HeldRow
    <3>1. CASE t = s
      BY <2>2, <2>4, <3>1 DEF Holds
    <3>2. CASE t # s
      BY <2>2, <2>3, <2>4, <3>2 DEF IInv, HeldRow
    <3> QED BY <3>1, <3>2
  <2>9. HeldRide'
    <3> SUFFICES ASSUME NEW t \in Request, NEW q \in Ride, Holds(t)', rides'[q].key = sess'[t].key
                 PROVE  sess'[t].pc = "complete" /\ sess'[t].ride = q
      BY DEF HeldRide
    <3>1. Holds(t) /\ rides[q].key = sess[t].key
      BY <2>3, <2>4, <2>5
    <3>2. sess[t].pc = "complete" /\ sess[t].ride = q
      BY <3>1 DEF IInv, HeldRide
    <3> QED BY <2>1, <2>3, <3>2
  <2>10. GoodRequest'
    BY <2>1, <2>3, <2>4, <2>5 DEF IInv, GoodRequest
  <2>11. \A r \in Ride : rides[r].key # NoKey => rides[r].key # k /\ rides[r].key \in Key
    BY <2>1 DEF IInv, HeldRide, Holds, TypeOK, RideRow, Header
  <2>12. Recorded'
    BY <2>2, <2>5, <2>11 DEF IInv, Recorded
  <2>13. OneRidePerKey'
    BY <2>5 DEF IInv, OneRidePerKey
  <2>14. \A a \in answers : a.key # NoKey => a.key # k /\ a.key \in Key
    BY <2>1, HeldUnanswered DEF Holds, IInv, TypeOK, Answer, Header
  <2>15. Replayable'
    BY <2>2, <2>5, <2>14 DEF IInv, Replayable
  <2> QED BY <2>2, <2>6, <2>7, <2>8, <2>9, <2>10, <2>12, <2>13, <2>15 DEF IInv
<1> QED BY <1>1, <1>2 DEF AddRider

LEMMA InsertRideStep ==
    ASSUME IInv, NEW s \in Request, InsertRide(s)
    PROVE  IInv'
<1> DEFINE k == sess[s].key
<1>1. sess[s].pc = "insert" /\ sess[s].pc \in Begun
  BY DEF InsertRide, Begun
<1>2. PICK r \in Ride :
        /\ rides[r].status = "NONE"
        /\ rides' = [rides EXCEPT ![r] = [status |-> "OPEN", body |-> sess[s].body, key |-> k]]
        /\ record' = Published(s)
        /\ Put(s, [sess[s] EXCEPT !.pc = "complete", !.ride = r])
  BY DEF InsertRide
<1>3. /\ record' \in [Key -> RecordRow]
      /\ k # NoKey => record'[k] = [body |-> sess[s].body, ride |-> NoRide]
      /\ \A j \in Key : j # k => record'[j] = record[j]
      /\ \A t \in Request \ {s} : Holds(t) => sess[t].key # k /\ record'[sess[t].key] = record[sess[t].key]
      /\ GoodRecord'
  BY <1>1, <1>2, StoredFacts DEF Published, InProgress
<1>4. /\ sess[s] \in Session
      /\ sess'[s] = [sess[s] EXCEPT !.pc = "complete", !.ride = r]
      /\ \A t \in Request \ {s} : sess'[t] = sess[t]
      /\ sess' \in [Request -> Session]
  BY <1>2 DEF IInv, TypeOK, Put, Session
<1>5. /\ sess'[s].pc = "complete" /\ sess'[s].key = k /\ sess'[s].body = sess[s].body /\ sess'[s].ride = r
      /\ \A t \in Request : Holds(t)' <=> Holds(t)
  BY <1>1, <1>4 DEF Session, Holds, Begun
<1>6. UNCHANGED <<rider, answers>>
  BY DEF InsertRide
<1>7. sess[s].body \in Body /\ k \in Header
  BY <1>1, <1>4 DEF IInv, GoodRequest, Session
<1>8. /\ rides' \in [Ride -> RideRow]
      /\ rides'[r] = [status |-> "OPEN", body |-> sess[s].body, key |-> k]
      /\ \A q \in Ride \ {r} : rides'[q] = rides[q]
  BY <1>2, <1>7 DEF IInv, TypeOK, RideRow
<1>9. TypeOK'
  BY <1>3, <1>4, <1>6, <1>8 DEF IInv, TypeOK
<1>10. OneHolder'
  <2> SUFFICES ASSUME NEW t \in Request, NEW u \in Request, Holds(t)', Holds(u)', sess'[t].key = sess'[u].key
               PROVE  t = u
    BY DEF OneHolder
  <2>1. Holds(t) /\ Holds(u) /\ sess[t].key = sess[u].key
    BY <1>4, <1>5
  <2> QED BY <2>1 DEF IInv, OneHolder
<1>11. HeldRow'
  <2> SUFFICES ASSUME NEW t \in Request, Holds(t)'
               PROVE  record'[sess'[t].key].ride = NoRide /\ record'[sess'[t].key].body \in {NoBody, sess'[t].body}
    BY DEF HeldRow
  <2>1. CASE t = s
    BY <1>3, <1>5, <2>1 DEF Holds
  <2>2. CASE t # s
    BY <1>3, <1>4, <1>5, <2>2 DEF IInv, HeldRow
  <2> QED BY <2>1, <2>2
<1>12. ASSUME NEW q \in Ride, rides[q].key # NoKey
       PROVE  rides[q].key # k /\ rides[q].key \in Key
  <2>1. rides[q].key \in Key
    BY <1>12 DEF IInv, TypeOK, RideRow, Header
  <2>2. rides[q].key = k => Holds(s)
    BY <1>1, <1>12 DEF Holds
  <2> QED BY <1>1, <2>1, <2>2 DEF IInv, HeldRide
<1>13. HeldRide'
  <2> SUFFICES ASSUME NEW t \in Request, NEW q \in Ride, Holds(t)', rides'[q].key = sess'[t].key
               PROVE  sess'[t].pc = "complete" /\ sess'[t].ride = q
    BY DEF HeldRide
  <2>1. sess'[t].key # NoKey /\ Holds(t) /\ sess'[t].key = sess[t].key
    BY <1>4, <1>5 DEF Holds
  <2>2. CASE t = s
    BY <1>5, <1>8, <1>12, <2>1, <2>2
  <2>3. CASE t # s
    <3>1. q # r
      BY <1>3, <1>8, <2>1, <2>3
    <3> QED BY <1>4, <1>8, <2>1, <2>3, <3>1 DEF IInv, HeldRide
  <2> QED BY <2>2, <2>3
<1>14. GoodRequest'
  <2> SUFFICES ASSUME NEW t \in Request
               PROVE  /\ sess'[t].pc # "idle" => sess'[t].body \in Body
                      /\ sess'[t].pc = "flush" => sess'[t].key \in Key
                      /\ sess'[t].pc = "complete" =>
                            sess'[t].ride \in Ride /\ rides'[sess'[t].ride].status # "NONE" /\ rides'[sess'[t].ride].body = sess'[t].body
    BY DEF GoodRequest
  <2>1. CASE t = s
    BY <1>5, <1>7, <1>8, <2>1
  <2>2. CASE t # s
    <3>1. sess'[t] = sess[t]
      BY <1>4, <2>2
    <3>2. sess[t].pc = "complete" => sess[t].ride # r
      BY <1>2 DEF IInv, GoodRequest
    <3> QED BY <1>8, <3>1, <3>2 DEF IInv, GoodRequest
  <2> QED BY <2>1, <2>2
<1>15. Recorded'
  BY <1>3, <1>7, <1>8, <1>12 DEF IInv, Recorded
<1>16. OneRidePerKey'
  BY <1>8, <1>12 DEF IInv, OneRidePerKey
<1>17. \A a \in answers : a.key # NoKey => a.key # k /\ a.key \in Key
  BY <1>1, HeldUnanswered DEF Holds, IInv, TypeOK, Answer, Header
<1>18. Replayable'
  BY <1>3, <1>6, <1>17 DEF IInv, Replayable
<1> QED BY <1>3, <1>9, <1>10, <1>11, <1>13, <1>14, <1>15, <1>16, <1>18 DEF IInv

LEMMA CompleteStep ==
    ASSUME IInv, NEW s \in Request, Complete(s)
    PROVE  IInv'
<1> DEFINE k == sess[s].key
           row == [body |-> sess[s].body, ride |-> sess[s].ride]
           a == [key |-> k, body |-> sess[s].body, ride |-> sess[s].ride]
<1>1. sess[s].pc = "complete" /\ sess[s].pc \in Begun
  BY DEF Complete, Begun
<1>2. /\ sess[s] \in Session /\ k \in Header /\ sess[s].body \in Body /\ sess[s].ride \in Ride
      /\ rides[sess[s].ride].body = sess[s].body
  BY <1>1 DEF IInv, TypeOK, GoodRequest, Session
<1>3. /\ record' = Stored(k, row) /\ answers' = answers \cup {a} /\ Put(s, Idle)
      /\ UNCHANGED <<rider, rides>>
  BY DEF Complete, Saved
<1>4. /\ record' \in [Key -> RecordRow]
      /\ k # NoKey => record'[k] = row
      /\ \A j \in Key : j # k => record'[j] = record[j]
      /\ \A t \in Request \ {s} : Holds(t) => sess[t].key # k /\ record'[sess[t].key] = record[sess[t].key]
      /\ GoodRecord'
  BY <1>1, <1>2, <1>3, StoredFacts
<1>5. /\ sess'[s] = Idle /\ sess' \in [Request -> Session]
      /\ \A t \in Request \ {s} : sess'[t] = sess[t]
  BY <1>3, IdleGood DEF IInv, TypeOK, Put
<1>6. ~Holds(s)' /\ \A t \in Request \ {s} : Holds(t)' <=> Holds(t)
  BY <1>5 DEF Holds, Idle, Begun
<1>7. a \in Answer
  BY <1>2 DEF Answer
<1>8. TypeOK'
  BY <1>3, <1>4, <1>5, <1>7 DEF IInv, TypeOK
<1>9. OneHolder'
  BY <1>5, <1>6 DEF IInv, OneHolder
<1>10. HeldRow'
  BY <1>4, <1>5, <1>6 DEF IInv, HeldRow
<1>11. HeldRide'
  BY <1>3, <1>5, <1>6 DEF IInv, HeldRide
<1>12. GoodRequest'
  BY <1>3, <1>5, IdleGood DEF IInv, GoodRequest
<1>13. \A r \in Ride : rides[r].key # NoKey => rides[r].key \in Key /\ (rides[r].key = k => r = sess[s].ride)
  BY <1>1 DEF IInv, HeldRide, Holds, TypeOK, RideRow, Header
<1>14. Recorded'
  BY <1>2, <1>3, <1>4, <1>13 DEF IInv, Recorded
<1>15. OneRidePerKey'
  BY <1>3 DEF IInv, OneRidePerKey
<1>16. \A b \in answers : b.key # NoKey => b.key # k /\ b.key \in Key
  BY <1>1, HeldUnanswered DEF Holds, IInv, TypeOK, Answer, Header
<1>17. Replayable'
  BY <1>3, <1>4, <1>16 DEF IInv, Replayable
<1> QED BY <1>4, <1>8, <1>9, <1>10, <1>11, <1>12, <1>14, <1>15, <1>17 DEF IInv

LEMMA CloseRideStep ==
    ASSUME IInv, NEW r \in Ride, CloseRide(r)
    PROVE  IInv'
<1>1. /\ rides' \in [Ride -> RideRow]
      /\ \A q \in Ride : /\ rides'[q].body = rides[q].body
                         /\ rides'[q].key = rides[q].key
                         /\ rides[q].status # "NONE" => rides'[q].status # "NONE"
  BY DEF IInv, TypeOK, CloseRide, RideRow
<1>2. UNCHANGED <<rider, record, answers, sess>>
  BY DEF CloseRide
<1> QED BY <1>1, <1>2
    DEF IInv, TypeOK, OneHolder, HeldRow, HeldRide, GoodRequest, Recorded, GoodRecord, OneRidePerKey, Replayable, Holds

LEMMA InvNext == ASSUME IInv, [Next]_vars PROVE IInv'
<1>1. ASSUME NEW s \in Request, Proceed(s)
      PROVE  IInv'
  BY <1>1, FlushStep, FindRiderStep, AddRiderStep, LookUpStep, InsertRideStep, CompleteStep DEF Proceed
<1>2. ASSUME NEW s \in Request, Abort(s)
      PROVE  IInv'
  BY <1>2, AbortStep DEF Abort
<1>3. CASE UNCHANGED vars
  BY <1>3 DEF vars, IInv, TypeOK, OneHolder, HeldRow, HeldRide, GoodRequest, Recorded, GoodRecord, OneRidePerKey, Replayable, Holds
<1> QED BY <1>1, <1>2, <1>3, BeginStep, ReplayStep, CloseRideStep DEF Next

\* IInv holds in every reachable state of create_ride behind its idempotency key.
THEOREM Inductive == Spec => []IInv
BY InitInv, InvNext, PTL DEF Spec

\* Every variable keeps its type.
THEOREM TypeCorrect == Spec => []TypeOK
BY Inductive, PTL DEF IInv

\* One key inserts at most one ride, for any number of requests, keys and rides and
\* wherever a request stops.
THEOREM OneRidePerKeyHolds == Spec => []OneRidePerKey
BY Inductive, PTL DEF IInv

\* All answers under one key are the same.
THEOREM OneAnswerPerKeyHolds == Spec => []OneAnswerPerKey
<1>1. IInv => OneAnswerPerKey
  <2> SUFFICES ASSUME IInv, NEW a \in answers, NEW b \in answers, a.key = b.key, a.key # NoKey
               PROVE  a = b
    BY DEF OneAnswerPerKey
  <2>1. a \in Answer /\ b \in Answer
    BY DEF IInv, TypeOK
  <2>2. [body |-> a.body, ride |-> a.ride] = [body |-> b.body, ride |-> b.ride]
    BY DEF IInv, Replayable
  <2>3. a.body = b.body /\ a.ride = b.ride
    BY <2>2
  <2> QED BY <2>1, <2>3 DEF Answer
<1> QED BY <1>1, Inductive, PTL

-----------------------------------------------------------------------------
(* IdempotentCreate implements RequestPromise *)

\* A key stands for the same as before while its answer and the requests and keys
\* of all rides stay.
LEMMA BoundFrame ==
    ASSUME NEW k \in Key, record'[k].ride = record[k].ride,
           record[k].ride # NoRide => record'[k].body = record[k].body,
           \A r \in Ride : rides'[r].key = rides[r].key /\ rides'[r].body = rides[r].body
    PROVE  Bound(k)' = Bound(k)
<1>1. {r \in Ride : rides'[r].key = k} = {r \in Ride : rides[r].key = k}
  OBVIOUS
<1>2. {<<rides'[r].body, r>> : r \in {q \in Ride : rides'[q].key = k}} = {<<rides[r].body, r>> : r \in {q \in Ride : rides[q].key = k}}
  BY <1>1
<1> QED BY <1>2 DEF Bound

LEMMA PromiseInit == ASSUME Init PROVE Promise!Init
<1>1. \A k \in Key : Bound(k) = {}
  BY DEF Init, Bound, NoRecord
<1> QED BY <1>1 DEF Promise!Init, Init

\* A step that sends nothing and leaves the meaning of the keys.
LEMMA PromiseStutter ==
    ASSUME \A k \in Key : Bound(k)' = Bound(k), UNCHANGED answers
    PROVE  UNCHANGED Promise!vars
BY DEF Promise!vars

LEMMA AddRiderPromise ==
    ASSUME IInv, NEW s \in Request, AddRider(s)
    PROVE  UNCHANGED Promise!vars
<1>1. ASSUME NEW k \in Key
      PROVE  record'[k].ride = record[k].ride /\ (record[k].ride # NoRide => record'[k].body = record[k].body)
  <2>1. CASE UNCHANGED record
    BY <2>1
  <2>2. CASE record' = InProgress(s)
    <3>1. sess[s].pc \in Begun /\ sess[s].key \in Header
      BY DEF AddRider, Begun, IInv, TypeOK, Session
    <3>2. CASE k # sess[s].key
      BY <2>2, <3>2 DEF InProgress, Stored, IInv, TypeOK
    <3>3. CASE k = sess[s].key
      <4>1. Holds(s) /\ k # NoKey
        BY <3>1, <3>3 DEF Holds
      <4>2. record[k].ride = NoRide
        BY <3>3, <4>1 DEF IInv, HeldRow
      <4>3. record'[k] = [body |-> sess[s].body, ride |-> NoRide]
        BY <2>2, <3>3, <4>1 DEF InProgress, Stored, IInv, TypeOK
      <4> QED BY <4>2, <4>3
    <3> QED BY <3>2, <3>3
  <2> QED BY <2>1, <2>2 DEF AddRider
<1> QED BY <1>1, BoundFrame, PromiseStutter DEF AddRider

LEMMA ClosePromise ==
    ASSUME IInv, NEW r \in Ride, CloseRide(r)
    PROVE  UNCHANGED Promise!vars
<1>1. \A q \in Ride : rides'[q].key = rides[q].key /\ rides'[q].body = rides[q].body
  BY DEF IInv, TypeOK, CloseRide, RideRow
<1> QED BY <1>1, BoundFrame, PromiseStutter DEF CloseRide

LEMMA InsertPromise ==
    ASSUME IInv, NEW s \in Request, InsertRide(s)
    PROVE  [Promise!Next]_(Promise!vars)
<1> DEFINE k == sess[s].key
           b == sess[s].body
<1>1. PICK r \in Ride :
        /\ rides[r].status = "NONE"
        /\ rides' = [rides EXCEPT ![r] = [status |-> "OPEN", body |-> b, key |-> k]]
        /\ record' = Published(s)
  BY DEF InsertRide
<1>2. sess[s].pc = "insert" /\ sess[s].pc \in Begun /\ b \in Body /\ k \in Header /\ UNCHANGED answers
  BY DEF InsertRide, Begun, IInv, TypeOK, GoodRequest, Session
<1>3. /\ rides'[r].key = k /\ rides'[r].body = b
      /\ \A q \in Ride \ {r} : rides'[q] = rides[q]
      /\ rides[r].key = NoKey
  BY <1>1 DEF IInv, TypeOK, Recorded
<1>4. ASSUME NEW j \in Key, j # k
      PROVE  Bound(j)' = Bound(j)
  <2>1. record'[j] = record[j]
    BY <1>1, <1>4 DEF Published, InProgress, Stored, IInv, TypeOK
  <2>2. {q \in Ride : rides'[q].key = j} = {q \in Ride : rides[q].key = j}
    BY <1>3, <1>4
  <2>3. \A q \in Ride : rides[q].key = j => rides'[q].body = rides[q].body
    BY <1>3
  <2>4. {<<rides'[q].body, q>> : q \in {p \in Ride : rides'[p].key = j}} = {<<rides[q].body, q>> : q \in {p \in Ride : rides[p].key = j}}
    BY <2>2, <2>3
  <2> QED BY <2>1, <2>4 DEF Bound
<1>5. CASE k = NoKey
  BY <1>2, <1>4, <1>5, PromiseStutter
<1>6. CASE k # NoKey
  <2>1. k \in Key /\ Holds(s)
    BY <1>2, <1>6 DEF Header, Holds
  <2>2. record[k].ride = NoRide /\ \A q \in Ride : rides[q].key # k
    BY <1>2, <2>1 DEF IInv, HeldRow, HeldRide
  <2>3. Bound(k) = {}
    BY <2>2 DEF Bound
  <2>4. record'[k].ride = NoRide
    BY <1>1, <2>1 DEF Published, InProgress, Stored, Holds, IInv, TypeOK
  <2>5. {q \in Ride : rides'[q].key = k} = {r}
    BY <1>3, <2>2
  <2>6. ASSUME NEW j \in Key, j = k
        PROVE  Bound(j)' = {<<b, r>>}
    BY <1>3, <2>4, <2>5, <2>6 DEF Bound
  <2>7. Promise!Bind(k, b, r)
    BY <1>2, <1>4, <2>1, <2>3, <2>6 DEF Promise!Bind
  <2> QED BY <1>2, <2>1, <2>7 DEF Promise!Next
<1> QED BY <1>5, <1>6

LEMMA CompletePromise ==
    ASSUME IInv, NEW s \in Request, Complete(s)
    PROVE  Promise!Next
<1> DEFINE k == sess[s].key
           b == sess[s].body
           r == sess[s].ride
<1>1. /\ sess[s].pc = "complete" /\ sess[s].pc \in Begun
      /\ b \in Body /\ k \in Header /\ r \in Ride /\ rides[r].body = b
  BY DEF Complete, Begun, IInv, TypeOK, GoodRequest, Session
<1>2. /\ record' = Stored(k, [body |-> b, ride |-> r])
      /\ answers' = answers \cup {[key |-> k, body |-> b, ride |-> r]}
      /\ UNCHANGED rides
  BY DEF Complete, Saved
<1>3. ASSUME NEW j \in Key, j # k
      PROVE  Bound(j)' = Bound(j)
  <2>1. record'[j] = record[j]
    BY <1>2, <1>3 DEF Stored, IInv, TypeOK
  <2> QED BY <1>2, <2>1, BoundFrame
<1>4. CASE k = NoKey
  <2>1. Promise!ReplyUnkeyed(b, r)
    BY <1>2, <1>3, <1>4 DEF Promise!ReplyUnkeyed
  <2> QED BY <1>1, <2>1 DEF Promise!Next
<1>5. CASE k # NoKey
  <2>1. k \in Key /\ Holds(s)
    BY <1>1, <1>5 DEF Header, Holds
  <2>2. record[k].ride = NoRide /\ \A q \in Ride : rides[q].key = k => q = r
    BY <1>1, <2>1 DEF IInv, HeldRow, HeldRide
  <2>3. Bound(k) \subseteq {<<b, r>>}
    BY <1>1, <2>2 DEF Bound
  <2>4. record'[k] = [body |-> b, ride |-> r]
    BY <1>2, <2>1 DEF Stored, Holds, IInv, TypeOK
  <2>5. ASSUME NEW j \in Key, j = k
        PROVE  Bound(j)' = {<<b, r>>}
    BY <1>1, <2>4, <2>5 DEF Bound
  <2>6. Promise!Reply(k, b, r)
    BY <1>2, <1>3, <2>1, <2>3, <2>5 DEF Promise!Reply
  <2> QED BY <1>1, <2>1, <2>6 DEF Promise!Next
<1> QED BY <1>4, <1>5

LEMMA ReplayPromise ==
    ASSUME IInv, NEW k \in Key, NEW b \in Body, Replay(k, b)
    PROVE  Promise!Next
<1> DEFINE r == record[k].ride
<1>1. r \in Ride /\ record[k].body = b
  BY DEF IInv, TypeOK, Replay, HasAnswer, RecordRow
<1>2. Bound(k) = {<<b, r>>}
  BY <1>1 DEF Bound
<1>3. \A j \in Key : Bound(j)' = Bound(j)
  BY BoundFrame DEF Replay
<1>4. answers' = answers \cup {[key |-> k, body |-> b, ride |-> r]}
  BY DEF Replay
<1>5. Promise!Reply(k, b, r)
  BY <1>2, <1>3, <1>4 DEF Promise!Reply
<1> QED BY <1>1, <1>5 DEF Promise!Next

LEMMA PromiseStep == ASSUME IInv, [Next]_vars PROVE [Promise!Next]_(Promise!vars)
<1>1. CASE UNCHANGED <<record, rides, answers>>
  BY <1>1, BoundFrame, PromiseStutter
<1>2. ASSUME NEW s \in Request, Proceed(s)
      PROVE  [Promise!Next]_(Promise!vars)
  <2>1. CASE Flush(s) \/ FindRider(s) \/ LookUp(s)
    BY <1>1, <2>1 DEF Flush, FindRider, LookUp
  <2> QED BY <1>2, <2>1, AddRiderPromise, InsertPromise, CompletePromise DEF Proceed
<1>3. ASSUME NEW s \in Request, NEW k \in Header, NEW b \in Body, Begin(s, k, b)
      PROVE  [Promise!Next]_(Promise!vars)
  BY <1>1, <1>3 DEF Begin
<1>4. ASSUME NEW s \in Request, Abort(s)
      PROVE  [Promise!Next]_(Promise!vars)
  BY <1>1, <1>4 DEF Abort
<1>5. CASE UNCHANGED vars
  BY <1>1, <1>5 DEF vars
<1> QED BY <1>2, <1>3, <1>4, <1>5, ReplayPromise, ClosePromise DEF Next

\* begin, create_ride and complete implement the promise, for all instances.
THEOREM KeepsPromiseHolds == Spec => KeepsPromise
BY PromiseInit, PromiseStep, Inductive, PTL DEF Spec, KeepsPromise, Promise!Spec
=============================================================================
