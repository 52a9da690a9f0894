------------------------- MODULE RideDispatch_proofs -------------------------
(***************************************************************************)
(* Theorems about RideDispatch for every set of rides, drivers, offers and *)
(* sessions and every retry cap, proved with TLAPS.                        *)
(*                                                                         *)
(* None of the invariants is inductive: a session commits what it decided  *)
(* earlier.  The first part is about sessions that overlap: GoodSession    *)
(* says what each session in flight still promises about the rows it will  *)
(* write, and IInv adds it to the rows.  The second part is about          *)
(* operations that do not overlap (SerialInv) and the offers of one ride   *)
(* (BudgetInv).                                                            *)
(***************************************************************************)
EXTENDS RideDispatch, FiniteSetTheorems, TLAPS

\* Program counters at which a session works on the ride in its field "ride".
Working == {"create", "find", "next", "reselect", "insert"}

\* A unit of work that respects the cap, leaves approvals alone and answers
\* offers that were made.
Made == {o \in Offer : offer[o].status # "NONE"}
CleanTx(tx) ==
    /\ \A r \in Ride : tx.ride[r].retries # Keep => tx.ride[r].retries <= MaxRetries
    /\ \A d \in Driver : tx.driver[d].approved = Keep
    /\ \A o \in Offer : tx.offer[o] # "PENDING" /\ (tx.offer[o] # Keep => o \in Made)

\* It assigns a driver only together with an accepted offer of that driver.
BackedTx(tx) ==
    \A r \in Ride : tx.ride[r].driver \in Driver =>
        \E o \in Offer : /\ tx.offer[o] = "ACCEPTED"
                         /\ offer[o].status # "NONE"
                         /\ offer[o].ride = r
                         /\ offer[o].driver = tx.ride[r].driver

GoodTx(tx) == tx \in Tx /\ CleanTx(tx) /\ BackedTx(tx)

GoodSession(x) ==
    /\ x \in SessionState
    /\ x.pc \in Working => x.ride \in Ride
    /\ x.pc = "commit" /\ x.cont \in Working => x.ride \in Ride
    /\ x.pc = "insert" => x.driver \in Driver
    /\ \A r \in Ride : x.mem[r] # Absent => x.mem[r].retries <= MaxRetries
    /\ \A d \in x.cands : driver[d].approved
    /\ x.driver # NoDriver => driver[x.driver].approved
    /\ GoodTx(x.tx)

GoodRows ==
    /\ \A o \in Offer : offer[o].status # "NONE" => offer[o].ride \in Ride /\ offer[o].driver \in Driver
    /\ \A r \in Ride : \A d \in cand[r] : driver[d].approved
    /\ RetryCap
    /\ AssignedWasOffered
    /\ OffersOnlyToApproved

IInv == TypeOK /\ GoodRows /\ \A s \in Actor : GoodSession(sess[s])

Rows == <<ride, offer, driver, overdue, cand>>

USE WorkerAssumption, NullAssumption, RetriesAssumption, OfferAssumption, KeepAssumption

-----------------------------------------------------------------------------
(* Units of work *)

\* A unit of work that changes nothing is good.
LEMMA NoTxGood ==
    /\ GoodTx(NoTx)
    /\ \A r \in Ride : NoTx.ride[r] = KeepRide
    /\ \A o \in Offer : NoTx.offer[o] = Keep
<1>1. KeepRide \in RideWrite /\ KeepDriver \in DriverWrite
  BY DEF KeepRide, KeepDriver, RideWrite, DriverWrite
<1>2. NoTx \in Tx
  BY <1>1 DEF NoTx, Tx
<1>3. /\ \A r \in Ride : NoTx.ride[r] = KeepRide
      /\ \A d \in Driver : NoTx.driver[d] = KeepDriver
      /\ \A o \in Offer : NoTx.offer[o] = Keep
  BY DEF NoTx
<1>4. KeepRide.retries = Keep /\ KeepRide.driver = Keep /\ KeepDriver.approved = Keep
  BY DEF KeepRide, KeepDriver
<1>5. Keep # "PENDING"
  BY DEF OfferStatus
<1> QED BY <1>2, <1>3, <1>4, <1>5 DEF GoodTx, CleanTx, BackedTx

\* The changed columns of a ride: typed, and each is the new value or Keep.
LEMMA RideDiffGood ==
    ASSUME NEW old \in RideRow, NEW new \in RideRow, new.status \in RideStatus \cup {old.status}
    PROVE  /\ RideDiff(old, new) \in RideWrite
           /\ RideDiff(old, new).retries \in {Keep, new.retries}
           /\ RideDiff(old, new).driver \in {Keep, new.driver}
  BY DEF RideRow, RideDiff, RideWrite, Column

\* The changed columns of a driver whose approval stays as it was.
LEMMA DriverDiffGood ==
    ASSUME NEW old \in DriverRow, NEW new \in DriverRow, new.approved = old.approved
    PROVE  /\ DriverDiff(old, new) \in DriverWrite
           /\ DriverDiff(old, new).approved = Keep
  BY DEF DriverRow, DriverDiff, DriverWrite, Column

LEMMA RideStoredGood ==
    ASSUME NEW row \in RideRow, NEW w \in RideWrite
    PROVE  /\ RideStored(row, w) \in RideRow
           /\ RideStored(row, w).retries = IF w.retries = Keep THEN row.retries ELSE w.retries
           /\ RideStored(row, w).driver = IF w.driver = Keep THEN row.driver ELSE w.driver
  BY DEF RideRow, RideWrite, RideStored, Stored

LEMMA DriverStoredGood ==
    ASSUME NEW row \in DriverRow, NEW w \in DriverWrite
    PROVE  /\ DriverStored(row, w) \in DriverRow
           /\ w.approved = Keep => DriverStored(row, w).approved = row.approved
  BY DEF DriverRow, DriverWrite, DriverStored, Stored

\* What the three operators that extend a unit of work change, and that it stays clean.
LEMMA AnswerClean ==
    ASSUME NEW tx \in Tx, CleanTx(tx), NEW os \in SUBSET Made, NEW st \in OfferStatus \ {"PENDING"}
    PROVE  /\ Answer(tx, os, st) \in Tx
           /\ CleanTx(Answer(tx, os, st))
           /\ Answer(tx, os, st).ride = tx.ride
           /\ \A o \in Offer : Answer(tx, os, st).offer[o] = IF o \in os THEN st ELSE tx.offer[o]
<1>1. /\ Answer(tx, os, st).ride = tx.ride
      /\ Answer(tx, os, st).driver = tx.driver
      /\ \A o \in Offer : Answer(tx, os, st).offer[o] = IF o \in os THEN st ELSE tx.offer[o]
      /\ Answer(tx, os, st) \in Tx
  BY DEF Answer, Tx, Made
<1> QED BY <1>1 DEF CleanTx

LEMMA SetRideClean ==
    ASSUME NEW tx \in Tx, CleanTx(tx), NEW r \in Ride, NEW old \in RideRow, NEW new \in RideRow,
           new.status \in RideStatus, new.retries <= MaxRetries
    PROVE  /\ SetRide(tx, r, old, new) \in Tx
           /\ CleanTx(SetRide(tx, r, old, new))
           /\ SetRide(tx, r, old, new).offer = tx.offer
           /\ \A q \in Ride : SetRide(tx, r, old, new).ride[q] = IF q = r THEN RideDiff(old, new) ELSE tx.ride[q]
<1> DEFINE w == RideDiff(old, new)
<1>1. w \in RideWrite /\ w.retries \in {Keep, new.retries}
  BY RideDiffGood
<1> HIDE DEF w
<1>2. /\ SetRide(tx, r, old, new).ride = [tx.ride EXCEPT ![r] = w]
      /\ SetRide(tx, r, old, new).driver = tx.driver
      /\ SetRide(tx, r, old, new).offer = tx.offer
      /\ SetRide(tx, r, old, new) \in Tx
  BY <1>1 DEF SetRide, Tx, w
<1>3. \A q \in Ride : SetRide(tx, r, old, new).ride[q] = IF q = r THEN w ELSE tx.ride[q]
  BY <1>2 DEF Tx
<1>4. CleanTx(SetRide(tx, r, old, new))
  BY <1>1, <1>2, <1>3 DEF CleanTx
<1> QED BY <1>2, <1>3, <1>4 DEF w

LEMMA SetDriverClean ==
    ASSUME NEW tx \in Tx, CleanTx(tx), NEW d \in Driver, NEW new \in DriverRow,
           driver[d] \in DriverRow, new.approved = driver[d].approved
    PROVE  /\ SetDriver(tx, d, new) \in Tx
           /\ CleanTx(SetDriver(tx, d, new))
           /\ SetDriver(tx, d, new).ride = tx.ride
           /\ SetDriver(tx, d, new).offer = tx.offer
<1> DEFINE w == DriverDiff(driver[d], new)
<1>1. w \in DriverWrite /\ w.approved = Keep
  BY DriverDiffGood
<1> HIDE DEF w
<1>2. /\ SetDriver(tx, d, new).driver = [tx.driver EXCEPT ![d] = w]
      /\ SetDriver(tx, d, new).ride = tx.ride
      /\ SetDriver(tx, d, new).offer = tx.offer
      /\ SetDriver(tx, d, new) \in Tx
  BY <1>1 DEF SetDriver, Tx, w
<1>3. \A e \in Driver : SetDriver(tx, d, new).driver[e] = IF e = d THEN w ELSE tx.driver[e]
  BY <1>2 DEF Tx
<1> QED BY <1>1, <1>2, <1>3 DEF CleanTx

\* Answering offers, alone, is good.
LEMMA AnswerGood ==
    ASSUME NEW os \in SUBSET Made, NEW st \in OfferStatus \ {"PENDING"}
    PROVE  GoodTx(Answer(NoTx, os, st))
  BY NoTxGood, AnswerClean DEF GoodTx, BackedTx, KeepRide

\* A ride changed without a new driver leaves a unit of work good.
LEMMA SetRideGood ==
    ASSUME NEW tx, GoodTx(tx), NEW r \in Ride, NEW old \in RideRow, NEW new \in RideRow,
           new.status \in RideStatus, new.retries <= MaxRetries, new.driver \in {old.driver, NoDriver}
    PROVE  GoodTx(SetRide(tx, r, old, new))
<1>1. RideDiff(old, new).driver \notin Driver
  <2>1. new.driver = old.driver => RideDiff(old, new).driver = Keep
    BY DEF RideDiff, Column
  <2>2. RideDiff(old, new).driver \in {Keep, new.driver}
    BY RideDiffGood
  <2> QED BY <2>1, <2>2
<1>2. tx \in Tx /\ CleanTx(tx) /\ BackedTx(tx)
  BY DEF GoodTx
<1>3. /\ SetRide(tx, r, old, new) \in Tx
      /\ CleanTx(SetRide(tx, r, old, new))
      /\ SetRide(tx, r, old, new).offer = tx.offer
      /\ \A q \in Ride : SetRide(tx, r, old, new).ride[q] = IF q = r THEN RideDiff(old, new) ELSE tx.ride[q]
  BY <1>2, SetRideClean
<1> QED BY <1>1, <1>2, <1>3 DEF GoodTx, BackedTx

LEMMA SetDriverGood ==
    ASSUME NEW tx, GoodTx(tx), NEW d \in Driver, NEW new \in DriverRow,
           driver[d] \in DriverRow, new.approved = driver[d].approved
    PROVE  GoodTx(SetDriver(tx, d, new))
  BY SetDriverClean DEF GoodTx, BackedTx

-----------------------------------------------------------------------------
(* Sessions *)

LEMMA GoodTyped == \A tx : GoodTx(tx) => tx \in Tx
  BY DEF GoodTx

LEMMA EmptyGood == \A pc \in Pc \ Working : GoodSession([Idle EXCEPT !.pc = pc])
<1>1. GoodTx(NoTx) /\ NoTx \in Tx
  BY NoTxGood, GoodTyped
<1> QED BY <1>1 DEF GoodSession, SessionState, Idle, Pc, Cont, Working

\* What every step keeps of the rows: offers stay, approvals are not withdrawn.
Grows ==
    /\ \A d \in Driver : driver[d].approved => driver[d].approved'
    /\ \A o \in Offer : offer[o].status # "NONE" =>
          /\ offer[o].status' # "NONE"
          /\ offer[o].ride' = offer[o].ride
          /\ offer[o].driver' = offer[o].driver

RowTypesOK ==
    /\ ride \in [Ride -> RideRow]
    /\ offer \in [Offer -> OfferRow]
    /\ driver \in [Driver -> DriverRow]
    /\ overdue \subseteq Offer
    /\ cand \in [Ride -> SUBSET Driver]

\* What a session promised survives the steps of the others.
LEMMA GoodStays == ASSUME NEW x, GoodSession(x), Grows PROVE GoodSession(x)'
<1>1. BackedTx(x.tx)'
  BY DEF GoodSession, GoodTx, BackedTx, Grows
<1>2. \A d \in x.cands : driver'[d].approved
  BY DEF GoodSession, Grows, SessionState
<1>3. x.driver # NoDriver => driver'[x.driver].approved
  BY DEF GoodSession, Grows, SessionState
<1>4. CleanTx(x.tx)'
  BY DEF GoodSession, GoodTx, CleanTx, Grows, Made
<1> QED BY <1>1, <1>2, <1>3, <1>4 DEF GoodSession, GoodTx

\* A step that moves session s to a good state and leaves good rows keeps the invariant.
LEMMA RowStep ==
    ASSUME IInv, NEW s \in Actor, NEW x, GoodSession(x), Put(s, x), RowTypesOK', GoodRows', Grows
    PROVE  IInv'
<1>1. sess' \in [Actor -> SessionState]
  BY DEF IInv, TypeOK, Put, GoodSession
<1>2. ASSUME NEW t \in Actor PROVE GoodSession(sess[t])'
  <2>1. sess'[t] = IF t = s THEN x ELSE sess[t]
    BY DEF IInv, TypeOK, Put
  <2>2. GoodSession(sess'[t])
    BY <2>1 DEF IInv
  <2>3. GoodSession(sess[t]) /\ GoodSession(x)
    BY DEF IInv
  <2>4. GoodSession(x)' /\ (\A z : GoodSession(z) => GoodSession(z)')
    BY GoodStays
  <2> QED BY <2>1, <2>3, <2>4
<1> QED BY <1>1, <1>2 DEF IInv, TypeOK, RowTypesOK

LEMMA SessionStep ==
    ASSUME IInv, NEW s \in Actor, NEW x, GoodSession(x), Put(s, x), UNCHANGED Rows
    PROVE  IInv'
<1>1. RowTypesOK' /\ Grows
  BY DEF IInv, TypeOK, Rows, RowTypesOK, Grows
<1>2. GoodRows'
  BY DEF IInv, GoodRows, Rows, RetryCap, AssignedWasOffered, OffersOnlyToApproved, OffersOf
<1> QED BY <1>1, <1>2, RowStep

\* A request that submits a typed, good unit of work keeps the invariant.
LEMMA SubmitStep ==
    ASSUME IInv, NEW s \in Session, NEW tx, GoodTx(tx), NEW cont \in Cont,
           NEW r \in Ride \cup {NoRide}, cont \in Working => r \in Ride,
           Submit(s, tx, cont, r), UNCHANGED Rows
    PROVE  IInv'
<1> DEFINE x == [Idle EXCEPT !.pc = "commit", !.tx = tx, !.cont = cont, !.ride = r]
<1>1. GoodSession(x)
  BY GoodTyped DEF GoodSession, SessionState, Idle, Pc, Working
<1>2. Put(s, x)
  BY DEF Submit
<1> QED BY <1>1, <1>2, SessionStep DEF Actor

\* Returning from offer_next_candidate leaves the session good.
LEMMA ReturnedGood ==
    ASSUME NEW s \in Actor, GoodSession(sess[s])
    PROVE  GoodSession(Returned(s))
<1>1. CASE sess[s].todo # {}
  <2>1. GoodTx(NoTx) /\ NoTx \in Tx
    BY NoTxGood, GoodTyped
  <2> QED BY <1>1, <2>1 DEF GoodSession, SessionState, Returned, Pc, Cont, Working
<1>2. CASE sess[s].todo = {}
  <2>1. sess[s].last \in Pc \ Working
    BY DEF GoodSession, SessionState, Pc, Working
  <2> QED BY <1>2, <2>1, EmptyGood DEF Returned
<1> QED BY <1>1, <1>2

-----------------------------------------------------------------------------
(* Requests *)

-----------------------------------------------------------------------------
(* Requests *)

LEMMA FreshRide ==
    LET fresh == [NoRideRow EXCEPT !.status = "MATCHING"]
    IN  /\ fresh \in RideRow /\ fresh.status \in RideStatus /\ fresh.driver = NoDriver /\ fresh.retries = 0
        /\ fresh.retries <= MaxRetries
  BY DEF NoRideRow, RideRow, RideStatus, Open

LEMMA RowTypes ==
    ASSUME IInv
    PROVE  /\ \A r \in Ride : ride[r] \in RideRow /\ ride[r].retries <= MaxRetries
           /\ \A d \in Driver : driver[d] \in DriverRow
           /\ \A r \in Ride : ride[r].driver # NoDriver => ride[r].driver \in Driver
           /\ \A o \in Offer : offer[o].status # "NONE" => offer[o].ride \in Ride /\ offer[o].driver \in Driver
  BY DEF IInv, TypeOK, GoodRows, RetryCap, RideRow

LEMMA StatusNames ==
    /\ {"MATCHING", "DRIVER_ASSIGNED", "DRIVER_EN_ROUTE", "DRIVER_ARRIVED", "RIDE_STARTED",
        "CANCELLED", "RIDE_COMPLETED", "NO_DRIVERS_FOUND"} \subseteq RideStatus
    /\ {"ACCEPTED", "REJECTED", "EXPIRED"} \subseteq OfferStatus \ {"PENDING"}
    /\ "idle" \in Cont /\ "idle" \notin Working
  BY DEF RideStatus, Open, Closed, Progressing, OfferStatus, Cont, Working

LEMMA CreateRideStep == ASSUME IInv, NEW s \in Session, NEW r \in Ride, CreateRide(s, r) PROVE IInv'
<1> DEFINE x == [Idle EXCEPT !.pc = "create", !.ride = r]
<1>1. GoodTx(NoTx) /\ NoTx \in Tx
  BY NoTxGood, GoodTyped
<1>2. GoodSession(x)
  BY <1>1 DEF GoodSession, SessionState, Idle, Pc, Cont, Working
<1> QED BY <1>2, SessionStep DEF CreateRide, Rows, Actor

LEMMA AcceptOfferStep == ASSUME IInv, NEW s \in Session, NEW o \in Offer, AcceptOffer(s, o) PROVE IInv'
<1> DEFINE r == offer[o].ride
           d == offer[o].driver
           answered == Accepted(o)
           assigned == [ride[r] EXCEPT !.status = "DRIVER_ASSIGNED", !.driver = d]
           busy == [driver[d] EXCEPT !.available = FALSE]
           tx == SetDriver(SetRide(answered, r, ride[r], assigned), d, busy)
<1>1. r \in Ride /\ d \in Driver /\ offer[o].status = "PENDING"
  BY RowTypes DEF AcceptOffer, Answerable
<1>2. UNCHANGED Rows
  BY DEF AcceptOffer, Rows
<1>3. CASE Submit(s, Answer(NoTx, {o}, "EXPIRED"), "idle", r)
  <2>1. {o} \in SUBSET Made
    BY <1>1 DEF Made
  <2> QED BY <1>1, <1>2, <1>3, <2>1, AnswerGood, SubmitStep, StatusNames
<1>4. CASE Submit(s, tx, "idle", r)
  <2>1. NoTx \in Tx /\ CleanTx(NoTx)
    BY NoTxGood DEF GoodTx
  <2>2. /\ answered \in Tx /\ CleanTx(answered)
        /\ answered.ride = NoTx.ride /\ answered.offer[o] = "ACCEPTED"
    <3> DEFINE first == Answer(NoTx, {o}, "ACCEPTED")
    <3>1. /\ first \in Tx /\ CleanTx(first)
          /\ first.ride = NoTx.ride /\ first.offer[o] = "ACCEPTED"
      <4>1. {o} \in SUBSET Made
        BY <1>1 DEF Made
      <4> HIDE DEF first
      <4>2. "ACCEPTED" \in OfferStatus \ {"PENDING"}
        BY StatusNames
      <4>3. first = Answer(NoTx, {o}, "ACCEPTED")
        BY DEF first
      <4> QED BY <2>1, <4>1, <4>2, <4>3, AnswerClean
    <3> DEFINE others == PendingOffers(r) \ {o}
    <3>2. answered = Answer(first, others, "EXPIRED")
      BY DEF Accepted
    <3>3. others \in SUBSET Made /\ o \notin others
      BY DEF PendingOffers, Made
    <3>4. "EXPIRED" \in OfferStatus \ {"PENDING"}
      BY StatusNames
    <3> HIDE DEF first, others, answered
    <3>5. /\ Answer(first, others, "EXPIRED") \in Tx
          /\ CleanTx(Answer(first, others, "EXPIRED"))
          /\ Answer(first, others, "EXPIRED").ride = first.ride
          /\ \A p \in Offer : Answer(first, others, "EXPIRED").offer[p] = IF p \in others THEN "EXPIRED" ELSE first.offer[p]
      BY <3>1, <3>3, <3>4, AnswerClean
    <3> QED BY <3>1, <3>2, <3>3, <3>5
  <2>3. ride[r] \in RideRow /\ ride[r].retries <= MaxRetries
    BY <1>1, RowTypes
  <2>4. assigned \in RideRow /\ assigned.status \in RideStatus /\ assigned.driver = d /\ assigned.retries <= MaxRetries
    <3> DEFINE row == ride[r]
               who == d
    <3>1. row \in RideRow /\ who \in Driver \cup {NoDriver} /\ row.retries <= MaxRetries /\ "DRIVER_ASSIGNED" \in RideStatus
      BY <1>1, <2>3, StatusNames
    <3>2. assigned = [row EXCEPT !.status = "DRIVER_ASSIGNED", !.driver = who]
      OBVIOUS
    <3> HIDE DEF row, who, assigned
    <3>3. assigned \in RideRow /\ assigned.status = "DRIVER_ASSIGNED" /\ assigned.driver = who /\ assigned.retries = row.retries
      BY <3>1, <3>2 DEF RideRow
    <3> QED BY <3>1, <3>3 DEF who
  <2>5. driver[d] \in DriverRow /\ busy \in DriverRow /\ busy.approved = driver[d].approved
    BY <1>1, RowTypes DEF DriverRow
  <2>6. RideDiff(ride[r], assigned).driver \in {Keep, d}
    BY <2>3, <2>4, RideDiffGood
  <2> DEFINE mid == SetRide(answered, r, ride[r], assigned)
  <2> HIDE DEF answered, assigned, busy, r, d
  <2>7. /\ mid \in Tx /\ CleanTx(mid) /\ mid.offer[o] = "ACCEPTED"
        /\ \A q \in Ride : mid.ride[q] = IF q = r THEN RideDiff(ride[r], assigned) ELSE KeepRide
    <3>1. \A q \in Ride : answered.ride[q] = KeepRide
      BY <2>2, NoTxGood
    <3>2. assigned.status \in RideStatus /\ assigned.retries <= MaxRetries /\ assigned \in RideRow
      BY <2>4
    <3>3. /\ mid \in Tx /\ CleanTx(mid) /\ mid.offer = answered.offer
          /\ \A q \in Ride : mid.ride[q] = IF q = r THEN RideDiff(ride[r], assigned) ELSE answered.ride[q]
      BY <1>1, <2>2, <2>3, <3>2, SetRideClean
    <3> QED BY <2>2, <3>1, <3>3
  <2> HIDE DEF mid
  <2>8. tx \in Tx /\ CleanTx(tx) /\ tx.ride = mid.ride /\ tx.offer = mid.offer
    BY <1>1, <2>5, <2>7, SetDriverClean DEF mid
  <2>9. \A q \in Ride : tx.ride[q].driver \in Driver => q = r /\ tx.ride[q].driver = d
    BY <2>6, <2>7, <2>8 DEF KeepRide
  <2>10. BackedTx(tx)
    BY <1>1, <2>7, <2>8, <2>9 DEF BackedTx, r, d
  <2> QED BY <1>1, <1>2, <1>4, <2>8, <2>10, SubmitStep, StatusNames DEF GoodTx, mid
<1> QED BY <1>3, <1>4 DEF AcceptOffer

LEMMA RejectOfferStep == ASSUME IInv, NEW s \in Session, NEW o \in Offer, RejectOffer(s, o) PROVE IInv'
<1>1. offer[o].ride \in Ride
  BY RowTypes DEF RejectOffer, Answerable
<1>2. GoodTx(Answer(NoTx, {o}, "REJECTED"))
  <2>1. {o} \in SUBSET Made
    BY DEF RejectOffer, Answerable, Made
  <2> QED BY <2>1, AnswerGood, StatusNames
<1> QED BY <1>1, <1>2, SubmitStep DEF RejectOffer, Rows, Cont

\* The driver of a ride that was cancelled or completed is made online and available.
LEMMA ReleasedGood ==
    ASSUME NEW d \in Driver, driver[d] \in DriverRow
    PROVE  LET released == [driver[d] EXCEPT !.available = TRUE, !.online = TRUE]
           IN  released \in DriverRow /\ released.approved = driver[d].approved
  BY DEF DriverRow

\* A new status, and nothing else, on a ride the handler loaded.
LEMMA StatusGood ==
    ASSUME IInv, NEW r \in Ride, NEW st \in RideStatus
    PROVE  GoodTx(SetRide(NoTx, r, ride[r], [ride[r] EXCEPT !.status = st]))
<1> DEFINE new == [ride[r] EXCEPT !.status = st]
<1>1. ride[r] \in RideRow /\ ride[r].retries <= MaxRetries
  BY RowTypes
<1>2. new \in RideRow /\ new.status = st /\ new.driver = ride[r].driver /\ new.retries = ride[r].retries
  BY <1>1 DEF RideRow
<1> HIDE DEF new
<1>3. GoodTx(NoTx)
  BY NoTxGood
<1>4. GoodTx(SetRide(NoTx, r, ride[r], new))
  BY <1>1, <1>2, <1>3, SetRideGood
<1> QED BY <1>4 DEF new

LEMMA CancelRideStep == ASSUME IInv, NEW s \in Session, NEW r \in Ride, CancelRide(s, r) PROVE IInv'
<1> DEFINE d == ride[r].driver
           tx == SetRide(NoTx, r, ride[r], [ride[r] EXCEPT !.status = "CANCELLED"])
           released == [driver[d] EXCEPT !.available = TRUE, !.online = TRUE]
<1>1. GoodTx(tx)
  BY StatusGood, StatusNames
<1>2. UNCHANGED Rows
  BY DEF CancelRide, Rows
<1>3. CASE Submit(s, tx, "idle", r)
  BY <1>1, <1>2, <1>3, SubmitStep, StatusNames
<1>4. CASE d # NoDriver /\ Submit(s, SetDriver(tx, d, released), "idle", r)
  <2>1. d \in Driver /\ driver[d] \in DriverRow
    BY <1>4, RowTypes
  <2>2. released \in DriverRow /\ released.approved = driver[d].approved
    BY <2>1, ReleasedGood
  <2> HIDE DEF tx, released, d
  <2>3. GoodTx(SetDriver(tx, d, released))
    BY <1>1, <2>1, <2>2, SetDriverGood
  <2> QED BY <1>2, <1>4, <2>3, SubmitStep, StatusNames
<1> QED BY <1>3, <1>4 DEF CancelRide

LEMMA DriverStatusActionStep ==
    ASSUME IInv, NEW s \in Session, NEW r \in Ride, NEW to \in {"DRIVER_EN_ROUTE", "DRIVER_ARRIVED", "RIDE_STARTED"},
           DriverStatusAction(s, r, to)
    PROVE  IInv'
<1>1. to \in RideStatus
  BY StatusNames
<1>2. GoodTx(SetRide(NoTx, r, ride[r], [ride[r] EXCEPT !.status = to]))
  BY <1>1, StatusGood
<1>3. Submit(s, SetRide(NoTx, r, ride[r], [ride[r] EXCEPT !.status = to]), "idle", r) /\ UNCHANGED Rows
  BY DEF DriverStatusAction, Rows
<1> QED BY <1>2, <1>3, SubmitStep, StatusNames

LEMMA CompleteRideStep == ASSUME IInv, NEW s \in Session, NEW r \in Ride, CompleteRide(s, r) PROVE IInv'
<1> DEFINE d == ride[r].driver
           tx == SetRide(NoTx, r, ride[r], [ride[r] EXCEPT !.status = "RIDE_COMPLETED"])
           released == [driver[d] EXCEPT !.available = TRUE, !.online = TRUE]
<1>1. GoodTx(tx)
  BY StatusGood, StatusNames
<1>2. d \in Driver /\ driver[d] \in DriverRow
  BY RowTypes DEF CompleteRide
<1>3. released \in DriverRow /\ released.approved = driver[d].approved
  BY <1>2, ReleasedGood
<1>4. Submit(s, SetDriver(tx, d, released), "idle", r) /\ UNCHANGED Rows
  BY DEF CompleteRide, Rows
<1> HIDE DEF tx, released, d
<1>5. GoodTx(SetDriver(tx, d, released))
  BY <1>1, <1>2, <1>3, SetDriverGood
<1> QED BY <1>4, <1>5, SubmitStep, StatusNames

LEMMA AdminRedispatchStep == ASSUME IInv, NEW s \in Session, NEW r \in Ride, AdminRedispatch(s, r) PROVE IInv'
<1> DEFINE fresh == [NoRideRow EXCEPT !.status = "MATCHING"]
           answered == Answer(NoTx, PendingOffers(r), "EXPIRED")
           tx == SetRide(answered, r, ride[r], fresh)
           mem == [Idle.mem EXCEPT ![r] = fresh]
           x == [Idle EXCEPT !.pc = "commit", !.cont = "find", !.ride = r, !.mem = mem, !.tx = tx]
<1>1. GoodTx(answered)
  <2>1. PendingOffers(r) \in SUBSET Made
    BY DEF PendingOffers, Made
  <2> QED BY <2>1, AnswerGood, StatusNames
<1>2. ride[r] \in RideRow
  BY RowTypes
<1>3. fresh \in RideRow /\ fresh.status \in RideStatus /\ fresh.driver = NoDriver /\ fresh.retries <= MaxRetries
  BY FreshRide
<1>4. Put(s, x) /\ UNCHANGED Rows
  BY DEF AdminRedispatch, Rows, Idle
<1> HIDE DEF fresh, answered
<1>5. GoodTx(tx)
  BY <1>1, <1>2, <1>3, SetRideGood
<1>6. /\ mem \in [Ride -> RideRow \cup {Absent}]
      /\ \A q \in Ride : mem[q] # Absent => mem[q].retries <= MaxRetries
  BY <1>3 DEF Idle
<1> HIDE DEF tx, mem
<1>7. GoodSession(x)
  BY <1>5, <1>6, GoodTyped DEF GoodSession, SessionState, Idle, Pc, Cont, Working
<1> QED BY <1>4, <1>7, SessionStep DEF Actor

-----------------------------------------------------------------------------
(* Drivers *)

\* A departure cancels rides without naming a driver.
LEMMA LeaveStep ==
    ASSUME IInv, NEW s \in Session, NEW d \in Driver, NEW row \in DriverRow, row.approved = driver[d].approved,
           Leave(s, d, row), UNCHANGED Rows
    PROVE  IInv'
<1> DEFINE cancel == [KeepRide EXCEPT !.status = "CANCELLED"]
           rides == [r \in Ride |-> IF r \in Unfinished(d) THEN cancel ELSE KeepRide]
           tx == [NoTx EXCEPT !.ride = rides]
<1>1. cancel \in RideWrite /\ KeepRide \in RideWrite
  BY StatusNames DEF KeepRide, RideWrite
<1>2. /\ cancel.retries = Keep /\ cancel.driver = Keep
      /\ KeepRide.retries = Keep /\ KeepRide.driver = Keep
  BY DEF KeepRide
<1>3. tx.ride = rides /\ tx.driver = NoTx.driver /\ tx.offer = NoTx.offer /\ tx \in Tx
  <2>1. rides \in [Ride -> RideWrite]
    BY <1>1
  <2>2. NoTx \in Tx
    BY NoTxGood, GoodTyped
  <2> HIDE DEF rides
  <2> QED BY <2>1, <2>2 DEF Tx
<1>4. \A r \in Ride : rides[r].retries = Keep /\ rides[r].driver = Keep
  BY <1>2
<1> HIDE DEF rides
<1>5. GoodTx(tx)
  <2>1. CleanTx(NoTx)
    BY NoTxGood DEF GoodTx
  <2> HIDE DEF tx
  <2> QED BY <1>3, <1>4, <2>1 DEF GoodTx, CleanTx, BackedTx
<1>6. Submit(s, SetDriver(tx, d, row), "idle", NoRide)
  BY DEF Leave, rides
<1> HIDE DEF tx
<1>7. GoodTx(SetDriver(tx, d, row))
  BY <1>5, RowTypes, SetDriverGood
<1> QED BY <1>6, <1>7, SubmitStep, StatusNames

LEMMA DriverWriteStep ==
    ASSUME IInv, NEW s \in Session, NEW d \in Driver, NEW row \in DriverRow, row.approved = driver[d].approved,
           Submit(s, SetDriver(NoTx, d, row), "idle", NoRide), UNCHANGED Rows
    PROVE  IInv'
<1>1. GoodTx(SetDriver(NoTx, d, row))
  BY NoTxGood, RowTypes, SetDriverGood
<1> QED BY <1>1, SubmitStep, StatusNames

LEMMA UpdateAvailabilityStep ==
    ASSUME IInv, NEW s \in Session, NEW d \in Driver, NEW online \in BOOLEAN, NEW available \in BOOLEAN,
           UpdateAvailability(s, d, online, available)
    PROVE  IInv'
<1> DEFINE active == IF driver[d].approved THEN "ACTIVE" ELSE driver[d].status
           row == [driver[d] EXCEPT
                     !.online = online,
                     !.available = available /\ online /\ driver[d].approved,
                     !.status = active]
<1>1. driver[d] \in DriverRow
  BY RowTypes
<1>2. active \in DriverStatus /\ driver[d].approved \in BOOLEAN
  BY <1>1 DEF DriverRow, DriverStatus
<1>3. row \in DriverRow /\ row.approved = driver[d].approved
  <2> DEFINE free == available /\ online /\ driver[d].approved
  <2>1. free \in BOOLEAN
    BY <1>2
  <2> HIDE DEF free, active
  <2> QED BY <1>1, <1>2, <2>1 DEF DriverRow, free
<1>4. UNCHANGED Rows /\ (Submit(s, SetDriver(NoTx, d, row), "idle", NoRide) \/ Leave(s, d, row))
  BY DEF UpdateAvailability, Rows
<1> HIDE DEF row
<1> QED BY <1>3, <1>4, DriverWriteStep, LeaveStep

LEMMA SuspendStep == ASSUME IInv, NEW s \in Session, NEW d \in Driver, Suspend(s, d) PROVE IInv'
<1> DEFINE row == [driver[d] EXCEPT !.status = "SUSPENDED", !.online = FALSE, !.available = FALSE]
<1>1. row \in DriverRow /\ row.approved = driver[d].approved
  BY RowTypes DEF DriverRow, DriverStatus
<1>2. Submit(s, SetDriver(NoTx, d, row), "idle", NoRide) /\ UNCHANGED Rows
  BY DEF Suspend, Rows
<1> HIDE DEF row
<1> QED BY <1>1, <1>2, DriverWriteStep

LEMMA PresenceTimeoutStep == ASSUME IInv, NEW s \in Session, NEW d \in Driver, PresenceTimeout(s, d) PROVE IInv'
<1> DEFINE row == [driver[d] EXCEPT !.online = FALSE, !.available = FALSE]
<1>1. row \in DriverRow /\ row.approved = driver[d].approved
  BY RowTypes DEF DriverRow
<1>2. Leave(s, d, row) /\ UNCHANGED Rows
  BY DEF PresenceTimeout, Rows
<1> HIDE DEF row
<1> QED BY <1>1, <1>2, LeaveStep

\* A step that leaves the sessions alone and good rows keeps the invariant.
LEMMA EnvironmentStep ==
    ASSUME IInv, UNCHANGED sess, RowTypesOK', GoodRows', Grows
    PROVE  IInv'
<1>1. \A x : GoodSession(x) => GoodSession(x)'
  BY GoodStays
<1>2. ASSUME NEW s \in Actor PROVE GoodSession(sess[s])'
  <2>1. GoodSession(sess[s]) /\ sess'[s] = sess[s]
    BY DEF IInv
  <2> QED BY <1>1, <2>1
<1> QED BY <1>2 DEF IInv, TypeOK, RowTypesOK

LEMMA ApproveDriverStep == ASSUME IInv, NEW d \in Driver, ApproveDriver(d) PROVE IInv'
<1>1. UNCHANGED <<ride, offer, overdue, cand, sess>>
  BY DEF ApproveDriver
<1>2. driver' \in [Driver -> DriverRow] /\ \A e \in Driver : driver[e].approved => driver'[e].approved
  <2> DEFINE row == [driver[d] EXCEPT !.approved = TRUE, !.status = "ACTIVE"]
  <2>1. driver \in [Driver -> DriverRow] /\ driver' = [driver EXCEPT ![d] = row]
    BY DEF ApproveDriver, IInv, TypeOK
  <2>2. row \in DriverRow /\ row.approved = TRUE
    BY <2>1 DEF DriverRow, DriverStatus
  <2> HIDE DEF row
  <2> QED BY <2>1, <2>2
<1>3. RowTypesOK' /\ Grows
  BY <1>1, <1>2 DEF IInv, TypeOK, RowTypesOK, Grows
<1>4. GoodRows'
  BY <1>1, <1>2 DEF IInv, TypeOK, GoodRows, RetryCap, AssignedWasOffered, OffersOnlyToApproved, OffersOf
<1> QED BY <1>1, <1>3, <1>4, EnvironmentStep

-----------------------------------------------------------------------------
(* offer_next_candidate *)

LEMMA SessionFacts ==
    ASSUME IInv, NEW s \in Actor
    PROVE  /\ GoodSession(sess[s])
           /\ sess[s] \in SessionState
           /\ sess[s].pc \in Working => sess[s].ride \in Ride
  BY DEF IInv, GoodSession

\* The candidate list of one ride is replaced by drivers who are approved.
LEMMA CandStep ==
    ASSUME IInv, NEW s \in Actor, NEW x, GoodSession(x), Put(s, x), NEW r \in Ride, NEW C \in SUBSET Driver,
           \A d \in C : driver[d].approved,
           cand' = [cand EXCEPT ![r] = C], UNCHANGED <<ride, offer, driver, overdue>>
    PROVE  IInv'
<1>1. cand' \in [Ride -> SUBSET Driver] /\ \A q \in Ride : \A d \in cand'[q] : driver[d].approved
  BY DEF IInv, TypeOK, GoodRows
<1>2. RowTypesOK' /\ Grows
  BY <1>1 DEF IInv, TypeOK, RowTypesOK, Grows
<1>3. GoodRows'
  BY <1>1 DEF IInv, GoodRows, RetryCap, AssignedWasOffered, OffersOnlyToApproved, OffersOf
<1> QED BY <1>2, <1>3, RowStep

LEMMA EligibleApproved == \A r : Eligible(r) \in SUBSET Driver /\ \A d \in Eligible(r) : driver[d].approved
  BY DEF Eligible, EligibleDriver

LEMMA CandidatesApproved ==
    ASSUME IInv, NEW r \in Ride
    PROVE  Candidates(r) \in SUBSET Driver /\ \A d \in Candidates(r) : driver[d].approved
  BY EligibleApproved DEF IInv, TypeOK, GoodRows, Candidates

LEMMA LoadedGood ==
    ASSUME IInv, NEW s \in Actor, NEW r \in Ride
    PROVE  Loaded(s, r) \in RideRow /\ Loaded(s, r).retries <= MaxRetries
  BY RowTypes, SessionFacts DEF Loaded, GoodSession, SessionState

LEMMA InsertRideStep == ASSUME IInv, NEW s \in Actor, InsertRide(s) PROVE IInv'
<1> DEFINE r == sess[s].ride
           row == [NoRideRow EXCEPT !.status = "MATCHING"]
           x == [sess[s] EXCEPT !.pc = "find", !.mem = [sess[s].mem EXCEPT ![r] = row]]
<1>1. r \in Ride /\ GoodSession(sess[s]) /\ sess[s].pc = "create"
  BY SessionFacts DEF InsertRide, Working
<1>2. row \in RideRow /\ row.driver = NoDriver /\ row.retries <= MaxRetries
  BY FreshRide
<1>3. Put(s, x) /\ ride' = [ride EXCEPT ![r] = row] /\ UNCHANGED <<offer, driver, overdue, cand>>
  BY DEF InsertRide
<1> HIDE DEF row, r
<1>4. GoodSession(x)
  <2> DEFINE mem == [sess[s].mem EXCEPT ![r] = row]
  <2>1. mem \in [Ride -> RideRow \cup {Absent}] /\ \A q \in Ride : mem[q] # Absent => mem[q].retries <= MaxRetries
    BY <1>1, <1>2 DEF GoodSession, SessionState
  <2> HIDE DEF mem
  <2>2. x = [sess[s] EXCEPT !.pc = "find", !.mem = mem]
    BY DEF mem
  <2>3. r = sess[s].ride
    BY DEF r
  <2> HIDE DEF x
  <2> QED BY <1>1, <2>1, <2>2, <2>3 DEF GoodSession, SessionState, Pc, Working
<1>5. ride' \in [Ride -> RideRow] /\ \A q \in Ride : ride'[q] = IF q = r THEN row ELSE ride[q]
  BY <1>1, <1>2, <1>3 DEF IInv, TypeOK
<1>6. RowTypesOK' /\ Grows
  BY <1>3, <1>5 DEF IInv, TypeOK, RowTypesOK, Grows
<1>7. GoodRows'
  BY <1>2, <1>3, <1>5 DEF IInv, GoodRows, RetryCap, AssignedWasOffered, OffersOnlyToApproved, OffersOf
<1> HIDE DEF x
<1> QED BY <1>3, <1>4, <1>6, <1>7, RowStep

LEMMA FindCandidatesStep == ASSUME IInv, NEW s \in Actor, FindCandidates(s) PROVE IInv'
<1> DEFINE r == sess[s].ride
           x == [sess[s] EXCEPT !.pc = "next"]
<1>1. r \in Ride /\ GoodSession(sess[s])
  BY SessionFacts DEF FindCandidates, Working
<1>2. Put(s, x) /\ cand' = [cand EXCEPT ![r] = Eligible(r)] /\ UNCHANGED <<ride, offer, driver, overdue>>
  BY DEF FindCandidates
<1>3. GoodSession(x)
  BY <1>1 DEF GoodSession, SessionState, Pc, Working
<1> HIDE DEF x
<1> QED BY <1>1, <1>2, <1>3, EligibleApproved, CandStep

LEMMA NothingToOfferStep == ASSUME IInv, NEW s \in Actor, NothingToOffer(s) PROVE IInv'
  BY SessionFacts, ReturnedGood, SessionStep DEF NothingToOffer, Rows

LEMMA PickUntriedStep == ASSUME IInv, NEW s \in Actor, PickUntried(s) PROVE IInv'
<1> DEFINE r == sess[s].ride
<1>1. r \in Ride /\ GoodSession(sess[s])
  BY SessionFacts DEF PickUntried, Working
<1>2. PICK d \in Candidates(r) : Put(s, [sess[s] EXCEPT !.pc = "insert", !.driver = d])
  BY DEF PickUntried
<1>3. cand' = [cand EXCEPT ![r] = Candidates(r)] /\ UNCHANGED <<ride, offer, driver, overdue>>
  BY DEF PickUntried
<1>4. Candidates(r) \in SUBSET Driver /\ \A e \in Candidates(r) : driver[e].approved
  BY <1>1, CandidatesApproved
<1>5. GoodSession([sess[s] EXCEPT !.pc = "insert", !.driver = d])
  BY <1>1, <1>4 DEF GoodSession, SessionState, Pc, Working
<1> QED BY <1>1, <1>2, <1>3, <1>4, <1>5, CandStep

\* The guard bounds the copy that is incremented, so the written count is bounded.
LEMMA StartRetryStep == ASSUME IInv, NEW s \in Actor, StartRetry(s) PROVE IInv'
<1> DEFINE r == sess[s].ride
           old == Loaded(s, r)
           new == [old EXCEPT !.retries = old.retries + 1]
           tx == SetRide(NoTx, r, old, new)
           left == Eligible(r) \ Blocking(r)
           x == [sess[s] EXCEPT !.pc = "commit", !.cont = "reselect", !.cands = left, !.tx = tx]
<1>1. r \in Ride /\ GoodSession(sess[s]) /\ old.retries < MaxRetries
  BY SessionFacts DEF StartRetry, MayRetry, AllTried, Working
<1>2. old \in RideRow
  BY <1>1, LoadedGood
<1>3. new \in RideRow /\ new.retries <= MaxRetries /\ new.driver = old.driver /\ new.status = old.status
  <2> HIDE DEF old
  <2>1. old.retries \in Nat
    BY <1>2 DEF RideRow
  <2>2. new = [old EXCEPT !.retries = old.retries + 1] /\ old.retries + 1 \in Nat /\ old.retries + 1 <= MaxRetries
    BY <1>1, <2>1
  <2> QED BY <1>2, <2>2 DEF RideRow
<1>4. new.status \in RideStatus
  <2>1. old.status # "NONE"
    BY <1>1 DEF StartRetry, AllTried, Dispatching, NotDispatched
  <2> QED BY <1>2, <1>3, <2>1 DEF RideRow
<1>5. /\ Put(s, x) /\ cand' = [cand EXCEPT ![r] = Eligible(r)]
      /\ UNCHANGED <<ride, offer, driver, overdue>>
  BY DEF StartRetry
<1> HIDE DEF old, new
<1>6. GoodTx(tx)
  BY <1>1, <1>2, <1>3, <1>4, NoTxGood, SetRideGood
<1>7. left \in SUBSET Driver /\ \A d \in left : driver[d].approved
  BY EligibleApproved
<1> HIDE DEF tx, left
<1>8. GoodSession(x)
  BY <1>1, <1>6, <1>7, GoodTyped DEF GoodSession, SessionState, Pc, Cont, Working
<1> HIDE DEF x
<1> QED BY <1>1, <1>5, <1>8, EligibleApproved, CandStep

LEMMA MarkNoDriversStep ==
    ASSUME IInv, NEW s \in Actor, sess[s].ride \in Ride, NEW held \in RideRow, held.retries <= MaxRetries,
           MarkNoDrivers(s, held), UNCHANGED Rows
    PROVE  IInv'
<1> DEFINE r == sess[s].ride
           none == [held EXCEPT !.status = "NO_DRIVERS_FOUND", !.driver = NoDriver]
           tx == SetRide(NoTx, r, held, none)
           x == [sess[s] EXCEPT !.pc = "commit", !.cont = "idle", !.tx = tx]
<1>1. CASE Put(s, Returned(s))
  BY <1>1, SessionFacts, ReturnedGood, SessionStep
<1>2. CASE Put(s, x)
  <2>1. none \in RideRow /\ none.status = "NO_DRIVERS_FOUND" /\ none.driver = NoDriver /\ none.retries = held.retries
    BY StatusNames DEF RideRow
  <2> HIDE DEF none
  <2>2. GoodTx(tx)
    BY <2>1, NoTxGood, StatusNames, SetRideGood
  <2> HIDE DEF tx
  <2>3. GoodSession(sess[s]) /\ tx \in Tx
    BY <2>2, SessionFacts, GoodTyped
  <2>4. GoodSession(x)
    BY <2>2, <2>3 DEF GoodSession, SessionState, Pc, Cont, Working
  <2> HIDE DEF x
  <2> QED BY <1>2, <2>4, SessionStep
<1> QED BY <1>1, <1>2 DEF MarkNoDrivers

LEMMA GiveUpStep == ASSUME IInv, NEW s \in Actor, GiveUp(s) PROVE IInv'
<1>1. sess[s].ride \in Ride
  BY SessionFacts DEF GiveUp, AllTried, Working
<1>2. MarkNoDrivers(s, Loaded(s, sess[s].ride)) /\ UNCHANGED Rows
  BY DEF GiveUp, Rows
<1> QED BY <1>1, <1>2, LoadedGood, MarkNoDriversStep

LEMMA ReselectStep == ASSUME IInv, NEW s \in Actor, Reselect(s) PROVE IInv'
<1> DEFINE r == sess[s].ride
<1>1. r \in Ride /\ GoodSession(sess[s]) /\ UNCHANGED Rows
  BY SessionFacts DEF Reselect, Working, Rows
<1>2. ASSUME NEW d \in sess[s].cands,
             Put(s, [sess[s] EXCEPT !.pc = "insert", !.driver = d, !.cands = {}])
      PROVE  IInv'
  <2>1. GoodSession([sess[s] EXCEPT !.pc = "insert", !.driver = d, !.cands = {}])
    BY <1>1 DEF GoodSession, SessionState, Pc, Working
  <2> QED BY <1>1, <1>2, <2>1, SessionStep
<1>3. CASE MarkNoDrivers(s, ride[r])
  BY <1>1, <1>3, RowTypes, MarkNoDriversStep
<1> QED BY <1>2, <1>3 DEF Reselect

LEMMA InsertOfferStep == ASSUME IInv, NEW s \in Actor, InsertOffer(s) PROVE IInv'
<1> DEFINE row == [status |-> "PENDING", ride |-> sess[s].ride, driver |-> sess[s].driver]
<1>1. PICK o \in Offer : offer[o].status = "NONE" /\ offer' = [offer EXCEPT ![o] = row]
  BY DEF InsertOffer
<1>2. /\ sess[s].ride \in Ride /\ sess[s].driver \in Driver /\ driver[sess[s].driver].approved
      /\ GoodSession(sess[s])
  BY SessionFacts DEF InsertOffer, GoodSession, Working
<1>3. row \in OfferRow /\ row.status = "PENDING" /\ row.ride \in Ride /\ row.driver \in Driver /\ driver[row.driver].approved
  BY <1>2 DEF OfferRow, OfferStatus
<1>4. Put(s, Returned(s)) /\ UNCHANGED <<ride, driver, overdue, cand>>
  BY DEF InsertOffer
<1> HIDE DEF row
<1>5. offer' \in [Offer -> OfferRow] /\ \A p \in Offer : offer'[p] = IF p = o THEN row ELSE offer[p]
  BY <1>1, <1>3 DEF IInv, TypeOK
<1>6. RowTypesOK' /\ Grows
  BY <1>1, <1>4, <1>5 DEF IInv, TypeOK, RowTypesOK, Grows
<1>7. GoodRows'
  <2>1. AssignedWasOffered'
    BY <1>1, <1>4, <1>5 DEF IInv, GoodRows, AssignedWasOffered, OffersOf
  <2> QED BY <2>1, <1>3, <1>4, <1>5 DEF IInv, GoodRows, RetryCap, OffersOnlyToApproved
<1>8. GoodSession(Returned(s))
  BY <1>2, ReturnedGood
<1> QED BY <1>4, <1>6, <1>7, <1>8, RowStep

\* The commit: what the unit of work writes was promised by GoodTx, what it keeps
\* was good before.
LEMMA CommitStep == ASSUME IInv, NEW s \in Actor, Commit(s) PROVE IInv'
<1> DEFINE tx == sess[s].tx
           x == IF sess[s].cont = "idle" THEN Returned(s)
                ELSE [sess[s] EXCEPT !.pc = sess[s].cont, !.cont = "idle", !.tx = NoTx]
<1>1. GoodSession(sess[s]) /\ sess[s].pc = "commit"
  BY SessionFacts DEF Commit
<1>2. tx \in Tx /\ CleanTx(tx) /\ BackedTx(tx)
  BY <1>1 DEF GoodSession, GoodTx
<1>3. /\ ride' = [r \in Ride |-> RideStored(ride[r], tx.ride[r])]
      /\ driver' = [d \in Driver |-> DriverStored(driver[d], tx.driver[d])]
      /\ offer' = [o \in Offer |-> [offer[o] EXCEPT !.status = Stored(offer[o].status, tx.offer[o])]]
      /\ Put(s, x) /\ UNCHANGED <<overdue, cand>>
  BY DEF Commit
<1>4. GoodSession(x)
  <2>1. CASE sess[s].cont = "idle"
    BY <1>1, <2>1, ReturnedGood
  <2>2. CASE sess[s].cont # "idle"
    <3>1. GoodTx(NoTx) /\ NoTx \in Tx
      BY NoTxGood, GoodTyped
    <3> QED BY <1>1, <2>2, <3>1 DEF GoodSession, SessionState, Pc, Cont, Working
  <2> QED BY <2>1, <2>2
<1> HIDE DEF tx, x
<1>5. ASSUME NEW r \in Ride
      PROVE  /\ ride'[r] \in RideRow
             /\ ride'[r].retries <= MaxRetries
             /\ ride'[r].driver = IF tx.ride[r].driver = Keep THEN ride[r].driver ELSE tx.ride[r].driver
  <2>1. ride[r] \in RideRow /\ ride[r].retries <= MaxRetries /\ tx.ride[r] \in RideWrite
    BY <1>2, RowTypes DEF Tx
  <2>2. tx.ride[r].retries # Keep => tx.ride[r].retries <= MaxRetries
    BY <1>2 DEF CleanTx
  <2>3. ride'[r] = RideStored(ride[r], tx.ride[r])
    BY <1>3
  <2> QED BY <2>1, <2>2, <2>3, RideStoredGood
<1>6. ASSUME NEW d \in Driver
      PROVE  driver'[d] \in DriverRow /\ driver'[d].approved = driver[d].approved
  <2>1. driver[d] \in DriverRow /\ tx.driver[d] \in DriverWrite /\ tx.driver[d].approved = Keep
    BY <1>2, RowTypes DEF Tx, CleanTx
  <2>2. driver'[d] = DriverStored(driver[d], tx.driver[d])
    BY <1>3
  <2> QED BY <2>1, <2>2, DriverStoredGood
<1>7. ASSUME NEW o \in Offer
      PROVE  /\ offer'[o] \in OfferRow
             /\ offer'[o].ride = offer[o].ride /\ offer'[o].driver = offer[o].driver
             /\ offer'[o].status = IF tx.offer[o] = Keep THEN offer[o].status ELSE tx.offer[o]
             /\ tx.offer[o] \in (OfferStatus \ {"PENDING"}) \cup {Keep}
  <2>1. offer[o] \in OfferRow
    BY DEF IInv, TypeOK
  <2>2. tx.offer[o] \in (OfferStatus \ {"PENDING"}) \cup {Keep}
    BY <1>2 DEF Tx, CleanTx
  <2>3. offer'[o] = [offer[o] EXCEPT !.status = Stored(offer[o].status, tx.offer[o])]
    BY <1>3
  <2> QED BY <2>1, <2>2, <2>3 DEF OfferRow, Stored
<1>8. \A o \in Offer : /\ offer[o].status # "NONE" <=> offer'[o].status # "NONE"
                       /\ offer[o].status \notin {"NONE", "PENDING"} => offer'[o].status \notin {"NONE", "PENDING"}
  BY <1>2, <1>7 DEF CleanTx, Made, OfferStatus
<1>9. RowTypesOK'
  BY <1>3, <1>5, <1>6, <1>7 DEF IInv, TypeOK, RowTypesOK
<1>10. Grows
  BY <1>6, <1>7, <1>8 DEF Grows
<1>11. RetryCap'
  BY <1>5 DEF RetryCap
<1>12. AssignedWasOffered'
  <2> SUFFICES ASSUME NEW r \in Ride, ride'[r].driver # NoDriver
               PROVE  \E o \in Offer : /\ offer'[o].status \notin {"NONE", "PENDING"}
                                       /\ offer'[o].ride = r /\ offer'[o].driver = ride'[r].driver
    BY DEF AssignedWasOffered, OffersOf
  <2>1. CASE tx.ride[r].driver = Keep
    <3>1. ride'[r].driver = ride[r].driver
      BY <1>5, <2>1
    <3>2. PICK o \in Offer : /\ offer[o].status \notin {"NONE", "PENDING"}
                            /\ offer[o].ride = r /\ offer[o].driver = ride[r].driver
      BY <3>1 DEF IInv, GoodRows, AssignedWasOffered, OffersOf
    <3> QED BY <1>7, <1>8, <3>1, <3>2
  <2>2. CASE tx.ride[r].driver # Keep
    <3>1. ride'[r].driver = tx.ride[r].driver /\ tx.ride[r].driver \in Driver
      BY <1>2, <1>5, <2>2 DEF Tx, RideWrite
    <3>2. PICK o \in Offer : /\ tx.offer[o] = "ACCEPTED" /\ offer[o].status # "NONE"
                            /\ offer[o].ride = r /\ offer[o].driver = tx.ride[r].driver
      BY <1>2, <3>1 DEF BackedTx
    <3>3. offer'[o].status = "ACCEPTED"
      BY <1>7, <3>2 DEF OfferStatus
    <3> QED BY <1>7, <3>1, <3>2, <3>3
  <2> QED BY <2>1, <2>2
<1>13. OffersOnlyToApproved'
  BY <1>6, <1>7, <1>8 DEF IInv, GoodRows, OffersOnlyToApproved
<1>14. \A o \in Offer : offer'[o].status # "NONE" => offer'[o].ride \in Ride /\ offer'[o].driver \in Driver
  BY <1>7, <1>8, RowTypes
<1>15. \A r \in Ride : \A d \in cand'[r] : driver'[d].approved
  BY <1>3, <1>6 DEF IInv, TypeOK, GoodRows
<1>16. GoodRows'
  BY <1>11, <1>12, <1>13, <1>14, <1>15 DEF GoodRows
<1> QED BY <1>3, <1>4, <1>9, <1>10, <1>16, RowStep

-----------------------------------------------------------------------------
(* The worker and the environment *)

LEMMA ExpireElapsedStep == ASSUME IInv, ExpireElapsed PROVE IInv'
<1> DEFINE expired == Elapsed
           tx == Answer(NoTx, expired, "EXPIRED")
           rides == {offer[o].ride : o \in expired}
           x == [Idle EXCEPT !.pc = "commit", !.cont = "loop", !.last = "recover", !.tx = tx, !.todo = rides]
<1>1. UNCHANGED Rows
  BY DEF ExpireElapsed, Rows
<1>2. CASE Put(Worker, [Idle EXCEPT !.pc = "recover"])
  <2>1. "recover" \in Pc \ Working
    BY DEF Pc, Working
  <2> QED BY <1>1, <1>2, <2>1, EmptyGood, SessionStep DEF Actor
<1>3. CASE Put(Worker, x)
  <2>1. GoodTx(tx)
    <3>1. expired \in SUBSET Made
      BY DEF Elapsed, Made
    <3> QED BY <3>1, AnswerGood, StatusNames
  <2>2. rides \in SUBSET Ride
    BY RowTypes DEF Elapsed
  <2> HIDE DEF tx, rides
  <2>3. GoodSession(x)
    BY <2>1, <2>2, GoodTyped DEF GoodSession, SessionState, Idle, Pc, Cont, Working
  <2> HIDE DEF x
  <2> QED BY <1>1, <1>3, <2>3, SessionStep DEF Actor
<1> QED BY <1>2, <1>3 DEF ExpireElapsed

LEMMA RecoverStaleStep == ASSUME IInv, RecoverStale PROVE IInv'
<1> DEFINE stale == Stale
           mem == [r \in Ride |-> IF r \in stale THEN ride[r] ELSE Absent]
           x == [Idle EXCEPT !.pc = "loop", !.todo = stale, !.mem = mem]
<1>1. UNCHANGED Rows
  BY DEF RecoverStale, Rows
<1>2. CASE Put(Worker, Idle)
  <2>1. GoodTx(NoTx) /\ NoTx \in Tx
    BY NoTxGood, GoodTyped
  <2>2. GoodSession(Idle)
    BY <2>1 DEF GoodSession, SessionState, Idle, Pc, Cont, Working
  <2> QED BY <1>1, <1>2, <2>2, SessionStep DEF Actor
<1>3. CASE Put(Worker, x)
  <2>1. /\ mem \in [Ride -> RideRow \cup {Absent}]
        /\ \A r \in Ride : mem[r] # Absent => mem[r].retries <= MaxRetries
    BY RowTypes
  <2>2. stale \in SUBSET Ride /\ GoodTx(NoTx) /\ NoTx \in Tx
    BY NoTxGood, GoodTyped DEF Stale
  <2> HIDE DEF mem, stale
  <2>3. GoodSession(x)
    BY <2>1, <2>2 DEF GoodSession, SessionState, Idle, Pc, Cont, Working
  <2> HIDE DEF x
  <2> QED BY <1>1, <1>3, <2>3, SessionStep DEF Actor
<1> QED BY <1>2, <1>3 DEF RecoverStale

LEMMA NextRideStep == ASSUME IInv, NextRide PROVE IInv'
<1>1. UNCHANGED Rows /\ GoodSession(sess[Worker])
  BY SessionFacts DEF NextRide, Rows, Actor
<1>2. PICK r \in sess[Worker].todo :
        Put(Worker, [sess[Worker] EXCEPT !.pc = "next", !.ride = r, !.todo = sess[Worker].todo \ {r}])
  BY DEF NextRide
<1>3. GoodSession([sess[Worker] EXCEPT !.pc = "next", !.ride = r, !.todo = sess[Worker].todo \ {r}])
  BY <1>1 DEF GoodSession, SessionState, Pc, Working
<1> QED BY <1>1, <1>2, <1>3, SessionStep DEF Actor

LEMMA ElapseStep == ASSUME IInv, NEW o \in Offer, Elapse(o) PROVE IInv'
<1>1. UNCHANGED <<ride, offer, driver, cand, sess>> /\ overdue' = overdue \cup {o}
  BY DEF Elapse
<1>2. RowTypesOK' /\ Grows
  BY <1>1 DEF IInv, TypeOK, RowTypesOK, Grows
<1>3. GoodRows'
  BY <1>1 DEF IInv, GoodRows, RetryCap, AssignedWasOffered, OffersOnlyToApproved, OffersOf
<1> QED BY <1>1, <1>2, <1>3, EnvironmentStep

LEMMA CandidatesLapseStep == ASSUME IInv, NEW r \in Ride, CandidatesLapse(r) PROVE IInv'
<1>1. UNCHANGED <<ride, offer, driver, overdue, sess>> /\ cand' = [cand EXCEPT ![r] = {}]
  BY DEF CandidatesLapse
<1>2. RowTypesOK' /\ Grows
  BY <1>1 DEF IInv, TypeOK, RowTypesOK, Grows
<1>3. GoodRows'
  BY <1>1 DEF IInv, TypeOK, GoodRows, RetryCap, AssignedWasOffered, OffersOnlyToApproved, OffersOf
<1> QED BY <1>1, <1>2, <1>3, EnvironmentStep

LEMMA AbortStep == ASSUME IInv, NEW s \in Actor, Abort(s) PROVE IInv'
<1> DEFINE pc == IF s = Worker THEN "dead" ELSE "idle"
<1>1. pc \in Pc \ Working
  BY DEF Pc, Working
<1>2. Put(s, [Idle EXCEPT !.pc = pc]) /\ UNCHANGED Rows
  BY DEF Abort, Rows
<1> HIDE DEF pc
<1> QED BY <1>1, <1>2, EmptyGood, SessionStep

LEMMA RestartWorkerStep == ASSUME IInv, RestartWorker PROVE IInv'
<1>1. GoodTx(NoTx) /\ NoTx \in Tx
  BY NoTxGood, GoodTyped
<1>2. GoodSession(Idle)
  BY <1>1 DEF GoodSession, SessionState, Idle, Pc, Cont, Working
<1> QED BY <1>2, SessionStep DEF RestartWorker, Rows, Actor

-----------------------------------------------------------------------------
(* The inductive invariant and the theorems *)

LEMMA InitInv == Init => IInv
<1> SUFFICES ASSUME Init PROVE IInv
  OBVIOUS
<1>1. NoRideRow \in RideRow /\ NoRideRow.driver = NoDriver /\ NoRideRow.retries = 0
  BY DEF NoRideRow, RideRow
<1>2. NoOfferRow \in OfferRow /\ NoOfferRow.status = "NONE"
  BY DEF NoOfferRow, OfferRow
<1>3. InitialDriver \subseteq DriverRow
  BY DEF InitialDriver, DriverRow, DriverStatus
<1>4. GoodSession(Idle)
  <2>1. GoodTx(NoTx) /\ NoTx \in Tx
    BY NoTxGood, GoodTyped
  <2> QED BY <2>1 DEF GoodSession, SessionState, Idle, Pc, Cont, Working
<1>5. \A s \in Actor : GoodSession(sess[s])
  BY <1>4 DEF Init
<1>6. TypeOK
  BY <1>1, <1>2, <1>3, <1>4 DEF Init, TypeOK, GoodSession
<1>7. GoodRows
  BY <1>1, <1>2 DEF Init, GoodRows, RetryCap, AssignedWasOffered, OffersOnlyToApproved
<1> QED BY <1>5, <1>6, <1>7 DEF IInv

LEMMA NextInv == IInv /\ [Next]_vars => IInv'
<1> SUFFICES ASSUME IInv, [Next]_vars PROVE IInv'
  OBVIOUS
<1>1. CASE \E s \in Session : RideRequest(s)
  BY <1>1, CreateRideStep, CancelRideStep, DriverStatusActionStep, CompleteRideStep, AdminRedispatchStep DEF RideRequest
<1>2. CASE \E s \in Session : OfferRequest(s)
  BY <1>2, AcceptOfferStep, RejectOfferStep DEF OfferRequest
<1>3. CASE \E s \in Session : DriverRequest(s)
  BY <1>3, UpdateAvailabilityStep, SuspendStep, PresenceTimeoutStep DEF DriverRequest
<1>4. CASE \E s \in Actor : Proceed(s)
  BY <1>4, InsertRideStep, FindCandidatesStep, NothingToOfferStep, PickUntriedStep, StartRetryStep, GiveUpStep,
     ReselectStep, InsertOfferStep, CommitStep DEF Proceed
<1>5. CASE WorkerPass
  BY <1>5, ExpireElapsedStep, RecoverStaleStep, NextRideStep DEF WorkerPass
<1>6. CASE Environment
  BY <1>6, ElapseStep, CandidatesLapseStep, ApproveDriverStep, AbortStep, RestartWorkerStep DEF Environment
<1>7. CASE UNCHANGED vars
  <2>1. UNCHANGED sess /\ UNCHANGED Rows
    BY <1>7 DEF vars, Rows
  <2>2. RowTypesOK' /\ Grows
    BY <2>1 DEF IInv, TypeOK, RowTypesOK, Grows, Rows
  <2>3. GoodRows'
    BY <2>1 DEF IInv, GoodRows, RetryCap, AssignedWasOffered, OffersOnlyToApproved, OffersOf, Rows
  <2> QED BY <2>1, <2>2, <2>3, EnvironmentStep
<1> QED BY <1>1, <1>2, <1>3, <1>4, <1>5, <1>6, <1>7 DEF Next

\* IInv holds in every reachable state, for any interleaving, crash and restart.
THEOREM Inductive == Spec => []IInv
  BY InitInv, NextInv, PTL DEF Spec

\* Every variable keeps its type.
THEOREM TypeCorrect == Spec => []TypeOK
<1>1. IInv => TypeOK
  BY DEF IInv
<1> QED BY <1>1, Inductive, PTL

\* No interleaving of retry rounds takes a ride past settings.max_dispatch_retries.
THEOREM RetryCapHolds == Spec => []RetryCap
<1>1. IInv => RetryCap
  BY DEF IInv, GoodRows
<1> QED BY <1>1, Inductive, PTL

\* Whoever a ride names as its driver was offered it and answered.
THEOREM AssignedWasOfferedHolds == Spec => []AssignedWasOffered
<1>1. IInv => AssignedWasOffered
  BY DEF IInv, GoodRows
<1> QED BY <1>1, Inductive, PTL

\* No offer goes to a driver whom onboarding has not approved.
THEOREM OffersOnlyToApprovedHolds == Spec => []OffersOnlyToApproved
<1>1. IInv => OffersOnlyToApproved
  BY DEF IInv, GoodRows
<1> QED BY <1>1, Inductive, PTL

----------------------------------------------------------------------------
(* When operations do not overlap.  One operation is still many steps:      *)
(* several commits, reads from the identity map in between, and a crash may *)
(* end it after any of them.  SerialInv says what the tables hold at each   *)
(* of these points, and what the one session in flight has already read and *)
(* relies upon.                                                             *)

\* The rows as a commit of "tx" leaves them.
RidesAfter(rd, tx) == [r \in Ride |-> RideStored(rd[r], tx.ride[r])]
OffersAfter(of, tx) == [o \in Offer |-> [of[o] EXCEPT !.status = Stored(of[o].status, tx.offer[o])]]

PendingIn(of, r) == {o \in Offer : of[o].status = "PENDING" /\ of[o].ride = r}

\* What the rides table and the offers table say of one ride agrees.
SoundRide(row, of, r) ==
    /\ \A o, p \in PendingIn(of, r) : o = p
    /\ row.status \in Progressing \cup {"RIDE_COMPLETED"} =>
          \E o \in Offer : of[o] = [status |-> "ACCEPTED", ride |-> r, driver |-> row.driver]
    /\ row.status \in {"MATCHING", "NO_DRIVERS_FOUND"} => row.driver = NoDriver
    /\ PendingIn(of, r) # {} => row.status \in {"MATCHING", "CANCELLED"}
    /\ \A o \in Offer : of[o].status # "NONE" /\ of[o].ride = r => row.status # "NONE"

\* A ride that offer_next_candidate may be called for, as the session sees it.
Expected(x, rd, r) == rd[r].status \in {"MATCHING", "CANCELLED"} /\ x.mem[r] \in {Absent, rd[r]}

\* What a session at "pc" relies upon.
Waits(x, pc, rd, of) ==
    /\ x.ride \notin x.todo
    /\ \A r \in x.todo : Expected(x, rd, r)
    /\ pc = "create" => rd[x.ride].status = "NONE"
    /\ pc \in {"find", "next"} => Expected(x, rd, x.ride)
    /\ pc \in {"reselect", "insert"} => rd[x.ride].status = "MATCHING" /\ PendingIn(of, x.ride) = {}

\* The life of a ride, as one row of rides and the table of offers tell it.
AskedIn(of, r) ==
    IF PendingIn(of, r) = {} THEN NoDriver ELSE of[CHOOSE o \in PendingIn(of, r) : TRUE].driver

LifeOf(stage, asked, mate, rounds) == [stage |-> stage, asked |-> asked, mate |-> mate, rounds |-> rounds]
LifeIn(row, of, r) == LifeOf(row.status, AskedIn(of, r), row.driver, row.retries)

LegalMove(l, m) == m = l \/ Lifecycle!Move(l, m)

\* A unit of work that leaves every ride sound, and completed rides alone; each ride
\* makes one move of its lifecycle or none.
SerialTx(tx, rd, of) ==
    \A r \in Ride : /\ SoundRide(RidesAfter(rd, tx)[r], OffersAfter(of, tx), r)
                    /\ rd[r].status = "RIDE_COMPLETED" => RidesAfter(rd, tx)[r] = rd[r]
                    /\ LegalMove(LifeIn(rd[r], of, r), LifeIn(RidesAfter(rd, tx)[r], OffersAfter(of, tx), r))

\* A session about to commit relies upon the rows that its commit will leave.
Ready(x, rd, of) ==
    IF x.pc = "commit"
    THEN SerialTx(x.tx, rd, of) /\ Waits(x, x.cont, RidesAfter(rd, x.tx), OffersAfter(of, x.tx))
    ELSE Waits(x, x.pc, rd, of)

SerialInv ==
    /\ \A s, t \in Actor : ~Quiet(s) /\ ~Quiet(t) => s = t
    /\ \A r \in Ride : SoundRide(ride[r], offer, r)
    /\ \A s \in Actor : ~Quiet(s) => Ready(sess[s], ride, offer)

-----------------------------------------------------------------------------
(* Offers sent out between two redispatches *)

\* At most one offer of the ride per driver asked, and one per retry round; a
\* round that is about to ask is counted already.
Sent(r) == Cardinality(OffersOf(r))
Allowed(r) == Cardinality(Attempted(r)) + ride[r].retries

Thrifty(x) ==
    /\ x.pc = "commit" => \A r \in Ride : ride[r].retries <= RidesAfter(ride, x.tx)[r].retries
    /\ x.pc = "commit" /\ x.cont = "reselect" => ride[x.ride].retries < RidesAfter(ride, x.tx)[x.ride].retries
    /\ x.pc = "reselect" => Sent(x.ride) < Allowed(x.ride)
    /\ x.pc = "insert" => x.driver \notin Attempted(x.ride) \/ Sent(x.ride) < Allowed(x.ride)

BudgetInv ==
    /\ \A r \in Ride : IsFiniteSet(OffersOf(r)) /\ Sent(r) <= Allowed(r)
    /\ \A s \in Actor : ~Quiet(s) => Thrifty(sess[s])

USE WorkerAssumption, NullAssumption, RetriesAssumption, OfferAssumption, KeepAssumption

-----------------------------------------------------------------------------
(* Units of work and what they leave *)

\* Writing the difference gives the new row; writing nothing gives the old one.
LEMMA DiffStored ==
    ASSUME NEW old \in RideRow, NEW new \in RideRow, new.status \in RideStatus
    PROVE  RideStored(old, RideDiff(old, new)) = new
<1>1. /\ Stored(old.status, Column(old.status, new.status)) = new.status
      /\ Stored(old.driver, Column(old.driver, new.driver)) = new.driver
      /\ Stored(old.retries, Column(old.retries, new.retries)) = new.retries
  BY DEF RideRow, Stored, Column
<1>2. new = [status |-> new.status, driver |-> new.driver, retries |-> new.retries]
  BY DEF RideRow
<1> QED BY <1>1, <1>2 DEF RideStored, RideDiff

LEMMA KeepStored == ASSUME NEW row \in RideRow PROVE RideStored(row, KeepRide) = row
  BY DEF RideRow, RideStored, KeepRide, Stored

\* Offers that change from "of" to "ng" were pending and have been answered.
Settled(of, ng) ==
    \A o \in Offer : \/ ng[o] = of[o]
                     \/ /\ of[o].status = "PENDING"
                        /\ ng[o].status \in {"ACCEPTED", "REJECTED", "EXPIRED"}
                        /\ ng[o].ride = of[o].ride /\ ng[o].driver = of[o].driver

\* The unit of work answers offers that are pending, and no others.
AnswersPending(tx) ==
    \A o \in Offer : \/ tx.offer[o] = Keep
                     \/ offer[o].status = "PENDING" /\ tx.offer[o] \in {"ACCEPTED", "REJECTED", "EXPIRED"}

LEMMA AnswersSettle ==
    ASSUME offer \in [Offer -> OfferRow], NEW tx, AnswersPending(tx)
    PROVE  /\ Settled(offer, OffersAfter(offer, tx))
           /\ \A o \in Offer : OffersAfter(offer, tx)[o] =
                 IF tx.offer[o] = Keep THEN offer[o]
                 ELSE [status |-> tx.offer[o], ride |-> offer[o].ride, driver |-> offer[o].driver]
<1>1. ASSUME NEW o \in Offer
      PROVE  OffersAfter(offer, tx)[o] =
                IF tx.offer[o] = Keep THEN offer[o]
                ELSE [status |-> tx.offer[o], ride |-> offer[o].ride, driver |-> offer[o].driver]
  <2>1. offer[o] \in OfferRow /\ OffersAfter(offer, tx)[o] = [offer[o] EXCEPT !.status = Stored(offer[o].status, tx.offer[o])]
    BY DEF OffersAfter
  <2> QED BY <2>1 DEF OfferRow, Stored
<1>2. ASSUME NEW o \in Offer, tx.offer[o] # Keep
      PROVE  /\ offer[o].status = "PENDING"
             /\ OffersAfter(offer, tx)[o].status \in {"ACCEPTED", "REJECTED", "EXPIRED"}
             /\ OffersAfter(offer, tx)[o].ride = offer[o].ride
             /\ OffersAfter(offer, tx)[o].driver = offer[o].driver
  <2>1. offer[o].status = "PENDING" /\ tx.offer[o] \in {"ACCEPTED", "REJECTED", "EXPIRED"}
    BY <1>2 DEF AnswersPending
  <2>2. OffersAfter(offer, tx)[o] = [status |-> tx.offer[o], ride |-> offer[o].ride, driver |-> offer[o].driver]
    BY <1>1, <1>2
  <2> HIDE DEF OffersAfter
  <2> QED BY <2>1, <2>2
<1>3. \A o \in Offer : tx.offer[o] = Keep => OffersAfter(offer, tx)[o] = offer[o]
  BY <1>1
<1>4. Settled(offer, OffersAfter(offer, tx))
  BY <1>2, <1>3 DEF Settled
<1> QED BY <1>1, <1>4

\* Answering a pending offer keeps the two tables in step for an unchanged ride.
LEMMA SettledSound ==
    ASSUME NEW of, NEW ng, Settled(of, ng), NEW row, NEW r, SoundRide(row, of, r)
    PROVE  SoundRide(row, ng, r)
<1>1. PendingIn(ng, r) \subseteq PendingIn(of, r)
  BY DEF Settled, PendingIn
<1>2. \A o \in Offer : of[o].status = "ACCEPTED" => ng[o] = of[o]
  BY DEF Settled
<1>3. \A o \in Offer : ng[o].status # "NONE" /\ ng[o].ride = r => of[o].status # "NONE" /\ of[o].ride = r
  BY DEF Settled
<1> QED BY <1>1, <1>2, <1>3 DEF SoundRide

SoundRows == \A r \in Ride : SoundRide(ride[r], offer, r)

-----------------------------------------------------------------------------
(* Lives of rides *)

\* The moves of a lifecycle on the fields of a life.
LEMMA LifeMoves ==
    ASSUME NEW st, NEW a, NEW m, NEW n
    PROVE  /\ LegalMove(LifeOf(st, a, m, n), LifeOf(st, a, m, n))
           /\ st = "NONE" => LegalMove(LifeOf(st, a, m, n), LifeOf("MATCHING", NoDriver, NoDriver, 0))
           /\ a # NoDriver => LegalMove(LifeOf(st, a, m, n), LifeOf(st, NoDriver, m, n))
           /\ a # NoDriver => LegalMove(LifeOf(st, a, m, n), LifeOf("DRIVER_ASSIGNED", NoDriver, a, n))
           /\ st \in {"MATCHING", "NO_DRIVERS_FOUND"} =>
                 LegalMove(LifeOf(st, a, m, n), LifeOf("MATCHING", NoDriver, NoDriver, 0))
           /\ st \notin {"NONE", "CANCELLED", "RIDE_COMPLETED"} => LegalMove(LifeOf(st, a, m, n), LifeOf("CANCELLED", a, m, n))
<1>1. LegalMove(LifeOf(st, a, m, n), LifeOf(st, a, m, n))
  BY DEF LegalMove
<1>2. ASSUME st = "NONE" PROVE LegalMove(LifeOf(st, a, m, n), LifeOf("MATCHING", NoDriver, NoDriver, 0))
  BY <1>2 DEF LegalMove, LifeOf, Lifecycle!Move, Lifecycle!Request, Lifecycle!Fresh
<1>3. ASSUME a # NoDriver PROVE LegalMove(LifeOf(st, a, m, n), LifeOf(st, NoDriver, m, n))
  BY <1>3 DEF LegalMove, LifeOf, Lifecycle!Move, Lifecycle!Unanswered
<1>4. ASSUME a # NoDriver PROVE LegalMove(LifeOf(st, a, m, n), LifeOf("DRIVER_ASSIGNED", NoDriver, a, n))
  BY <1>4 DEF LegalMove, LifeOf, Lifecycle!Move, Lifecycle!Accept
<1>5. ASSUME st \in {"MATCHING", "NO_DRIVERS_FOUND"}
      PROVE  LegalMove(LifeOf(st, a, m, n), LifeOf("MATCHING", NoDriver, NoDriver, 0))
  BY <1>5 DEF LegalMove, LifeOf, Lifecycle!Move, Lifecycle!Redispatch, Lifecycle!Fresh
<1>6. ASSUME st \notin {"NONE", "CANCELLED", "RIDE_COMPLETED"}
      PROVE  LegalMove(LifeOf(st, a, m, n), LifeOf("CANCELLED", a, m, n))
  BY <1>6 DEF LegalMove, LifeOf, Lifecycle!Move, Lifecycle!Cancel, Lifecycle!Final
<1> QED BY <1>1, <1>2, <1>3, <1>4, <1>5, <1>6

\* The moves of a ride that is matched and waits for nobody.
LEMMA IdlingMoves ==
    ASSUME NEW m, NEW n
    PROVE  /\ \A d \in Driver : LegalMove(LifeOf("MATCHING", NoDriver, m, n), LifeOf("MATCHING", d, m, n))
           /\ n < MaxRetries => LegalMove(LifeOf("MATCHING", NoDriver, m, n), LifeOf("MATCHING", NoDriver, m, n + 1))
           /\ LegalMove(LifeOf("MATCHING", NoDriver, m, n), LifeOf("NO_DRIVERS_FOUND", NoDriver, m, n))
<1>1. ASSUME NEW d \in Driver PROVE LegalMove(LifeOf("MATCHING", NoDriver, m, n), LifeOf("MATCHING", d, m, n))
  BY DEF LegalMove, LifeOf, Lifecycle!Move, Lifecycle!Ask, Lifecycle!Idling
<1>2. ASSUME n < MaxRetries
      PROVE  LegalMove(LifeOf("MATCHING", NoDriver, m, n), LifeOf("MATCHING", NoDriver, m, n + 1))
  BY <1>2 DEF LegalMove, LifeOf, Lifecycle!Move, Lifecycle!Round, Lifecycle!Idling
<1>3. LegalMove(LifeOf("MATCHING", NoDriver, m, n), LifeOf("NO_DRIVERS_FOUND", NoDriver, m, n))
  BY DEF LegalMove, LifeOf, Lifecycle!Move, Lifecycle!GiveUp, Lifecycle!Idling
<1> QED BY <1>1, <1>2, <1>3

\* The stages under way follow each other as RideService.transition lets them.
LEMMA AdvanceMoves ==
    ASSUME NEW st, NEW to \in {"DRIVER_EN_ROUTE", "DRIVER_ARRIVED", "RIDE_STARTED", "RIDE_COMPLETED"}, MayMove(st, to),
           NEW a, NEW m, NEW n
    PROVE  /\ st \in Progressing
           /\ LegalMove(LifeOf(st, a, m, n), LifeOf(to, a, m, n))
<1>1. /\ st \in {"DRIVER_ASSIGNED", "DRIVER_EN_ROUTE", "DRIVER_ARRIVED", "RIDE_STARTED"}
      /\ st = "DRIVER_ASSIGNED" => to = "DRIVER_EN_ROUTE"
      /\ st = "DRIVER_EN_ROUTE" => to = "DRIVER_ARRIVED"
      /\ st = "DRIVER_ARRIVED" => to = "RIDE_STARTED"
      /\ st = "RIDE_STARTED" => to = "RIDE_COMPLETED"
  BY DEF MayMove, LegalTransitions
<1>2. st \in DOMAIN Lifecycle!NextStage /\ to = Lifecycle!NextStage[st]
  BY <1>1 DEF Lifecycle!NextStage
<1>3. Lifecycle!Advance(LifeOf(st, a, m, n), LifeOf(to, a, m, n))
  BY <1>2 DEF Lifecycle!Advance, LifeOf
<1> QED BY <1>1, <1>3 DEF LegalMove, Lifecycle!Move, Progressing

\* The driver asked is the one of the pending offer; answers only end the wait.
LEMMA AskedDriver ==
    ASSUME NEW of, NEW r, NEW row, SoundRide(row, of, r)
    PROVE  /\ PendingIn(of, r) = {} => AskedIn(of, r) = NoDriver
           /\ \A o \in PendingIn(of, r) : AskedIn(of, r) = of[o].driver
<1>1. ASSUME NEW o \in PendingIn(of, r) PROVE AskedIn(of, r) = of[o].driver
  <2> DEFINE c == CHOOSE p \in PendingIn(of, r) : TRUE
  <2>1. c \in PendingIn(of, r)
    OBVIOUS
  <2>2. c = o
    BY <2>1 DEF SoundRide, PendingIn
  <2> QED BY <2>2 DEF AskedIn
<1> QED BY <1>1 DEF AskedIn

LEMMA SettledAsked ==
    ASSUME NEW of, NEW ng, Settled(of, ng), NEW row, NEW r, SoundRide(row, of, r)
    PROVE  AskedIn(ng, r) \in {AskedIn(of, r), NoDriver}
<1>1. SoundRide(row, ng, r)
  BY SettledSound
<1>2. CASE PendingIn(ng, r) = {}
  BY <1>1, <1>2, AskedDriver
<1>3. CASE PendingIn(ng, r) # {}
  <2>1. PICK o \in PendingIn(ng, r) : TRUE
    BY <1>3
  <2>2. o \in PendingIn(of, r) /\ ng[o] = of[o]
    BY <2>1 DEF PendingIn, Settled
  <2> QED BY <1>1, <2>1, <2>2, AskedDriver
<1> QED BY <1>2, <1>3

\* A ride whose row does not change moves only by an answer.
LEMMA SettledMove ==
    ASSUME NEW of, NEW ng, Settled(of, ng), NEW row, NEW r, SoundRide(row, of, r)
    PROVE  LegalMove(LifeIn(row, of, r), LifeIn(row, ng, r))
<1>1. AskedIn(ng, r) = AskedIn(of, r) \/ (AskedIn(of, r) # NoDriver /\ AskedIn(ng, r) = NoDriver)
  BY SettledAsked
<1> QED BY <1>1, LifeMoves DEF LifeIn

\* A unit of work without answers leaves the offers as they are.
LEMMA SameOffers ==
    ASSUME offer \in [Offer -> OfferRow], NEW tx, \A o \in Offer : tx.offer[o] = Keep
    PROVE  OffersAfter(offer, tx) = offer
<1>1. AnswersPending(tx)
  BY DEF AnswersPending
<1>2. \A o \in Offer : OffersAfter(offer, tx)[o] = offer[o]
  BY <1>1, AnswersSettle
<1> QED BY <1>2 DEF OffersAfter

-----------------------------------------------------------------------------
(* Units of work that keep the tables in step *)

\* A unit of work that changes one ride is judged by what it does to that ride.
LEMMA OneRideTx ==
    ASSUME IInv, SoundRows, NEW tx, AnswersPending(tx), NEW r \in Ride, NEW new,
           \A q \in Ride : q # r => tx.ride[q] = KeepRide,
           RideStored(ride[r], tx.ride[r]) = new,
           SoundRide(new, OffersAfter(offer, tx), r),
           LegalMove(LifeIn(ride[r], offer, r), LifeIn(new, OffersAfter(offer, tx), r)),
           ride[r].status # "RIDE_COMPLETED"
    PROVE  SerialTx(tx, ride, offer) /\ RidesAfter(ride, tx) = [ride EXCEPT ![r] = new]
<1>1. ride \in [Ride -> RideRow] /\ offer \in [Offer -> OfferRow]
  BY DEF IInv, TypeOK
<1>2. \A q \in Ride : RidesAfter(ride, tx)[q] = IF q = r THEN new ELSE ride[q]
  BY <1>1, KeepStored DEF RidesAfter
<1>3. RidesAfter(ride, tx) = [ride EXCEPT ![r] = new]
  BY <1>1, <1>2 DEF RidesAfter
<1>4. \A q \in Ride : /\ SoundRide(ride[q], OffersAfter(offer, tx), q)
                      /\ LegalMove(LifeIn(ride[q], offer, q), LifeIn(ride[q], OffersAfter(offer, tx), q))
  BY <1>1, AnswersSettle, SettledSound, SettledMove DEF SoundRows
<1> QED BY <1>2, <1>3, <1>4 DEF SerialTx

\* One that changes no ride.
LEMMA NoRideTx ==
    ASSUME IInv, SoundRows, NEW tx, AnswersPending(tx), \A q \in Ride : tx.ride[q] = KeepRide
    PROVE  SerialTx(tx, ride, offer) /\ RidesAfter(ride, tx) = ride
<1>1. ride \in [Ride -> RideRow] /\ offer \in [Offer -> OfferRow]
  BY DEF IInv, TypeOK
<1>2. \A q \in Ride : RidesAfter(ride, tx)[q] = ride[q]
  BY <1>1, KeepStored DEF RidesAfter
<1>3. RidesAfter(ride, tx) = ride
  BY <1>1, <1>2 DEF RidesAfter
<1>4. \A q \in Ride : /\ SoundRide(ride[q], OffersAfter(offer, tx), q)
                      /\ LegalMove(LifeIn(ride[q], offer, q), LifeIn(ride[q], OffersAfter(offer, tx), q))
  BY <1>1, AnswersSettle, SettledSound, SettledMove DEF SoundRows
<1> QED BY <1>2, <1>3, <1>4 DEF SerialTx

\* What the operators that extend a unit of work change in it.
LEMMA AnswerFields ==
    ASSUME NEW tx \in Tx, NEW os, NEW st \in OfferStatus
    PROVE  /\ Answer(tx, os, st) \in Tx
           /\ Answer(tx, os, st).ride = tx.ride
           /\ \A o \in Offer : Answer(tx, os, st).offer[o] = IF o \in os THEN st ELSE tx.offer[o]
  BY DEF Answer, Tx

LEMMA SetRideFields ==
    ASSUME NEW tx \in Tx, NEW r \in Ride, NEW old \in RideRow, NEW new \in RideRow, new.status \in RideStatus
    PROVE  /\ SetRide(tx, r, old, new) \in Tx
           /\ SetRide(tx, r, old, new).offer = tx.offer
           /\ \A q \in Ride : SetRide(tx, r, old, new).ride[q] = IF q = r THEN RideDiff(old, new) ELSE tx.ride[q]
<1> DEFINE w == RideDiff(old, new)
<1>1. w \in RideWrite
  BY RideDiffGood
<1> HIDE DEF w
<1> QED BY <1>1 DEF SetRide, Tx, w

LEMMA SetDriverFields ==
    ASSUME NEW tx \in Tx, NEW d, NEW new
    PROVE  SetDriver(tx, d, new).ride = tx.ride /\ SetDriver(tx, d, new).offer = tx.offer
  BY DEF SetDriver, Tx

\* Only the rides and the offers that a unit of work writes matter here.
LEMMA SameTx ==
    ASSUME NEW tx, NEW ty, NEW rd, NEW of, tx.ride = ty.ride, tx.offer = ty.offer
    PROVE  /\ RidesAfter(rd, tx) = RidesAfter(rd, ty)
           /\ OffersAfter(of, tx) = OffersAfter(of, ty)
           /\ SerialTx(tx, rd, of) <=> SerialTx(ty, rd, of)
  BY DEF RidesAfter, OffersAfter, SerialTx

LEMMA EmptyTx ==
    /\ NoTx \in Tx
    /\ \A r \in Ride : NoTx.ride[r] = KeepRide
    /\ \A o \in Offer : NoTx.offer[o] = Keep
  BY NoTxGood, GoodTyped

-----------------------------------------------------------------------------
(* Sessions *)

Others(s) == Actor \ {s}

\* An operation starts while nothing is in flight, and then is alone.
LEMMA StartsAlone ==
    ASSUME Serial, NEW s, NEW kind, MayStart(s, kind)
    PROVE  \A t \in Others(s) : Quiet(t)
  BY DEF MayStart, Others

LEMMA StaysAlone ==
    ASSUME SerialInv, NEW s \in Actor, ~Quiet(s)
    PROVE  /\ \A t \in Others(s) : Quiet(t)
           /\ Ready(sess[s], ride, offer)
  BY DEF SerialInv, Others

\* The rows are sound after the step, and the session that took it knows them.
LEMMA SerialRowStep ==
    ASSUME IInv, NEW s \in Actor, NEW x, \A t \in Others(s) : Quiet(t), Put(s, x),
           \A r \in Ride : SoundRide(ride'[r], offer', r),
           x.pc \in {"idle", "dead"} \/ Ready(x, ride', offer')
    PROVE  SerialInv'
<1>1. \A t \in Actor : sess'[t] = IF t = s THEN x ELSE sess[t]
  BY DEF IInv, TypeOK, Put
<1>2. \A t \in Others(s) : sess'[t].pc \in {"idle", "dead"}
  BY <1>1 DEF Others, Quiet
<1>3. \A t \in Actor : Quiet(t)' <=> sess'[t].pc \in {"idle", "dead"}
  BY DEF Quiet
<1>4. \A t, u \in Actor : ~Quiet(t)' /\ ~Quiet(u)' => t = u
  BY <1>2, <1>3 DEF Others
<1>5. \A t \in Actor : ~Quiet(t)' => Ready(sess'[t], ride', offer')
  BY <1>1, <1>2, <1>3 DEF Others
<1> QED BY <1>4, <1>5 DEF SerialInv

LEMMA SerialSessionStep ==
    ASSUME IInv, SerialInv, NEW s \in Actor, NEW x, \A t \in Others(s) : Quiet(t), Put(s, x),
           UNCHANGED <<ride, offer>>,
           x.pc \in {"idle", "dead"} \/ Ready(x, ride, offer)
    PROVE  SerialInv'
<1>1. \A r \in Ride : SoundRide(ride'[r], offer', r)
  BY DEF SerialInv
<1>2. x.pc \in {"idle", "dead"} \/ Ready(x, ride', offer')
  OBVIOUS
<1> QED BY <1>1, <1>2, SerialRowStep

\* A step that touches neither the sessions nor the two tables.
LEMMA SerialOutsideStep == ASSUME SerialInv, UNCHANGED <<ride, offer, sess>> PROVE SerialInv'
  BY DEF SerialInv, Quiet

\* offer_next_candidate returns: the next ride of a pass is as it was selected.
LEMMA ReturnedReady ==
    ASSUME IInv, NEW s \in Actor, NEW rd, NEW of, \A r \in sess[s].todo : Expected(sess[s], rd, r)
    PROVE  Returned(s).pc \in {"idle", "dead"} \/ Ready(Returned(s), rd, of)
<1>1. sess[s] \in SessionState
  BY SessionFacts
<1>2. CASE sess[s].todo # {}
  <2> DEFINE x == [sess[s] EXCEPT !.pc = "loop", !.ride = NoRide, !.driver = NoDriver, !.cands = {}, !.tx = NoTx, !.cont = "idle"]
  <2>1. Returned(s) = x
    BY <1>2 DEF Returned
  <2>2. x.pc = "loop" /\ x.ride = NoRide /\ x.todo = sess[s].todo /\ x.mem = sess[s].mem
    BY <1>1 DEF SessionState
  <2>3. NoRide \notin x.todo
    BY <1>1, <2>2 DEF SessionState
  <2>4. \A r \in x.todo : Expected(x, rd, r)
    BY <2>2 DEF Expected
  <2> HIDE DEF x
  <2> QED BY <2>1, <2>2, <2>3, <2>4 DEF Ready, Waits
<1>3. CASE sess[s].todo = {}
  <2>1. Returned(s).pc \in {"idle", "recover"} /\ Returned(s).todo = {}
    BY <1>1, <1>3 DEF Returned, Idle, SessionState
  <2> QED BY <2>1 DEF Ready, Waits
<1> QED BY <1>2, <1>3

\* A request submits what it computed.  Only a rejection goes on afterwards.
LEMMA SerialSubmit ==
    ASSUME IInv, SerialInv, Serial, NEW s \in Session, NEW kind, MayStart(s, kind),
           NEW tx, SerialTx(tx, ride, offer), NEW cont, NEW r,
           Submit(s, tx, cont, r), UNCHANGED Rows,
           \/ cont = "idle"
           \/ cont = "next" /\ r \in Ride /\ RidesAfter(ride, tx)[r].status \in {"MATCHING", "CANCELLED"}
    PROVE  SerialInv'
<1> DEFINE x == [Idle EXCEPT !.pc = "commit", !.tx = tx, !.cont = cont, !.ride = r]
<1>1. x.pc = "commit" /\ x.tx = tx /\ x.cont = cont /\ x.ride = r /\ x.todo = {} /\ x.mem = Idle.mem
  BY DEF Idle
<1>2. r \in Ride => x.mem[r] = Absent
  BY <1>1 DEF Idle
<1>3. Put(s, x) /\ UNCHANGED <<ride, offer>> /\ \A t \in Others(s) : Quiet(t)
  BY StartsAlone DEF Submit, Rows
<1> HIDE DEF x
<1>4. Waits(x, cont, RidesAfter(ride, tx), OffersAfter(offer, tx))
  BY <1>1, <1>2 DEF Waits, Expected
<1>5. Ready(x, ride, offer)
  BY <1>1, <1>4 DEF Ready
<1> QED BY <1>3, <1>5, SerialSessionStep DEF Actor

-----------------------------------------------------------------------------
(* Rider, driver and admin requests *)

LEMMA SerialCreateRide ==
    ASSUME IInv, SerialInv, Serial, NEW s \in Session, NEW r \in Ride, CreateRide(s, r)
    PROVE  SerialInv'
<1> DEFINE x == [Idle EXCEPT !.pc = "create", !.ride = r]
<1>1. x.pc = "create" /\ x.ride = r /\ x.todo = {}
  BY DEF Idle
<1>2. Put(s, x) /\ UNCHANGED <<ride, offer>> /\ ride[r].status = "NONE" /\ \A t \in Others(s) : Quiet(t)
  BY StartsAlone DEF CreateRide
<1> HIDE DEF x
<1>3. Ready(x, ride, offer)
  BY <1>1, <1>2 DEF Ready, Waits
<1> QED BY <1>2, <1>3, SerialSessionStep DEF Actor

\* A cancellation, or the next status of a ride under way.
LEMMA SerialStatusTx ==
    ASSUME IInv, SerialInv, NEW r \in Ride, NEW st \in RideStatus,
           \/ st = "CANCELLED" /\ ride[r].status \in Open
           \/ /\ st \in {"DRIVER_EN_ROUTE", "DRIVER_ARRIVED", "RIDE_STARTED", "RIDE_COMPLETED"}
              /\ MayMove(ride[r].status, st)
    PROVE  SerialTx(SetRide(NoTx, r, ride[r], [ride[r] EXCEPT !.status = st]), ride, offer)
<1> DEFINE new == [ride[r] EXCEPT !.status = st]
           tx == SetRide(NoTx, r, ride[r], new)
<1>1. ride[r] \in RideRow
  BY RowTypes
<1>2. new \in RideRow /\ new.status = st /\ new.driver = ride[r].driver /\ new.retries = ride[r].retries
  BY <1>1 DEF RideRow
<1> HIDE DEF new
<1>a. \/ st = "CANCELLED" /\ ride[r].status \in Open
      \/ st \in Progressing \cup {"RIDE_COMPLETED"} /\ ride[r].status \in Progressing
  BY AdvanceMoves DEF Progressing
<1>b. ride[r].status \notin {"NONE", "CANCELLED", "RIDE_COMPLETED"}
  BY <1>a DEF Open, Progressing
<1>c. \A a, m, n : LegalMove(LifeOf(ride[r].status, a, m, n), LifeOf(st, a, m, n))
  BY <1>b, AdvanceMoves, LifeMoves
<1>3. /\ \A q \in Ride : tx.ride[q] = IF q = r THEN RideDiff(ride[r], new) ELSE KeepRide
      /\ \A o \in Offer : tx.offer[o] = Keep
  <2>1. NoTx \in Tx /\ new.status \in RideStatus
    BY <1>2, EmptyTx
  <2>2. /\ tx.offer = NoTx.offer
        /\ \A q \in Ride : tx.ride[q] = IF q = r THEN RideDiff(ride[r], new) ELSE NoTx.ride[q]
    BY <1>1, <1>2, <2>1, SetRideFields
  <2> HIDE DEF tx
  <2> QED BY <2>2, EmptyTx
<1>4. RideStored(ride[r], tx.ride[r]) = new
  BY <1>1, <1>2, <1>3, DiffStored
<1> HIDE DEF tx
<1>5. AnswersPending(tx)
  BY <1>3 DEF AnswersPending
<1>6. SoundRide(new, offer, r)
  <2>1. SoundRide(ride[r], offer, r)
    BY DEF SerialInv
  <2>2. st \notin {"MATCHING", "NO_DRIVERS_FOUND", "NONE"} /\ Progressing \cap {"MATCHING", "CANCELLED"} = {}
    BY DEF Progressing, RideStatus, Open, Closed
  <2>3. st = "CANCELLED" => st \notin Progressing \cup {"RIDE_COMPLETED"}
    BY DEF Progressing
  <2> QED BY <1>2, <1>a, <2>1, <2>2, <2>3 DEF SoundRide
<1>7. OffersAfter(offer, tx) = offer
  BY <1>3, SameOffers DEF IInv, TypeOK
<1>8. LegalMove(LifeIn(ride[r], offer, r), LifeIn(new, offer, r))
  BY <1>2, <1>c DEF LifeIn
<1>9. SerialTx(tx, ride, offer)
  BY <1>3, <1>4, <1>5, <1>6, <1>7, <1>8, <1>b, OneRideTx DEF SerialInv, SoundRows
<1> QED BY <1>9 DEF tx, new

\* The unit of work of an acceptance in time.
LEMMA AcceptFields ==
    ASSUME IInv, NEW o \in Offer, offer[o].status = "PENDING"
    PROVE  LET r == offer[o].ride
               d == offer[o].driver
               assigned == [ride[r] EXCEPT !.status = "DRIVER_ASSIGNED", !.driver = d]
               tx == SetDriver(SetRide(Accepted(o), r, ride[r], assigned), d, [driver[d] EXCEPT !.available = FALSE])
           IN  /\ assigned \in RideRow /\ assigned.status = "DRIVER_ASSIGNED"
               /\ assigned.driver = d /\ assigned.retries = ride[r].retries
               /\ \A q \in Ride : tx.ride[q] = IF q = r THEN RideDiff(ride[r], assigned) ELSE KeepRide
               /\ \A p \in Offer : tx.offer[p] =
                     IF p = o THEN "ACCEPTED" ELSE IF p \in PendingOffers(r) THEN "EXPIRED" ELSE Keep
<1> DEFINE r == offer[o].ride
           d == offer[o].driver
           assigned == [ride[r] EXCEPT !.status = "DRIVER_ASSIGNED", !.driver = d]
           busy == [driver[d] EXCEPT !.available = FALSE]
           mid == SetRide(Accepted(o), r, ride[r], assigned)
           tx == SetDriver(mid, d, busy)
<1>1. r \in Ride /\ d \in Driver /\ ride[r] \in RideRow
  BY RowTypes
<1>2. /\ Accepted(o) \in Tx
      /\ \A q \in Ride : Accepted(o).ride[q] = KeepRide
      /\ \A p \in Offer : Accepted(o).offer[p] =
            IF p = o THEN "ACCEPTED" ELSE IF p \in PendingOffers(r) THEN "EXPIRED" ELSE Keep
  <2> DEFINE first == Answer(NoTx, {o}, "ACCEPTED")
             others == PendingOffers(r) \ {o}
  <2>1. /\ first \in Tx /\ first.ride = NoTx.ride
        /\ \A p \in Offer : first.offer[p] = IF p = o THEN "ACCEPTED" ELSE Keep
    BY EmptyTx, AnswerFields, StatusNames
  <2>2. Accepted(o) = Answer(first, others, "EXPIRED")
    BY DEF Accepted
  <2> HIDE DEF first
  <2>3. /\ Accepted(o) \in Tx /\ Accepted(o).ride = first.ride
        /\ \A p \in Offer : Accepted(o).offer[p] = IF p \in others THEN "EXPIRED" ELSE first.offer[p]
    BY <2>1, <2>2, AnswerFields, StatusNames
  <2> QED BY <2>1, <2>3, EmptyTx
<1>3. /\ assigned \in RideRow /\ assigned.status = "DRIVER_ASSIGNED"
      /\ assigned.driver = d /\ assigned.retries = ride[r].retries
  <2> DEFINE row == ride[r]
  <2> HIDE DEF row, d
  <2> QED BY <1>1, StatusNames DEF RideRow, row
<1> HIDE DEF assigned, busy
<1>4. /\ mid \in Tx
      /\ mid.offer = Accepted(o).offer
      /\ \A q \in Ride : mid.ride[q] = IF q = r THEN RideDiff(ride[r], assigned) ELSE KeepRide
  <2>1. assigned.status \in RideStatus
    BY <1>3, StatusNames
  <2>2. /\ mid \in Tx /\ mid.offer = Accepted(o).offer
        /\ \A q \in Ride : mid.ride[q] = IF q = r THEN RideDiff(ride[r], assigned) ELSE Accepted(o).ride[q]
    BY <1>1, <1>2, <1>3, <2>1, SetRideFields
  <2> HIDE DEF mid
  <2> QED BY <1>2, <2>2
<1> HIDE DEF mid
<1>5. tx.ride = mid.ride /\ tx.offer = mid.offer
  BY <1>4, SetDriverFields
<1> HIDE DEF tx
<1>6. /\ \A q \in Ride : tx.ride[q] = IF q = r THEN RideDiff(ride[r], assigned) ELSE KeepRide
      /\ \A p \in Offer : tx.offer[p] =
            IF p = o THEN "ACCEPTED" ELSE IF p \in PendingOffers(r) THEN "EXPIRED" ELSE Keep
  BY <1>2, <1>4, <1>5
<1> QED BY <1>3, <1>6 DEF tx, mid, assigned, busy

LEMMA SerialAcceptOffer ==
    ASSUME IInv, SerialInv, Serial, NEW s \in Session, NEW o \in Offer, AcceptOffer(s, o)
    PROVE  SerialInv'
<1> DEFINE r == offer[o].ride
           d == offer[o].driver
           assigned == [ride[r] EXCEPT !.status = "DRIVER_ASSIGNED", !.driver = d]
           tx == SetDriver(SetRide(Accepted(o), r, ride[r], assigned), d, [driver[d] EXCEPT !.available = FALSE])
           late == Answer(NoTx, {o}, "EXPIRED")
<1>1. r \in Ride /\ ride[r] \in RideRow /\ offer[o].status = "PENDING"
  BY RowTypes DEF AcceptOffer, Answerable
<1>2. UNCHANGED Rows /\ MayStart(s, "accept")
  BY DEF AcceptOffer, Rows
<1>3. CASE Submit(s, late, "idle", r)
  <2>1. /\ \A q \in Ride : late.ride[q] = KeepRide
        /\ \A p \in Offer : late.offer[p] = IF p = o THEN "EXPIRED" ELSE Keep
    BY EmptyTx, AnswerFields, StatusNames
  <2> HIDE DEF late
  <2>2. SerialTx(late, ride, offer)
    BY <1>1, <2>1, NoRideTx DEF AnswersPending, SerialInv, SoundRows
  <2> QED BY <1>2, <1>3, <2>2, SerialSubmit
<1>4. CASE Submit(s, tx, "idle", r)
  <2>1. /\ assigned \in RideRow /\ assigned.status = "DRIVER_ASSIGNED"
        /\ assigned.driver = d /\ assigned.retries = ride[r].retries
        /\ \A q \in Ride : tx.ride[q] = IF q = r THEN RideDiff(ride[r], assigned) ELSE KeepRide
        /\ \A p \in Offer : tx.offer[p] =
              IF p = o THEN "ACCEPTED" ELSE IF p \in PendingOffers(r) THEN "EXPIRED" ELSE Keep
    BY <1>1, AcceptFields
  <2> HIDE DEF assigned, tx
  <2>2. AnswersPending(tx)
    BY <1>1, <2>1 DEF AnswersPending, PendingOffers
  <2>3. RideStored(ride[r], tx.ride[r]) = assigned
    BY <1>1, <2>1, DiffStored, StatusNames
  <2>4. /\ SoundRide(assigned, OffersAfter(offer, tx), r)
        /\ LegalMove(LifeIn(ride[r], offer, r), LifeIn(assigned, OffersAfter(offer, tx), r))
    <3> DEFINE ng == OffersAfter(offer, tx)
    <3>1. /\ Settled(offer, ng)
          /\ \A p \in Offer : ng[p] = IF tx.offer[p] = Keep THEN offer[p]
                ELSE [status |-> tx.offer[p], ride |-> offer[p].ride, driver |-> offer[p].driver]
      BY <2>2, AnswersSettle DEF IInv, TypeOK
    <3>2. ng[o] = [status |-> "ACCEPTED", ride |-> r, driver |-> d]
      BY <2>1, <3>1 DEF OfferStatus
    <3>3. PendingIn(ng, r) = {}
      <4> SUFFICES ASSUME NEW p \in Offer, ng[p].status = "PENDING", ng[p].ride = r PROVE FALSE
        BY DEF PendingIn
      <4>1. ng[p] = offer[p]
        BY <3>1 DEF Settled
      <4>2. p \in PendingOffers(r)
        BY <4>1 DEF PendingOffers
      <4>3. tx.offer[p] # Keep /\ tx.offer[p] \in {"ACCEPTED", "EXPIRED"}
        BY <2>1, <4>2 DEF OfferStatus
      <4>4. ng[p] = [status |-> tx.offer[p], ride |-> offer[p].ride, driver |-> offer[p].driver]
        BY <3>1, <4>3
      <4> HIDE DEF ng
      <4> QED BY <4>3, <4>4
    <3> HIDE DEF ng
    <3>4. SoundRide(assigned, ng, r)
      BY <2>1, <3>2, <3>3 DEF SoundRide
    <3>5. AskedIn(offer, r) = d /\ AskedIn(ng, r) = NoDriver /\ d # NoDriver
      <4>1. o \in PendingIn(offer, r) /\ SoundRide(ride[r], offer, r) /\ d \in Driver
        BY <1>1, RowTypes DEF PendingIn, SerialInv
      <4> QED BY <3>3, <3>4, <4>1, AskedDriver
    <3> QED BY <2>1, <3>4, <3>5, LifeMoves DEF LifeIn, ng
  <2>5. ride[r].status # "RIDE_COMPLETED"
    <3>1. o \in PendingIn(offer, r)
      BY <1>1 DEF PendingIn
    <3> QED BY <1>1, <3>1 DEF SerialInv, SoundRide
  <2>6. SerialTx(tx, ride, offer)
    BY <1>1, <2>1, <2>2, <2>3, <2>4, <2>5, OneRideTx DEF SerialInv, SoundRows
  <2> QED BY <1>2, <1>4, <2>6, SerialSubmit DEF tx, assigned
<1> QED BY <1>3, <1>4 DEF AcceptOffer

LEMMA SerialRejectOffer ==
    ASSUME IInv, SerialInv, Serial, NEW s \in Session, NEW o \in Offer, RejectOffer(s, o)
    PROVE  SerialInv'
<1> DEFINE r == offer[o].ride
           tx == Answer(NoTx, {o}, "REJECTED")
<1>1. r \in Ride /\ offer[o].status = "PENDING"
  BY RowTypes DEF RejectOffer, Answerable
<1>2. Submit(s, tx, "next", r) /\ MayStart(s, "reject") /\ UNCHANGED Rows
  BY DEF RejectOffer, Rows
<1>3. /\ \A q \in Ride : tx.ride[q] = KeepRide
      /\ \A p \in Offer : tx.offer[p] = IF p = o THEN "REJECTED" ELSE Keep
  BY EmptyTx, AnswerFields, StatusNames
<1> HIDE DEF tx
<1>4. SerialTx(tx, ride, offer) /\ RidesAfter(ride, tx) = ride
  BY <1>1, <1>3, NoRideTx DEF AnswersPending, SerialInv, SoundRows
<1>5. ride[r].status \in {"MATCHING", "CANCELLED"}
  <2>1. o \in PendingIn(offer, r)
    BY <1>1 DEF PendingIn
  <2> QED BY <1>1, <2>1 DEF SerialInv, SoundRide
<1> QED BY <1>1, <1>2, <1>4, <1>5, SerialSubmit

LEMMA SerialCancelRide ==
    ASSUME IInv, SerialInv, Serial, NEW s \in Session, NEW r \in Ride, CancelRide(s, r)
    PROVE  SerialInv'
<1> DEFINE d == ride[r].driver
           tx == SetRide(NoTx, r, ride[r], [ride[r] EXCEPT !.status = "CANCELLED"])
           released == [driver[d] EXCEPT !.available = TRUE, !.online = TRUE]
           ty == SetDriver(tx, d, released)
<1>1. MayStart(s, "cancel") /\ UNCHANGED Rows /\ ride[r].status \in Open
  BY DEF CancelRide, Rows
<1>3. SerialTx(tx, ride, offer)
  BY <1>1, SerialStatusTx, StatusNames
<1>4. tx \in Tx
  BY StatusGood, StatusNames, GoodTyped
<1>5. SerialTx(ty, ride, offer)
  <2> HIDE DEF tx
  <2> QED BY <1>3, <1>4, SetDriverFields, SameTx
<1>6. Submit(s, tx, "idle", r) \/ Submit(s, ty, "idle", r)
  BY DEF CancelRide
<1> HIDE DEF tx, ty
<1> QED BY <1>1, <1>3, <1>5, <1>6, SerialSubmit

LEMMA SerialDriverStatusAction ==
    ASSUME IInv, SerialInv, Serial, NEW s \in Session, NEW r \in Ride,
           NEW to \in {"DRIVER_EN_ROUTE", "DRIVER_ARRIVED", "RIDE_STARTED"}, DriverStatusAction(s, r, to)
    PROVE  SerialInv'
<1> DEFINE tx == SetRide(NoTx, r, ride[r], [ride[r] EXCEPT !.status = to])
<1>1. /\ MayStart(s, "status") /\ UNCHANGED Rows /\ MayMove(ride[r].status, to)
      /\ Submit(s, tx, "idle", r)
  BY DEF DriverStatusAction, Rows
<1>2. SerialTx(tx, ride, offer)
  BY <1>1, SerialStatusTx, StatusNames
<1> HIDE DEF tx
<1> QED BY <1>1, <1>2, SerialSubmit

LEMMA SerialCompleteRide ==
    ASSUME IInv, SerialInv, Serial, NEW s \in Session, NEW r \in Ride, CompleteRide(s, r)
    PROVE  SerialInv'
<1> DEFINE d == ride[r].driver
           tx == SetRide(NoTx, r, ride[r], [ride[r] EXCEPT !.status = "RIDE_COMPLETED"])
           released == [driver[d] EXCEPT !.available = TRUE, !.online = TRUE]
           ty == SetDriver(tx, d, released)
<1>1. /\ MayStart(s, "complete") /\ UNCHANGED Rows /\ MayMove(ride[r].status, "RIDE_COMPLETED")
      /\ Submit(s, ty, "idle", r)
  BY DEF CompleteRide, Rows
<1>3. SerialTx(tx, ride, offer)
  BY <1>1, SerialStatusTx, StatusNames
<1>4. tx \in Tx
  BY StatusGood, StatusNames, GoodTyped
<1>5. SerialTx(ty, ride, offer)
  <2> HIDE DEF tx
  <2> QED BY <1>3, <1>4, SetDriverFields, SameTx
<1> HIDE DEF tx, ty
<1> QED BY <1>1, <1>5, SerialSubmit

\* The redispatch expires what is pending and starts over; the object it keeps in
\* the session is the row that its commit leaves.
LEMMA SerialAdminRedispatch ==
    ASSUME IInv, SerialInv, Serial, NEW s \in Session, NEW r \in Ride, AdminRedispatch(s, r)
    PROVE  SerialInv'
<1> DEFINE fresh == [NoRideRow EXCEPT !.status = "MATCHING"]
           answered == Answer(NoTx, PendingOffers(r), "EXPIRED")
           tx == SetRide(answered, r, ride[r], fresh)
           mem == [Idle.mem EXCEPT ![r] = fresh]
           x == [Idle EXCEPT !.pc = "commit", !.cont = "find", !.ride = r, !.mem = mem, !.tx = tx]
<1>1. ride[r] \in RideRow /\ ride \in [Ride -> RideRow]
  BY RowTypes DEF IInv, TypeOK
<1>2. fresh \in RideRow /\ fresh.status = "MATCHING" /\ fresh.driver = NoDriver /\ fresh.retries = 0
  BY FreshRide DEF NoRideRow
<1>3. /\ Put(s, x) /\ UNCHANGED <<ride, offer>> /\ \A t \in Others(s) : Quiet(t)
      /\ ride[r].status \in {"NO_DRIVERS_FOUND", "MATCHING"}
  BY StartsAlone DEF AdminRedispatch, Rows, Idle
<1>4. mem[r] = fresh
  BY DEF Idle
<1> HIDE DEF fresh, mem
<1>5. /\ answered \in Tx
      /\ \A q \in Ride : answered.ride[q] = KeepRide
      /\ \A o \in Offer : answered.offer[o] = IF o \in PendingOffers(r) THEN "EXPIRED" ELSE Keep
  BY EmptyTx, AnswerFields, StatusNames
<1> HIDE DEF answered
<1>6. /\ \A q \in Ride : tx.ride[q] = IF q = r THEN RideDiff(ride[r], fresh) ELSE KeepRide
      /\ \A o \in Offer : tx.offer[o] = IF o \in PendingOffers(r) THEN "EXPIRED" ELSE Keep
  <2>1. fresh.status \in RideStatus
    BY <1>2, StatusNames
  <2>2. /\ tx.offer = answered.offer
        /\ \A q \in Ride : tx.ride[q] = IF q = r THEN RideDiff(ride[r], fresh) ELSE answered.ride[q]
    BY <1>1, <1>2, <1>5, <2>1, SetRideFields
  <2> HIDE DEF tx
  <2> QED BY <1>5, <2>2
<1>7. RideStored(ride[r], tx.ride[r]) = fresh
  BY <1>1, <1>2, <1>6, DiffStored, StatusNames
<1> HIDE DEF tx
<1>8. AnswersPending(tx)
  BY <1>6 DEF AnswersPending, PendingOffers
<1>9. /\ SoundRide(fresh, OffersAfter(offer, tx), r)
      /\ LegalMove(LifeIn(ride[r], offer, r), LifeIn(fresh, OffersAfter(offer, tx), r))
  <2> DEFINE ng == OffersAfter(offer, tx)
  <2>1. /\ Settled(offer, ng)
        /\ \A o \in Offer : ng[o] = IF tx.offer[o] = Keep THEN offer[o]
              ELSE [status |-> tx.offer[o], ride |-> offer[o].ride, driver |-> offer[o].driver]
    BY <1>8, AnswersSettle DEF IInv, TypeOK
  <2>a. PendingIn(ng, r) = {}
    <3> SUFFICES ASSUME NEW o \in Offer, ng[o].status = "PENDING", ng[o].ride = r PROVE FALSE
      BY DEF PendingIn
    <3>1. ng[o] = offer[o]
      BY <2>1 DEF Settled
    <3>2. tx.offer[o] = "EXPIRED" /\ "EXPIRED" # Keep
      BY <1>6, <3>1, StatusNames DEF PendingOffers
    <3>3. ng[o] = [status |-> "EXPIRED", ride |-> offer[o].ride, driver |-> offer[o].driver]
      BY <2>1, <3>2
    <3> HIDE DEF ng
    <3> QED BY <3>3
  <2> HIDE DEF ng
  <2>2. SoundRide(ride[r], ng, r)
    BY <2>1, SettledSound DEF SerialInv
  <2>3. fresh.status \notin Progressing \cup {"RIDE_COMPLETED", "NONE"}
    BY <1>2 DEF Progressing
  <2>4. SoundRide(fresh, ng, r)
    BY <1>2, <2>2, <2>3 DEF SoundRide
  <2>5. LegalMove(LifeIn(ride[r], offer, r), LifeIn(fresh, ng, r))
    BY <1>2, <1>3, <2>a, <2>4, AskedDriver, LifeMoves DEF LifeIn
  <2> QED BY <2>4, <2>5 DEF ng
<1>10. SerialTx(tx, ride, offer) /\ RidesAfter(ride, tx)[r] = fresh
  BY <1>1, <1>3, <1>6, <1>7, <1>8, <1>9, OneRideTx DEF SerialInv, SoundRows
<1>11. x.pc = "commit" /\ x.cont = "find" /\ x.ride = r /\ x.todo = {} /\ x.mem = mem /\ x.tx = tx
  BY DEF Idle
<1> HIDE DEF x
<1>12. Waits(x, "find", RidesAfter(ride, tx), OffersAfter(offer, tx))
  BY <1>2, <1>4, <1>10, <1>11 DEF Waits, Expected
<1>13. Ready(x, ride, offer)
  BY <1>10, <1>11, <1>12 DEF Ready
<1> QED BY <1>3, <1>13, SerialSessionStep DEF Actor

-----------------------------------------------------------------------------
(* Drivers *)

\* A departure cancels rides that are under way: their offers are answered.
LEMMA SerialLeave ==
    ASSUME IInv, SerialInv, Serial, NEW s \in Session, NEW kind, MayStart(s, kind), NEW d \in Driver, NEW row,
           Leave(s, d, row), UNCHANGED Rows
    PROVE  SerialInv'
<1> DEFINE cancel == [KeepRide EXCEPT !.status = "CANCELLED"]
           rides == [r \in Ride |-> IF r \in Unfinished(d) THEN cancel ELSE KeepRide]
           mid == [NoTx EXCEPT !.ride = rides]
           tx == SetDriver(mid, d, row)
<1>1. mid \in Tx /\ mid.ride = rides /\ mid.offer = NoTx.offer
  <2>1. rides \in [Ride -> RideWrite]
    BY StatusNames DEF KeepRide, RideWrite
  <2> HIDE DEF rides
  <2> QED BY <2>1, EmptyTx DEF Tx
<1>2. \A r \in Ride : RideStored(ride[r], cancel) = [ride[r] EXCEPT !.status = "CANCELLED"]
  <2>1. cancel.status = "CANCELLED" /\ cancel.driver = Keep /\ cancel.retries = Keep
    BY DEF KeepRide
  <2>2. "CANCELLED" # Keep
    BY StatusNames
  <2> HIDE DEF cancel
  <2> QED BY <2>1, <2>2, RowTypes DEF RideStored, Stored, RideRow
<1>3. ASSUME NEW r \in Ride
      PROVE  RidesAfter(ride, mid)[r] = IF r \in Unfinished(d) THEN [ride[r] EXCEPT !.status = "CANCELLED"] ELSE ride[r]
  BY <1>1, <1>2, RowTypes, KeepStored DEF RidesAfter
<1>4. OffersAfter(offer, mid) = offer
  <2> HIDE DEF mid
  <2> QED BY <1>1, EmptyTx, SameOffers DEF IInv, TypeOK
<1>5. Submit(s, tx, "idle", NoRide)
  BY DEF Leave
<1> HIDE DEF mid, cancel, rides
<1>6. SerialTx(mid, ride, offer)
  <2> SUFFICES ASSUME NEW r \in Ride
               PROVE  /\ SoundRide(RidesAfter(ride, mid)[r], OffersAfter(offer, mid), r)
                      /\ ride[r].status = "RIDE_COMPLETED" => RidesAfter(ride, mid)[r] = ride[r]
                      /\ LegalMove(LifeIn(ride[r], offer, r),
                                   LifeIn(RidesAfter(ride, mid)[r], OffersAfter(offer, mid), r))
    BY DEF SerialTx
  <2>1. SoundRide(ride[r], offer, r)
    BY DEF SerialInv
  <2>2. CASE r \in Unfinished(d)
    <3>1. ride[r].status \in Progressing /\ ride[r] \in RideRow
      BY <2>2, RowTypes DEF Unfinished
    <3>2. /\ RidesAfter(ride, mid)[r].status = "CANCELLED"
          /\ RidesAfter(ride, mid)[r].driver = ride[r].driver
          /\ RidesAfter(ride, mid)[r].retries = ride[r].retries
      BY <1>3, <2>2, <3>1 DEF RideRow
    <3>3. {"CANCELLED", "RIDE_COMPLETED", "NONE"} \cap Progressing = {}
      BY DEF Progressing
    <3>4. SoundRide(RidesAfter(ride, mid)[r], offer, r)
      BY <2>1, <3>1, <3>2, <3>3 DEF SoundRide
    <3>5. LegalMove(LifeIn(ride[r], offer, r), LifeIn(RidesAfter(ride, mid)[r], offer, r))
      BY <3>1, <3>2, <3>3, LifeMoves DEF LifeIn
    <3> QED BY <1>4, <3>1, <3>3, <3>4, <3>5
  <2>3. CASE r \notin Unfinished(d)
    BY <1>3, <1>4, <2>1, <2>3 DEF LegalMove
  <2> QED BY <2>2, <2>3
<1>7. SerialTx(tx, ride, offer)
  BY <1>1, <1>6, SetDriverFields, SameTx
<1> HIDE DEF tx
<1> QED BY <1>5, <1>7, SerialSubmit

LEMMA SerialDriverWrite ==
    ASSUME IInv, SerialInv, Serial, NEW s \in Session, NEW kind, MayStart(s, kind), NEW d \in Driver, NEW row,
           Submit(s, SetDriver(NoTx, d, row), "idle", NoRide), UNCHANGED Rows
    PROVE  SerialInv'
<1>1. SerialTx(NoTx, ride, offer)
  BY EmptyTx, NoRideTx DEF AnswersPending, SerialInv, SoundRows
<1>2. SerialTx(SetDriver(NoTx, d, row), ride, offer)
  BY <1>1, EmptyTx, SetDriverFields, SameTx
<1> QED BY <1>2, SerialSubmit

LEMMA SerialDriverRequest ==
    ASSUME IInv, SerialInv, Serial, NEW s \in Session, DriverRequest(s)
    PROVE  SerialInv'
<1>1. ASSUME NEW d \in Driver, NEW online \in BOOLEAN, NEW available \in BOOLEAN,
             UpdateAvailability(s, d, online, available)
      PROVE  SerialInv'
  BY <1>1, SerialDriverWrite, SerialLeave DEF UpdateAvailability, Rows
<1>2. ASSUME NEW d \in Driver, Suspend(s, d) PROVE SerialInv'
  BY <1>2, SerialDriverWrite DEF Suspend, Rows
<1>3. ASSUME NEW d \in Driver, PresenceTimeout(s, d) PROVE SerialInv'
  BY <1>3, SerialLeave DEF PresenceTimeout, Rows
<1> QED BY <1>1, <1>2, <1>3 DEF DriverRequest

-----------------------------------------------------------------------------
(* offer_next_candidate *)

\* What a session at a step of offer_next_candidate knows.
LEMMA StepFacts ==
    ASSUME IInv, SerialInv, NEW s \in Actor, ~Quiet(s), sess[s].pc # "commit"
    PROVE  /\ sess[s] \in SessionState
           /\ \A t \in Others(s) : Quiet(t)
           /\ Waits(sess[s], sess[s].pc, ride, offer)
           /\ \A r \in sess[s].todo : Expected(sess[s], ride, r)
           /\ sess[s].ride \notin sess[s].todo
  BY SessionFacts, StaysAlone DEF Ready, Waits

\* What the identity map of that session holds for the ride is the row itself.
LEMMA LoadedIsRow ==
    ASSUME IInv, SerialInv, NEW s \in Actor, sess[s].pc = "next"
    PROVE  /\ sess[s].ride \in Ride
           /\ Loaded(s, sess[s].ride) = ride[sess[s].ride]
           /\ ride[sess[s].ride].status \in {"MATCHING", "CANCELLED"}
<1>1. sess[s].ride \in Ride
  BY SessionFacts DEF Working
<1>2. Expected(sess[s], ride, sess[s].ride)
  BY StepFacts DEF Waits, Quiet
<1> QED BY <1>1, <1>2 DEF Expected, Loaded

LEMMA SerialInsertRide ==
    ASSUME IInv, SerialInv, NEW s \in Actor, InsertRide(s)
    PROVE  SerialInv'
<1> DEFINE r == sess[s].ride
           row == [NoRideRow EXCEPT !.status = "MATCHING"]
           x == [sess[s] EXCEPT !.pc = "find", !.mem = [sess[s].mem EXCEPT ![r] = row]]
<1>1. sess[s].pc = "create" /\ ~Quiet(s) /\ r \in Ride
  BY SessionFacts DEF InsertRide, Quiet, Working
<1>2. /\ sess[s] \in SessionState /\ \A t \in Others(s) : Quiet(t)
      /\ ride[r].status = "NONE"
      /\ \A q \in sess[s].todo : Expected(sess[s], ride, q)
      /\ r \notin sess[s].todo
  BY <1>1, StepFacts DEF Waits
<1>3. Put(s, x) /\ ride' = [ride EXCEPT ![r] = row] /\ offer' = offer
  BY DEF InsertRide
<1>4. row.status = "MATCHING" /\ row.driver = NoDriver
  BY FreshRide DEF NoRideRow
<1> HIDE DEF row
<1>5. \A q \in Ride : ride'[q] = IF q = r THEN row ELSE ride[q]
  BY <1>3 DEF IInv, TypeOK
<1>6. /\ x.pc = "find" /\ x.ride = r /\ x.todo = sess[s].todo
      /\ \A q \in Ride : x.mem[q] = IF q = r THEN row ELSE sess[s].mem[q]
  BY <1>2 DEF SessionState
<1> HIDE DEF x
<1>7. \A q \in Ride : SoundRide(ride'[q], offer', q)
  <2>1. \A q \in Ride : SoundRide(ride[q], offer, q)
    BY DEF SerialInv
  <2>2. \A o \in Offer : offer[o].status # "NONE" => offer[o].ride # r
    BY <1>1, <1>2, <2>1 DEF SoundRide
  <2>3. PendingIn(offer, r) = {}
    BY <2>2 DEF PendingIn
  <2>4. SoundRide(row, offer, r)
    BY <1>4, <2>2, <2>3 DEF SoundRide, Progressing
  <2> QED BY <1>3, <1>5, <2>1, <2>4
<1>8. sess[s].todo \subseteq Ride
  BY <1>2 DEF SessionState
<1>9. Ready(x, ride', offer')
  <2>1. Expected(x, ride', r)
    BY <1>1, <1>4, <1>5, <1>6 DEF Expected
  <2>2. \A q \in x.todo : Expected(x, ride', q)
    BY <1>2, <1>5, <1>6, <1>8 DEF Expected
  <2> QED BY <1>2, <1>6, <2>1, <2>2 DEF Ready, Waits
<1> QED BY <1>2, <1>3, <1>7, <1>9, SerialRowStep

LEMMA SerialFindCandidates ==
    ASSUME IInv, SerialInv, NEW s \in Actor, FindCandidates(s)
    PROVE  SerialInv'
<1> DEFINE x == [sess[s] EXCEPT !.pc = "next"]
<1>1. Put(s, x) /\ UNCHANGED <<ride, offer>> /\ sess[s].pc = "find" /\ ~Quiet(s)
  BY DEF FindCandidates, Quiet
<1>2. /\ sess[s] \in SessionState /\ \A t \in Others(s) : Quiet(t)
      /\ Waits(sess[s], "find", ride, offer)
  BY <1>1, StepFacts
<1>3. x.pc = "next" /\ x.ride = sess[s].ride /\ x.todo = sess[s].todo /\ x.mem = sess[s].mem
  BY <1>2 DEF SessionState
<1> HIDE DEF x
<1>4. Ready(x, ride, offer)
  BY <1>2, <1>3 DEF Ready, Waits, Expected
<1> QED BY <1>1, <1>2, <1>4, SerialSessionStep

LEMMA SerialReturn ==
    ASSUME IInv, SerialInv, NEW s \in Actor, ~Quiet(s), sess[s].pc # "commit", Put(s, Returned(s)),
           UNCHANGED <<ride, offer>>
    PROVE  SerialInv'
<1>1. (\A t \in Others(s) : Quiet(t)) /\ \A r \in sess[s].todo : Expected(sess[s], ride, r)
  BY StepFacts
<1>2. Returned(s).pc \in {"idle", "dead"} \/ Ready(Returned(s), ride, offer)
  BY <1>1, ReturnedReady
<1> QED BY <1>1, <1>2, SerialSessionStep

LEMMA SerialNothingToOffer ==
    ASSUME IInv, SerialInv, NEW s \in Actor, NothingToOffer(s)
    PROVE  SerialInv'
  BY SerialReturn DEF NothingToOffer, Quiet

\* The session is about to insert an offer of a ride it knows to be matching and
\* without a pending offer.
LEMMA SerialToInsert ==
    ASSUME IInv, SerialInv, NEW s \in Actor, ~Quiet(s), sess[s].pc # "commit", NEW x,
           x.pc = "insert", x.ride = sess[s].ride, x.todo = sess[s].todo, x.mem = sess[s].mem,
           ride[sess[s].ride].status = "MATCHING", PendingIn(offer, sess[s].ride) = {},
           Put(s, x), UNCHANGED <<ride, offer>>
    PROVE  SerialInv'
<1>1. Ready(x, ride, offer)
  BY StepFacts DEF Ready, Waits, Expected
<1> QED BY <1>1, StepFacts, SerialSessionStep

\* A ride offer_next_candidate goes on with is matching and has no pending offer.
LEMMA DispatchingRide ==
    ASSUME IInv, SerialInv, NEW s \in Actor, sess[s].pc = "next", Dispatching(s, sess[s].ride)
    PROVE  /\ ride[sess[s].ride].status = "MATCHING"
           /\ PendingIn(offer, sess[s].ride) = {}
  BY LoadedIsRow DEF Dispatching, NotDispatched, PendingOffers, PendingIn

LEMMA SerialPickUntried ==
    ASSUME IInv, SerialInv, NEW s \in Actor, PickUntried(s)
    PROVE  SerialInv'
<1>1. sess[s].pc = "next" /\ ~Quiet(s) /\ Dispatching(s, sess[s].ride) /\ UNCHANGED <<ride, offer>>
  BY DEF PickUntried, Quiet
<1>2. PICK d \in Driver : Put(s, [sess[s] EXCEPT !.pc = "insert", !.driver = d])
  <2>1. Candidates(sess[s].ride) \subseteq Driver
    BY <1>1, LoadedIsRow, CandidatesApproved
  <2> QED BY <2>1 DEF PickUntried
<1> DEFINE x == [sess[s] EXCEPT !.pc = "insert", !.driver = d]
<1>3. x.pc = "insert" /\ x.ride = sess[s].ride /\ x.todo = sess[s].todo /\ x.mem = sess[s].mem
  BY SessionFacts DEF SessionState
<1>4. Put(s, x)
  BY <1>2
<1> HIDE DEF x
<1> QED BY <1>1, <1>3, <1>4, DispatchingRide, SerialToInsert

\* A commit in the middle of offer_next_candidate that changes only the ride, which
\* is matching and has no pending offer: one more round, or none any more.
LEMMA SerialRoundTx ==
    ASSUME IInv, SerialInv, NEW r \in Ride, ride[r].status = "MATCHING", PendingIn(offer, r) = {},
           NEW new \in RideRow, new.driver = NoDriver,
           \/ new.status = "MATCHING" /\ MayRetry(ride[r]) /\ new.retries = ride[r].retries + 1
           \/ new.status = "NO_DRIVERS_FOUND" /\ new.retries = ride[r].retries
    PROVE  LET tx == SetRide(NoTx, r, ride[r], new)
           IN  /\ SerialTx(tx, ride, offer)
               /\ RidesAfter(ride, tx) = [ride EXCEPT ![r] = new]
               /\ PendingIn(OffersAfter(offer, tx), r) = {}
<1> DEFINE tx == SetRide(NoTx, r, ride[r], new)
<1>1. ride[r] \in RideRow /\ new.status \in RideStatus
  BY RowTypes, StatusNames
<1>2. /\ \A q \in Ride : tx.ride[q] = IF q = r THEN RideDiff(ride[r], new) ELSE KeepRide
      /\ \A o \in Offer : tx.offer[o] = Keep
  <2>1. /\ tx.offer = NoTx.offer
        /\ \A q \in Ride : tx.ride[q] = IF q = r THEN RideDiff(ride[r], new) ELSE NoTx.ride[q]
    BY <1>1, EmptyTx, SetRideFields
  <2> HIDE DEF tx
  <2> QED BY <2>1, EmptyTx
<1>3. RideStored(ride[r], tx.ride[r]) = new
  BY <1>1, <1>2, DiffStored
<1> HIDE DEF tx
<1>4. AnswersPending(tx)
  BY <1>2 DEF AnswersPending
<1>5. OffersAfter(offer, tx) = offer
  BY <1>2, SameOffers DEF IInv, TypeOK
<1>6. SoundRide(ride[r], offer, r)
  BY DEF SerialInv
<1>7. SoundRide(new, offer, r)
  <2>1. new.status \notin Progressing \cup {"RIDE_COMPLETED", "NONE"}
    BY DEF Progressing
  <2> QED BY <1>6, <2>1 DEF SoundRide
<1>8. LegalMove(LifeIn(ride[r], offer, r), LifeIn(new, offer, r))
  <2>1. AskedIn(offer, r) = NoDriver /\ ride[r].driver = NoDriver
    BY <1>6, AskedDriver DEF SoundRide
  <2> QED BY <2>1, IdlingMoves DEF LifeIn, MayRetry
<1>9. SerialTx(tx, ride, offer) /\ RidesAfter(ride, tx) = [ride EXCEPT ![r] = new]
  BY <1>2, <1>3, <1>4, <1>5, <1>7, <1>8, OneRideTx DEF SerialInv, SoundRows
<1> QED BY <1>5, <1>9 DEF tx

LEMMA SerialStartRetry ==
    ASSUME IInv, SerialInv, NEW s \in Actor, StartRetry(s)
    PROVE  SerialInv'
<1> DEFINE r == sess[s].ride
           old == Loaded(s, r)
           new == [old EXCEPT !.retries = old.retries + 1]
           tx == SetRide(NoTx, r, old, new)
           x == [sess[s] EXCEPT !.pc = "commit", !.cont = "reselect", !.cands = Eligible(r) \ Blocking(r), !.tx = tx]
<1>1. /\ sess[s].pc = "next" /\ ~Quiet(s) /\ Dispatching(s, r) /\ MayRetry(old)
      /\ Put(s, x) /\ UNCHANGED <<ride, offer>>
  BY DEF StartRetry, AllTried, Quiet
<1>2. /\ r \in Ride /\ old = ride[r] /\ ride[r].status = "MATCHING" /\ PendingIn(offer, r) = {}
      /\ MayRetry(ride[r])
  BY <1>1, LoadedIsRow, DispatchingRide
<1>3. ride[r] \in RideRow /\ ride[r].driver = NoDriver
  BY <1>2, RowTypes DEF SerialInv, SoundRide
<1>4. new \in RideRow /\ new.status = "MATCHING" /\ new.driver = NoDriver /\ new.retries = ride[r].retries + 1
  BY <1>2, <1>3 DEF RideRow
<1> HIDE DEF new, old
<1>5. /\ SerialTx(tx, ride, offer)
      /\ RidesAfter(ride, tx) = [ride EXCEPT ![r] = new]
      /\ PendingIn(OffersAfter(offer, tx), r) = {}
  BY <1>2, <1>4, SerialRoundTx
<1>6. /\ sess[s] \in SessionState /\ \A t \in Others(s) : Quiet(t)
      /\ \A q \in sess[s].todo : Expected(sess[s], ride, q)
      /\ r \notin sess[s].todo
  BY <1>1, StepFacts
<1> HIDE DEF tx
<1>7. /\ x.pc = "commit" /\ x.cont = "reselect" /\ x.tx = tx
      /\ x.ride = r /\ x.todo = sess[s].todo /\ x.mem = sess[s].mem
  BY <1>6 DEF SessionState
<1> HIDE DEF x
<1>8. Waits(x, "reselect", RidesAfter(ride, tx), OffersAfter(offer, tx))
  <2>1. ride \in [Ride -> RideRow] /\ x.todo \subseteq Ride
    BY <1>6, <1>7 DEF IInv, TypeOK, SessionState
  <2>2. \A q \in x.todo : Expected(x, RidesAfter(ride, tx), q)
    BY <1>5, <1>6, <1>7, <2>1 DEF Expected
  <2>3. RidesAfter(ride, tx)[r].status = "MATCHING"
    BY <1>2, <1>4, <1>5, <2>1
  <2> QED BY <1>5, <1>6, <1>7, <2>2, <2>3 DEF Waits
<1>9. Ready(x, ride, offer)
  BY <1>5, <1>7, <1>8 DEF Ready
<1> QED BY <1>1, <1>6, <1>9, SerialSessionStep

\* Both callers of _mark_no_drivers_found hold the row as it is.
LEMMA SerialMarkNoDrivers ==
    ASSUME IInv, SerialInv, NEW s \in Actor, ~Quiet(s), sess[s].pc # "commit", sess[s].ride \in Ride,
           ride[sess[s].ride].status = "MATCHING", PendingIn(offer, sess[s].ride) = {},
           MarkNoDrivers(s, ride[sess[s].ride]), UNCHANGED <<ride, offer>>
    PROVE  SerialInv'
<1> DEFINE r == sess[s].ride
           none == [ride[r] EXCEPT !.status = "NO_DRIVERS_FOUND", !.driver = NoDriver]
           tx == SetRide(NoTx, r, ride[r], none)
           x == [sess[s] EXCEPT !.pc = "commit", !.cont = "idle", !.tx = tx]
<1>1. Put(s, x)
  BY DEF MarkNoDrivers
<1>2. none \in RideRow /\ none.status = "NO_DRIVERS_FOUND" /\ none.driver = NoDriver /\ none.retries = ride[r].retries
  BY RowTypes, StatusNames DEF RideRow
<1> HIDE DEF none
<1>3. SerialTx(tx, ride, offer) /\ RidesAfter(ride, tx) = [ride EXCEPT ![r] = none]
  BY <1>2, SerialRoundTx
<1>4. /\ sess[s] \in SessionState /\ \A t \in Others(s) : Quiet(t)
      /\ \A q \in sess[s].todo : Expected(sess[s], ride, q)
      /\ r \notin sess[s].todo
  BY StepFacts
<1> HIDE DEF tx
<1>5. /\ x.pc = "commit" /\ x.cont = "idle" /\ x.tx = tx
      /\ x.ride = r /\ x.todo = sess[s].todo /\ x.mem = sess[s].mem
  BY <1>4 DEF SessionState
<1> HIDE DEF x
<1>6. Waits(x, "idle", RidesAfter(ride, tx), OffersAfter(offer, tx))
  <2>1. ride \in [Ride -> RideRow] /\ x.todo \subseteq Ride
    BY <1>4, <1>5 DEF IInv, TypeOK, SessionState
  <2>2. \A q \in x.todo : Expected(x, RidesAfter(ride, tx), q)
    BY <1>3, <1>4, <1>5, <2>1 DEF Expected
  <2> QED BY <1>4, <1>5, <2>2 DEF Waits
<1>7. Ready(x, ride, offer)
  BY <1>3, <1>5, <1>6 DEF Ready
<1> QED BY <1>1, <1>4, <1>7, SerialSessionStep

LEMMA SerialGiveUp ==
    ASSUME IInv, SerialInv, NEW s \in Actor, GiveUp(s)
    PROVE  SerialInv'
<1>1. /\ sess[s].pc = "next" /\ ~Quiet(s) /\ Dispatching(s, sess[s].ride)
      /\ MarkNoDrivers(s, Loaded(s, sess[s].ride)) /\ UNCHANGED <<ride, offer>>
  BY DEF GiveUp, AllTried, Quiet
<1> QED BY <1>1, LoadedIsRow, DispatchingRide, SerialMarkNoDrivers

LEMMA SerialReselect ==
    ASSUME IInv, SerialInv, NEW s \in Actor, Reselect(s)
    PROVE  SerialInv'
<1>1. sess[s].pc = "reselect" /\ ~Quiet(s) /\ UNCHANGED <<ride, offer>> /\ sess[s].ride \in Ride
  BY SessionFacts DEF Reselect, Quiet, Working
<1>2. /\ ride[sess[s].ride].status = "MATCHING"
      /\ PendingIn(offer, sess[s].ride) = {}
  BY <1>1, StepFacts DEF Waits
<1>3. ASSUME NEW d \in sess[s].cands, Put(s, [sess[s] EXCEPT !.pc = "insert", !.driver = d, !.cands = {}])
      PROVE  SerialInv'
  <2> DEFINE x == [sess[s] EXCEPT !.pc = "insert", !.driver = d, !.cands = {}]
  <2>1. x.pc = "insert" /\ x.ride = sess[s].ride /\ x.todo = sess[s].todo /\ x.mem = sess[s].mem
    BY SessionFacts DEF SessionState
  <2>2. Put(s, x)
    BY <1>3
  <2> HIDE DEF x
  <2> QED BY <1>1, <1>2, <2>1, <2>2, SerialToInsert
<1>4. CASE MarkNoDrivers(s, ride[sess[s].ride])
  BY <1>1, <1>2, <1>4, SerialMarkNoDrivers
<1> QED BY <1>3, <1>4 DEF Reselect

\* The first pending offer of the ride, which is matching.
LEMMA SerialInsertOffer ==
    ASSUME IInv, SerialInv, NEW s \in Actor, InsertOffer(s)
    PROVE  SerialInv'
<1> DEFINE r == sess[s].ride
           row == [status |-> "PENDING", ride |-> r, driver |-> sess[s].driver]
<1>1. sess[s].pc = "insert" /\ ~Quiet(s) /\ Put(s, Returned(s)) /\ ride' = ride /\ r \in Ride
  BY SessionFacts DEF InsertOffer, Quiet, Working
<1>2. PICK o \in Offer : offer[o].status = "NONE" /\ offer' = [offer EXCEPT ![o] = row]
  BY DEF InsertOffer
<1>3. /\ \A t \in Others(s) : Quiet(t)
      /\ ride[r].status = "MATCHING" /\ PendingIn(offer, r) = {}
      /\ \A q \in sess[s].todo : Expected(sess[s], ride, q)
  BY <1>1, StepFacts DEF Waits
<1>4. row.status = "PENDING" /\ row.ride = r
  OBVIOUS
<1> HIDE DEF row
<1>5. \A p \in Offer : offer'[p] = IF p = o THEN row ELSE offer[p]
  BY <1>2 DEF IInv, TypeOK
<1>6. ASSUME NEW q \in Ride PROVE SoundRide(ride[q], offer', q)
  <2>1. SoundRide(ride[q], offer, q)
    BY DEF SerialInv
  <2>2. PendingIn(offer', q) = IF q = r THEN {o} ELSE PendingIn(offer, q)
    <3>1. \A p \in Offer : p # o => offer'[p] = offer[p]
      BY <1>5
    <3>2. o \notin PendingIn(offer, q) /\ (o \in PendingIn(offer', q) <=> q = r)
      BY <1>2, <1>4, <1>5 DEF PendingIn
    <3>3. PendingIn(offer', q) \ {o} = PendingIn(offer, q) \ {o}
      BY <3>1 DEF PendingIn
    <3>4. CASE q = r
      <4>1. PendingIn(offer', q) \ {o} = {}
        BY <1>3, <3>3, <3>4
      <4> QED BY <3>2, <3>4, <4>1
    <3>5. CASE q # r
      BY <3>2, <3>3, <3>5
    <3> QED BY <3>4, <3>5
  <2>3. \A p \in Offer : offer[p].status = "ACCEPTED" => offer'[p] = offer[p]
    BY <1>2, <1>5
  <2>4. ASSUME ride[q].status \in Progressing \cup {"RIDE_COMPLETED"}
        PROVE  \E p \in Offer : offer'[p] = [status |-> "ACCEPTED", ride |-> q, driver |-> ride[q].driver]
    BY <2>1, <2>3, <2>4 DEF SoundRide
  <2>5. \A p \in Offer : offer'[p].status # "NONE" /\ offer'[p].ride = q => ride[q].status # "NONE"
    BY <1>3, <1>4, <1>5, <2>1 DEF SoundRide
  <2>6. PendingIn(offer', q) # {} => ride[q].status \in {"MATCHING", "CANCELLED"}
    BY <1>3, <2>1, <2>2 DEF SoundRide
  <2>7. \A p, u \in PendingIn(offer', q) : p = u
    BY <2>1, <2>2 DEF SoundRide
  <2> QED BY <2>1, <2>4, <2>5, <2>6, <2>7 DEF SoundRide
<1>7. Returned(s).pc \in {"idle", "dead"} \/ Ready(Returned(s), ride, offer')
  BY <1>3, ReturnedReady
<1> QED BY <1>1, <1>3, <1>6, <1>7, SerialRowStep

\* The commit leaves what the session promised.
LEMMA SerialCommit ==
    ASSUME IInv, SerialInv, NEW s \in Actor, Commit(s)
    PROVE  SerialInv'
<1> DEFINE tx == sess[s].tx
           x == [sess[s] EXCEPT !.pc = sess[s].cont, !.cont = "idle", !.tx = NoTx]
<1>1. sess[s].pc = "commit" /\ ~Quiet(s) /\ sess[s] \in SessionState
  BY SessionFacts DEF Commit, Quiet
<1>2. /\ \A t \in Others(s) : Quiet(t)
      /\ SerialTx(tx, ride, offer)
      /\ Waits(sess[s], sess[s].cont, RidesAfter(ride, tx), OffersAfter(offer, tx))
  BY <1>1, StaysAlone DEF Ready
<1>3. ride' = RidesAfter(ride, tx) /\ offer' = OffersAfter(offer, tx)
  BY DEF Commit, RidesAfter, OffersAfter
<1>4. \A r \in Ride : SoundRide(ride'[r], offer', r)
  BY <1>2, <1>3 DEF SerialTx
<1>5. CASE sess[s].cont = "idle" /\ Put(s, Returned(s))
  <2>1. \A r \in sess[s].todo : Expected(sess[s], ride', r)
    BY <1>2, <1>3 DEF Waits
  <2> QED BY <1>2, <1>4, <1>5, <2>1, ReturnedReady, SerialRowStep
<1>6. CASE sess[s].cont # "idle" /\ Put(s, x)
  <2>1. /\ x.pc = sess[s].cont /\ x.pc \in Cont \ {"idle"}
        /\ x.ride = sess[s].ride /\ x.todo = sess[s].todo /\ x.mem = sess[s].mem
    BY <1>1, <1>6 DEF SessionState
  <2> HIDE DEF x
  <2>2. Waits(x, x.pc, ride', offer')
    BY <1>2, <1>3, <2>1 DEF Waits, Expected
  <2>3. Ready(x, ride', offer')
    BY <2>1, <2>2 DEF Ready, Cont
  <2> QED BY <1>2, <1>4, <1>6, <2>3, SerialRowStep
<1> QED BY <1>5, <1>6 DEF Commit

-----------------------------------------------------------------------------
(* The worker and the environment *)

LEMMA SerialExpireElapsed ==
    ASSUME IInv, SerialInv, Serial, ExpireElapsed
    PROVE  SerialInv'
<1> DEFINE tx == Answer(NoTx, Elapsed, "EXPIRED")
           rides == {offer[o].ride : o \in Elapsed}
           x == [Idle EXCEPT !.pc = "commit", !.cont = "loop", !.last = "recover", !.tx = tx, !.todo = rides]
           y == [Idle EXCEPT !.pc = "recover"]
<1>1. (\A t \in Others(Worker) : Quiet(t)) /\ UNCHANGED <<ride, offer>>
  BY StartsAlone DEF ExpireElapsed
<1>2. CASE Put(Worker, y)
  <2>1. y.pc = "recover" /\ y.todo = {}
    BY DEF Idle
  <2> HIDE DEF y
  <2>2. Ready(y, ride, offer)
    BY <2>1 DEF Ready, Waits
  <2> QED BY <1>1, <1>2, <2>2, SerialSessionStep DEF Actor
<1>3. CASE Put(Worker, x)
  <2>1. rides \subseteq Ride /\ \A r \in rides : ride[r].status \in {"MATCHING", "CANCELLED"}
    <3> SUFFICES ASSUME NEW o \in Elapsed
                 PROVE  offer[o].ride \in Ride /\ ride[offer[o].ride].status \in {"MATCHING", "CANCELLED"}
      OBVIOUS
    <3>1. offer[o].status = "PENDING" /\ offer[o].ride \in Ride /\ o \in PendingIn(offer, offer[o].ride)
      BY RowTypes DEF Elapsed, PendingIn
    <3> QED BY <3>1 DEF SerialInv, SoundRide
  <2>2. /\ \A q \in Ride : tx.ride[q] = KeepRide
        /\ \A p \in Offer : tx.offer[p] = IF p \in Elapsed THEN "EXPIRED" ELSE Keep
    BY EmptyTx, AnswerFields, StatusNames
  <2> HIDE DEF tx, rides
  <2>3. SerialTx(tx, ride, offer) /\ RidesAfter(ride, tx) = ride
    BY <2>2, NoRideTx DEF AnswersPending, Elapsed, SerialInv, SoundRows
  <2>4. /\ x.pc = "commit" /\ x.cont = "loop" /\ x.tx = tx /\ x.ride = NoRide /\ x.todo = rides
        /\ \A r \in Ride : x.mem[r] = Absent
    BY DEF Idle
  <2> HIDE DEF x
  <2>5. Waits(x, "loop", ride, OffersAfter(offer, tx))
    BY <2>1, <2>4 DEF Waits, Expected
  <2>6. Ready(x, ride, offer)
    BY <2>3, <2>4, <2>5 DEF Ready
  <2> QED BY <1>1, <1>3, <2>6, SerialSessionStep DEF Actor
<1> QED BY <1>2, <1>3 DEF ExpireElapsed

LEMMA SerialRecoverStale ==
    ASSUME IInv, SerialInv, RecoverStale
    PROVE  SerialInv'
<1> DEFINE mem == [r \in Ride |-> IF r \in Stale THEN ride[r] ELSE Absent]
           x == [Idle EXCEPT !.pc = "loop", !.todo = Stale, !.mem = mem]
<1>1. (\A t \in Others(Worker) : Quiet(t)) /\ UNCHANGED <<ride, offer>>
  BY StaysAlone DEF RecoverStale, Quiet, Actor
<1>2. CASE Put(Worker, Idle)
  BY <1>1, <1>2, SerialSessionStep DEF Actor, Idle
<1>3. CASE Put(Worker, x)
  <2>1. Stale \subseteq Ride /\ \A r \in Stale : ride[r].status = "MATCHING"
    BY DEF Stale
  <2>2. \A r \in Stale : mem[r] = ride[r]
    BY <2>1
  <2> HIDE DEF mem
  <2>3. x.pc = "loop" /\ x.ride = NoRide /\ x.todo = Stale /\ x.mem = mem
    BY DEF Idle
  <2> HIDE DEF x
  <2>4. Ready(x, ride, offer)
    BY <2>1, <2>2, <2>3 DEF Ready, Waits, Expected
  <2> QED BY <1>1, <1>3, <2>4, SerialSessionStep DEF Actor
<1> QED BY <1>2, <1>3 DEF RecoverStale

\* The ride the worker takes up is out of "todo", so its later writes to that ride
\* make no promise about the others stale.
LEMMA SerialNextRide ==
    ASSUME IInv, SerialInv, NextRide
    PROVE  SerialInv'
<1>1. PICK r \in sess[Worker].todo :
         Put(Worker, [sess[Worker] EXCEPT !.pc = "next", !.ride = r, !.todo = sess[Worker].todo \ {r}])
  BY DEF NextRide
<1>2. sess[Worker].pc = "loop" /\ ~Quiet(Worker) /\ UNCHANGED <<ride, offer>> /\ Worker \in Actor
  BY DEF NextRide, Quiet, Actor
<1>3. /\ sess[Worker] \in SessionState /\ \A t \in Others(Worker) : Quiet(t)
      /\ \A q \in sess[Worker].todo : Expected(sess[Worker], ride, q)
  BY <1>2, StepFacts
<1> DEFINE x == [sess[Worker] EXCEPT !.pc = "next", !.ride = r, !.todo = sess[Worker].todo \ {r}]
<1>4. x.pc = "next" /\ x.ride = r /\ x.todo = sess[Worker].todo \ {r} /\ x.mem = sess[Worker].mem
  BY <1>3 DEF SessionState
<1>5. Put(Worker, x)
  BY <1>1
<1> HIDE DEF x
<1>6. Ready(x, ride, offer)
  BY <1>3, <1>4 DEF Ready, Waits, Expected
<1> QED BY <1>2, <1>3, <1>5, <1>6, SerialSessionStep

\* A crash anywhere in the operation: the rows are as sound as before.
LEMMA SerialAbort ==
    ASSUME IInv, SerialInv, NEW s \in Actor, Abort(s)
    PROVE  SerialInv'
<1> DEFINE x == [Idle EXCEPT !.pc = IF s = Worker THEN "dead" ELSE "idle"]
<1>1. Put(s, x) /\ UNCHANGED <<ride, offer>> /\ \A t \in Others(s) : Quiet(t)
  BY StaysAlone DEF Abort
<1>2. x.pc \in {"idle", "dead"}
  BY DEF Idle
<1> HIDE DEF x
<1> QED BY <1>1, <1>2, SerialSessionStep

LEMMA SerialRestartWorker ==
    ASSUME IInv, SerialInv, RestartWorker
    PROVE  SerialInv'
<1>1. Put(Worker, Idle) /\ UNCHANGED <<ride, offer>> /\ Worker \in Actor /\ Quiet(Worker)
  BY DEF RestartWorker, Quiet, Actor
<1>2. \A t \in Actor : sess'[t].pc \in {"idle", "dead"} \/ (~Quiet(t) /\ sess'[t] = sess[t])
  BY <1>1 DEF IInv, TypeOK, Put, Idle, Quiet
<1> QED BY <1>1, <1>2 DEF SerialInv, Quiet

LEMMA SerialInit == Init => SerialInv
<1> SUFFICES ASSUME Init PROVE SerialInv
  OBVIOUS
<1>1. \A s \in Actor : Quiet(s)
  BY DEF Init, Idle, Quiet
<1>2. ASSUME NEW r \in Ride PROVE SoundRide(ride[r], offer, r)
  <2>1. ride[r].status = "NONE" /\ \A o \in Offer : offer[o].status = "NONE"
    BY DEF Init, NoRideRow, NoOfferRow
  <2> QED BY <2>1 DEF SoundRide, PendingIn, Progressing
<1> QED BY <1>1, <1>2 DEF SerialInv

LEMMA SerialNext == IInv /\ SerialInv /\ Serial /\ [Next]_vars => SerialInv'
<1> SUFFICES ASSUME IInv, SerialInv, Serial, [Next]_vars PROVE SerialInv'
  OBVIOUS
<1>1. CASE \E s \in Session : RideRequest(s)
  BY <1>1, SerialCreateRide, SerialCancelRide, SerialDriverStatusAction, SerialCompleteRide, SerialAdminRedispatch
     DEF RideRequest
<1>2. CASE \E s \in Session : OfferRequest(s)
  BY <1>2, SerialAcceptOffer, SerialRejectOffer DEF OfferRequest
<1>3. CASE \E s \in Session : DriverRequest(s)
  BY <1>3, SerialDriverRequest
<1>4. CASE \E s \in Actor : Proceed(s)
  BY <1>4, SerialInsertRide, SerialFindCandidates, SerialNothingToOffer, SerialPickUntried, SerialStartRetry,
     SerialGiveUp, SerialReselect, SerialInsertOffer, SerialCommit DEF Proceed
<1>5. CASE WorkerPass
  BY <1>5, SerialExpireElapsed, SerialRecoverStale, SerialNextRide DEF WorkerPass
<1>6. CASE Environment
  <2>1. CASE \E s \in Actor : Abort(s)
    BY <2>1, SerialAbort
  <2>2. CASE RestartWorker
    BY <2>2, SerialRestartWorker
  <2>3. CASE \/ \E o \in Offer : Elapse(o)
             \/ \E r \in Ride : CandidatesLapse(r)
             \/ \E d \in Driver : ApproveDriver(d)
    BY <2>3, SerialOutsideStep DEF Elapse, CandidatesLapse, ApproveDriver
  <2> QED BY <1>6, <2>1, <2>2, <2>3 DEF Environment
<1>7. CASE UNCHANGED vars
  BY <1>7, SerialOutsideStep DEF vars
<1> QED BY <1>1, <1>2, <1>3, <1>4, <1>5, <1>6, <1>7 DEF Next

-----------------------------------------------------------------------------
(* Theorems *)

\* When operations do not overlap, SerialInv holds at every step of every one of
\* them, wherever an earlier one crashed.
THEOREM SerialInductive == Spec => [](Serial => SerialInv)
<1>1. Init => (Serial => SerialInv)
  BY SerialInit
<1>2. IInv /\ (Serial => SerialInv) /\ [Next]_vars => (Serial => SerialInv)'
  BY SerialNext
<1> QED BY <1>1, <1>2, Inductive, PTL DEF Spec

\* A ride has at most one pending offer.
THEOREM OnePendingOfferHolds == Spec => []OnePendingOffer
<1>1. (Serial => SerialInv) => OnePendingOffer
  BY DEF SerialInv, SoundRide, OnePendingOffer, PendingIn, PendingOffers
<1> QED BY <1>1, SerialInductive, PTL

\* A ride under way or completed is backed by the accepted offer of its driver;
\* a ride being matched or unmatched names no driver.
THEOREM AssignmentBackedHolds == Spec => []AssignmentBacked
<1>1. (Serial => SerialInv) => AssignmentBacked
  BY DEF SerialInv, SoundRide, AssignmentBacked
<1> QED BY <1>1, SerialInductive, PTL

\* Offers are pending only for rides that are matched or were cancelled meanwhile.
THEOREM PendingOfferNotStaleHolds == Spec => []PendingOfferNotStale
<1>1. IInv /\ (Serial => SerialInv) => PendingOfferNotStale
  <2> SUFFICES ASSUME IInv, SerialInv, NEW o \in Offer, offer[o].status = "PENDING"
               PROVE  ride[offer[o].ride].status \in {"MATCHING", "CANCELLED"}
    BY DEF PendingOfferNotStale
  <2>1. offer[o].ride \in Ride /\ o \in PendingIn(offer, offer[o].ride)
    BY RowTypes DEF PendingIn
  <2> QED BY <2>1 DEF SerialInv, SoundRide
<1> QED BY <1>1, SerialInductive, Inductive, PTL

\* Every change of a ride or an offer is the insert of a new row or a commit.
LEMMA RideChanges ==
    ASSUME IInv, [Next]_vars
    PROVE  \/ ride' = ride /\ offer' = offer
           \/ \E s \in Actor : InsertRide(s) \/ InsertOffer(s) \/ Commit(s)
<1>1. CASE \E s \in Session : RideRequest(s)
  BY <1>1 DEF RideRequest, CreateRide, CancelRide, DriverStatusAction, CompleteRide, AdminRedispatch
<1>2. CASE \E s \in Session : OfferRequest(s) \/ DriverRequest(s)
  <2>1. ASSUME NEW s \in Session, OfferRequest(s) PROVE ride' = ride /\ offer' = offer
    BY <2>1 DEF OfferRequest, AcceptOffer, RejectOffer
  <2>2. ASSUME NEW s \in Session, DriverRequest(s) PROVE ride' = ride /\ offer' = offer
    BY <2>2 DEF DriverRequest, UpdateAvailability, Suspend, PresenceTimeout
  <2> QED BY <1>2, <2>1, <2>2
<1>3. CASE \E s \in Actor : Proceed(s)
  BY <1>3 DEF Proceed, FindCandidates, NothingToOffer, PickUntried, StartRetry, GiveUp, Reselect
<1>4. CASE WorkerPass \/ Environment
  BY <1>4 DEF WorkerPass, ExpireElapsed, RecoverStale, NextRide, Environment, Elapse, CandidatesLapse, ApproveDriver,
     Abort, RestartWorker
<1> QED BY <1>1, <1>2, <1>3, <1>4 DEF Next, vars

-----------------------------------------------------------------------------
(* RideDispatch implements RideLifecycle when operations do not overlap *)

LEMMA LifeNow ==
    ASSUME NEW r \in Ride
    PROVE  Life(r) = LifeIn(ride[r], offer, r) /\ Life(r)' = LifeIn(ride'[r], offer', r)
  BY DEF Life, LifeIn, LifeOf, Asked, AskedIn, PendingOffers, PendingIn

\* The fields of a life have their types.
LEMMA LifeTyped == IInv /\ SerialInv => \A r \in Ride : Life(r) \in Lifecycle!Life
<1> SUFFICES ASSUME IInv, SerialInv, NEW r \in Ride PROVE Life(r) \in Lifecycle!Life
  OBVIOUS
<1>1. /\ ride[r].status \in Lifecycle!Stage
      /\ ride[r].driver \in Driver \cup {NoDriver}
      /\ ride[r].retries \in 0..MaxRetries
  <2>1. ride[r] \in RideRow /\ ride[r].retries <= MaxRetries
    BY RowTypes
  <2>2. RideStatus \cup {"NONE"} \subseteq Lifecycle!Stage
    BY DEF RideStatus, Open, Closed, Progressing, Lifecycle!Stage, Lifecycle!NextStage, Lifecycle!Final
  <2> QED BY <2>1, <2>2 DEF RideRow
<1>2. AskedIn(offer, r) \in Driver \cup {NoDriver}
  <2>1. CASE PendingIn(offer, r) = {}
    BY <2>1 DEF AskedIn
  <2>2. CASE PendingIn(offer, r) # {}
    <3>1. PICK o \in PendingIn(offer, r) : TRUE
      BY <2>2
    <3>2. AskedIn(offer, r) = offer[o].driver /\ offer[o].driver \in Driver
      BY <3>1, AskedDriver, RowTypes DEF PendingIn, SerialInv
    <3> QED BY <3>2
  <2> QED BY <2>1, <2>2
<1> QED BY <1>1, <1>2, LifeNow DEF LifeIn, LifeOf, Lifecycle!Life

LEMMA LifecycleInit == Init => Lifecycle!Init
<1> SUFFICES ASSUME Init PROVE Lifecycle!Init
  OBVIOUS
<1>1. ASSUME NEW r \in Ride PROVE Life(r) = Lifecycle!NotRequested
  <2>1. ride[r] = NoRideRow /\ \A o \in Offer : offer[o].status = "NONE"
    BY DEF Init, NoOfferRow
  <2>2. Asked(r) = NoDriver
    BY <2>1 DEF Asked, PendingOffers
  <2> QED BY <2>1, <2>2 DEF Life, NoRideRow, Lifecycle!NotRequested
<1> QED BY <1>1 DEF Lifecycle!Init

\* The row inserted by create_ride is a request.
LEMMA InsertRideMove ==
    ASSUME IInv, SerialInv, NEW s \in Actor, InsertRide(s), NEW r \in Ride
    PROVE  LegalMove(LifeIn(ride[r], offer, r), LifeIn(ride'[r], offer', r))
<1> DEFINE row == [NoRideRow EXCEPT !.status = "MATCHING"]
<1>1. /\ sess[s].pc = "create" /\ sess[s].ride \in Ride
      /\ ride' = [ride EXCEPT ![sess[s].ride] = row] /\ offer' = offer
  BY SessionFacts DEF InsertRide, Working
<1>2. row.status = "MATCHING" /\ row.driver = NoDriver /\ row.retries = 0
  BY FreshRide DEF NoRideRow
<1>3. ride[sess[s].ride].status = "NONE"
  BY <1>1, StepFacts DEF Waits, Quiet
<1> HIDE DEF row
<1>4. ride'[r] = IF r = sess[s].ride THEN row ELSE ride[r]
  BY <1>1 DEF IInv, TypeOK
<1>5. CASE r = sess[s].ride
  <2>1. SoundRide(ride[r], offer, r)
    BY DEF SerialInv
  <2>2. PendingIn(offer, r) = {}
    BY <1>3, <1>5, <2>1 DEF SoundRide
  <2>3. AskedIn(offer, r) = NoDriver
    BY <2>2 DEF AskedIn
  <2> QED BY <1>1, <1>2, <1>3, <1>4, <1>5, <2>3, LifeMoves DEF LifeIn
<1>6. CASE r # sess[s].ride
  BY <1>1, <1>4, <1>6 DEF LegalMove
<1> QED BY <1>5, <1>6

\* An offer is inserted for a ride that is matched and waits for nobody.
LEMMA InsertOfferMove ==
    ASSUME IInv, SerialInv, SerialInv', NEW s \in Actor, InsertOffer(s), NEW r \in Ride
    PROVE  LegalMove(LifeIn(ride[r], offer, r), LifeIn(ride'[r], offer', r))
<1>1. /\ sess[s].pc = "insert" /\ ~Quiet(s) /\ ride' = ride
      /\ sess[s].ride \in Ride /\ sess[s].driver \in Driver
  BY SessionFacts DEF InsertOffer, Quiet, Working, GoodSession
<1> DEFINE row == [status |-> "PENDING", ride |-> sess[s].ride, driver |-> sess[s].driver]
<1>2. PICK o \in Offer : offer[o].status = "NONE" /\ offer' = [offer EXCEPT ![o] = row]
  BY DEF InsertOffer
<1>3. \A p \in Offer : offer'[p] = IF p = o THEN row ELSE offer[p]
  BY <1>2 DEF IInv, TypeOK
<1>4. ride[sess[s].ride].status = "MATCHING" /\ PendingIn(offer, sess[s].ride) = {}
  BY <1>1, StepFacts DEF Waits
<1>5. SoundRide(ride[r], offer, r) /\ SoundRide(ride[r], offer', r)
  BY <1>1 DEF SerialInv
<1>6. CASE r = sess[s].ride
  <2>1. o \in PendingIn(offer', r)
    BY <1>3, <1>6 DEF PendingIn
  <2>2. AskedIn(offer', r) = offer'[o].driver
    BY <1>5, <2>1, AskedDriver
  <2>3. AskedIn(offer', r) = sess[s].driver
    BY <1>3, <2>2
  <2>4. AskedIn(offer, r) = NoDriver
    BY <1>4, <1>6 DEF AskedIn
  <2> QED BY <1>1, <1>4, <1>6, <2>3, <2>4, IdlingMoves DEF LifeIn
<1>7. CASE r # sess[s].ride
  <2>1. PendingIn(offer', r) = PendingIn(offer, r) /\ \A p \in PendingIn(offer, r) : offer'[p] = offer[p]
    BY <1>2, <1>3, <1>7 DEF PendingIn
  <2>2. AskedIn(offer', r) = AskedIn(offer, r)
    <3>1. CASE PendingIn(offer, r) = {}
      BY <2>1, <3>1 DEF AskedIn
    <3>2. CASE PendingIn(offer, r) # {}
      BY <1>5, <2>1, <3>2, AskedDriver
    <3> QED BY <3>1, <3>2
  <2> QED BY <1>1, <2>2 DEF LifeIn, LegalMove
<1> QED BY <1>6, <1>7

LEMMA LifecycleStep ==
    ASSUME IInv, IInv', SerialInv, SerialInv', [Next]_vars
    PROVE  [Lifecycle!Next]_([r \in Ride |-> Life(r)])
<1>1. ASSUME NEW r \in Ride PROVE LegalMove(LifeIn(ride[r], offer, r), LifeIn(ride'[r], offer', r))
  <2>1. ASSUME NEW s \in Actor, Commit(s)
        PROVE  LegalMove(LifeIn(ride[r], offer, r), LifeIn(ride'[r], offer', r))
    <3>1. ride' = RidesAfter(ride, sess[s].tx) /\ offer' = OffersAfter(offer, sess[s].tx)
      BY <2>1 DEF Commit, RidesAfter, OffersAfter
    <3>2. SerialTx(sess[s].tx, ride, offer)
      BY <2>1, StaysAlone DEF Ready, Quiet, Commit
    <3> QED BY <3>1, <3>2 DEF SerialTx
  <2>2. CASE ride' = ride /\ offer' = offer
    BY <2>2 DEF LegalMove
  <2> QED BY <2>1, <2>2, RideChanges, InsertRideMove, InsertOfferMove
<1>2. \A r \in Ride : Life(r)' = Life(r) \/ Lifecycle!Move(Life(r), Life(r)')
  BY <1>1, LifeNow DEF LegalMove
<1>3. (IInv /\ SerialInv => \A r \in Ride : Life(r) \in Lifecycle!Life)'
  BY LifeTyped, PTL
<1>4. Lifecycle!Next
  BY <1>2, <1>3 DEF Lifecycle!Next
<1> QED BY <1>4

\* Every behaviour without overlapping operations is one that RideLifecycle allows.
THEOREM LifecycleKept == ASSUME Serial PROVE Spec => KeepsLifecycle
<1>1. IInv /\ IInv' /\ (Serial => SerialInv) /\ (Serial => SerialInv)' /\ [Next]_vars =>
         [Lifecycle!Next]_([r \in Ride |-> Life(r)])
  BY LifecycleStep
<1> QED BY <1>1, LifecycleInit, SerialInductive, Inductive, PTL DEF Spec, KeepsLifecycle, Lifecycle!Spec

\* What the lifecycle implies for one ride.
CourtedLife(l) ==
    /\ l.asked # NoDriver => l.stage \in {"MATCHING", "CANCELLED"} /\ l.mate = NoDriver
    /\ l.stage \in {"NONE", "REQUESTED", "MATCHING", "NO_DRIVERS_FOUND"} => l.mate = NoDriver

LEMMA MoveCourted ==
    ASSUME NEW l \in Lifecycle!Life, NEW m, Lifecycle!Move(l, m), CourtedLife(l)
    PROVE  /\ CourtedLife(m)
           /\ l.mate # NoDriver => m.mate = l.mate
           /\ l.stage # "RIDE_COMPLETED"
<1>1. CASE Lifecycle!Request(l, m)
  BY <1>1 DEF CourtedLife, Lifecycle!Request, Lifecycle!Fresh
<1>2. CASE Lifecycle!Ask(l, m)
  BY <1>2 DEF CourtedLife, Lifecycle!Ask, Lifecycle!Idling, Lifecycle!Life
<1>3. CASE Lifecycle!Unanswered(l, m)
  BY <1>3 DEF CourtedLife, Lifecycle!Unanswered, Lifecycle!Life
<1>4. CASE Lifecycle!Accept(l, m)
  BY <1>4 DEF CourtedLife, Lifecycle!Accept
<1>5. CASE Lifecycle!Round(l, m)
  BY <1>5 DEF CourtedLife, Lifecycle!Round, Lifecycle!Idling, Lifecycle!Life
<1>6. CASE Lifecycle!GiveUp(l, m)
  BY <1>6 DEF CourtedLife, Lifecycle!GiveUp, Lifecycle!Idling, Lifecycle!Life
<1>7. CASE Lifecycle!Redispatch(l, m)
  BY <1>7 DEF CourtedLife, Lifecycle!Redispatch, Lifecycle!Fresh
<1>8. CASE Lifecycle!Advance(l, m)
  <2>1. /\ l.stage \in {"DRIVER_ASSIGNED", "DRIVER_EN_ROUTE", "DRIVER_ARRIVED", "RIDE_STARTED"}
        /\ Lifecycle!NextStage[l.stage] \in {"DRIVER_EN_ROUTE", "DRIVER_ARRIVED", "RIDE_STARTED", "RIDE_COMPLETED"}
    BY <1>8 DEF Lifecycle!Advance, Lifecycle!NextStage
  <2>2. m.stage = Lifecycle!NextStage[l.stage] /\ m.asked = l.asked /\ m.mate = l.mate
    BY <1>8 DEF Lifecycle!Advance, Lifecycle!Life
  <2> QED BY <2>1, <2>2 DEF CourtedLife
<1>9. CASE Lifecycle!Cancel(l, m)
  BY <1>9 DEF CourtedLife, Lifecycle!Cancel, Lifecycle!Final, Lifecycle!Life
<1> QED BY <1>1, <1>2, <1>3, <1>4, <1>5, <1>6, <1>7, <1>8, <1>9 DEF Lifecycle!Move

TypedLives == \A r \in Ride : Life(r) \in Lifecycle!Life

LEMMA LivesInit == Lifecycle!Init => Lifecycle!Courted
<1> SUFFICES ASSUME Lifecycle!Init PROVE Lifecycle!Courted
  OBVIOUS
<1>1. \A r \in Ride : Life(r) = Lifecycle!NotRequested
  BY DEF Lifecycle!Init
<1> QED BY <1>1 DEF Lifecycle!NotRequested, Lifecycle!Courted

LEMMA LivesStep ==
    ASSUME TypedLives, Lifecycle!Courted, [Lifecycle!Next]_([r \in Ride |-> Life(r)])
    PROVE  Lifecycle!Courted' /\ Lifecycle!Kept
<1>1. ASSUME NEW r \in Ride PROVE Life(r)' = Life(r) \/ Lifecycle!Move(Life(r), Life(r)')
  <2>1. CASE Lifecycle!Next
    BY <2>1 DEF Lifecycle!Next
  <2>2. CASE UNCHANGED [q \in Ride |-> Life(q)]
    <3>1. [q \in Ride |-> Life(q)']  = [q \in Ride |-> Life(q)]
      BY <2>2
    <3> QED BY <3>1
  <2> QED BY <2>1, <2>2
<1>2. \A r \in Ride : CourtedLife(Life(r))
  BY DEF Lifecycle!Courted, CourtedLife
<1>3. \A r \in Ride : /\ CourtedLife(Life(r)')
                      /\ Life(r).mate # NoDriver => Life(r)'.mate = Life(r).mate
                      /\ Life(r).stage = "RIDE_COMPLETED" => Life(r)' = Life(r)
  BY <1>1, <1>2, MoveCourted DEF TypedLives
<1>4. Lifecycle!Courted'
  BY <1>3 DEF Lifecycle!Courted, CourtedLife
<1>5. Lifecycle!Kept
  BY <1>3 DEF Lifecycle!Kept
<1> QED BY <1>4, <1>5

\* Without overlap a ride that is being matched, or was cancelled while it was
\* offered, has no driver yet, and no other ride waits for an answer.
THEOREM CourtedHolds == ASSUME Serial PROVE Spec => []Lifecycle!Courted
<1>1. IInv /\ (Serial => SerialInv) => TypedLives
  BY LifeTyped DEF TypedLives
<1>2. TypedLives /\ Lifecycle!Courted /\ [Lifecycle!Next]_([r \in Ride |-> Life(r)]) => Lifecycle!Courted'
  BY LivesStep
<1> QED BY <1>1, <1>2, LivesInit, LifecycleKept, SerialInductive, Inductive, PTL
        DEF KeepsLifecycle, Lifecycle!Spec

\* Without overlap no acceptance, expiry, redispatch or departure ever takes a ride
\* from the driver it has and gives it to another one.
THEOREM FaithfulHolds == ASSUME Serial PROVE Spec => Lifecycle!Faithful
<1>1. IInv /\ (Serial => SerialInv) => TypedLives
  BY LifeTyped DEF TypedLives
<1>2. TypedLives /\ Lifecycle!Courted /\ [Lifecycle!Next]_([r \in Ride |-> Life(r)]) => Lifecycle!Kept
  BY LivesStep
<1> QED BY <1>1, <1>2, CourtedHolds, LifecycleKept, SerialInductive, Inductive, PTL
        DEF KeepsLifecycle, Lifecycle!Spec, Lifecycle!Faithful

\* Nothing changes a completed ride.
THEOREM CompletedIsFinalHolds == Spec => CompletedIsFinal
<1>1. ASSUME IInv, Serial => SerialInv, [Next]_vars, Serial, NEW r \in Ride, ride[r].status = "RIDE_COMPLETED"
      PROVE  ride'[r] = ride[r]
  <2>1. CASE \E s \in Actor : InsertRide(s)
    <3>1. PICK s \in Actor : InsertRide(s)
      BY <2>1
    <3>2. sess[s].pc = "create" /\ ride' = [ride EXCEPT ![sess[s].ride] = [NoRideRow EXCEPT !.status = "MATCHING"]]
      BY <3>1 DEF InsertRide
    <3>3. ride[sess[s].ride].status = "NONE"
      BY <1>1, <3>2, StepFacts DEF Waits, Quiet
    <3> QED BY <1>1, <3>2, <3>3 DEF IInv, TypeOK
  <2>2. CASE \E s \in Actor : Commit(s)
    <3>1. PICK s \in Actor : Commit(s)
      BY <2>2
    <3>2. sess[s].pc = "commit" /\ ride' = RidesAfter(ride, sess[s].tx)
      BY <3>1 DEF Commit, RidesAfter
    <3>3. SerialTx(sess[s].tx, ride, offer)
      BY <1>1, <3>2, StaysAlone DEF Ready, Quiet
    <3> QED BY <1>1, <3>2, <3>3 DEF SerialTx
  <2> QED BY <1>1, <2>1, <2>2, RideChanges DEF InsertOffer
<1>2. IInv /\ (Serial => SerialInv) /\ [Next]_vars =>
         [Serial => \A r \in Ride : ride[r].status = "RIDE_COMPLETED" => ride'[r] = ride[r]]_vars
  BY <1>1
<1> QED BY <1>2, SerialInductive, Inductive, PTL DEF Spec, CompletedIsFinal

-----------------------------------------------------------------------------
(* The offer budget *)

\* A unit of work that sets no retry count keeps every one.
LEMMA CountsKept ==
    ASSUME IInv, NEW tx, \A q \in Ride : tx.ride[q].retries = Keep
    PROVE  \A q \in Ride : RidesAfter(ride, tx)[q].retries = ride[q].retries
  BY DEF RidesAfter, RideStored, Stored

LEMMA StatusKeepsCount ==
    ASSUME NEW old \in RideRow, NEW new, new.retries = old.retries
    PROVE  RideDiff(old, new).retries = Keep
  BY DEF RideDiff, Column

\* What the budget speaks of is in the two tables only.
LEMMA SameBudget ==
    ASSUME UNCHANGED <<ride, offer>>
    PROVE  /\ \A r \in Ride : OffersOf(r)' = OffersOf(r) /\ Sent(r)' = Sent(r) /\ Allowed(r)' = Allowed(r)
           /\ \A x : Thrifty(x) => Thrifty(x)'
<1>1. \A r : OffersOf(r)' = OffersOf(r) /\ Attempted(r)' = Attempted(r)
  BY DEF OffersOf, Attempted
<1>2. \A r : Sent(r)' = Sent(r) /\ Allowed(r)' = Allowed(r)
  BY <1>1 DEF Sent, Allowed
<1> QED BY <1>1, <1>2 DEF Thrifty

LEMMA BudgetSessionStep ==
    ASSUME IInv, BudgetInv, NEW s \in Actor, NEW x, \A t \in Others(s) : Quiet(t), Put(s, x),
           UNCHANGED <<ride, offer>>, Thrifty(x)
    PROVE  BudgetInv'
<1>1. \A t \in Actor : sess'[t] = IF t = s THEN x ELSE sess[t]
  BY DEF IInv, TypeOK, Put
<1>2. \A t \in Actor : ~Quiet(t)' => sess'[t] = x
  BY <1>1 DEF Others, Quiet
<1>3. Thrifty(x)'
  BY SameBudget
<1>4. \A t \in Actor : ~Quiet(t)' => Thrifty(sess[t])'
  BY <1>2, <1>3
<1>5. \A r \in Ride : (IsFiniteSet(OffersOf(r)) /\ Sent(r) <= Allowed(r))'
  BY SameBudget DEF BudgetInv
<1> QED BY <1>4, <1>5 DEF BudgetInv

LEMMA PlainThrifty == \A x : x.pc \notin {"commit", "reselect", "insert"} => Thrifty(x)
  BY DEF Thrifty

LEMMA ReturnedPlain ==
    ASSUME IInv, NEW s \in Actor
    PROVE  Returned(s).pc \in {"idle", "recover", "loop"}
  BY SessionFacts DEF Returned, Idle, SessionState

LEMMA BudgetSubmit ==
    ASSUME IInv, BudgetInv, Serial, NEW s \in Session, NEW kind, MayStart(s, kind),
           NEW tx, \A q \in Ride : tx.ride[q].retries = Keep, NEW cont, NEW r, cont # "reselect",
           Submit(s, tx, cont, r), UNCHANGED Rows
    PROVE  BudgetInv'
<1> DEFINE x == [Idle EXCEPT !.pc = "commit", !.tx = tx, !.cont = cont, !.ride = r]
<1>1. x.pc = "commit" /\ x.tx = tx /\ x.cont = cont
  BY DEF Idle
<1>2. Put(s, x) /\ UNCHANGED <<ride, offer>> /\ \A t \in Others(s) : Quiet(t)
  BY StartsAlone DEF Submit, Rows
<1> HIDE DEF x
<1>3. \A q \in Ride : ride[q].retries <= RidesAfter(ride, tx)[q].retries
  <2>1. \A q \in Ride : ride[q].retries \in Nat
    BY RowTypes DEF RideRow
  <2> QED BY <2>1, CountsKept
<1>4. Thrifty(x)
  BY <1>1, <1>3 DEF Thrifty
<1> QED BY <1>2, <1>4, BudgetSessionStep DEF Actor

LEMMA BudgetStatus ==
    ASSUME IInv, NEW r \in Ride, NEW st \in RideStatus
    PROVE  LET tx == SetRide(NoTx, r, ride[r], [ride[r] EXCEPT !.status = st])
           IN  tx \in Tx /\ \A q \in Ride : tx.ride[q].retries = Keep
<1> DEFINE new == [ride[r] EXCEPT !.status = st]
           tx == SetRide(NoTx, r, ride[r], new)
<1>1. ride[r] \in RideRow
  BY RowTypes
<1>2. new \in RideRow /\ new.status \in RideStatus /\ new.retries = ride[r].retries
  BY <1>1 DEF RideRow
<1> HIDE DEF new
<1>3. tx \in Tx /\ \A q \in Ride : tx.ride[q] = IF q = r THEN RideDiff(ride[r], new) ELSE NoTx.ride[q]
  BY <1>1, <1>2, EmptyTx, SetRideFields
<1>4. RideDiff(ride[r], new).retries = Keep
  BY <1>1, <1>2, StatusKeepsCount
<1> HIDE DEF tx
<1>5. \A q \in Ride : tx.ride[q].retries = Keep
  BY <1>3, <1>4, EmptyTx DEF KeepRide
<1> QED BY <1>3, <1>5 DEF tx, new

LEMMA BudgetRideRequest ==
    ASSUME IInv, BudgetInv, Serial, "redispatch" \notin Kinds, NEW s \in Session, RideRequest(s)
    PROVE  BudgetInv'
<1>1. ASSUME NEW r \in Ride, CreateRide(s, r) PROVE BudgetInv'
  <2>1. Put(s, [Idle EXCEPT !.pc = "create", !.ride = r]) /\ UNCHANGED <<ride, offer>> /\ \A t \in Others(s) : Quiet(t)
    BY <1>1, StartsAlone DEF CreateRide
  <2>2. [Idle EXCEPT !.pc = "create", !.ride = r].pc = "create"
    BY DEF Idle
  <2> QED BY <2>1, <2>2, PlainThrifty, BudgetSessionStep DEF Actor
<1>2. ASSUME NEW r \in Ride, CancelRide(s, r) PROVE BudgetInv'
  <2> DEFINE d == ride[r].driver
             tx == SetRide(NoTx, r, ride[r], [ride[r] EXCEPT !.status = "CANCELLED"])
             ty == SetDriver(tx, d, [driver[d] EXCEPT !.available = TRUE, !.online = TRUE])
  <2>1. tx \in Tx /\ \A q \in Ride : tx.ride[q].retries = Keep
    BY BudgetStatus, StatusNames
  <2>2. (Submit(s, tx, "idle", r) \/ Submit(s, ty, "idle", r)) /\ MayStart(s, "cancel") /\ UNCHANGED Rows
    BY <1>2 DEF CancelRide, Rows
  <2> HIDE DEF tx
  <2>3. ty.ride = tx.ride
    BY <2>1, SetDriverFields
  <2> HIDE DEF ty
  <2> QED BY <2>1, <2>2, <2>3, BudgetSubmit
<1>3. ASSUME NEW r \in Ride, NEW to \in {"DRIVER_EN_ROUTE", "DRIVER_ARRIVED", "RIDE_STARTED"}, DriverStatusAction(s, r, to)
      PROVE  BudgetInv'
  <2> DEFINE tx == SetRide(NoTx, r, ride[r], [ride[r] EXCEPT !.status = to])
  <2>1. \A q \in Ride : tx.ride[q].retries = Keep
    BY BudgetStatus, StatusNames
  <2>2. Submit(s, tx, "idle", r) /\ MayStart(s, "status") /\ UNCHANGED Rows
    BY <1>3 DEF DriverStatusAction, Rows
  <2> HIDE DEF tx
  <2> QED BY <2>1, <2>2, BudgetSubmit
<1>4. ASSUME NEW r \in Ride, CompleteRide(s, r) PROVE BudgetInv'
  <2> DEFINE d == ride[r].driver
             tx == SetRide(NoTx, r, ride[r], [ride[r] EXCEPT !.status = "RIDE_COMPLETED"])
             ty == SetDriver(tx, d, [driver[d] EXCEPT !.available = TRUE, !.online = TRUE])
  <2>1. tx \in Tx /\ \A q \in Ride : tx.ride[q].retries = Keep
    BY BudgetStatus, StatusNames
  <2>2. Submit(s, ty, "idle", r) /\ MayStart(s, "complete") /\ UNCHANGED Rows
    BY <1>4 DEF CompleteRide, Rows
  <2> HIDE DEF tx
  <2>3. ty.ride = tx.ride
    BY <2>1, SetDriverFields
  <2> HIDE DEF ty
  <2> QED BY <2>1, <2>2, <2>3, BudgetSubmit
<1>5. \A r \in Ride : ~AdminRedispatch(s, r)
  BY DEF AdminRedispatch, MayStart
<1> QED BY <1>1, <1>2, <1>3, <1>4, <1>5 DEF RideRequest

LEMMA BudgetOfferRequest ==
    ASSUME IInv, BudgetInv, Serial, NEW s \in Session, OfferRequest(s)
    PROVE  BudgetInv'
<1>1. \A os, st : st \in OfferStatus => \A q \in Ride : Answer(NoTx, os, st).ride[q].retries = Keep
  BY EmptyTx, AnswerFields DEF KeepRide
<1>2. ASSUME NEW o \in Offer, RejectOffer(s, o) PROVE BudgetInv'
  <2> DEFINE tx == Answer(NoTx, {o}, "REJECTED")
  <2>1. \A q \in Ride : tx.ride[q].retries = Keep
    BY <1>1, StatusNames
  <2>2. Submit(s, tx, "next", offer[o].ride) /\ MayStart(s, "reject") /\ UNCHANGED Rows
    BY <1>2 DEF RejectOffer, Rows
  <2> HIDE DEF tx
  <2> QED BY <2>1, <2>2, BudgetSubmit
<1>3. ASSUME NEW o \in Offer, AcceptOffer(s, o) PROVE BudgetInv'
  <2> DEFINE r == offer[o].ride
             d == offer[o].driver
             assigned == [ride[r] EXCEPT !.status = "DRIVER_ASSIGNED", !.driver = d]
             tx == SetDriver(SetRide(Accepted(o), r, ride[r], assigned), d, [driver[d] EXCEPT !.available = FALSE])
             late == Answer(NoTx, {o}, "EXPIRED")
  <2>1. \A q \in Ride : late.ride[q].retries = Keep
    BY <1>1, StatusNames
  <2>2. offer[o].status = "PENDING" /\ r \in Ride /\ ride[r] \in RideRow
    BY <1>3, RowTypes DEF AcceptOffer, Answerable
  <2>3. /\ (Submit(s, late, "idle", r) \/ Submit(s, tx, "idle", r))
        /\ MayStart(s, "accept") /\ UNCHANGED Rows
    BY <1>3 DEF AcceptOffer, Rows
  <2>4. /\ assigned.retries = ride[r].retries
        /\ \A q \in Ride : tx.ride[q] = IF q = r THEN RideDiff(ride[r], assigned) ELSE KeepRide
    BY <2>2, AcceptFields
  <2> HIDE DEF tx, late, assigned
  <2>5. \A q \in Ride : tx.ride[q].retries = Keep
    BY <2>2, <2>4, StatusKeepsCount DEF KeepRide
  <2> QED BY <2>1, <2>3, <2>5, BudgetSubmit
<1> QED BY <1>2, <1>3 DEF OfferRequest

LEMMA BudgetDriverRequest ==
    ASSUME IInv, BudgetInv, Serial, NEW s \in Session, DriverRequest(s)
    PROVE  BudgetInv'
<1>1. ASSUME NEW kind, MayStart(s, kind), NEW d \in Driver, NEW row, Leave(s, d, row), UNCHANGED Rows
      PROVE  BudgetInv'
  <2> DEFINE cancel == [KeepRide EXCEPT !.status = "CANCELLED"]
             rides == [r \in Ride |-> IF r \in Unfinished(d) THEN cancel ELSE KeepRide]
             mid == [NoTx EXCEPT !.ride = rides]
             tx == SetDriver(mid, d, row)
  <2>1. \A q \in Ride : rides[q] \in RideWrite /\ rides[q].retries = Keep
    BY StatusNames DEF KeepRide, RideWrite
  <2>2. Submit(s, tx, "idle", NoRide)
    BY <1>1 DEF Leave
  <2>3. mid \in Tx /\ mid.ride = rides
    <3>1. rides \in [Ride -> RideWrite]
      BY <2>1
    <3> HIDE DEF rides
    <3> QED BY <3>1, EmptyTx DEF Tx
  <2> HIDE DEF rides, mid
  <2>4. \A q \in Ride : tx.ride[q].retries = Keep
    BY <2>1, <2>3, SetDriverFields
  <2> HIDE DEF tx
  <2> QED BY <1>1, <2>2, <2>4, BudgetSubmit
<1>2. ASSUME NEW kind, MayStart(s, kind), NEW d \in Driver, NEW row,
             Submit(s, SetDriver(NoTx, d, row), "idle", NoRide), UNCHANGED Rows
      PROVE  BudgetInv'
  <2>1. \A q \in Ride : SetDriver(NoTx, d, row).ride[q].retries = Keep
    BY EmptyTx, SetDriverFields DEF KeepRide
  <2> QED BY <1>2, <2>1, BudgetSubmit
<1>3. ASSUME NEW d \in Driver, NEW online \in BOOLEAN, NEW available \in BOOLEAN,
             UpdateAvailability(s, d, online, available)
      PROVE  BudgetInv'
  BY <1>1, <1>2, <1>3 DEF UpdateAvailability, Rows
<1>4. ASSUME NEW d \in Driver, Suspend(s, d) PROVE BudgetInv'
  BY <1>2, <1>4 DEF Suspend, Rows
<1>5. ASSUME NEW d \in Driver, PresenceTimeout(s, d) PROVE BudgetInv'
  BY <1>1, <1>5 DEF PresenceTimeout, Rows
<1> QED BY <1>3, <1>4, <1>5 DEF DriverRequest

LEMMA ThriftyHere ==
    ASSUME SerialInv, BudgetInv, NEW s \in Actor, ~Quiet(s)
    PROVE  Thrifty(sess[s]) /\ \A t \in Others(s) : Quiet(t)
  BY StaysAlone DEF BudgetInv

\* The new ride has no offers: ids are not reused.
LEMMA BudgetInsertRide ==
    ASSUME IInv, SerialInv, BudgetInv, NEW s \in Actor, InsertRide(s)
    PROVE  BudgetInv'
<1> DEFINE r == sess[s].ride
           row == [NoRideRow EXCEPT !.status = "MATCHING"]
           x == [sess[s] EXCEPT !.pc = "find", !.mem = [sess[s].mem EXCEPT ![r] = row]]
<1>1. sess[s].pc = "create" /\ ~Quiet(s) /\ r \in Ride /\ sess[s] \in SessionState
  BY SessionFacts DEF InsertRide, Quiet, Working
<1>2. ride[r].status = "NONE" /\ \A t \in Others(s) : Quiet(t)
  BY <1>1, StepFacts DEF Waits
<1>3. Put(s, x) /\ ride' = [ride EXCEPT ![r] = row] /\ offer' = offer
  BY DEF InsertRide
<1>4. row.retries = 0
  BY FreshRide
<1> HIDE DEF row
<1>5. x.pc = "find"
  BY <1>1 DEF SessionState
<1> HIDE DEF x
<1>6. \A q \in Ride : ride'[q] = IF q = r THEN row ELSE ride[q]
  BY <1>3 DEF IInv, TypeOK
<1>7. \A q \in Ride : OffersOf(q)' = OffersOf(q) /\ Attempted(q)' = Attempted(q)
  BY <1>3 DEF OffersOf, Attempted
<1>8. OffersOf(r) = {} /\ Attempted(r) = {}
  <2>1. SoundRide(ride[r], offer, r)
    BY <1>1 DEF SerialInv
  <2>2. OffersOf(r) = {}
    BY <1>2, <2>1 DEF SoundRide, OffersOf
  <2> QED BY <2>2 DEF Attempted
<1>9. ASSUME NEW q \in Ride PROVE IsFiniteSet(OffersOf(q))' /\ (Sent(q) <= Allowed(q))'
  <2>1. IsFiniteSet(OffersOf(q)) /\ Sent(q) <= Allowed(q)
    BY DEF BudgetInv
  <2>2. CASE q = r
    <3>1. Cardinality({}) = 0
      BY FS_EmptySet
    <3>2. Sent(q)' = 0 /\ Allowed(q)' = 0 + 0
      BY <1>4, <1>6, <1>7, <1>8, <2>2, <3>1 DEF Sent, Allowed
    <3> QED BY <1>7, <2>1, <3>2
  <2>3. CASE q # r
    BY <1>6, <1>7, <2>1, <2>3 DEF Sent, Allowed
  <2> QED BY <2>2, <2>3
<1>10. \A t \in Actor : ~Quiet(t)' => sess'[t] = x
  BY <1>2, <1>3 DEF IInv, TypeOK, Put, Quiet, Others
<1>11. \A y : y.pc = "find" => Thrifty(y)'
  BY DEF Thrifty
<1>12. \A t \in Actor : ~Quiet(t)' => Thrifty(sess[t])'
  BY <1>5, <1>10, <1>11
<1> QED BY <1>9, <1>12 DEF BudgetInv

LEMMA BudgetStartRetry ==
    ASSUME IInv, SerialInv, BudgetInv, NEW s \in Actor, StartRetry(s)
    PROVE  BudgetInv'
<1> DEFINE r == sess[s].ride
           old == Loaded(s, r)
           new == [old EXCEPT !.retries = old.retries + 1]
           tx == SetRide(NoTx, r, old, new)
           x == [sess[s] EXCEPT !.pc = "commit", !.cont = "reselect", !.cands = Eligible(r) \ Blocking(r), !.tx = tx]
<1>1. /\ sess[s].pc = "next" /\ ~Quiet(s) /\ Dispatching(s, r) /\ MayRetry(old)
      /\ Put(s, x) /\ UNCHANGED <<ride, offer>>
  BY DEF StartRetry, AllTried, Quiet
<1>2. /\ r \in Ride /\ old = ride[r] /\ ride[r].status = "MATCHING" /\ PendingIn(offer, r) = {}
      /\ MayRetry(ride[r])
  BY <1>1, LoadedIsRow, DispatchingRide
<1>3. ride[r] \in RideRow /\ ride[r].driver = NoDriver /\ ride \in [Ride -> RideRow]
  BY <1>2, RowTypes DEF SerialInv, SoundRide, IInv, TypeOK
<1>4. new \in RideRow /\ new.status = "MATCHING" /\ new.driver = NoDriver /\ new.retries = ride[r].retries + 1
  BY <1>2, <1>3 DEF RideRow
<1> HIDE DEF new, old
<1>5. RidesAfter(ride, tx) = [ride EXCEPT ![r] = new]
  BY <1>2, <1>4, SerialRoundTx
<1> HIDE DEF tx
<1>6. x.pc = "commit" /\ x.cont = "reselect" /\ x.tx = tx /\ x.ride = r
  BY SessionFacts DEF SessionState
<1> HIDE DEF x
<1>7. \A q \in Ride : /\ ride[q].retries \in Nat
                      /\ RidesAfter(ride, tx)[q].retries = IF q = r THEN ride[q].retries + 1 ELSE ride[q].retries
  BY <1>3, <1>4, <1>5 DEF RideRow
<1>8. Thrifty(x)
  BY <1>2, <1>6, <1>7 DEF Thrifty
<1> QED BY <1>1, <1>8, ThriftyHere, BudgetSessionStep

LEMMA BudgetMarkNoDrivers ==
    ASSUME IInv, SerialInv, BudgetInv, NEW s \in Actor, ~Quiet(s), sess[s].ride \in Ride,
           ride[sess[s].ride].status = "MATCHING", PendingIn(offer, sess[s].ride) = {},
           MarkNoDrivers(s, ride[sess[s].ride]), UNCHANGED <<ride, offer>>
    PROVE  BudgetInv'
<1> DEFINE r == sess[s].ride
           none == [ride[r] EXCEPT !.status = "NO_DRIVERS_FOUND", !.driver = NoDriver]
           tx == SetRide(NoTx, r, ride[r], none)
           x == [sess[s] EXCEPT !.pc = "commit", !.cont = "idle", !.tx = tx]
<1>1. Put(s, x)
  BY DEF MarkNoDrivers
<1>2. /\ none \in RideRow /\ none.status = "NO_DRIVERS_FOUND" /\ none.driver = NoDriver
      /\ none.retries = ride[r].retries /\ ride \in [Ride -> RideRow]
  BY RowTypes, StatusNames DEF RideRow, IInv, TypeOK
<1> HIDE DEF none
<1>3. RidesAfter(ride, tx) = [ride EXCEPT ![r] = none]
  BY <1>2, SerialRoundTx
<1> HIDE DEF tx
<1>4. x.pc = "commit" /\ x.cont = "idle" /\ x.tx = tx
  BY SessionFacts DEF SessionState
<1> HIDE DEF x
<1>5. \A q \in Ride : ride[q].retries \in Nat /\ RidesAfter(ride, tx)[q].retries = ride[q].retries
  BY <1>2, <1>3 DEF RideRow
<1>6. Thrifty(x)
  BY <1>4, <1>5 DEF Thrifty
<1> QED BY <1>1, <1>6, ThriftyHere, BudgetSessionStep

\* Choosing whom to ask: somebody new, or a round that was counted.
LEMMA BudgetChoice ==
    ASSUME IInv, SerialInv, BudgetInv, NEW s \in Actor,
           FindCandidates(s) \/ NothingToOffer(s) \/ PickUntried(s) \/ GiveUp(s) \/ Reselect(s)
    PROVE  BudgetInv'
<1> ~Quiet(s) /\ UNCHANGED <<ride, offer>>
  BY DEF FindCandidates, NothingToOffer, PickUntried, GiveUp, AllTried, Reselect, Quiet
<1>1. CASE FindCandidates(s)
  <2>1. Put(s, [sess[s] EXCEPT !.pc = "next"]) /\ [sess[s] EXCEPT !.pc = "next"].pc = "next"
    BY <1>1, SessionFacts DEF FindCandidates, SessionState
  <2> QED BY <2>1, PlainThrifty, ThriftyHere, BudgetSessionStep
<1>2. CASE NothingToOffer(s)
  <2>1. Put(s, Returned(s)) /\ Thrifty(Returned(s))
    BY <1>2, ReturnedPlain, PlainThrifty DEF NothingToOffer
  <2> QED BY <2>1, ThriftyHere, BudgetSessionStep
<1>3. CASE PickUntried(s)
  <2>1. PICK d : d \notin Attempted(sess[s].ride) /\ Put(s, [sess[s] EXCEPT !.pc = "insert", !.driver = d])
    BY <1>3 DEF PickUntried
  <2> DEFINE x == [sess[s] EXCEPT !.pc = "insert", !.driver = d]
  <2>2. x.pc = "insert" /\ x.ride = sess[s].ride /\ x.driver = d
    BY SessionFacts DEF SessionState
  <2>3. Put(s, x)
    BY <2>1
  <2> HIDE DEF x
  <2>4. Thrifty(x)
    BY <2>1, <2>2 DEF Thrifty
  <2> QED BY <2>3, <2>4, ThriftyHere, BudgetSessionStep
<1>4. CASE GiveUp(s)
  <2>1. /\ sess[s].pc = "next" /\ Dispatching(s, sess[s].ride)
        /\ MarkNoDrivers(s, Loaded(s, sess[s].ride))
    BY <1>4 DEF GiveUp, AllTried
  <2> QED BY <2>1, LoadedIsRow, DispatchingRide, BudgetMarkNoDrivers
<1>5. CASE Reselect(s)
  <2>1. sess[s].pc = "reselect" /\ sess[s].ride \in Ride
    BY <1>5, SessionFacts DEF Reselect, Working
  <2>2. ride[sess[s].ride].status = "MATCHING" /\ PendingIn(offer, sess[s].ride) = {}
    BY <2>1, StepFacts DEF Waits
  <2>3. Sent(sess[s].ride) < Allowed(sess[s].ride)
    BY <2>1, ThriftyHere DEF Thrifty
  <2>4. ASSUME NEW d \in sess[s].cands, Put(s, [sess[s] EXCEPT !.pc = "insert", !.driver = d, !.cands = {}])
        PROVE  BudgetInv'
    <3> DEFINE x == [sess[s] EXCEPT !.pc = "insert", !.driver = d, !.cands = {}]
    <3>1. x.pc = "insert" /\ x.ride = sess[s].ride
      BY SessionFacts DEF SessionState
    <3>2. Put(s, x)
      BY <2>4
    <3> HIDE DEF x
    <3>3. Thrifty(x)
      BY <2>3, <3>1 DEF Thrifty
    <3> QED BY <3>2, <3>3, ThriftyHere, BudgetSessionStep
  <2>5. CASE MarkNoDrivers(s, ride[sess[s].ride])
    BY <2>1, <2>2, <2>5, BudgetMarkNoDrivers
  <2> QED BY <1>5, <2>4, <2>5 DEF Reselect
<1> QED BY <1>1, <1>2, <1>3, <1>4, <1>5

\* One more offer: to a driver not asked before, or on a counted round.
LEMMA BudgetInsertOffer ==
    ASSUME IInv, SerialInv, BudgetInv, NEW s \in Actor, InsertOffer(s)
    PROVE  BudgetInv'
<1> DEFINE r == sess[s].ride
           d == sess[s].driver
           row == [status |-> "PENDING", ride |-> r, driver |-> d]
<1>1. sess[s].pc = "insert" /\ ~Quiet(s) /\ Put(s, Returned(s)) /\ ride' = ride /\ r \in Ride /\ d \in Driver
  BY SessionFacts DEF InsertOffer, Quiet, Working, GoodSession
<1>2. PICK o \in Offer : offer[o].status = "NONE" /\ offer' = [offer EXCEPT ![o] = row]
  BY DEF InsertOffer
<1>3. row.status = "PENDING" /\ row.ride = r /\ row.driver = d
  OBVIOUS
<1> HIDE DEF row
<1>4. \A p \in Offer : offer'[p] = IF p = o THEN row ELSE offer[p]
  BY <1>2 DEF IInv, TypeOK
<1>5. d \notin Attempted(r) \/ Sent(r) < Allowed(r)
  BY <1>1, ThriftyHere DEF Thrifty
<1>6. ASSUME NEW q \in Ride PROVE IsFiniteSet(OffersOf(q))' /\ (Sent(q) <= Allowed(q))'
  <2>1. IsFiniteSet(OffersOf(q)) /\ Sent(q) <= Allowed(q) /\ ride[q].retries \in Nat
    BY RowTypes DEF BudgetInv, RideRow
  <2>2. CASE q # r
    <3>1. OffersOf(q)' = OffersOf(q)
      BY <1>2, <1>3, <1>4, <2>2 DEF OffersOf
    <3>2. Attempted(q)' = Attempted(q)
      BY <1>2, <1>4, <3>1 DEF Attempted, OffersOf
    <3> QED BY <1>1, <2>1, <3>1, <3>2 DEF Sent, Allowed
  <2>3. CASE q = r
    <3>1. OffersOf(q)' = OffersOf(q) \cup {o} /\ o \notin OffersOf(q)
      BY <1>2, <1>3, <1>4, <2>3 DEF OffersOf
    <3>2. Attempted(q)' = Attempted(q) \cup {d}
      BY <1>2, <1>3, <1>4, <3>1 DEF Attempted, OffersOf
    <3>3. IsFiniteSet(OffersOf(q))' /\ Sent(q)' = Sent(q) + 1 /\ Sent(q) \in Nat
      BY <2>1, <3>1, FS_AddElement, FS_CardinalityType DEF Sent
    <3>4. IsFiniteSet(Attempted(q)) /\ Cardinality(Attempted(q)) \in Nat
      <4>1. Attempted(q) \subseteq Driver
        BY RowTypes DEF Attempted, OffersOf
      <4> QED BY <4>1, DriverAssumption, FS_Subset, FS_CardinalityType
    <3>5. Cardinality(Attempted(q) \cup {d}) =
             IF d \in Attempted(q) THEN Cardinality(Attempted(q)) ELSE Cardinality(Attempted(q)) + 1
      BY <3>4, FS_AddElement
    <3>6. Allowed(q)' = Cardinality(Attempted(q) \cup {d}) + ride[q].retries
      BY <1>1, <3>2 DEF Allowed
    <3>7. Allowed(q) = Cardinality(Attempted(q)) + ride[q].retries
      BY DEF Allowed
    <3> QED BY <1>5, <2>1, <2>3, <3>3, <3>4, <3>5, <3>6, <3>7
  <2> QED BY <2>2, <2>3
<1>7. \A t \in Actor : ~Quiet(t)' => sess'[t] = Returned(s)
  BY <1>1, ThriftyHere DEF IInv, TypeOK, Put, Quiet, Others
<1>8. Returned(s).pc \in {"idle", "recover", "loop"}
  BY ReturnedPlain
<1>9. \A t \in Actor : ~Quiet(t)' => Thrifty(sess[t])'
  BY <1>7, <1>8 DEF Thrifty
<1> QED BY <1>6, <1>9 DEF BudgetInv

\* A commit answers offers that were made, and pays for the round it opens.
LEMMA BudgetCommit ==
    ASSUME IInv, SerialInv, BudgetInv, NEW s \in Actor, Commit(s)
    PROVE  BudgetInv'
<1> DEFINE tx == sess[s].tx
           x == [sess[s] EXCEPT !.pc = sess[s].cont, !.cont = "idle", !.tx = NoTx]
<1>1. sess[s].pc = "commit" /\ ~Quiet(s) /\ sess[s] \in SessionState /\ tx \in Tx /\ CleanTx(tx)
  BY SessionFacts DEF Commit, Quiet, GoodSession, GoodTx
<1>2. ride' = RidesAfter(ride, tx) /\ (Put(s, Returned(s)) \/ (sess[s].cont # "idle" /\ Put(s, x)))
  BY DEF Commit, RidesAfter
<1>3. ASSUME NEW o \in Offer
      PROVE  /\ offer'[o].status # "NONE" <=> offer[o].status # "NONE"
             /\ offer'[o].ride = offer[o].ride /\ offer'[o].driver = offer[o].driver
  <2>1. offer[o] \in OfferRow /\ offer'[o] = [offer[o] EXCEPT !.status = Stored(offer[o].status, tx.offer[o])]
    BY DEF IInv, TypeOK, Commit
  <2>2. tx.offer[o] = Keep \/ (offer[o].status # "NONE" /\ tx.offer[o] # "NONE")
    BY <1>1 DEF CleanTx, Made, Tx, OfferStatus
  <2> QED BY <2>1, <2>2 DEF OfferRow, Stored
<1>4. \A q \in Ride : OffersOf(q)' = OffersOf(q)
  BY <1>3 DEF OffersOf
<1>5. \A q \in Ride : Attempted(q)' = Attempted(q) /\ Sent(q)' = Sent(q)
  <2>1. \A q \in Ride : \A o \in OffersOf(q) : offer'[o].driver = offer[o].driver
    BY <1>3 DEF OffersOf
  <2>2. \A q \in Ride : Attempted(q)' = {offer'[o].driver : o \in OffersOf(q)'}
    BY DEF Attempted
  <2> QED BY <1>4, <2>1, <2>2 DEF Attempted, Sent
<1>6. /\ \A q \in Ride : ride[q].retries <= ride'[q].retries
      /\ sess[s].cont = "reselect" => ride[sess[s].ride].retries < ride'[sess[s].ride].retries
  BY <1>1, <1>2, ThriftyHere DEF Thrifty
<1>7. ASSUME NEW q \in Ride
      PROVE  /\ IsFiniteSet(OffersOf(q)) /\ Sent(q) \in Nat /\ Cardinality(Attempted(q)) \in Nat
             /\ ride[q].retries \in Nat /\ ride'[q].retries \in Nat
             /\ Sent(q) <= Cardinality(Attempted(q)) + ride[q].retries
             /\ Allowed(q)' = Cardinality(Attempted(q)) + ride'[q].retries
  <2>1. Attempted(q) \subseteq Driver
    BY RowTypes DEF Attempted, OffersOf
  <2>2. Cardinality(Attempted(q)) \in Nat
    BY <2>1, DriverAssumption, FS_Subset, FS_CardinalityType
  <2>3. ride[q] \in RideRow /\ ride'[q] = RideStored(ride[q], tx.ride[q]) /\ tx.ride[q] \in RideWrite
    BY <1>1, <1>2, RowTypes DEF RidesAfter, Tx
  <2>4. ride[q].retries \in Nat /\ ride'[q].retries \in Nat
    BY <2>3, RideStoredGood DEF RideRow
  <2>5. IsFiniteSet(OffersOf(q)) /\ Sent(q) <= Cardinality(Attempted(q)) + ride[q].retries
    BY DEF BudgetInv, Allowed
  <2>6. Sent(q) \in Nat
    BY <2>5, FS_CardinalityType DEF Sent
  <2>7. Allowed(q)' = Cardinality(Attempted(q)) + ride'[q].retries
    BY <1>5 DEF Allowed
  <2> QED BY <2>2, <2>4, <2>5, <2>6, <2>7
<1>8. ASSUME NEW q \in Ride PROVE IsFiniteSet(OffersOf(q))' /\ (Sent(q) <= Allowed(q))'
  BY <1>4, <1>5, <1>6, <1>7
<1>9. ASSUME NEW q \in Ride, q = sess[s].ride, sess[s].cont = "reselect"
      PROVE  Sent(q)' < Allowed(q)'
  BY <1>5, <1>6, <1>7, <1>9
<1>10. ASSUME NEW y, y = x, sess[s].cont # "idle" PROVE Thrifty(y)'
  <2>1. y.pc = sess[s].cont /\ y.ride = sess[s].ride /\ y.pc \in Cont
    BY <1>1, <1>10 DEF SessionState
  <2>2. y.pc = "reselect" => y.ride \in Ride
    BY <1>1, <2>1, SessionFacts DEF GoodSession, Working
  <2> HIDE DEF x
  <2>3. y.pc = "reselect" => Sent(y.ride)' < Allowed(y.ride)'
    BY <1>9, <2>1, <2>2
  <2> QED BY <2>1, <2>3 DEF Thrifty, Cont
<1>11. Thrifty(Returned(s)) /\ \A y : y = Returned(s) => Thrifty(y)'
  BY ReturnedPlain DEF Thrifty
<1>12. \A t \in Actor : ~Quiet(t)' => sess'[t] = Returned(s) \/ (sess[s].cont # "idle" /\ sess'[t] = x)
  BY <1>1, <1>2, ThriftyHere DEF IInv, TypeOK, Put, Quiet, Others
<1> HIDE DEF x
<1>13. \A t \in Actor : ~Quiet(t)' => Thrifty(sess[t])'
  BY <1>10, <1>11, <1>12
<1> QED BY <1>8, <1>13 DEF BudgetInv

LEMMA BudgetWorker ==
    ASSUME IInv, SerialInv, BudgetInv, Serial, WorkerPass
    PROVE  BudgetInv'
<1> Worker \in Actor /\ UNCHANGED <<ride, offer>>
  BY DEF Actor, WorkerPass, ExpireElapsed, RecoverStale, NextRide
<1>1. CASE ExpireElapsed
  <2>1. \A t \in Others(Worker) : Quiet(t)
    BY <1>1, StartsAlone DEF ExpireElapsed
  <2> DEFINE tx == Answer(NoTx, Elapsed, "EXPIRED")
             x == [Idle EXCEPT !.pc = "commit", !.cont = "loop", !.last = "recover", !.tx = tx,
                               !.todo = {offer[o].ride : o \in Elapsed}]
             y == [Idle EXCEPT !.pc = "recover"]
  <2>2. \A q \in Ride : tx.ride[q].retries = Keep
    BY EmptyTx, AnswerFields, StatusNames DEF KeepRide
  <2>3. Put(Worker, x) \/ Put(Worker, y)
    BY <1>1 DEF ExpireElapsed
  <2> HIDE DEF tx
  <2>4. x.pc = "commit" /\ x.cont = "loop" /\ x.tx = tx /\ y.pc = "recover"
    BY DEF Idle
  <2> HIDE DEF x, y
  <2>5. \A q \in Ride : ride[q].retries \in Nat
    BY RowTypes DEF RideRow
  <2>6. Thrifty(x) /\ Thrifty(y)
    BY <2>2, <2>4, <2>5, CountsKept DEF Thrifty
  <2> QED BY <2>1, <2>3, <2>6, BudgetSessionStep
<1>2. CASE RecoverStale
  <2> DEFINE x == [Idle EXCEPT !.pc = "loop", !.todo = Stale,
                               !.mem = [r \in Ride |-> IF r \in Stale THEN ride[r] ELSE Absent]]
  <2>1. (Put(Worker, x) \/ Put(Worker, Idle)) /\ x.pc = "loop" /\ Idle.pc = "idle"
    BY <1>2 DEF RecoverStale, Idle
  <2> HIDE DEF x
  <2>2. ~Quiet(Worker)
    BY <1>2 DEF RecoverStale, Quiet
  <2> QED BY <2>1, <2>2, PlainThrifty, ThriftyHere, BudgetSessionStep
<1>3. CASE NextRide
  <2>1. PICK r : Put(Worker, [sess[Worker] EXCEPT !.pc = "next", !.ride = r, !.todo = sess[Worker].todo \ {r}])
    BY <1>3 DEF NextRide
  <2> DEFINE x == [sess[Worker] EXCEPT !.pc = "next", !.ride = r, !.todo = sess[Worker].todo \ {r}]
  <2>3. Put(Worker, x) /\ x.pc = "next"
    BY <2>1, SessionFacts DEF SessionState
  <2> HIDE DEF x
  <2>2. ~Quiet(Worker)
    BY <1>3 DEF NextRide, Quiet
  <2> QED BY <2>2, <2>3, PlainThrifty, ThriftyHere, BudgetSessionStep
<1> QED BY <1>1, <1>2, <1>3 DEF WorkerPass

LEMMA BudgetOutsideStep == ASSUME BudgetInv, UNCHANGED <<ride, offer, sess>> PROVE BudgetInv'
<1>1. \A r \in Ride : (IsFiniteSet(OffersOf(r)) /\ Sent(r) <= Allowed(r))'
  BY SameBudget DEF BudgetInv
<1>2. \A s \in Actor : ~Quiet(s)' => Thrifty(sess[s])'
  <2> SUFFICES ASSUME NEW s \in Actor, ~Quiet(s)' PROVE Thrifty(sess[s])'
    OBVIOUS
  <2>1. ~Quiet(s) /\ sess'[s] = sess[s]
    BY DEF Quiet
  <2>2. Thrifty(sess[s])
    BY <2>1 DEF BudgetInv
  <2> QED BY <2>1, <2>2, SameBudget
<1> QED BY <1>1, <1>2 DEF BudgetInv

LEMMA BudgetEnvironment ==
    ASSUME IInv, SerialInv, BudgetInv, Environment
    PROVE  BudgetInv'
<1>1. CASE \/ \E o \in Offer : Elapse(o)
           \/ \E r \in Ride : CandidatesLapse(r)
           \/ \E d \in Driver : ApproveDriver(d)
  BY <1>1, BudgetOutsideStep DEF Elapse, CandidatesLapse, ApproveDriver
<1>2. ASSUME NEW s \in Actor, Abort(s) PROVE BudgetInv'
  <2>1. PICK x : Put(s, x) /\ x.pc \in {"idle", "dead"}
    BY <1>2 DEF Abort, Idle
  <2>2. ~Quiet(s) /\ UNCHANGED <<ride, offer>>
    BY <1>2 DEF Abort
  <2> QED BY <2>1, <2>2, PlainThrifty, ThriftyHere, BudgetSessionStep
<1>3. CASE RestartWorker
  <2>1. UNCHANGED <<ride, offer>> /\ \A t \in Actor : ~Quiet(t)' => ~Quiet(t) /\ sess'[t] = sess[t]
    BY <1>3 DEF RestartWorker, IInv, TypeOK, Put, Idle, Quiet
  <2>2. \A t \in Actor : ~Quiet(t)' => Thrifty(sess[t])'
    BY <2>1, SameBudget DEF BudgetInv
  <2>3. \A r \in Ride : (IsFiniteSet(OffersOf(r)) /\ Sent(r) <= Allowed(r))'
    BY <2>1, SameBudget DEF BudgetInv
  <2> QED BY <2>2, <2>3 DEF BudgetInv
<1> QED BY <1>1, <1>2, <1>3 DEF Environment

LEMMA BudgetInit == Init => BudgetInv
<1> SUFFICES ASSUME Init PROVE BudgetInv
  OBVIOUS
<1>1. \A s \in Actor : Quiet(s)
  BY DEF Init, Idle, Quiet
<1>2. ASSUME NEW r \in Ride PROVE IsFiniteSet(OffersOf(r)) /\ Sent(r) <= Allowed(r)
  <2>1. OffersOf(r) = {} /\ Attempted(r) = {} /\ ride[r].retries = 0
    BY DEF Init, NoRideRow, NoOfferRow, OffersOf, Attempted
  <2>2. IsFiniteSet({}) /\ Cardinality({}) = 0
    BY FS_EmptySet
  <2> QED BY <2>1, <2>2 DEF Sent, Allowed
<1> QED BY <1>1, <1>2 DEF BudgetInv

LEMMA BudgetNext ==
    IInv /\ SerialInv /\ BudgetInv /\ Serial /\ "redispatch" \notin Kinds /\ [Next]_vars => BudgetInv'
<1> SUFFICES ASSUME IInv, SerialInv, BudgetInv, Serial, "redispatch" \notin Kinds, [Next]_vars PROVE BudgetInv'
  OBVIOUS
<1>1. CASE \E s \in Session : RideRequest(s) \/ OfferRequest(s) \/ DriverRequest(s)
  BY <1>1, BudgetRideRequest, BudgetOfferRequest, BudgetDriverRequest
<1>2. CASE \E s \in Actor : Proceed(s)
  BY <1>2, BudgetInsertRide, BudgetStartRetry, BudgetChoice, BudgetInsertOffer, BudgetCommit DEF Proceed
<1>3. CASE WorkerPass
  BY <1>3, BudgetWorker
<1>4. CASE Environment
  BY <1>4, BudgetEnvironment
<1>5. CASE UNCHANGED vars
  BY <1>5, BudgetOutsideStep DEF vars
<1> QED BY <1>1, <1>2, <1>3, <1>4, <1>5 DEF Next

\* No ride sends out more offers than it has drivers to ask and rounds that were
\* counted, whatever happens between two redispatches.
THEOREM OfferBudgetHolds == Spec => []OfferBudget
<1> DEFINE Ground == Serial /\ "redispatch" \notin Kinds
<1>1. Init => (Ground => BudgetInv)
  BY BudgetInit
<1>2. IInv /\ (Serial => SerialInv) /\ (Ground => BudgetInv) /\ [Next]_vars => (Ground => BudgetInv)'
  BY BudgetNext
<1>3. IInv /\ (Ground => BudgetInv) => OfferBudget
  <2> SUFFICES ASSUME IInv, BudgetInv, NEW r \in Ride
               PROVE  Cardinality(OffersOf(r)) <= Cardinality(Driver) + ride[r].retries
    BY DEF OfferBudget
  <2>1. Attempted(r) \subseteq Driver
    BY RowTypes DEF Attempted, OffersOf
  <2>2. /\ Cardinality(Attempted(r)) <= Cardinality(Driver)
        /\ Cardinality(Attempted(r)) \in Nat /\ Cardinality(Driver) \in Nat
    BY <2>1, DriverAssumption, FS_Subset, FS_CardinalityType
  <2>3. Cardinality(OffersOf(r)) <= Cardinality(Attempted(r)) + ride[r].retries /\ Cardinality(OffersOf(r)) \in Nat
    BY FS_CardinalityType DEF BudgetInv, Sent, Allowed
  <2>4. ride[r].retries \in Nat
    BY RowTypes DEF RideRow
  <2> QED BY <2>2, <2>3, <2>4
<1> HIDE DEF Ground
<1> QED BY <1>1, <1>2, <1>3, SerialInductive, Inductive, PTL DEF Spec

=============================================================================
