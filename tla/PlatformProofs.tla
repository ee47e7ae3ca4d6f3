---------------------------- MODULE PlatformProofs ----------------------------
(***************************************************************************)
(* Proofs about Platform, for any users, chargers, stations and bounds.    *)
(***************************************************************************)
EXTENDS Platform, WellFoundedInduction, TLAPS

-----------------------------------------------------------------------------
(* Type correctness.                                                       *)

\* The empty tables are of the right types.
LEMMA InitTypeOK == Init => TypeOK
<1> SUFFICES ASSUME Init PROVE TypeOK
  OBVIOUS
<1> QED
  BY StoreAssumption DEF Init, TypeOK, AccountStatus, OperatingStatus, ChargerStatus,
     ReservationStatus, OrderStatus, QueueStatus, ReportStatus, Stage, Entry

\* The transactions of the charging workflow write values of the right types.
LEMMA ChargingTypeOK ==
  ASSUME TypeOK, ChargingNext
  PROVE  TypeOK'
<1> USE DEF TypeOK, ChargerStatus, ReservationStatus, OrderStatus, QueueStatus, Stage
<1>1. CASE ExpireReservations
  BY <1>1 DEF ExpireReservations, AfterExpiry, queueVars, upkeepVars
<1>2. ASSUME NEW b \in Booking, NEW u \in User, NEW c \in Charger, Reserve(b, u, c)
      PROVE  TypeOK'
  BY <1>2 DEF Reserve, NoQueue, InsertBooking, queueVars, upkeepVars
<1>3. ASSUME NEW b \in Booking, NEW e \in Entry, ConfirmCall(b, e)
      PROVE  TypeOK'
  BY <1>3 DEF ConfirmCall, InsertBooking, Bookable, upkeepVars
<1>4. ASSUME NEW b \in Booking, CancelReservation(b)
      PROVE  TypeOK'
  BY <1>4 DEF CancelReservation, queueVars, upkeepVars
<1>5. ASSUME NEW b \in Booking, NEW withTarget \in BOOLEAN, StartCharging(b, withTarget)
      PROVE  TypeOK'
  BY <1>5 DEF StartCharging, queueVars, upkeepVars
<1>6. ASSUME NEW b \in Booking, StopCharging(b)
      PROVE  TypeOK'
  BY <1>6 DEF StopCharging, queueVars, upkeepVars
<1>7. CASE RecordTelemetry \/ FinishTargets
  BY <1>7 DEF RecordTelemetry, FinishTargets, bookingVars, queueVars, upkeepVars
<1>8. ASSUME NEW b \in Booking, Pay(b)
      PROVE  TypeOK'
  BY <1>8 DEF Pay, queueVars, upkeepVars
<1>9. QED
  BY <1>1, <1>2, <1>3, <1>4, <1>5, <1>6, <1>7, <1>8 DEF ChargingNext

\* So do the queue pass, join and leave.
LEMMA QueueTypeOK ==
  ASSUME TypeOK, QueueNext
  PROVE  TypeOK'
<1> USE DEF TypeOK, ChargerStatus, QueueStatus, Stage
<1>1. CASE QueuePass
  BY <1>1 DEF QueuePass, AfterPass, bookingVars, upkeepVars
<1>2. ASSUME NEW e \in Entry, NEW u \in User, NEW c \in Charger, Join(e, u, c)
      PROVE  TypeOK'
  BY <1>2 DEF Join, bookingVars, upkeepVars
<1>3. ASSUME NEW e \in Entry, Leave(e)
      PROVE  TypeOK'
  BY <1>3 DEF Leave, bookingVars, upkeepVars
<1>4. QED
  BY <1>1, <1>2, <1>3 DEF QueueNext

\* So do the commands of administrators and the repair reports.
LEMMA UpkeepTypeOK ==
  ASSUME TypeOK, UpkeepNext
  PROVE  TypeOK'
<1> USE StoreAssumption
    DEF TypeOK, Handled, ChargerStatus, ReportStatus, AccountStatus, OperatingStatus, Stage
<1>1. ASSUME NEW u \in Reporter, NEW c \in Charger,
             SubmitReport(u, c) \/ AdvanceReport(u, c) \/ ResolveReport(u, c)
      PROVE  TypeOK'
  <2>1. CASE SubmitReport(u, c)
    BY <2>1 DEF SubmitReport, bookingVars, queueVars
  <2>2. CASE AdvanceReport(u, c)
    BY <2>2 DEF AdvanceReport, bookingVars, queueVars
  <2>3. CASE ResolveReport(u, c)
    BY <2>3 DEF ResolveReport, bookingVars, queueVars
  <2>4. QED
    BY <1>1, <2>1, <2>2, <2>3
<1>2. ASSUME NEW c \in Charger, NEW status \in {"FAULT", "OFFLINE"}, TakeOut(c, status)
      PROVE  TypeOK'
  BY <1>2 DEF TakeOut, Serviceable, bookingVars, queueVars
<1>3. ASSUME NEW c \in Charger, Restart(c)
      PROVE  TypeOK'
  BY <1>3 DEF Restart, Serviceable, bookingVars, queueVars, upkeepVars
<1>4. ASSUME NEW c \in Charger, RecoverException(c)
      PROVE  TypeOK'
  BY <1>4 DEF RecoverException, Recoverable, Serviceable, bookingVars, queueVars
<1>5. ASSUME NEW s \in Station, NEW status \in OperatingStatus, SetStation(s, status)
      PROVE  TypeOK'
  BY <1>5 DEF SetStation, bookingVars, queueVars
<1>6. ASSUME NEW u \in User, NEW status \in AccountStatus, SetUser(u, status)
      PROVE  TypeOK'
  BY <1>6 DEF SetUser, bookingVars, queueVars
<1>7. QED
  BY <1>1, <1>2, <1>3, <1>4, <1>5, <1>6 DEF UpkeepNext

\* So does every step of the service.
LEMMA NextTypeOK ==
  ASSUME TypeOK, [Next]_vars
  PROVE  TypeOK'
<1>1. ASSUME NEW b \in Booking, HoldEnds(b)
      PROVE  TypeOK'
  BY <1>1 DEF TypeOK, HoldEnds, queueVars, upkeepVars
<1>2. ASSUME NEW e \in Entry, CallEnds(e)
      PROVE  TypeOK'
  BY <1>2 DEF TypeOK, CallEnds, bookingVars, upkeepVars
<1>3. CASE Abandon
  BY <1>3 DEF TypeOK, Stage, Abandon, bookingVars, queueVars, upkeepVars
<1>4. CASE UNCHANGED vars
  BY <1>4 DEF TypeOK, vars, bookingVars, queueVars, upkeepVars
<1>5. QED
  BY <1>1, <1>2, <1>3, <1>4, ChargingTypeOK, QueueTypeOK, UpkeepTypeOK DEF Next

\* Every column keeps to its CHECK constraint and every reference to a row.
THEOREM TypeCorrect == Spec => []TypeOK
<1>1. Init => TypeOK
  BY InitTypeOK
<1>2. TypeOK /\ [Next]_vars => TypeOK'
  BY NextTypeOK
<1>3. QED
  BY <1>1, <1>2, PTL DEF Spec

-----------------------------------------------------------------------------
(* Charging workflow: each of its transactions preserves IInv.             *)

ActiveIsReserved == \A b \in Booking : reservation[b] = "ACTIVE" <=> order[b] = "RESERVED"

\* A reservation is ACTIVE exactly while its order is RESERVED.
LEMMA ActiveReserved ==
  ASSUME TypeOK, WorkflowConsistent
  PROVE  ActiveIsReserved
BY DEF TypeOK, WorkflowConsistent, OrderStatus, ReservationStatus, ActiveIsReserved

\* The sweep frees a charger only of the booking that was alone on it.
LEMMA ExpireKeeps ==
  ASSUME IInv, ExpireReservations
  PROVE  IInv'
<1> USE DEF IInv, RowsRefer, ExpireReservations, Due, queueVars, upkeepVars
<1>0. TypeOK'
  BY NextTypeOK DEF Next, ChargingNext
<1>a. ActiveIsReserved
  BY ActiveReserved
<1> DEFINE freed == {bookedOn[b] : b \in Due}
<1>b. /\ \A b \in Booking : order'[b] = IF b \in Due THEN "CANCELLED" ELSE order[b]
      /\ \A c \in Charger : chargerStatus'[c] = IF c \in freed THEN "AVAILABLE" ELSE chargerStatus[c]
      /\ \A b \in Due : order[b] = "RESERVED" /\ bookedOn[b] \in Charger
      /\ \A b \in Booking : reservation'[b] = IF b \in Due THEN "EXPIRED" ELSE reservation[b]
  BY <1>a DEF ActiveIsReserved
<1>1. RowsRefer'
  BY DEF TypeOK, ReservationStatus
<1>2. WorkflowConsistent'
  <2> SUFFICES ASSUME NEW b \in Booking, order'[b] \in Holding
               PROVE  chargerStatus'[bookedOn[b]] = chargerStatus[bookedOn[b]]
    BY <1>b DEF WorkflowConsistent, Holding
  <2>1. bookedOn[b] \notin freed
    BY <1>b DEF OneHolderPerCharger, Holding
  <2>2. bookedOn[b] \in Charger
    BY <1>b DEF WorkflowConsistent, Holding
  <2>3. QED
    BY <1>b, <2>1, <2>2
<1>3. OneHolderPerCharger'
  BY <1>b DEF OneHolderPerCharger, Holding
<1>4. OneEngagementPerUser'
  BY <1>b DEF OneEngagementPerUser, Unfinished
<1>5. CalledKeepsCharger'
  BY <1>b DEF CalledKeepsCharger, OneHolderPerCharger, Holding, TypeOK, QueueStatus
<1>6. NoOrphanHold'
  BY <1>b DEF NoOrphanHold, ActiveReservationOn, OrderOn, Called, QueueFor
<1>7. InServiceMeansClear'
  BY <1>b, <1>a DEF InServiceMeansClear, WorkflowConsistent, Blocked, UnderRepair, ActiveIsReserved
<1>8. OccupiedMeansOpen'
  BY <1>b DEF OccupiedMeansOpen, Open
<1>9. FrozenHasNoBusiness'
  BY <1>b DEF FrozenHasNoBusiness, Unfinished
<1>10. QED
  BY <1>0, <1>1, <1>2, <1>3, <1>4, <1>5, <1>6, <1>7, <1>8, <1>9

\* A new booking, of an AVAILABLE charger or of the one a call holds.
LEMMA InsertKeeps ==
  ASSUME IInv, TypeOK',
         NEW b \in Booking, NEW u \in User, NEW c \in Charger,
         InsertBooking(b, u, c), Open(c), ~Blocked(c), ~HasUnfinishedOrder(u),
         userStatus[u] = "ACTIVE",
         UNCHANGED <<queuedBy, queuedFor>>,
         \A e \in Entry : queue'[e] = queue[e] \/ (e \in Called(c) /\ queue'[e] = "CONFIRMED"),
         \A e \in Entry : queue[e] \in InQueue /\ queuedBy[e] = u => queue'[e] = "CONFIRMED",
         \A e \in Called(c) : queue'[e] = "CONFIRMED",
         chargerStatus[c] = "AVAILABLE" \/ Called(c) # {}
  PROVE  IInv'
<1> USE DEF IInv, RowsRefer, TypeOK, InsertBooking, upkeepVars, bookingVars
<1>0. order[b] = "NONE" 
  BY DEF WorkflowConsistent, OrderStatus
<1>1. \A a \in Booking : order[a] \in Holding => bookedOn[a] # c
  BY DEF WorkflowConsistent, OneHolderPerCharger, Called, QueueFor, Holding, InQueue
<1>q. \A e \in Entry : queue'[e] \in InQueue => queue'[e] = queue[e] /\ e \notin Called(c)
  BY DEF InQueue, Called
<1>2. RowsRefer'
  <2>1. \A e \in Entry : queue'[e] # "NONE" => queue[e] # "NONE"
    BY DEF Called, QueueFor, InQueue
  <2>2. QED
    BY <2>1
<1>3. WorkflowConsistent'
  BY <1>0, <1>1 DEF WorkflowConsistent, Holding
<1>4. OneHolderPerCharger'
  BY <1>1, <1>q DEF OneHolderPerCharger, Holding, Called, QueueFor, InQueue
<1>5. OneEngagementPerUser'
  BY <1>q DEF OneEngagementPerUser, HasUnfinishedOrder, Unfinished, InQueue
<1>6. CalledKeepsCharger'
  BY DEF CalledKeepsCharger
<1>7. NoOrphanHold'
  <2>1. ASSUME NEW d \in Charger, d # c, chargerStatus[d] = "RESERVED"
        PROVE  (ActiveReservationOn(d) \/ Called(d) # {})'
    BY <2>1 DEF NoOrphanHold, ActiveReservationOn, Called, QueueFor, InQueue
  <2>2. ASSUME NEW d \in Charger, d # c, chargerStatus[d] = "CHARGING"
        PROVE  OrderOn(d, {"CHARGING"})'
    BY <2>2, <1>0 DEF NoOrphanHold, OrderOn
  <2>3. QED
    BY <2>1, <2>2 DEF NoOrphanHold, ActiveReservationOn
<1>8. InServiceMeansClear'
  BY DEF InServiceMeansClear, Blocked, UnderRepair
<1>9. OccupiedMeansOpen'
  BY DEF OccupiedMeansOpen, Open
<1>10. FrozenHasNoBusiness'
  BY DEF FrozenHasNoBusiness
<1>11. QED
  BY <1>2, <1>3, <1>4, <1>5, <1>6, <1>7, <1>8, <1>9, <1>10

\* Nothing moves but the point the thread has reached.
LEMMA OnlyStageMoves ==
  ASSUME IInv, TypeOK', UNCHANGED <<chargerStatus, bookingVars, queueVars, upkeepVars>>
  PROVE  IInv'
<1> USE DEF IInv, bookingVars, queueVars, upkeepVars
<1>1. RowsRefer' /\ WorkflowConsistent' /\ OneHolderPerCharger' /\ OneEngagementPerUser'
  BY DEF RowsRefer, WorkflowConsistent, OneHolderPerCharger, OneEngagementPerUser
<1>2. CalledKeepsCharger' /\ NoOrphanHold'
  BY DEF CalledKeepsCharger, NoOrphanHold, ActiveReservationOn, OrderOn, Called, QueueFor
<1>3. InServiceMeansClear' /\ OccupiedMeansOpen' /\ FrozenHasNoBusiness'
  BY DEF InServiceMeansClear, OccupiedMeansOpen, FrozenHasNoBusiness, Blocked, UnderRepair, Open
<1>4. QED
  BY <1>1, <1>2, <1>3

\* A walk-in takes an AVAILABLE charger, which nobody holds.
LEMMA ReserveKeeps ==
  ASSUME IInv, NEW b \in Booking, NEW u \in User, NEW c \in Charger, Reserve(b, u, c)
  PROVE  IInv'
<1>1. TypeOK'
  BY NextTypeOK DEF IInv, Next, ChargingNext
<1>2. InsertBooking(b, u, c)
  BY DEF Reserve, NoQueue
<1>3. /\ UNCHANGED <<queue, queuedBy, queuedFor>>
      /\ Called(c) = {}
      /\ \A e \in Entry : ~(queue[e] \in InQueue /\ queuedBy[e] = u)
      /\ Open(c) /\ ~Blocked(c) /\ ~HasUnfinishedOrder(u)
      /\ userStatus[u] = "ACTIVE" /\ chargerStatus[c] = "AVAILABLE"
  BY DEF Reserve, NoQueue, Bookable, Queued, Called, queueVars
<1>4. QED
  BY <1>1, <1>2, <1>3, InsertKeeps

\* A confirmed call hands its charger on to the booking of the same user.
LEMMA ConfirmCallKeeps ==
  ASSUME IInv, NEW b \in Booking, NEW e \in Entry, ConfirmCall(b, e)
  PROVE  IInv'
<1> DEFINE u == queuedBy[e]
           c == queuedFor[e]
<1> USE DEF ConfirmCall, IInv
<1>1. TypeOK'
  BY NextTypeOK DEF Next, ChargingNext
<1>2. u \in User /\ c \in Charger
  BY DEF RowsRefer
<1>3. InsertBooking(b, u, c)
  OBVIOUS
<1>4. /\ e \in Called(c)
      /\ \A f \in Called(c) : f = e
      /\ \A f \in Entry : queue[f] \in InQueue /\ queuedBy[f] = u => f = e
  BY DEF Called, QueueFor, InQueue, OneHolderPerCharger, OneEngagementPerUser
<1>5. /\ UNCHANGED <<queuedBy, queuedFor>>
      /\ queue'[e] = "CONFIRMED"
      /\ \A f \in Entry : f # e => queue'[f] = queue[f]
  BY DEF TypeOK
<1>6. Open(c) /\ ~Blocked(c) /\ ~HasUnfinishedOrder(u) /\ userStatus[u] = "ACTIVE"
  BY DEF Bookable
<1> HIDE DEF u, c, ConfirmCall, IInv
<1>7. QED
  BY <1>1, <1>2, <1>3, <1>4, <1>5, <1>6, InsertKeeps

\* A booking gives its charger back or goes on to charge on it, and nothing
\* else moves.
LEMMA BookingMovesKeep ==
  ASSUME IInv, TypeOK', NEW b \in Booking,
         order[b] \in Holding,
         \/ order[b] = "RESERVED" /\ order'[b] = "CHARGING" /\ reservation'[b] = "FULFILLED"
         \/ order[b] = "RESERVED" /\ order'[b] = "CANCELLED" /\ reservation'[b] = "CANCELLED"
         \/ order[b] = "CHARGING" /\ order'[b] = "WAITING_PAYMENT" /\ reservation'[b] = reservation[b],
         chargerStatus' = [chargerStatus EXCEPT ![bookedOn[b]] =
                             IF order'[b] = "CHARGING" THEN "CHARGING" ELSE "AVAILABLE"],
         \A a \in Booking : a # b => order'[a] = order[a] /\ reservation'[a] = reservation[a],
         UNCHANGED <<bookedBy, bookedOn, queueVars, upkeepVars>>
  PROVE  IInv'
<1> USE DEF IInv, RowsRefer, TypeOK, queueVars, upkeepVars, Holding
<1> DEFINE c == bookedOn[b]
<1>1. /\ c \in Charger
      /\ chargerStatus[c] = order[b]
      /\ reservation[b] # "NONE"
  BY DEF WorkflowConsistent
<1>2. \A a \in Booking : a # b /\ order[a] \in Holding => bookedOn[a] # c
  BY DEF OneHolderPerCharger
<1>3. Called(c) = {}
  BY DEF OneHolderPerCharger, Called, QueueFor
<1>4. RowsRefer'
  BY <1>1
<1>5. WorkflowConsistent'
  BY <1>1, <1>2 DEF WorkflowConsistent
<1>6. OneHolderPerCharger'
  BY DEF OneHolderPerCharger
<1>7. OneEngagementPerUser'
  <2>1. \A a \in Booking : order'[a] \in Unfinished => order[a] \in Unfinished
    BY DEF Unfinished
  <2>2. QED
    BY <2>1 DEF OneEngagementPerUser
<1>8. CalledKeepsCharger'
  BY <1>3 DEF CalledKeepsCharger, Called, QueueFor, InQueue
<1>9. NoOrphanHold'
  <2>1. ASSUME NEW d \in Charger, d # c, chargerStatus[d] = "RESERVED"
        PROVE  (ActiveReservationOn(d) \/ Called(d) # {})'
    BY <2>1 DEF NoOrphanHold, ActiveReservationOn, Called, QueueFor
  <2>2. ASSUME NEW d \in Charger, d # c, chargerStatus[d] = "CHARGING"
        PROVE  OrderOn(d, {"CHARGING"})'
    BY <2>2 DEF NoOrphanHold, OrderOn
  <2>3. QED
    BY <1>1, <2>1, <2>2 DEF NoOrphanHold, OrderOn
<1>10. InServiceMeansClear'
  BY <1>1 DEF InServiceMeansClear, Blocked, UnderRepair
<1>11. OccupiedMeansOpen'
  BY <1>1 DEF OccupiedMeansOpen, Open
<1>12. FrozenHasNoBusiness'
  BY DEF FrozenHasNoBusiness, Unfinished
<1>13. QED
  BY <1>4, <1>5, <1>6, <1>7, <1>8, <1>9, <1>10, <1>11, <1>12

\* Paying ends an engagement that held no charger any more.
LEMMA PayKeeps ==
  ASSUME IInv, NEW b \in Booking, Pay(b)
  PROVE  IInv'
<1> USE DEF IInv, Pay, queueVars, upkeepVars
<1>1. TypeOK'
  BY NextTypeOK DEF Next, ChargingNext
<1>2. /\ order'[b] = "COMPLETED" /\ order[b] = "WAITING_PAYMENT"
      /\ \A a \in Booking : a # b => order'[a] = order[a]
  BY DEF TypeOK
<1>3. WorkflowConsistent' /\ RowsRefer'
  BY <1>2 DEF WorkflowConsistent, RowsRefer
<1>4. OneHolderPerCharger' /\ OneEngagementPerUser' /\ CalledKeepsCharger'
  BY <1>2 DEF OneHolderPerCharger, OneEngagementPerUser, CalledKeepsCharger, Holding, Unfinished
<1>5. NoOrphanHold'
  BY <1>2 DEF NoOrphanHold, ActiveReservationOn, OrderOn, Called, QueueFor
<1>6. InServiceMeansClear' /\ OccupiedMeansOpen' /\ FrozenHasNoBusiness'
  BY <1>2 DEF InServiceMeansClear, OccupiedMeansOpen, FrozenHasNoBusiness, Blocked, UnderRepair,
              Open, Unfinished
<1>7. QED
  BY <1>1, <1>3, <1>4, <1>5, <1>6

\* Every transaction of the charging workflow preserves the invariant.
LEMMA ChargingKeeps ==
  ASSUME IInv, ChargingNext
  PROVE  IInv'
<1>1. ASSUME NEW b \in Booking, CancelReservation(b)
      PROVE  IInv'
  <2>1. TypeOK'
    BY <1>1, NextTypeOK DEF IInv, Next, ChargingNext
  <2>2. QED
    BY <1>1, <2>1, BookingMovesKeep DEF CancelReservation, Held, Holding, IInv, TypeOK
<1>2. ASSUME NEW b \in Booking, NEW withTarget \in BOOLEAN, StartCharging(b, withTarget)
      PROVE  IInv'
  <2>1. TypeOK'
    BY <1>2, NextTypeOK DEF IInv, Next, ChargingNext
  <2>2. QED
    BY <1>2, <2>1, BookingMovesKeep DEF StartCharging, Held, Holding, IInv, TypeOK
<1>3. ASSUME NEW b \in Booking, StopCharging(b)
      PROVE  IInv'
  <2>1. TypeOK'
    BY <1>3, NextTypeOK DEF IInv, Next, ChargingNext
  <2>2. QED
    BY <1>3, <2>1, BookingMovesKeep DEF StopCharging, Holding, IInv, TypeOK
<1>4. CASE RecordTelemetry \/ FinishTargets
  <2>1. TypeOK'
    BY <1>4, NextTypeOK DEF IInv, Next, ChargingNext
  <2>2. UNCHANGED <<chargerStatus, bookingVars, queueVars, upkeepVars>>
    BY <1>4 DEF RecordTelemetry, FinishTargets
  <2>3. QED
    BY <2>1, <2>2, OnlyStageMoves
<1>5. QED
  BY <1>1, <1>2, <1>3, <1>4, ExpireKeeps, ReserveKeeps, ConfirmCallKeeps, PayKeeps DEF ChargingNext

-----------------------------------------------------------------------------
(* The queue pass, joining and leaving.                                    *)

\* A charger the pass calls for has a head: identifiers are natural numbers.
LEMMA HeadExists ==
  ASSUME NEW c \in Callable
  PROVE  \E e \in Heads : queuedFor[e] = c /\ queue[e] = "WAITING" /\ e \notin Lapsed
<1>1. Waiting(c) \subseteq Nat /\ Waiting(c) # {}
  BY StoreAssumption DEF Callable, Vacant, Waiting, QueueFor, Entry
<1>2. PICK e \in Waiting(c) : \A f \in Waiting(c) : ~(<<f, e>> \in OpToRel(<, Nat))
  BY <1>1, WFMin, NatLessThanWellFounded, Zenon
<1>3. \A f \in Waiting(c) : ~(f < e)
  BY <1>1, <1>2, Zenon DEF OpToRel
<1>4. \A f \in Waiting(c) : e <= f
  BY <1>1, <1>3
<1>5. QED
  BY <1>4 DEF Heads, Waiting, QueueFor

\* A head waits for a callable charger and is alone in being its head.
LEMMA HeadsAreCallable ==
  ASSUME NEW e \in Heads
  PROVE  /\ queuedFor[e] \in Callable
         /\ queue[e] = "WAITING"
         /\ e \notin Lapsed
         /\ \A f \in Heads : queuedFor[f] = queuedFor[e] => f = e
BY StoreAssumption DEF Heads, Waiting, QueueFor, Entry

\* The pass takes chargers from calls that are over and gives them to heads,
\* and leaves none RESERVED that it took from a call.
LEMMA PassKeeps ==
  ASSUME IInv, QueuePass
  PROVE  IInv'
<1> USE DEF IInv, RowsRefer
<1>1. TypeOK'
  BY NextTypeOK DEF Next, QueueNext
<1>2. /\ UNCHANGED <<bookingVars, queuedBy, queuedFor, upkeepVars>>
      /\ \A e \in Entry : queue'[e] = IF e \in Lapsed THEN "EXPIRED"
                                      ELSE IF e \in Heads THEN "CALLED" ELSE queue[e]
      /\ \A c \in Charger : chargerStatus'[c] = IF c \in Callable THEN "RESERVED"
                                                ELSE IF c \in Released THEN "AVAILABLE"
                                                ELSE chargerStatus[c]
  BY DEF QueuePass
<1> USE DEF bookingVars, upkeepVars
\* The chargers the pass touches are held by no booking, and by a call only
\* if that call is over.
<1>3. \A c \in Callable \cup Released :
        /\ c \in Charger
        /\ chargerStatus[c] \in {"AVAILABLE", "RESERVED"}
        /\ \A b \in Booking : order[b] \in Holding => bookedOn[b] # c
        /\ Called(c) \subseteq Lapsed
        /\ ~Blocked(c)
  BY DEF Callable, Vacant, Released, Releasable, Holding, ActiveReservationOn, OrderOn, WorkflowConsistent
<1>4. \A e \in Entry : queue'[e] \in InQueue => queue[e] \in InQueue /\ e \notin Lapsed
  BY <1>2, HeadsAreCallable DEF InQueue
<1>5. \A e \in Entry : queue'[e] = "CALLED" =>
        \/ queue[e] = "CALLED" /\ queuedFor[e] \notin Callable \cup Released
        \/ e \in Heads
  BY <1>2, <1>3 DEF Called, QueueFor, InQueue
<1>6. RowsRefer'
  BY <1>2, HeadsAreCallable DEF Lapsed, CallLost, InQueue
<1>7. WorkflowConsistent'
  BY <1>2, <1>3 DEF WorkflowConsistent, Holding
<1>8. OneHolderPerCharger'
  BY <1>2, <1>3, <1>5, HeadsAreCallable DEF OneHolderPerCharger
<1>9. OneEngagementPerUser'
  BY <1>2, <1>4 DEF OneEngagementPerUser
<1>10. CalledKeepsCharger'
  BY <1>2, <1>3, <1>5, HeadsAreCallable DEF CalledKeepsCharger
<1>11. NoOrphanHold'
  <2>1. ASSUME NEW c \in Callable
        PROVE  Called(c)' # {}
    <3>1. PICK e \in Entry : e \in Heads /\ queuedFor[e] = c /\ e \notin Lapsed
      BY HeadExists DEF Heads
    <3>2. queue'[e] = "CALLED" /\ queuedFor'[e] = c
      BY <3>1, <1>2
    <3>3. QED
      BY <3>2 DEF Called, QueueFor, InQueue
  <2>2. ASSUME NEW c \in Charger, c \notin Callable, c \notin Released, chargerStatus[c] = "RESERVED"
        PROVE  (ActiveReservationOn(c) \/ Called(c) # {})'
    <3>1. CASE ActiveReservationOn(c)
      BY <3>1, <1>2 DEF ActiveReservationOn
    <3>2. CASE \E e \in Called(c) : e \notin Lapsed
      BY <3>2, <1>2 DEF Called, QueueFor, InQueue
    <3>3. CASE Called(c) # {} /\ Called(c) \subseteq Lapsed /\ ~ActiveReservationOn(c)
      <4>1. ~Releasable(c, Lapsed)
        BY <3>3, <2>2 DEF Released
      <4>2. OrderOn(c, {"CHARGING"})
        BY <4>1, <3>3, <2>2 DEF Releasable, Vacant, InServiceMeansClear
      <4>3. QED
        BY <4>2, <2>2 DEF OrderOn, WorkflowConsistent
    <3>4. QED
      BY <3>1, <3>2, <3>3, <2>2 DEF NoOrphanHold
  <2>3. ASSUME NEW c \in Charger, chargerStatus'[c] = "CHARGING"
        PROVE  OrderOn(c, {"CHARGING"})'
    BY <2>3, <1>2 DEF NoOrphanHold, OrderOn
  <2>4. QED
    BY <2>1, <2>2, <2>3, <1>2 DEF NoOrphanHold
<1>12. InServiceMeansClear'
  BY <1>2, <1>3 DEF InServiceMeansClear, Blocked, UnderRepair
<1>13. OccupiedMeansOpen'
  BY <1>2 DEF OccupiedMeansOpen, Open, Callable, Vacant
<1>14. FrozenHasNoBusiness'
  BY <1>2 DEF FrozenHasNoBusiness
<1>15. QED
  BY <1>1, <1>6, <1>7, <1>8, <1>9, <1>10, <1>11, <1>12, <1>13, <1>14

\* Joining, leaving and the pass preserve the invariant.
LEMMA QueueKeeps ==
  ASSUME IInv, QueueNext
  PROVE  IInv'
<1>1. ASSUME NEW e \in Entry, NEW u \in User, NEW c \in Charger, Join(e, u, c)
      PROVE  IInv'
  <2> USE <1>1 DEF IInv, Join, bookingVars, upkeepVars
  <2>1. TypeOK'
    BY NextTypeOK DEF Next, QueueNext
  <2>2. /\ queue'[e] = "WAITING" /\ queuedBy'[e] = u /\ queuedFor'[e] = c
        /\ \A f \in Entry : f # e =>
             queue'[f] = queue[f] /\ queuedBy'[f] = queuedBy[f] /\ queuedFor'[f] = queuedFor[f]
    BY DEF TypeOK
  <2>3. RowsRefer' /\ WorkflowConsistent'
    BY <2>2 DEF RowsRefer, WorkflowConsistent
  <2>4. OneHolderPerCharger' /\ CalledKeepsCharger'
    BY <2>2 DEF OneHolderPerCharger, CalledKeepsCharger
  <2>5. OneEngagementPerUser'
    BY <2>2 DEF OneEngagementPerUser, HasUnfinishedOrder, Queued
  <2>6. NoOrphanHold'
    BY <2>2 DEF NoOrphanHold, ActiveReservationOn, OrderOn, Called, QueueFor, InQueue
  <2>7. InServiceMeansClear' /\ OccupiedMeansOpen' /\ FrozenHasNoBusiness'
    BY DEF InServiceMeansClear, OccupiedMeansOpen, FrozenHasNoBusiness, Blocked, UnderRepair, Open
  <2>8. QED
    BY <2>1, <2>3, <2>4, <2>5, <2>6, <2>7
<1>2. ASSUME NEW e \in Entry, Leave(e)
      PROVE  IInv'
  <2> USE <1>2 DEF IInv, Leave, bookingVars, upkeepVars
  <2> DEFINE c == queuedFor[e]
             freed == queue[e] = "CALLED" /\ Releasable(c, {e})
  <2>1. TypeOK'
    BY NextTypeOK DEF Next, QueueNext
  <2>2. /\ queue'[e] = "LEFT" /\ queue[e] \in InQueue
        /\ \A f \in Entry : f # e => queue'[f] = queue[f]
        /\ c \in Charger
        /\ chargerStatus' = [chargerStatus EXCEPT ![c] = IF freed THEN "AVAILABLE" ELSE @]
    BY DEF TypeOK, RowsRefer, InQueue
  <2>3. freed => /\ chargerStatus[c] = "RESERVED"
                 /\ \A b \in Booking : order[b] \in Holding => bookedOn[b] # c
                 /\ \A f \in Entry : queue[f] = "CALLED" /\ queuedFor[f] = c => f = e
                 /\ ~Blocked(c)
    BY DEF Releasable, Vacant, Holding, OneHolderPerCharger, RowsRefer
  <2> HIDE <1>2 DEF freed, c, Leave
  <2>4. /\ UNCHANGED <<bookingVars, queuedBy, queuedFor, upkeepVars>>
        /\ \A d \in Charger : d # c \/ ~freed => chargerStatus'[d] = chargerStatus[d]
        /\ freed => chargerStatus'[c] = "AVAILABLE"
    BY <1>2, <2>2 DEF Leave, TypeOK
  <2>5. RowsRefer'
    BY <2>2, <2>4 DEF RowsRefer, InQueue
  <2>6. WorkflowConsistent'
    BY <2>3, <2>4 DEF WorkflowConsistent, Holding, RowsRefer
  <2>7. OneHolderPerCharger' /\ OneEngagementPerUser'
    BY <2>2, <2>4 DEF OneHolderPerCharger, OneEngagementPerUser, InQueue
  <2>8. CalledKeepsCharger'
    BY <2>2, <2>3, <2>4 DEF CalledKeepsCharger, RowsRefer
  <2>9. NoOrphanHold'
    <3>1. ASSUME NEW d \in Charger, chargerStatus'[d] = "RESERVED"
          PROVE  (ActiveReservationOn(d) \/ Called(d) # {})'
      <4>1. CASE ActiveReservationOn(d)
        BY <4>1, <2>4 DEF ActiveReservationOn
      <4>2. CASE \E f \in Called(d) : f # e
        BY <4>2, <2>2, <2>4 DEF Called, QueueFor
      <4>3. CASE ~ActiveReservationOn(d) /\ Called(d) \subseteq {e}
        <5>1. chargerStatus[d] = "RESERVED"
          BY <3>1, <2>4
        <5>2. Called(d) = {e}
          BY <4>3, <5>1 DEF NoOrphanHold
        <5>3. d = c /\ queue[e] = "CALLED"
          BY <5>2 DEF Called, QueueFor, c
        <5>4. ~OrderOn(d, {"CHARGING"}) /\ ~Blocked(d)
          BY <5>1 DEF OrderOn, WorkflowConsistent, InServiceMeansClear
        <5>5. freed
          BY <4>3, <5>1, <5>2, <5>3, <5>4 DEF freed, Releasable, Vacant
        <5>6. QED
          BY <5>3, <5>5, <3>1, <2>4
      <4>4. QED
        BY <4>1, <4>2, <4>3
    <3>2. ASSUME NEW d \in Charger, chargerStatus'[d] = "CHARGING"
          PROVE  OrderOn(d, {"CHARGING"})'
      BY <3>2, <2>4 DEF NoOrphanHold, OrderOn
    <3>3. QED
      BY <3>1, <3>2 DEF NoOrphanHold
  <2>10. InServiceMeansClear' /\ OccupiedMeansOpen' /\ FrozenHasNoBusiness'
    BY <2>2, <2>3, <2>4
       DEF InServiceMeansClear, OccupiedMeansOpen, FrozenHasNoBusiness, Blocked, UnderRepair, Open
  <2>11. QED
    BY <2>1, <2>5, <2>6, <2>7, <2>8, <2>9, <2>10
<1>3. QED
  BY <1>1, <1>2, PassKeeps DEF QueueNext

-----------------------------------------------------------------------------
(* Administration and repairs.                                             *)

\* A command on a charger nobody holds touches no booking and no queue.
LEMMA IdleChargerKeeps ==
  ASSUME IInv, TypeOK', NEW c \in Charger, ~Busy(c),
         UNCHANGED <<bookingVars, queueVars, userStatus, stationStatus>>,
         \A d \in Charger : d # c => chargerStatus'[d] = chargerStatus[d] /\ Blocked(d)' = Blocked(d),
         chargerStatus'[c] \notin {"RESERVED", "CHARGING"},
         chargerStatus'[c] = "AVAILABLE" => ~Blocked(c)'
  PROVE  IInv'
<1> USE DEF IInv, bookingVars, queueVars
<1>1. /\ \A b \in Booking : order[b] \in Holding => bookedOn[b] # c
      /\ \A e \in Entry : queue[e] = "CALLED" => queuedFor[e] # c
  BY DEF Busy, Holding, OrderOn, CalledKeepsCharger
<1>2. RowsRefer' /\ WorkflowConsistent'
  BY <1>1 DEF RowsRefer, WorkflowConsistent, Holding
<1>3. OneHolderPerCharger' /\ OneEngagementPerUser'
  BY DEF OneHolderPerCharger, OneEngagementPerUser
<1>4. CalledKeepsCharger'
  BY <1>1 DEF CalledKeepsCharger, RowsRefer
<1>5. NoOrphanHold'
  BY DEF NoOrphanHold, ActiveReservationOn, OrderOn, Called, QueueFor
<1>6. InServiceMeansClear'
  BY DEF InServiceMeansClear
<1>7. OccupiedMeansOpen' /\ FrozenHasNoBusiness'
  BY DEF OccupiedMeansOpen, FrozenHasNoBusiness, Open
<1>8. QED
  BY <1>2, <1>3, <1>4, <1>5, <1>6, <1>7

\* A report that is only filed blocks nothing.
LEMMA ReportsAside ==
  ASSUME IInv, TypeOK',
         UNCHANGED <<chargerStatus, bookingVars, queueVars, userStatus, stationStatus>>,
         \A c \in Charger : Blocked(c)' = Blocked(c)
  PROVE  IInv'
<1> USE DEF IInv, bookingVars, queueVars
<1>1. RowsRefer' /\ WorkflowConsistent' /\ OneHolderPerCharger' /\ OneEngagementPerUser'
  BY DEF RowsRefer, WorkflowConsistent, OneHolderPerCharger, OneEngagementPerUser
<1>2. CalledKeepsCharger' /\ NoOrphanHold'
  BY DEF CalledKeepsCharger, NoOrphanHold, ActiveReservationOn, OrderOn, Called, QueueFor
<1>3. InServiceMeansClear' /\ OccupiedMeansOpen' /\ FrozenHasNoBusiness'
  BY DEF InServiceMeansClear, OccupiedMeansOpen, FrozenHasNoBusiness, Open
<1>4. QED
  BY <1>1, <1>2, <1>3

\* Every command of an administrator and every report preserves the invariant.
LEMMA UpkeepKeeps ==
  ASSUME IInv, UpkeepNext
  PROVE  IInv'
<1> USE DEF IInv, Handled
<1>0. TypeOK'
  BY NextTypeOK DEF Next
<1>1. ASSUME NEW u \in Reporter, NEW c \in Charger, SubmitReport(u, c)
      PROVE  IInv'
  <2>1. \A d \in Charger : UnderRepair(d)' = UnderRepair(d)
    BY <1>1 DEF SubmitReport, UnderRepair, TypeOK
  <2> HIDE DEF IInv
  <2>2. QED
    BY <1>0, <1>1, <2>1, ReportsAside DEF SubmitReport, Blocked
<1>2. ASSUME NEW u \in Reporter, NEW c \in Charger, AdvanceReport(u, c)
      PROVE  IInv'
  <2>1. chargerStatus'[c] = "OFFLINE"
    BY <1>2 DEF AdvanceReport, TypeOK
  <2>2. \A d \in Charger : d # c => chargerStatus'[d] = chargerStatus[d] /\ Blocked(d)' = Blocked(d)
    BY <1>2 DEF AdvanceReport, TypeOK, Blocked, UnderRepair
  <2> HIDE DEF IInv
  <2>3. QED
    BY <1>0, <1>2, <2>1, <2>2, IdleChargerKeeps DEF AdvanceReport
<1>3. ASSUME NEW u \in Reporter, NEW c \in Charger, ResolveReport(u, c)
      PROVE  IInv'
  <2> DEFINE clear == /\ ~\E v \in Reporter \ {u} : report[<<v, c>>] \in {"ACCEPTED", "PROCESSING"}
                      /\ exceptions[c] = 0
                      /\ Open(c)
  <2>1. chargerStatus'[c] = IF clear THEN "AVAILABLE" ELSE chargerStatus[c]
    BY <1>3 DEF ResolveReport, TypeOK
  <2>2. \A d \in Charger : d # c => chargerStatus'[d] = chargerStatus[d] /\ Blocked(d)' = Blocked(d)
    BY <1>3 DEF ResolveReport, TypeOK, Blocked, UnderRepair
  <2>3. clear => ~Blocked(c)'
    BY <1>3 DEF ResolveReport, TypeOK, Blocked, UnderRepair
  <2>4. chargerStatus[c] \notin {"AVAILABLE", "RESERVED", "CHARGING"}
    BY <1>3 DEF ResolveReport, InServiceMeansClear, Blocked, UnderRepair
  <2>5. chargerStatus'[c] \notin {"RESERVED", "CHARGING"} /\ (chargerStatus'[c] = "AVAILABLE" => clear)
    BY <2>1, <2>4
  <2> HIDE DEF IInv, clear
  <2>6. QED
    BY <1>0, <1>3, <2>2, <2>3, <2>5, IdleChargerKeeps DEF ResolveReport
<1>4. ASSUME NEW c \in Charger, NEW status \in {"FAULT", "OFFLINE"}, TakeOut(c, status)
      PROVE  IInv'
  <2>1. chargerStatus'[c] = status
    BY <1>4 DEF TakeOut, Serviceable, TypeOK
  <2>2. \A d \in Charger : d # c => chargerStatus'[d] = chargerStatus[d] /\ Blocked(d)' = Blocked(d)
    BY <1>4 DEF TakeOut, Serviceable, TypeOK, Blocked, UnderRepair
  <2> HIDE DEF IInv
  <2>3. QED
    BY <1>0, <1>4, <2>1, <2>2, IdleChargerKeeps DEF TakeOut, Serviceable
<1>5. ASSUME NEW c \in Charger, Restart(c)
      PROVE  IInv'
  <2>1. chargerStatus'[c] = "AVAILABLE" /\ ~Blocked(c)'
    BY <1>5 DEF Restart, Serviceable, TypeOK, Blocked, UnderRepair, upkeepVars
  <2>2. \A d \in Charger : d # c => chargerStatus'[d] = chargerStatus[d] /\ Blocked(d)' = Blocked(d)
    BY <1>5 DEF Restart, Serviceable, TypeOK, Blocked, UnderRepair, upkeepVars
  <2> HIDE DEF IInv
  <2>3. QED
    BY <1>0, <1>5, <2>1, <2>2, IdleChargerKeeps DEF Restart, Serviceable, upkeepVars
<1>6. ASSUME NEW c \in Charger, RecoverException(c)
      PROVE  IInv'
  <2>1. chargerStatus[c] \notin {"AVAILABLE", "RESERVED", "CHARGING"}
    BY <1>6 DEF RecoverException, Recoverable, Serviceable, InServiceMeansClear, Blocked
  <2>2. chargerStatus'[c] = IF exceptions[c] = 1 THEN "AVAILABLE" ELSE chargerStatus[c]
    BY <1>6 DEF RecoverException, Recoverable, Serviceable, TypeOK
  <2>3. exceptions[c] = 1 => ~Blocked(c)'
    BY <1>6 DEF RecoverException, Recoverable, Serviceable, TypeOK, Blocked, UnderRepair
  <2>4. \A d \in Charger : d # c => chargerStatus'[d] = chargerStatus[d] /\ Blocked(d)' = Blocked(d)
    BY <1>6 DEF RecoverException, Recoverable, Serviceable, TypeOK, Blocked, UnderRepair
  <2>5. chargerStatus'[c] \notin {"RESERVED", "CHARGING"} /\ (chargerStatus'[c] = "AVAILABLE" => ~Blocked(c)')
    BY <2>1, <2>2, <2>3
  <2> HIDE DEF IInv
  <2>6. QED
    BY <1>0, <1>6, <2>4, <2>5, IdleChargerKeeps DEF RecoverException, Recoverable, Serviceable
<1>7. ASSUME NEW s \in Station, NEW status \in OperatingStatus, SetStation(s, status)
      PROVE  IInv'
  <2> USE <1>7 DEF SetStation, bookingVars, queueVars
  <2>1. RowsRefer' /\ WorkflowConsistent' /\ OneHolderPerCharger' /\ OneEngagementPerUser'
    BY DEF RowsRefer, WorkflowConsistent, OneHolderPerCharger, OneEngagementPerUser
  <2>2. CalledKeepsCharger' /\ NoOrphanHold'
    BY DEF CalledKeepsCharger, NoOrphanHold, ActiveReservationOn, OrderOn, Called, QueueFor
  <2>3. InServiceMeansClear' /\ FrozenHasNoBusiness'
    BY DEF InServiceMeansClear, FrozenHasNoBusiness, Blocked, UnderRepair
  <2>4. OccupiedMeansOpen'
    BY StoreAssumption DEF OccupiedMeansOpen, Open, Busy, TypeOK, OperatingStatus
  <2>5. QED
    BY <1>0, <2>1, <2>2, <2>3, <2>4
<1>8. ASSUME NEW u \in User, NEW status \in AccountStatus, SetUser(u, status)
      PROVE  IInv'
  <2> USE <1>8 DEF SetUser, bookingVars, queueVars
  <2>1. RowsRefer' /\ WorkflowConsistent' /\ OneHolderPerCharger' /\ OneEngagementPerUser'
    BY DEF RowsRefer, WorkflowConsistent, OneHolderPerCharger, OneEngagementPerUser
  <2>2. CalledKeepsCharger' /\ NoOrphanHold'
    BY DEF CalledKeepsCharger, NoOrphanHold, ActiveReservationOn, OrderOn, Called, QueueFor
  <2>3. InServiceMeansClear' /\ OccupiedMeansOpen'
    BY DEF InServiceMeansClear, OccupiedMeansOpen, Blocked, UnderRepair, Open
  <2>4. FrozenHasNoBusiness'
    BY DEF FrozenHasNoBusiness, HasUnfinishedOrder, TypeOK
  <2>5. QED
    BY <1>0, <2>1, <2>2, <2>3, <2>4
<1>9. QED
  BY <1>1, <1>2, <1>3, <1>4, <1>5, <1>6, <1>7, <1>8 DEF UpkeepNext

-----------------------------------------------------------------------------
(* The theorems.                                                           *)

\* The invariant holds of the empty tables.
LEMMA InitIInv == Init => IInv
<1> SUFFICES ASSUME Init PROVE IInv
  OBVIOUS
<1> USE DEF Init
<1>1. TypeOK
  BY InitTypeOK
<1>2. RowsRefer /\ WorkflowConsistent /\ OneHolderPerCharger /\ OneEngagementPerUser
  BY DEF RowsRefer, WorkflowConsistent, OneHolderPerCharger, OneEngagementPerUser, Holding,
         Unfinished, InQueue
<1>3. CalledKeepsCharger /\ NoOrphanHold /\ OccupiedMeansOpen /\ FrozenHasNoBusiness
  BY DEF CalledKeepsCharger, NoOrphanHold, OccupiedMeansOpen, FrozenHasNoBusiness
<1>4. InServiceMeansClear
  <2>1. ASSUME NEW c \in Charger PROVE ~UnderRepair(c)
    <3>1. \A u \in Reporter : report[<<u, c>>] = "NONE"
      OBVIOUS
    <3>2. QED
      BY <3>1 DEF UnderRepair
  <2>2. QED
    BY <2>1 DEF InServiceMeansClear, Blocked
<1>5. QED
  BY <1>1, <1>2, <1>3, <1>4 DEF IInv

\* Every step of the service preserves the invariant.
LEMMA NextIInv ==
  ASSUME IInv, [Next]_vars
  PROVE  IInv'
<1>0. TypeOK'
  BY NextTypeOK DEF IInv
<1>1. ASSUME UNCHANGED <<chargerStatus, reservation, order, bookedBy, bookedOn, upkeepVars>>,
             UNCHANGED <<queue, queuedBy, queuedFor>>
      PROVE  IInv'
  <2> USE <1>1 DEF IInv, upkeepVars
  <2>1. RowsRefer' /\ WorkflowConsistent' /\ OneHolderPerCharger' /\ OneEngagementPerUser'
    BY DEF RowsRefer, WorkflowConsistent, OneHolderPerCharger, OneEngagementPerUser
  <2>2. CalledKeepsCharger' /\ NoOrphanHold'
    BY DEF CalledKeepsCharger, NoOrphanHold, ActiveReservationOn, OrderOn, Called, QueueFor
  <2>3. InServiceMeansClear' /\ OccupiedMeansOpen' /\ FrozenHasNoBusiness'
    BY DEF InServiceMeansClear, OccupiedMeansOpen, FrozenHasNoBusiness, Blocked, UnderRepair, Open
  <2>4. QED
    BY <1>0, <2>1, <2>2, <2>3
<1>2. CASE \E b \in Booking : HoldEnds(b)
  BY <1>1, <1>2 DEF HoldEnds, queueVars
<1>3. CASE \E e \in Entry : CallEnds(e)
  BY <1>1, <1>3 DEF CallEnds, bookingVars
<1>4. CASE Abandon \/ UNCHANGED vars
  BY <1>1, <1>4 DEF Abandon, vars, bookingVars, queueVars
<1>5. QED
  BY <1>2, <1>3, <1>4, ChargingKeeps, QueueKeeps, UpkeepKeeps DEF Next

\* The inductive invariant: reservations, orders, calls, repairs and the status
\* of the chargers fit together after every transaction of the service.
THEOREM Invariant == Spec => []IInv
<1>1. IInv /\ [Next]_vars => IInv'
  BY NextIInv
<1>2. QED
  BY InitIInv, <1>1, PTL DEF Spec

\* No charger is ever held by two bookings, two calls, or a booking and a call.
THEOREM OneHolder == Spec => []OneHolderPerCharger
<1>1. IInv => OneHolderPerCharger
  BY DEF IInv
<1>2. QED
  BY Invariant, <1>1, PTL

\* RESERVED chargers have a reservation or a call behind them, CHARGING ones a
\* charging order: none is ever lost to the station.
THEOREM NothingOrphaned == Spec => []NoOrphanHold
<1>1. IInv => NoOrphanHold
  BY DEF IInv
<1>2. QED
  BY Invariant, <1>1, PTL

\* No path back into service overrides an open repair or exception.
THEOREM ServiceIsClear == Spec => []InServiceMeansClear
<1>1. IInv => InServiceMeansClear
  BY DEF IInv
<1>2. QED
  BY Invariant, <1>1, PTL

\* Reservation, order and charger of a booking always tell the same story.
THEOREM TablesAgree == Spec => []WorkflowConsistent
<1>1. IInv => WorkflowConsistent
  BY DEF IInv
<1>2. QED
  BY Invariant, <1>1, PTL

\* A user who was called for a charger keeps it for as long as the call lasts.
THEOREM CallIsKept == Spec => []CalledKeepsCharger
<1>1. IInv => CalledKeepsCharger
  BY DEF IInv
<1>2. QED
  BY Invariant, <1>1, PTL

\* Whoever has a charger has it at a station that is open.
THEOREM NobodyLockedIn == Spec => []OccupiedMeansOpen
<1>1. IInv => OccupiedMeansOpen
  BY DEF IInv
<1>2. QED
  BY Invariant, <1>1, PTL

\* A frozen account has no reservation, no charge and no debt.
THEOREM FrozenIsFree == Spec => []FrozenHasNoBusiness
<1>1. IInv => FrozenHasNoBusiness
  BY DEF IInv
<1>2. QED
  BY Invariant, <1>1, PTL

\* A user has at most one unfinished order or one place in a queue.
THEOREM OneEngagement == Spec => []OneEngagementPerUser
<1>1. IInv => OneEngagementPerUser
  BY DEF IInv
<1>2. QED
  BY Invariant, <1>1, PTL

\* The expiry sweep that precedes every request never meets a row count it
\* rejects: the service does not lock itself up.
THEOREM SweepGoesThrough == Spec => []SweepNeverBlocked
<1>1. IInv => SweepNeverBlocked
  <2> SUFFICES ASSUME IInv PROVE SweepApplies
    BY DEF SweepNeverBlocked
  <2>1. \A b \in Due : order[b] = "RESERVED"
    BY ActiveReserved DEF IInv, ActiveIsReserved, Due
  <2>2. QED
    BY <2>1 DEF IInv, SweepApplies, Due, RowsRefer, WorkflowConsistent, OneHolderPerCharger, Holding
<1>2. QED
  BY Invariant, <1>1, PTL

\* Nobody is called but by the queue pass.
LEMMA OnlyQueueCalls ==
  ASSUME IInv, [Next]_vars, NEW e \in Entry, queue[e] # "CALLED", queue'[e] = "CALLED"
  PROVE  QueuePass
<1>1. ASSUME ChargingNext PROVE FALSE
  <2>1. ASSUME NEW b \in Booking, NEW f \in Entry, ConfirmCall(b, f) PROVE FALSE
    BY <2>1 DEF ConfirmCall, IInv, TypeOK
  <2>2. ASSUME UNCHANGED queueVars PROVE FALSE
    BY <2>2 DEF queueVars
  <2>3. QED
    BY <1>1, <2>1, <2>2 DEF ChargingNext, ExpireReservations, Reserve, NoQueue, CancelReservation, StartCharging,
       StopCharging, RecordTelemetry, FinishTargets, Pay
<1>2. ASSUME UNCHANGED queue PROVE FALSE
  BY <1>2
<1>3. ASSUME UpkeepNext PROVE FALSE
  BY <1>2, <1>3 DEF UpkeepNext, SubmitReport, AdvanceReport, ResolveReport, TakeOut, Serviceable, Restart,
     RecoverException, SetStation, SetUser, queueVars
<1>4. ASSUME NEW f \in Entry, NEW u \in User, NEW c \in Charger, Join(f, u, c) PROVE FALSE
  BY <1>4 DEF Join, IInv, TypeOK
<1>5. ASSUME NEW f \in Entry, Leave(f) PROVE FALSE
  BY <1>5 DEF Leave, IInv, TypeOK
<1>6. ~(\E b \in Booking : HoldEnds(b)) /\ ~(\E f \in Entry : CallEnds(f)) /\ ~Abandon /\ ~UNCHANGED vars
  BY <1>2 DEF HoldEnds, CallEnds, Abandon, queueVars, vars
<1>7. QED
  BY <1>1, <1>3, <1>4, <1>5, <1>6 DEF Next, QueueNext

\* Users are called for a charger in the order they joined its queue.
THEOREM QueueIsFair == Spec => FirstComeFirstServed
<1>1. ASSUME IInv, [Next]_vars,
             NEW e \in Entry, queue[e] # "CALLED", queue'[e] = "CALLED",
             NEW f \in Entry, f < e, queuedFor[f] = queuedFor[e], queue'[f] = "WAITING"
      PROVE  FALSE
  <2>1. QueuePass
    BY <1>1, OnlyQueueCalls
  <2>2. e \in Heads
    BY <1>1, <2>1 DEF QueuePass
  <2>3. PICK c \in Callable : e \in Waiting(c) /\ \A g \in Waiting(c) : e <= g
    BY <2>2 DEF Heads
  <2>4. queue[f] = "WAITING" /\ f \notin Lapsed
    BY <1>1, <2>1 DEF QueuePass
  <2>5. f \in Waiting(c)
    BY <1>1, <2>3, <2>4 DEF Waiting, QueueFor, InQueue
  <2>6. QED
    BY <1>1, <2>3, <2>5, StoreAssumption DEF Entry
<1>2. IInv /\ [Next]_vars =>
        [\A e \in Entry : queue[e] # "CALLED" /\ queue'[e] = "CALLED" =>
           \A f \in Entry : f < e /\ queuedFor[f] = queuedFor[e] => queue'[f] # "WAITING"]_vars
  BY <1>1
<1>3. QED
  BY Invariant, <1>2, PTL DEF Spec, FirstComeFirstServed

\* A charger with a queue goes to the user who was called for it.
THEOREM NobodyJumps == Spec => NoQueueJumping
<1> DEFINE Served(b) == \/ QueueFor(bookedOn'[b]) = {}
                        \/ \E e \in Called(bookedOn'[b]) :
                             queuedBy[e] = bookedBy'[b] /\ queue'[e] = "CONFIRMED"
<1>1. ASSUME IInv, [Next]_vars,
             NEW b \in Booking, reservation[b] = "NONE", reservation'[b] = "ACTIVE"
      PROVE  Served(b)
  <2> USE <1>1
  <2>1. ASSUME NEW a \in Booking, NEW u \in User, NEW c \in Charger, Reserve(a, u, c)
        PROVE  Served(b)
    <3>1. a = b
      BY <2>1 DEF Reserve, NoQueue, InsertBooking, IInv, TypeOK
    <3>2. bookedOn'[b] = c
      BY <2>1, <3>1 DEF Reserve, NoQueue, InsertBooking, IInv, TypeOK
    <3>3. QED
      BY <2>1, <3>2 DEF Reserve, NoQueue
  <2>2. ASSUME NEW a \in Booking, NEW e \in Entry, ConfirmCall(a, e)
        PROVE  Served(b)
    <3>1. a = b
      BY <2>2 DEF ConfirmCall, InsertBooking, IInv, TypeOK
    <3>2. bookedOn'[b] = queuedFor[e] /\ bookedBy'[b] = queuedBy[e] /\ queue'[e] = "CONFIRMED"
      BY <2>2, <3>1 DEF ConfirmCall, InsertBooking, IInv, TypeOK
    <3>3. e \in Called(queuedFor[e])
      BY <2>2 DEF ConfirmCall, Called, QueueFor, InQueue
    <3>4. QED
      BY <3>2, <3>3
  <2>3. ASSUME UNCHANGED reservation PROVE FALSE
    BY <2>3
  <2>4. ASSUME NEW a \in Booking, CancelReservation(a) \/ \E t \in BOOLEAN : StartCharging(a, t)
        PROVE  FALSE
    BY <2>4 DEF CancelReservation, StartCharging, IInv, TypeOK
  <2>5. ~ExpireReservations
    BY DEF ExpireReservations
  <2>6. CASE ChargingNext
    BY <2>1, <2>2, <2>3, <2>4, <2>5, <2>6
       DEF ChargingNext, StopCharging, RecordTelemetry, FinishTargets, Pay, bookingVars
  <2>7. CASE QueueNext \/ UpkeepNext
    BY <2>3, <2>7 DEF QueueNext, QueuePass, Join, Leave, UpkeepNext, SubmitReport, AdvanceReport,
       ResolveReport, TakeOut, Restart, RecoverException, SetStation, SetUser, bookingVars
  <2>8. CASE \/ \E a \in Booking : HoldEnds(a)
             \/ \E e \in Entry : CallEnds(e)
             \/ Abandon
             \/ UNCHANGED vars
    BY <2>3, <2>8 DEF HoldEnds, CallEnds, Abandon, vars, bookingVars
  <2>9. QED
    BY <2>6, <2>7, <2>8 DEF Next
<1>2. IInv /\ [Next]_vars =>
        [\A b \in Booking : reservation[b] = "NONE" /\ reservation'[b] = "ACTIVE" => Served(b)]_vars
  BY <1>1
<1>3. QED
  BY Invariant, <1>2, PTL DEF Spec, NoQueueJumping

-----------------------------------------------------------------------------
(* Entries and calls of one user.                                          *)

\* The identifiers given so far have no gap, ...
NoGap == \A e, f \in Entry : f < e /\ queue[e] # "NONE" => queue[f] # "NONE"

\* ... and who is in a queue is there with the newest entry.
NewestWaits ==
  \A e, f \in Entry : queue[e] \in InQueue /\ queue[f] # "NONE" /\ queuedBy[f] = queuedBy[e] => f <= e

Aged(e) == queue'[e] = queue[e] \/ (queue[e] \in InQueue /\ queue'[e] \notin {"NONE", "WAITING"})

\* But for those who join, entries are called or end, and stay whose they are.
LEMMA EntriesAge ==
  ASSUME IInv, [Next]_vars, ~\E e \in Entry, u \in User, c \in Charger : Join(e, u, c)
  PROVE  queuedBy' = queuedBy /\ \A e \in Entry : Aged(e)
<1>1. CASE UNCHANGED <<queue, queuedBy>>
  BY <1>1 DEF Aged
<1>2. CASE QueuePass
  <2>1. \A e \in Entry : e \in Heads => queue[e] = "WAITING"
    BY DEF Heads, Waiting
  <2>. QED
    BY <1>2, <2>1 DEF QueuePass, Aged, Lapsed, InQueue
<1>3. CASE \E e \in Entry : Leave(e)
  BY <1>3 DEF Leave, Aged, IInv, TypeOK
<1>4. CASE \E b \in Booking, e \in Entry : ConfirmCall(b, e)
  BY <1>4 DEF ConfirmCall, Aged, IInv, TypeOK, InQueue
<1>5. CASE ChargingNext
  <2>1. UNCHANGED <<queue, queuedBy>> \/ \E b \in Booking, e \in Entry : ConfirmCall(b, e)
    BY <1>5 DEF ChargingNext, ExpireReservations, Reserve, NoQueue, CancelReservation, StartCharging,
       StopCharging, RecordTelemetry, FinishTargets, Pay, queueVars
  <2>. QED
    BY <1>1, <1>4, <2>1
<1>6. CASE UpkeepNext
  <2>1. UNCHANGED <<queue, queuedBy>>
    BY <1>6 DEF UpkeepNext, SubmitReport, AdvanceReport, ResolveReport, TakeOut, Serviceable, Restart,
       RecoverException, SetStation, SetUser, queueVars
  <2>. QED
    BY <1>1, <2>1
<1>7. CASE (\E b \in Booking : HoldEnds(b)) \/ (\E e \in Entry : CallEnds(e)) \/ Abandon \/ UNCHANGED vars
  <2>1. UNCHANGED <<queue, queuedBy>>
    BY <1>7 DEF HoldEnds, CallEnds, Abandon, queueVars, vars
  <2>. QED
    BY <1>1, <2>1
<1>. QED
  BY <1>2, <1>3, <1>5, <1>6, <1>7 DEF Next, QueueNext

\* A new entry is the newest of all.
LEMMA JoinIsNewest ==
  ASSUME IInv, NoGap, NewestWaits, NEW n \in Entry, NEW u \in User, NEW c \in Charger, Join(n, u, c)
  PROVE  NoGap' /\ NewestWaits' /\ \A e \in Entry : Aged(e) \/ (e = n /\ queue[e] = "NONE" /\ queue'[e] = "WAITING")
<1>1. /\ queue[n] = "NONE" /\ queue' = [queue EXCEPT ![n] = "WAITING"]
      /\ queuedBy' = [queuedBy EXCEPT ![n] = u]
      /\ \A e \in Entry : e < n => queue[e] # "NONE"
      /\ \A e \in Entry : queuedBy[e] = u => queue[e] \notin InQueue
  BY DEF Join, Queued
<1>2. queue' \in [Entry -> QueueStatus] /\ queue'[n] = "WAITING" /\ queuedBy'[n] = u
  BY <1>1 DEF IInv, TypeOK, QueueStatus
<1>3. \A e \in Entry : e # n => queue'[e] = queue[e] /\ queuedBy'[e] = queuedBy[e]
  BY <1>1 DEF IInv, TypeOK
<1>4. \A e \in Entry : queue[e] # "NONE" => e < n
  <2>1. ASSUME NEW e \in Entry, queue[e] # "NONE", n < e
        PROVE  FALSE
    BY <1>1, <2>1 DEF NoGap
  <2>2. \A e \in Entry : e < n \/ e = n \/ n < e
    BY StoreAssumption DEF Entry
  <2>. QED
    BY <1>1, <2>1, <2>2
<1>5. \A e \in Entry : e <= e /\ ~(e < e) /\ (e < n => e <= n)
  BY StoreAssumption DEF Entry
<1>6. NoGap'
  <2>1. SUFFICES ASSUME NEW e \in Entry, NEW f \in Entry, f < e, queue'[e] # "NONE"
                 PROVE  queue'[f] # "NONE"
    BY DEF NoGap
  <2>. QED
    BY <1>1, <1>2, <1>3, <2>1 DEF NoGap
<1>7. NewestWaits'
  <2>1. SUFFICES ASSUME NEW e \in Entry, NEW f \in Entry, queue'[e] \in InQueue, queue'[f] # "NONE",
                        queuedBy'[f] = queuedBy'[e]
                 PROVE  f <= e
    BY DEF NewestWaits
  <2>2. CASE e = n
    BY <1>3, <1>4, <1>5, <2>1, <2>2
  <2>3. CASE e # n
    <3>1. queue[e] \in InQueue /\ queuedBy'[e] = queuedBy[e] /\ queuedBy[e] # u
      BY <1>1, <1>3, <2>1, <2>3
    <3>2. f # n
      BY <1>2, <2>1, <3>1
    <3>. QED
      BY <1>3, <2>1, <3>1, <3>2 DEF NewestWaits
  <2>. QED
    BY <2>2, <2>3
<1>. QED
  BY <1>1, <1>2, <1>3, <1>6, <1>7 DEF Aged

\* Both are kept.
LEMMA NewestKept ==
  ASSUME IInv, NoGap, NewestWaits, [Next]_vars
  PROVE  NoGap' /\ NewestWaits'
<1>1. CASE \E e \in Entry, u \in User, c \in Charger : Join(e, u, c)
  BY <1>1, JoinIsNewest
<1>2. CASE ~\E e \in Entry, u \in User, c \in Charger : Join(e, u, c)
  <2>1. queuedBy' = queuedBy /\ \A e \in Entry : Aged(e)
    BY <1>2, EntriesAge
  <2>2. \A e \in Entry : /\ queue'[e] # "NONE" <=> queue[e] # "NONE"
                         /\ queue'[e] \in InQueue => queue[e] \in InQueue
    BY <2>1 DEF Aged, InQueue
  <2>. QED
    BY <2>1, <2>2 DEF NoGap, NewestWaits
<1>. QED
  BY <1>1, <1>2

\* An entry is called once, from waiting, while it is the user's newest, and
\* what has ended stays so: the client of the user, which compares a call with
\* the last one it announced, never meets an old one again.
THEOREM CallIsNews == Spec => CallsAreNew
<1>1. Init => NoGap /\ NewestWaits
  BY DEF Init, NoGap, NewestWaits, InQueue
<1>2. IInv /\ NoGap /\ NewestWaits /\ [Next]_vars => NoGap' /\ NewestWaits'
  BY NewestKept
<1>3. ASSUME IInv, NoGap, NewestWaits, [Next]_vars, NEW e \in Entry
      PROVE  /\ queue[e] # "CALLED" /\ queue'[e] = "CALLED" =>
                  /\ queue[e] = "WAITING"
                  /\ \A f \in Entry : queue[f] # "NONE" /\ queuedBy[f] = queuedBy[e] => f <= e
             /\ queue[e] = "CALLED" => queue'[e] # "WAITING"
             /\ queue[e] \notin InQueue \cup {"NONE"} => queue'[e] = queue[e]
  <2>1. Aged(e) \/ (queue[e] = "NONE" /\ queue'[e] = "WAITING")
    BY <1>3, EntriesAge, JoinIsNewest
  <2>. QED
    BY <1>3, <2>1 DEF Aged, InQueue, NewestWaits
<1>4. IInv /\ NoGap /\ NewestWaits /\ [Next]_vars =>
        [\A e \in Entry :
           /\ queue[e] # "CALLED" /\ queue'[e] = "CALLED" =>
                /\ queue[e] = "WAITING"
                /\ \A f \in Entry : queue[f] # "NONE" /\ queuedBy[f] = queuedBy[e] => f <= e
           /\ queue[e] = "CALLED" => queue'[e] # "WAITING"
           /\ queue[e] \notin InQueue \cup {"NONE"} => queue'[e] = queue[e]]_vars
  BY <1>3
<1>. QED
  BY <1>1, <1>2, <1>4, Invariant, PTL DEF Spec, CallsAreNew

-----------------------------------------------------------------------------
(* Refinement of ChargerCustody.                                           *)

As(phase, u) == [phase |-> phase, user |-> u]

\* Where the claims on a charger come from.
LEMMA ClaimSources ==
  ASSUME NEW c, NEW x
  PROVE  x \in ClaimsOn(c) <=>
           \/ chargerStatus[c] = "AVAILABLE" /\ x = As("free", None)
           \/ chargerStatus[c] \in {"FAULT", "OFFLINE"} /\ x = As("out", None)
           \/ \E e \in Called(c) : x = As("called", queuedBy[e])
           \/ \E b \in Booking : bookedOn[b] = c /\ order[b] = "RESERVED" /\ x = As("reserved", bookedBy[b])
           \/ \E b \in Booking : bookedOn[b] = c /\ order[b] = "CHARGING" /\ x = As("charging", bookedBy[b])
BY DEF ClaimsOn, As

\* What these sources yield are claims.
LEMMA AreClaims ==
  /\ As("free", None) \in Custody!Claim
  /\ As("out", None) \in Custody!Claim
  /\ \A u \in User : \A phase \in {"called", "reserved", "charging"} : As(phase, u) \in Custody!Claim
<1>1. \A phase, u : As(phase, u) = Custody!Of(phase, u)
  BY DEF As, Custody!Of
<1>2. As("free", None) \in Custody!Claim /\ As("out", None) \in Custody!Claim
  BY <1>1 DEF Custody!Claim, Custody!Free, Custody!Out
<1>3. ASSUME NEW u \in User, NEW phase \in {"called", "reserved", "charging"}
      PROVE  As(phase, u) \in Custody!Claim
  BY <1>1 DEF Custody!Claim
<1>4. QED
  BY <1>2, <1>3

\* A charger that somebody holds is RESERVED or CHARGING, and nobody else has it.
LEMMA OneClaimEach ==
  ASSUME IInv, NEW c \in Charger
  PROVE  \E x \in Custody!Claim : ClaimsOn(c) = {x}
<1>s. ASSUME NEW x \in Custody!Claim, \A y : y \in ClaimsOn(c) <=> y = x
      PROVE  \E z \in Custody!Claim : ClaimsOn(c) = {z}
  <2>1. ClaimsOn(c) = {x}
    BY <1>s
  <2>2. QED
    BY <2>1
<1>b. \A b \in Booking : bookedOn[b] = c /\ order[b] \in Holding =>
         chargerStatus[c] = order[b] /\ Called(c) = {} /\ bookedBy[b] \in User
           /\ \A a \in Booking : bookedOn[a] = c /\ order[a] \in Holding => a = b
  BY DEF IInv, WorkflowConsistent, OneHolderPerCharger, RowsRefer, Holding, Called, QueueFor
<1>e. \A e \in Called(c) : /\ e \in Entry /\ chargerStatus[c] = "RESERVED" /\ queuedBy[e] \in User
                           /\ \A f \in Called(c) : f = e
  BY DEF IInv, CalledKeepsCharger, OneHolderPerCharger, RowsRefer, Called, QueueFor
<1>1. CASE chargerStatus[c] = "AVAILABLE"
  <2>1. \A x : x \in ClaimsOn(c) <=> x = As("free", None)
    BY <1>1, <1>b, <1>e, ClaimSources DEF Holding
  <2>2. QED
    BY <2>1, <1>s, AreClaims
<1>2. CASE chargerStatus[c] \in {"FAULT", "OFFLINE"}
  <2>1. \A x : x \in ClaimsOn(c) <=> x = As("out", None)
    BY <1>2, <1>b, <1>e, ClaimSources DEF Holding
  <2>2. QED
    BY <2>1, <1>s, AreClaims
<1>3. CASE \E b \in Booking : bookedOn[b] = c /\ order[b] = "RESERVED"
  <2>1. PICK b \in Booking : bookedOn[b] = c /\ order[b] = "RESERVED"
    BY <1>3
  <2>2. \A x : x \in ClaimsOn(c) <=> x = As("reserved", bookedBy[b])
    BY <2>1, <1>b, <1>e, ClaimSources DEF Holding
  <2>3. As("reserved", bookedBy[b]) \in Custody!Claim
    BY <2>1, <1>b, AreClaims DEF Holding
  <2>4. QED
    BY <2>2, <2>3, <1>s
<1>4. CASE \E b \in Booking : bookedOn[b] = c /\ order[b] = "CHARGING"
  <2>1. PICK b \in Booking : bookedOn[b] = c /\ order[b] = "CHARGING"
    BY <1>4
  <2>2. \A x : x \in ClaimsOn(c) <=> x = As("charging", bookedBy[b])
    BY <2>1, <1>b, <1>e, ClaimSources DEF Holding
  <2>3. As("charging", bookedBy[b]) \in Custody!Claim
    BY <2>1, <1>b, AreClaims DEF Holding
  <2>4. QED
    BY <2>2, <2>3, <1>s
<1>5. CASE Called(c) # {}
  <2>1. PICK e \in Called(c) : TRUE
    BY <1>5
  <2>2. \A x : x \in ClaimsOn(c) <=> x = As("called", queuedBy[e])
    BY <2>1, <1>b, <1>e, ClaimSources DEF Holding
  <2>3. As("called", queuedBy[e]) \in Custody!Claim
    BY <2>1, <1>e, AreClaims
  <2>4. QED
    BY <2>2, <2>3, <1>s
<1>6. chargerStatus[c] \in {"RESERVED", "CHARGING"} =>
        Called(c) # {} \/ \E b \in Booking : bookedOn[b] = c /\ order[b] \in {"RESERVED", "CHARGING"}
  BY DEF IInv, NoOrphanHold, ActiveReservationOn, OrderOn, WorkflowConsistent, TypeOK, OrderStatus
<1>7. QED
  BY <1>1, <1>2, <1>3, <1>4, <1>5, <1>6 DEF IInv, TypeOK, ChargerStatus

\* A transaction takes a charger from nobody: a booking begins on one that is
\* free or held by the user's own call, a call on one that is free or called
\* already, a charge on the booking's own, and no holder's goes out of service.
Handover ==
  /\ \A c \in Charger :
       /\ chargerStatus[c] \in {"RESERVED", "CHARGING"} => chargerStatus'[c] \notin {"FAULT", "OFFLINE"}
       /\ chargerStatus[c] \in {"FAULT", "OFFLINE"} => chargerStatus'[c] \notin {"RESERVED", "CHARGING"}
  /\ \A b \in Booking : order'[b] \in Holding =>
       \/ /\ order[b] \in Holding
          /\ order[b] = "CHARGING" => order'[b] = "CHARGING"
          /\ bookedOn'[b] = bookedOn[b] /\ bookedBy'[b] = bookedBy[b]
       \/ /\ order'[b] = "RESERVED"
          /\ \/ chargerStatus[bookedOn'[b]] = "AVAILABLE"
             \/ \E e \in Called(bookedOn'[b]) : queuedBy[e] = bookedBy'[b]
  /\ \A e \in Entry : queue'[e] = "CALLED" =>
       /\ queuedFor'[e] = queuedFor[e] /\ queuedBy'[e] = queuedBy[e]
       /\ \/ queue[e] = "CALLED"
          \/ chargerStatus[queuedFor[e]] = "AVAILABLE"
          \/ Called(queuedFor[e]) # {}

\* The transactions of the charging workflow.
LEMMA ChargingHandover ==
  ASSUME IInv, ChargingNext
  PROVE  Handover
<1> USE DEF Handover, IInv, TypeOK, RowsRefer, Holding
<1>1. CASE ExpireReservations
  BY <1>1 DEF ExpireReservations, WorkflowConsistent, Due, queueVars
<1>2. ASSUME NEW b \in Booking, NEW u \in User, NEW c \in Charger, Reserve(b, u, c)
      PROVE  Handover
  BY <1>2 DEF Reserve, NoQueue, Bookable, InsertBooking, queueVars
<1>3. ASSUME NEW b \in Booking, NEW e \in Entry, ConfirmCall(b, e)
      PROVE  Handover
  <2>1. e \in Called(queuedFor[e]) /\ queuedFor[e] \in Charger /\ queuedBy[e] \in User
    BY <1>3 DEF ConfirmCall, Called, QueueFor, InQueue
  <2>2. QED
    BY <1>3, <2>1 DEF ConfirmCall, Bookable, InsertBooking
<1>4. ASSUME NEW b \in Booking, CancelReservation(b)
      PROVE  Handover
  BY <1>4 DEF CancelReservation, Held, queueVars
<1>5. ASSUME NEW b \in Booking, NEW withTarget \in BOOLEAN, StartCharging(b, withTarget)
      PROVE  Handover
  BY <1>5 DEF StartCharging, Held, queueVars
<1>6. ASSUME NEW b \in Booking, StopCharging(b)
      PROVE  Handover
  BY <1>6 DEF StopCharging, queueVars
<1>7. CASE RecordTelemetry \/ FinishTargets
  BY <1>7 DEF RecordTelemetry, FinishTargets, bookingVars, queueVars
<1>8. ASSUME NEW b \in Booking, Pay(b)
      PROVE  Handover
  BY <1>8 DEF Pay, queueVars
<1>9. QED
  BY <1>1, <1>2, <1>3, <1>4, <1>5, <1>6, <1>7, <1>8 DEF ChargingNext

\* The transactions of the queue.
LEMMA QueueHandover ==
  ASSUME IInv, QueueNext
  PROVE  Handover
<1> USE DEF IInv, TypeOK, RowsRefer, Holding
<1>1. CASE QueuePass
  <2>1. ASSUME NEW e \in Entry, queue'[e] = "CALLED", queue[e] # "CALLED"
        PROVE  chargerStatus[queuedFor[e]] = "AVAILABLE" \/ Called(queuedFor[e]) # {}
    <3>1. e \in Heads
      BY <1>1, <2>1 DEF QueuePass
    <3>2. PICK c \in Callable : e \in Waiting(c)
      BY <3>1 DEF Heads
    <3>3. queuedFor[e] = c
      BY <3>2 DEF Waiting, QueueFor
    <3>4. QED
      BY <3>2, <3>3 DEF Callable, Released
  <2>2. ASSUME NEW c \in Charger, chargerStatus[c] \in {"FAULT", "OFFLINE"}
        PROVE  chargerStatus'[c] \notin {"RESERVED", "CHARGING"}
    <3>1. c \notin Released
      BY <2>2 DEF Released, Releasable
    <3>2. QED
      BY <1>1, <2>2, <3>1 DEF QueuePass, Callable
  <2>3. ASSUME NEW c \in Charger, chargerStatus[c] \in {"RESERVED", "CHARGING"}
        PROVE  chargerStatus'[c] \notin {"FAULT", "OFFLINE"}
    BY <1>1, <2>3 DEF QueuePass
  <2>4. QED
    BY <1>1, <2>1, <2>2, <2>3 DEF QueuePass, Handover, bookingVars
<1>2. ASSUME NEW e \in Entry, NEW u \in User, NEW c \in Charger, Join(e, u, c)
      PROVE  Handover
  BY <1>2 DEF Handover, Join, bookingVars
<1>3. ASSUME NEW e \in Entry, Leave(e)
      PROVE  Handover
  BY <1>3 DEF Handover, Leave, Releasable, bookingVars
<1>4. QED
  BY <1>1, <1>2, <1>3 DEF QueueNext

\* What administrators do, and the steps that leave the claims alone.
LEMMA NextHandover ==
  ASSUME IInv, [Next]_vars
  PROVE  Handover
<1> USE DEF Handover
<1>1. ASSUME UNCHANGED <<bookingVars, queueVars>>,
             \A c \in Charger : \/ chargerStatus'[c] = chargerStatus[c]
                                \/ ~Busy(c) /\ chargerStatus'[c] \notin {"RESERVED", "CHARGING"}
      PROVE  Handover
  BY <1>1 DEF bookingVars, queueVars, Busy
<1>2. ASSUME UNCHANGED <<order, bookedOn, bookedBy, queue, queuedBy, queuedFor, chargerStatus>>
      PROVE  Handover
  BY <1>2
<1>3. ASSUME NEW c \in Charger, ~Busy(c), NEW status,
             chargerStatus' = [chargerStatus EXCEPT ![c] = status],
             status \notin {"RESERVED", "CHARGING"}
      PROVE  \A d \in Charger : \/ chargerStatus'[d] = chargerStatus[d]
                                \/ ~Busy(d) /\ chargerStatus'[d] \notin {"RESERVED", "CHARGING"}
  BY <1>3 DEF IInv, TypeOK
<1> HIDE DEF Handover
<1>4. CASE UpkeepNext
  <2>1. ASSUME NEW u \in Reporter, NEW c \in Charger, SubmitReport(u, c)
        PROVE  Handover
    BY <1>1, <2>1 DEF SubmitReport
  <2>2. ASSUME NEW u \in Reporter, NEW c \in Charger, AdvanceReport(u, c)
        PROVE  Handover
    BY <1>1, <1>3, <2>2 DEF AdvanceReport
  <2>3. ASSUME NEW u \in Reporter, NEW c \in Charger, ResolveReport(u, c)
        PROVE  Handover
    BY <1>1, <1>3, <2>3 DEF ResolveReport, Busy
  <2>4. ASSUME NEW c \in Charger, NEW status \in {"FAULT", "OFFLINE"}, TakeOut(c, status)
        PROVE  Handover
    BY <1>1, <1>3, <2>4 DEF TakeOut, Serviceable
  <2>5. ASSUME NEW c \in Charger, Restart(c)
        PROVE  Handover
    BY <1>1, <1>3, <2>5 DEF Restart, Serviceable
  <2>6. ASSUME NEW c \in Charger, RecoverException(c)
        PROVE  Handover
    BY <1>1, <1>3, <2>6 DEF RecoverException, Recoverable, Serviceable, Busy
  <2>7. ASSUME NEW s \in Station, NEW status \in OperatingStatus, SetStation(s, status)
        PROVE  Handover
    BY <1>1, <2>7 DEF SetStation
  <2>8. ASSUME NEW u \in User, NEW status \in AccountStatus, SetUser(u, status)
        PROVE  Handover
    BY <1>1, <2>8 DEF SetUser
  <2>9. QED
    BY <1>4, <2>1, <2>2, <2>3, <2>4, <2>5, <2>6, <2>7, <2>8 DEF UpkeepNext
<1>5. CASE \/ \E b \in Booking : HoldEnds(b)
           \/ \E e \in Entry : CallEnds(e)
           \/ Abandon
           \/ UNCHANGED vars
  BY <1>2, <1>5 DEF HoldEnds, CallEnds, Abandon, vars, bookingVars, queueVars
<1>6. QED
  BY <1>4, <1>5, ChargingHandover, QueueHandover DEF Next

\* No user has a claim on two chargers.
LEMMA OneEach ==
  ASSUME IInv
  PROVE  Custody!OneClaim /\ Custody!OneChargerPerUser
<1>1. Custody!OneClaim
  <2>1. ASSUME NEW c \in Charger
        PROVE  ClaimsOn(c) \in {{x} : x \in Custody!Claim}
    BY OneClaimEach
  <2>2. QED
    BY <2>1 DEF Custody!OneClaim
<1>2. Custody!OneChargerPerUser
  <2>1. ASSUME NEW c \in Charger, NEW d \in Charger, NEW x \in ClaimsOn(c), NEW y \in ClaimsOn(d),
               x.user # None, x.user = y.user
        PROVE  c = d
    <3>1. ASSUME NEW g \in Charger, NEW z \in ClaimsOn(g), z.user # None
          PROVE  \/ \E e \in Entry : queue[e] \in InQueue /\ queuedFor[e] = g /\ z.user = queuedBy[e]
                 \/ \E b \in Booking : order[b] \in Unfinished /\ bookedOn[b] = g /\ z.user = bookedBy[b]
      BY <3>1, ClaimSources DEF As, Called, QueueFor, Unfinished, InQueue
    <3>2. QED
      BY <2>1, <3>1 DEF IInv, OneEngagementPerUser
  <2>2. QED
    BY <2>1 DEF Custody!OneChargerPerUser
<1>3. QED
  BY <1>1, <1>2

\* A claim ends, or its user's call becomes a booking and the booking a charge.
LEMMA ClaimsFollow ==
  ASSUME IInv, IInv', Handover,
         NEW c \in Charger, NEW x \in ClaimsOn(c), NEW y \in ClaimsOn(c)'
  PROVE  Custody!Follows(x, y)
<1> USE DEF Custody!Follows, Custody!Of, Custody!Free, Custody!Out, As
<1>y. \/ chargerStatus'[c] = "AVAILABLE" /\ y = As("free", None)
      \/ chargerStatus'[c] \in {"FAULT", "OFFLINE"} /\ y = As("out", None)
      \/ \E e \in Called(c)' : y = As("called", queuedBy'[e])
      \/ \E b \in Booking : bookedOn'[b] = c /\ order'[b] = "RESERVED" /\ y = As("reserved", bookedBy'[b])
      \/ \E b \in Booking : bookedOn'[b] = c /\ order'[b] = "CHARGING" /\ y = As("charging", bookedBy'[b])
  BY DEF ClaimsOn
<1>b. \A b \in Booking : bookedOn[b] = c /\ order[b] \in Holding =>
         chargerStatus[c] = order[b] /\ Called(c) = {}
           /\ \A a \in Booking : bookedOn[a] = c /\ order[a] \in Holding => a = b
  BY DEF IInv, WorkflowConsistent, OneHolderPerCharger, Holding, Called, QueueFor
<1>e. \A e \in Called(c) : chargerStatus[c] = "RESERVED" /\ \A f \in Called(c) : f = e
  BY DEF IInv, CalledKeepsCharger, OneHolderPerCharger, Called, QueueFor
\* What may have happened to the charger, by what is true of it afterwards.
<1>1. ASSUME NEW b \in Booking, bookedOn'[b] = c, order'[b] \in Holding
      PROVE  \/ /\ bookedOn[b] = c /\ order[b] \in Holding /\ bookedBy'[b] = bookedBy[b]
                /\ order[b] = "CHARGING" => order'[b] = "CHARGING"
             \/ /\ order'[b] = "RESERVED"
                /\ \/ chargerStatus[c] = "AVAILABLE"
                   \/ \E e \in Called(c) : queuedBy[e] = bookedBy'[b]
  BY <1>1 DEF Handover
<1>2. ASSUME NEW e \in Called(c)'
      PROVE  chargerStatus[c] = "AVAILABLE" \/ Called(c) # {}
  BY <1>2 DEF Handover, Called, QueueFor, InQueue
<1>3. /\ chargerStatus[c] \in {"RESERVED", "CHARGING"} => chargerStatus'[c] \notin {"FAULT", "OFFLINE"}
      /\ chargerStatus[c] \in {"FAULT", "OFFLINE"} => chargerStatus'[c] \notin {"RESERVED", "CHARGING"}
  BY DEF Handover
<1>4. CASE chargerStatus[c] = "AVAILABLE" /\ x = As("free", None)
  BY <1>4, <1>y, <1>1, <1>b DEF Holding
<1>5. CASE chargerStatus[c] \in {"FAULT", "OFFLINE"} /\ x = As("out", None)
  <2>1. ~\E b \in Booking : bookedOn'[b] = c /\ order'[b] \in Holding
    BY <1>3, <1>5 DEF IInv, WorkflowConsistent, Holding
  <2>2. Called(c)' = {}
    BY <1>2, <1>5, <1>e
  <2>3. QED
    BY <1>5, <1>y, <2>1, <2>2 DEF Holding
<1>6. ASSUME NEW e \in Called(c), x = As("called", queuedBy[e])
      PROVE  Custody!Follows(x, y)
  <2>1. chargerStatus'[c] \notin {"FAULT", "OFFLINE"}
    BY <1>3, <1>6, <1>e
  <2>2. ASSUME NEW b \in Booking, bookedOn'[b] = c, order'[b] \in Holding
        PROVE  order'[b] = "RESERVED" /\ bookedBy'[b] = queuedBy[e]
    BY <2>2, <1>1, <1>6, <1>b, <1>e
  <2>3. QED
    BY <1>6, <1>y, <2>1, <2>2 DEF Holding
<1>7. ASSUME NEW b \in Booking, bookedOn[b] = c, order[b] \in Holding,
             x = As(IF order[b] = "RESERVED" THEN "reserved" ELSE "charging", bookedBy[b])
      PROVE  Custody!Follows(x, y)
  <2>1. chargerStatus'[c] \notin {"FAULT", "OFFLINE"} /\ Called(c)' = {}
    BY <1>2, <1>3, <1>7, <1>b DEF Holding
  <2>2. ASSUME NEW a \in Booking, bookedOn'[a] = c, order'[a] \in Holding
        PROVE  a = b /\ bookedBy'[a] = bookedBy[b] /\ (order[b] = "CHARGING" => order'[b] = "CHARGING")
    BY <2>2, <1>1, <1>7, <1>b DEF Holding
  <2>3. QED
    BY <1>7, <1>y, <2>1, <2>2 DEF Holding
<1>8. QED
  BY <1>4, <1>5, <1>6, <1>7, ClaimSources DEF Holding

\* The service implements ChargerCustody: whatever transactions, passes,
\* sweeps, failures and crashes there are, a charger has one claim, a user one
\* charger, and claims change hands only between two calls.
THEOREM CustodyImplemented == Spec => ImplementsCustody
<1>1. Init => Custody!Init
  <2>1. ASSUME Init, NEW c \in Charger
        PROVE  ClaimsOn(c) = {Custody!Free}
    <3>1. \A x : x \in ClaimsOn(c) <=> x = As("free", None)
      BY <2>1, ClaimSources DEF Init, Called, QueueFor, InQueue
    <3>2. QED
      BY <3>1 DEF Custody!Free, Custody!Of, As
  <2>2. QED
    BY <2>1 DEF Custody!Init
<1>2. ASSUME IInv, [Next]_vars
      PROVE  Custody!Move
  <2>1. IInv' /\ Handover
    BY <1>2, NextIInv, NextHandover
  <2>2. (Custody!OneClaim /\ Custody!OneChargerPerUser)'
    BY <2>1, OneEach, PTL
  <2>3. \A c \in Charger : \A x \in ClaimsOn(c), y \in ClaimsOn(c)' : Custody!Follows(x, y)
    BY <1>2, <2>1, ClaimsFollow
  <2>4. QED
    BY <2>2, <2>3 DEF Custody!Move
<1>3. IInv /\ [Next]_vars => [Custody!Move]_[c \in Charger |-> ClaimsOn(c)]
  BY <1>2
<1>4. QED
  BY Invariant, <1>1, <1>3, PTL DEF Spec, ImplementsCustody, Custody!Spec
=============================================================================
