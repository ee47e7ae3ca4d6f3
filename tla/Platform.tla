------------------------------- MODULE Platform -------------------------------
(***************************************************************************)
(* The whole service: one worker thread (ServerThread::run) that owns the  *)
(* database connection.  A round of maintenance (expiry sweep, samples of  *)
(* the charges with a target, queue pass) runs on a one second timer and   *)
(* before every request of a client or an administrator; the request is    *)
(* handled only when its round went through.  Transactions never overlap,  *)
(* but a request or a round is several of them, the clock moves in         *)
(* between, and any of them may fail or be cut off by a crash.             *)
(***************************************************************************)
EXTENDS ChargingWorkflow, WaitingQueue, Upkeep

\* The clock passes a deadline.  The sweep of a round and its queue pass
\* share one reading of the clock; every sample and every request takes a
\* new one, and keeps it to its end.
HoldEnds(b) ==
  /\ stage \in {"idle", "targets", "handler"}
  /\ reservation[b] = "ACTIVE"
  /\ ~holdOver[b]
  /\ holdOver' = [holdOver EXCEPT ![b] = TRUE]
  /\ UNCHANGED <<chargerStatus, reservation, order, bookedBy, bookedOn, target,
                 queueVars, upkeepVars, stage>>

CallEnds(e) ==
  /\ stage \in {"idle", "handler"}
  /\ queue[e] = "CALLED"
  /\ ~callOver[e]
  /\ callOver' = [callOver EXCEPT ![e] = TRUE]
  /\ UNCHANGED <<chargerStatus, bookingVars, queue, queuedBy, queuedFor, upkeepVars, stage>>

\* The thread drops what it was doing: a read, a refusal, the end of a
\* timer's round, a transaction rolled back, or a crash and the round of
\* maintenance every start begins with.
Abandon ==
  /\ stage # "idle"
  /\ stage' = "idle"
  /\ UNCHANGED <<chargerStatus, bookingVars, queueVars, upkeepVars>>

Next ==
  \/ ChargingNext
  \/ QueueNext
  \/ UpkeepNext
  \/ \E b \in Booking : HoldEnds(b)
  \/ \E e \in Entry : CallEnds(e)
  \/ Abandon

Spec == Init /\ [][Next]_vars

\* Time passes, the timer fires again and again, a round works through a
\* finite list of samples, and a transaction that is tried again and again
\* succeeds some time.
Fairness ==
  /\ \A b \in Booking : SF_vars(HoldEnds(b))
  /\ \A e \in Entry : SF_vars(CallEnds(e))
  /\ SF_vars(stage = "idle" /\ ExpireReservations)
  /\ SF_vars(FinishTargets)
  /\ SF_vars(stage = "calls" /\ QueuePass)
  /\ WF_vars(Abandon)

FairSpec == Spec /\ Fairness

-----------------------------------------------------------------------------
(* Safety.                                                                 *)

Holding == {"RESERVED", "CHARGING"}   \* the orders that hold their charger

\* Two live claims on a charger never meet: at most one booking that
\* is reserved or charging, or one called user.  releaseCall, the pass, the
\* confirmation of a call and the sweep each look at a part of this only.
OneHolderPerCharger ==
  /\ \A a, b \in Booking :
       order[a] \in Holding /\ order[b] \in Holding /\ bookedOn[a] = bookedOn[b] => a = b
  /\ \A e, f \in Entry :
       queue[e] = "CALLED" /\ queue[f] = "CALLED" /\ queuedFor[e] = queuedFor[f] => e = f
  /\ \A b \in Booking, e \in Entry :
       order[b] \in Holding /\ queue[e] = "CALLED" => bookedOn[b] # queuedFor[e]

\* A charger is never left held by nobody: RESERVED has an active reservation
\* or a called user behind it, CHARGING an order that is charging.  No
\* command could free it (every administrator command refuses a busy one).
NoOrphanHold ==
  \A c \in Charger :
    /\ chargerStatus[c] = "RESERVED" => ActiveReservationOn(c) \/ Called(c) # {}
    /\ chargerStatus[c] = "CHARGING" => OrderOn(c, {"CHARGING"})

\* workflowStateIsConsistent: reservation, order and charger tell one story.
\* The service refuses to serve a booking for which they do not.
WorkflowConsistent ==
  \A b \in Booking :
    /\ order[b] = "NONE" => reservation[b] = "NONE"
    /\ order[b] = "RESERVED" =>
         reservation[b] = "ACTIVE" /\ chargerStatus[bookedOn[b]] = "RESERVED"
    /\ order[b] = "CHARGING" =>
         reservation[b] = "FULFILLED" /\ chargerStatus[bookedOn[b]] = "CHARGING"
    /\ order[b] \in {"WAITING_PAYMENT", "COMPLETED"} => reservation[b] = "FULFILLED"
    /\ order[b] = "CANCELLED" => reservation[b] \in {"CANCELLED", "EXPIRED"}

\* A user has one thing going on: at most one unfinished order or one place
\* in a queue, never both.
OneEngagementPerUser ==
  /\ \A a, b \in Booking :
       order[a] \in Unfinished /\ order[b] \in Unfinished /\ bookedBy[a] = bookedBy[b] => a = b
  /\ \A e, f \in Entry :
       queue[e] \in InQueue /\ queue[f] \in InQueue /\ queuedBy[e] = queuedBy[f] => e = f
  /\ \A b \in Booking, e \in Entry :
       order[b] \in Unfinished /\ queue[e] \in InQueue => bookedBy[b] # queuedBy[e]

\* A called user has the charger: it stays RESERVED until the user confirms
\* or leaves or the pass ends the call, whatever administrators do meanwhile.
CalledKeepsCharger ==
  \A e \in Entry : queue[e] = "CALLED" => chargerStatus[queuedFor[e]] = "RESERVED"

\* None of the four commands that restore a charger, nor the end of a
\* booking or a call, puts one in service that has an open repair or fault.
InServiceMeansClear ==
  \A c \in Charger : chargerStatus[c] \in {"AVAILABLE", "RESERVED", "CHARGING"} => ~Blocked(c)

\* No one holds a charger of a station that is closed.
OccupiedMeansOpen ==
  \A c \in Charger : chargerStatus[c] \in {"RESERVED", "CHARGING"} => Open(c)

\* A frozen account owes nothing and holds nothing.
FrozenHasNoBusiness ==
  \A u \in User : userStatus[u] = "FROZEN" =>
    \A b \in Booking : bookedBy[b] = u => order[b] \notin Unfinished /\ reservation[b] # "ACTIVE"

\* The expiry sweep is all or nothing and stands before every request: were
\* one reservation unable to expire, nobody would be served any more.
SweepNeverBlocked ==
  stage \in DOMAIN AfterExpiry => SweepApplies

\* The rows refer to users and chargers (foreign keys).
RowsRefer ==
  /\ \A b \in Booking : reservation[b] # "NONE" => bookedBy[b] \in User /\ bookedOn[b] \in Charger
  /\ \A e \in Entry : queue[e] # "NONE" => queuedBy[e] \in User /\ queuedFor[e] \in Charger

\* None of the above is inductive alone.  Together they are: a step that
\* frees, takes or hands on a charger looks at some tables, and what it does
\* not look at is what the other conjuncts say.
IInv ==
  /\ TypeOK
  /\ RowsRefer
  /\ WorkflowConsistent
  /\ OneHolderPerCharger
  /\ OneEngagementPerUser
  /\ CalledKeepsCharger
  /\ NoOrphanHold
  /\ InServiceMeansClear
  /\ OccupiedMeansOpen
  /\ FrozenHasNoBusiness

-----------------------------------------------------------------------------
(* Steps.                                                                  *)

\* First come, first served: whoever is called leaves nobody waiting for that
\* charger who joined before.
FirstComeFirstServed ==
  [][\A e \in Entry : queue[e] # "CALLED" /\ queue'[e] = "CALLED" =>
       \A f \in Entry : f < e /\ queuedFor[f] = queuedFor[e] => queue'[f] # "WAITING"]_vars

\* A charger somebody queues for goes to nobody but the called user.
NoQueueJumping ==
  [][\A b \in Booking : reservation[b] = "NONE" /\ reservation'[b] = "ACTIVE" =>
       \/ QueueFor(bookedOn'[b]) = {}
       \/ \E e \in Called(bookedOn'[b]) : queuedBy[e] = bookedBy'[b] /\ queue'[e] = "CONFIRMED"]_vars

\* A client tells a call from the ones it announced by its entry: no entry is
\* called twice, or again after it ended, and a call is of the user's newest.
CallsAreNew ==
  [][\A e \in Entry :
       /\ queue[e] # "CALLED" /\ queue'[e] = "CALLED" =>
            /\ queue[e] = "WAITING"
            /\ \A f \in Entry : queue[f] # "NONE" /\ queuedBy[f] = queuedBy[e] => f <= e
       /\ queue[e] = "CALLED" => queue'[e] # "WAITING"
       /\ queue[e] \notin InQueue \cup {"NONE"} => queue'[e] = queue[e]]_vars

\* The table of legal charger transitions in docs/design/architecture.md 6.2,
\* which ChargingStateMachine::canTransition repeats.
LegalChargerTransition ==
  {<<"AVAILABLE", "RESERVED">>, <<"RESERVED", "CHARGING">>, <<"RESERVED", "AVAILABLE">>,
   <<"CHARGING", "AVAILABLE">>, <<"AVAILABLE", "FAULT">>, <<"AVAILABLE", "OFFLINE">>,
   <<"FAULT", "AVAILABLE">>, <<"OFFLINE", "AVAILABLE">>}

\* Every change of a charger's status is in that table.
ChargerTransitionsLegal ==
  [][\A c \in Charger : chargerStatus'[c] = chargerStatus[c]
       \/ <<chargerStatus[c], chargerStatus'[c]>> \in LegalChargerTransition]_vars

-----------------------------------------------------------------------------
(* The tables seen as claims on the chargers.                              *)

ClaimsOn(c) ==
  LET on(status) == {b \in Booking : bookedOn[b] = c /\ order[b] = status}
      of(phase, users) == {[phase |-> phase, user |-> u] : u \in users}
  IN  of("called", {queuedBy[e] : e \in Called(c)})
        \cup of("reserved", {bookedBy[b] : b \in on("RESERVED")})
        \cup of("charging", {bookedBy[b] : b \in on("CHARGING")})
        \cup of("free", IF chargerStatus[c] = "AVAILABLE" THEN {None} ELSE {})
        \cup of("out", IF chargerStatus[c] \in {"FAULT", "OFFLINE"} THEN {None} ELSE {})

Custody == INSTANCE ChargerCustody WITH claims <- [c \in Charger |-> ClaimsOn(c)]

\* The platform implements ChargerCustody: through sweeps, passes, expiries
\* and crashes a charger has exactly one claim, and claims change as told.
ImplementsCustody == Custody!Spec

-----------------------------------------------------------------------------
(* Progress, under FairSpec.                                               *)

\* A call does not hold its charger for ever.
CallsEnd == \A e \in Entry : queue[e] = "CALLED" ~> queue[e] # "CALLED"

\* Nor does a reservation nobody uses.
ReservationsEnd == \A b \in Booking : reservation[b] = "ACTIVE" ~> reservation[b] # "ACTIVE"

\* A charger that is free and in service while somebody waits for it does
\* not stay so: it is called for, or it is no longer free, or nobody waits.
WaitersAreCalled ==
  \A c \in Charger :
    (chargerStatus[c] = "AVAILABLE" /\ Open(c) /\ QueueFor(c) # {})
      ~> ~(chargerStatus[c] = "AVAILABLE" /\ Open(c) /\ QueueFor(c) # {})
=============================================================================
