----------------------------- MODULE WaitingQueue -----------------------------
(***************************************************************************)
(* The waiting queue of a charger (QueueRepository).  A user waits for one *)
(* charger; a charger that falls free is held for the head of its queue,   *)
(* who has a minute to turn the call into a reservation.                   *)
(***************************************************************************)
EXTENDS PlatformStore

\* The queue pass ends a round of maintenance ("calls"), opens every queue
\* request ("handler") and closes a join or a leave ("requeue").
AfterPass == [calls |-> "handler", handler |-> "queueing", requeue |-> "idle"]

Called(c) == {e \in QueueFor(c) : queue[e] = "CALLED"}

\* A call is over when its minute is, or when it has lost its charger.
\* Mutant: the minute is not looked at.
CallLostCharger(e) ==
  \/ chargerStatus[queuedFor[e]] # "RESERVED"
  \/ ~Open(queuedFor[e])
  \/ Blocked(queuedFor[e])

CallLost(e) ==
  \/ callOver[e]
  \/ chargerStatus[queuedFor[e]] # "RESERVED"
  \/ ~Open(queuedFor[e])
  \/ Blocked(queuedFor[e])

\* Entries the pass ends: the user lost the right to wait, or the call is over.
Lapsed ==
  {e \in Entry :
     /\ queue[e] \in InQueue
     /\ \/ userStatus[queuedBy[e]] # "ACTIVE"
        \/ HasUnfinishedOrder(queuedBy[e])
        \/ queue[e] = "CALLED" /\ CallLost(e)}

\* No booking, repair or fault stands against handing the charger out.
\* Mutant: a charger is kept until the last charge is paid.
VacantWhenPaid(c) ==
  ~ActiveReservationOn(c) /\ ~OrderOn(c, {"CHARGING", "WAITING_PAYMENT"}) /\ ~Blocked(c)

Vacant(c) == ~ActiveReservationOn(c) /\ ~OrderOn(c, {"CHARGING"}) /\ ~Blocked(c)

\* releaseCall: may a RESERVED charger go back to AVAILABLE once the calls
\* in `ended` are over?
Releasable(c, ended) ==
  /\ chargerStatus[c] = "RESERVED"
  /\ Called(c) \subseteq ended
  /\ Vacant(c)

\* Mutant: the pass ends calls without releaseCall.
NeverReleased == {}

Released == {c \in Charger : Called(c) \cap Lapsed # {} /\ Releasable(c, Lapsed)}

Waiting(c) == {e \in QueueFor(c) \ Lapsed : queue[e] = "WAITING"}

\* Chargers the pass calls for, once the lapsed calls have released theirs.
Callable ==
  {c \in Charger :
     /\ chargerStatus[c] = "AVAILABLE" \/ c \in Released
     /\ Open(c)
     /\ Waiting(c) # {}
     /\ Called(c) \subseteq Lapsed
     /\ Vacant(c)}

\* First come, first served: entered_at, then the identifier.
\* Mutant: ORDER BY ... DESC.
Tails == {e \in Entry : \E c \in Callable : e \in Waiting(c) /\ \A f \in Waiting(c) : f <= e}

Heads == {e \in Entry : \E c \in Callable : e \in Waiting(c) /\ \A f \in Waiting(c) : e <= f}

QueuePass ==
  /\ stage \in DOMAIN AfterPass
  /\ queue' = [e \in Entry |-> IF e \in Lapsed THEN "EXPIRED"
                               ELSE IF e \in Heads THEN "CALLED" ELSE queue[e]]
  /\ chargerStatus' = [c \in Charger |-> IF c \in Callable THEN "RESERVED"
                                         ELSE IF c \in Released THEN "AVAILABLE"
                                         ELSE chargerStatus[c]]
  /\ callOver' = [e \in Entry |-> callOver[e] /\ e \notin Lapsed]
  /\ stage' = AfterPass[stage]
  /\ UNCHANGED <<bookingVars, queuedBy, queuedFor, upkeepVars>>

\* A user may wait when the whole station has no charger to offer.
Offered(s) ==
  {c \in Charger : StationOf[c] = s /\ chargerStatus[c] = "AVAILABLE" /\ ~Blocked(c)}

Join(e, u, c) ==
  /\ stage = "queueing"
  /\ queue[e] = "NONE"
  /\ \A f \in Entry : f < e => queue[f] # "NONE"
  /\ userStatus[u] = "ACTIVE"
  /\ ~HasUnfinishedOrder(u)
  /\ ~Queued(u)
  /\ Open(c)
  /\ ~UnderRepair(c)
  /\ Offered(StationOf[c]) = {}
  /\ queue' = [queue EXCEPT ![e] = "WAITING"]
  /\ queuedBy' = [queuedBy EXCEPT ![e] = u]
  /\ queuedFor' = [queuedFor EXCEPT ![e] = c]
  /\ stage' = "requeue"
  /\ UNCHANGED <<chargerStatus, bookingVars, callOver, upkeepVars>>

Leave(e) ==
  /\ stage = "queueing"
  /\ queue[e] \in InQueue
  /\ userStatus[queuedBy[e]] = "ACTIVE"
  /\ queue' = [queue EXCEPT ![e] = "LEFT"]
  /\ callOver' = [callOver EXCEPT ![e] = FALSE]
  /\ chargerStatus' =
       [chargerStatus EXCEPT ![queuedFor[e]] =
          IF queue[e] = "CALLED" /\ Releasable(queuedFor[e], {e}) THEN "AVAILABLE" ELSE @]
  /\ stage' = "requeue"
  /\ UNCHANGED <<bookingVars, queuedBy, queuedFor, upkeepVars>>

QueueNext ==
  \/ QueuePass
  \/ \E e \in Entry, u \in User, c \in Charger : Join(e, u, c)
  \/ \E e \in Entry : Leave(e)
=============================================================================
