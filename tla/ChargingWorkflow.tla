--------------------------- MODULE ChargingWorkflow ---------------------------
(***************************************************************************)
(* The transactions of ChargingRepository and the payment of               *)
(* OrderRepository.  Each action is one SQLite transaction: it commits as  *)
(* a whole or, when a row count is not the expected one, not at all.  A    *)
(* refused request and the replay of a finished one change no row.         *)
(***************************************************************************)
EXTENDS PlatformStore

\* Which transaction follows the expiry sweep.  The sweep opens a round of
\* maintenance ("idle"), precedes each sample of a charge with a target
\* ("targets"), every reservation and charging request ("handler") and the
\* confirmation of a call ("queueing").
AfterExpiry ==
  [idle |-> "targets", targets |-> "sampling",
   handler |-> "workflow", queueing |-> "confirming"]

\* Mutant: the comparison with expires_at is swapped.
NotYetDue == {b \in Booking : reservation[b] = "ACTIVE" /\ ~holdOver[b]}

Due == {b \in Booking : reservation[b] = "ACTIVE" /\ holdOver[b]}

\* Every UPDATE of the sweep must change exactly one row: a due reservation
\* has a RESERVED order and is alone in holding a RESERVED charger.
SweepApplies ==
  /\ \A b \in Due : order[b] = "RESERVED"
  /\ \A b \in Due : bookedOn[b] \in Charger /\ chargerStatus[bookedOn[b]] = "RESERVED"
  /\ \A a, b \in Due : bookedOn[a] = bookedOn[b] => a = b

ExpireReservations ==
  /\ stage \in DOMAIN AfterExpiry
  /\ SweepApplies
  /\ reservation' = [b \in Booking |-> IF b \in Due THEN "EXPIRED" ELSE reservation[b]]
  /\ order' = [b \in Booking |-> IF b \in Due THEN "CANCELLED" ELSE order[b]]
  /\ chargerStatus' =
       [c \in Charger |-> IF \E b \in Due : bookedOn[b] = c THEN "AVAILABLE"
                                                            ELSE chargerStatus[c]]
  /\ holdOver' = [b \in Booking |-> FALSE]
  /\ stage' = AfterExpiry[stage]
  /\ UNCHANGED <<bookedBy, bookedOn, target, queueVars, upkeepVars>>

\* A reservation takes a charger for a user: an AVAILABLE one nobody queues
\* for, or the one a live call of the same user holds (entry e).
\* Mutant: the charger may be RESERVED whoever asks.
BookableWhenHeld(u, c, required) ==
  /\ userStatus[u] = "ACTIVE"
  /\ ~HasUnfinishedOrder(u)
  /\ chargerStatus[c] \in {required, "RESERVED"}
  /\ Open(c)
  /\ ~Blocked(c)

Bookable(u, c, required) ==
  /\ userStatus[u] = "ACTIVE"
  /\ ~HasUnfinishedOrder(u)
  /\ chargerStatus[c] = required
  /\ Open(c)
  /\ ~Blocked(c)

InsertBooking(b, u, c) ==
  /\ reservation[b] = "NONE"
  /\ reservation' = [reservation EXCEPT ![b] = "ACTIVE"]
  /\ order' = [order EXCEPT ![b] = "RESERVED"]
  /\ bookedBy' = [bookedBy EXCEPT ![b] = u]
  /\ bookedOn' = [bookedOn EXCEPT ![b] = c]
  /\ chargerStatus' = [chargerStatus EXCEPT ![c] = "RESERVED"]
  /\ UNCHANGED <<holdOver, target, upkeepVars>>

\* Who waits, and who wants what others wait for, is sent to the queue.
\* Mutant: only the user's own entries are looked up.
NotQueued(u, c) == ~Queued(u)

NoQueue(u, c) == ~Queued(u) /\ QueueFor(c) = {}

Reserve(b, u, c) ==
  /\ stage = "workflow"
  /\ NoQueue(u, c)
  /\ Bookable(u, c, "AVAILABLE")
  /\ InsertBooking(b, u, c)
  /\ stage' = "idle"
  /\ UNCHANGED queueVars

ConfirmCall(b, e) ==
  /\ stage = "confirming"
  /\ queue[e] = "CALLED"
  /\ ~callOver[e]
  /\ Bookable(queuedBy[e], queuedFor[e], "RESERVED")
  /\ InsertBooking(b, queuedBy[e], queuedFor[e])
  /\ queue' = [queue EXCEPT ![e] = "CONFIRMED"]
  /\ stage' = "idle"
  /\ UNCHANGED <<queuedBy, queuedFor, callOver>>

\* The state from which a booking can still be cancelled or started.
Held(b) ==
  /\ reservation[b] = "ACTIVE"
  /\ order[b] = "RESERVED"
  /\ chargerStatus[bookedOn[b]] = "RESERVED"

CancelReservation(b) ==
  /\ stage = "workflow"
  /\ Held(b)
  /\ reservation' = [reservation EXCEPT ![b] = "CANCELLED"]
  /\ order' = [order EXCEPT ![b] = "CANCELLED"]
  /\ chargerStatus' = [chargerStatus EXCEPT ![bookedOn[b]] = "AVAILABLE"]
  /\ stage' = "idle"
  /\ UNCHANGED <<bookedBy, bookedOn, holdOver, target, queueVars, upkeepVars>>

StartCharging(b, withTarget) ==
  /\ stage = "workflow"
  /\ Held(b)
  /\ userStatus[bookedBy[b]] = "ACTIVE"
  /\ ~holdOver[b]
  /\ ~Blocked(bookedOn[b])
  /\ Open(bookedOn[b])
  /\ reservation' = [reservation EXCEPT ![b] = "FULFILLED"]
  /\ order' = [order EXCEPT ![b] = "CHARGING"]
  /\ target' = [target EXCEPT ![b] = withTarget]
  /\ chargerStatus' = [chargerStatus EXCEPT ![bookedOn[b]] = "CHARGING"]
  /\ stage' = "idle"
  /\ UNCHANGED <<bookedBy, bookedOn, holdOver, queueVars, upkeepVars>>

\* The owner stops, or a status request or a maintenance sample finds the
\* target reached.  Metering is abstracted: whether the target is reached is
\* a choice.
StopCharging(b) ==
  /\ \/ stage = "workflow" /\ stage' = "idle"
     \/ stage = "sampling" /\ target[b] /\ stage' = "targets"
  /\ order[b] = "CHARGING"
  /\ chargerStatus[bookedOn[b]] = "CHARGING"
  /\ order' = [order EXCEPT ![b] = "WAITING_PAYMENT"]
  /\ target' = [target EXCEPT ![b] = FALSE]
  /\ chargerStatus' = [chargerStatus EXCEPT ![bookedOn[b]] = "AVAILABLE"]
  /\ UNCHANGED <<reservation, bookedBy, bookedOn, holdOver, queueVars, upkeepVars>>

\* A sample short of its target only moves the meter columns.
RecordTelemetry ==
  /\ stage = "sampling"
  /\ \E b \in Booking : target[b]
  /\ stage' = "targets"
  /\ UNCHANGED <<chargerStatus, bookingVars, queueVars, upkeepVars>>

\* advanceTargets is done with the list it read.
FinishTargets ==
  /\ stage = "targets"
  /\ stage' = "calls"
  /\ UNCHANGED <<chargerStatus, bookingVars, queueVars, upkeepVars>>

\* The balance is abstracted: whether it covers the amount is a choice.
Pay(b) ==
  /\ stage = "handler"
  /\ order[b] = "WAITING_PAYMENT"
  /\ reservation[b] = "FULFILLED"
  /\ order' = [order EXCEPT ![b] = "COMPLETED"]
  /\ stage' = "idle"
  /\ UNCHANGED <<chargerStatus, reservation, bookedBy, bookedOn, holdOver, target,
                 queueVars, upkeepVars>>

ChargingNext ==
  \/ ExpireReservations
  \/ \E b \in Booking, u \in User, c \in Charger : Reserve(b, u, c)
  \/ \E b \in Booking, e \in Entry : ConfirmCall(b, e)
  \/ \E b \in Booking : CancelReservation(b)
  \/ \E b \in Booking, withTarget \in BOOLEAN : StartCharging(b, withTarget)
  \/ \E b \in Booking : StopCharging(b)
  \/ RecordTelemetry
  \/ FinishTargets
  \/ \E b \in Booking : Pay(b)
=============================================================================
