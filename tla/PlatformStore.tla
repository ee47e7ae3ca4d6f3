---------------------------- MODULE PlatformStore ----------------------------
(***************************************************************************)
(* The SQLite tables the charging workflow is decided on, and the point    *)
(* the single service thread has reached in the request it is serving.     *)
(*                                                                         *)
(* A table is a family of functions from row identifiers to columns.  A    *)
(* row that was not inserted yet has status "NONE".  A reservation and its *)
(* order are inserted together and share the identifier b \in Booking.     *)
(* A deadline is kept as what the code asks of it, whether it has passed,  *)
(* and while it asks: holdOver is an ACTIVE row with expires_at <= now,    *)
(* callOver a CALLED row with call_expires_at <= now, target a CHARGING    *)
(* order with a row in order_charge_targets.                               *)
(***************************************************************************)
EXTENDS Integers, FiniteSets

CONSTANTS
  User, Charger, Station,   \* registered users, chargers, stations
  StationOf,                \* chargers.station_id
  None,                     \* SQL NULL
  Booking,                  \* identifiers of reservations and orders (bound)
  MaxEntry,                 \* number of queue entries ever inserted (bound)
  Reporter,                 \* the users who file repair reports (bound)
  MaxExceptions             \* open exceptions per charger (bound)

ASSUME StoreAssumption ==
  /\ StationOf \in [Charger -> Station]
  /\ None \notin User \cup Charger
  /\ MaxEntry \in Nat
  /\ Reporter \subseteq User
  /\ MaxExceptions \in Nat

VARIABLES
  userStatus,               \* users.status
  stationStatus,            \* stations.status
  chargerStatus,            \* chargers.status
  reservation, order,       \* reservations.status, orders.status
  bookedBy, bookedOn,       \* user_id and charger_id, the same in both rows
  holdOver,                 \* has reservations.expires_at passed
  target,                   \* does the charge stop by itself
  queue,                    \* queue_entries.status
  queuedBy, queuedFor,      \* queue_entries.user_id, charger_id
  callOver,                 \* has queue_entries.call_expires_at passed
  report,                   \* the unresolved repair report of a user on a charger
  exceptions,               \* number of charger_exceptions rows not RECOVERED
  stage                     \* the transaction the service thread runs next

bookingVars == <<reservation, order, bookedBy, bookedOn, holdOver, target>>
queueVars   == <<queue, queuedBy, queuedFor, callOver>>
upkeepVars  == <<userStatus, stationStatus, report, exceptions>>
vars == <<chargerStatus, bookingVars, queueVars, upkeepVars, stage>>

Entry == 1..MaxEntry        \* in insertion order, the primary key of the table

AccountStatus     == {"ACTIVE", "FROZEN"}
OperatingStatus   == {"ACTIVE", "INACTIVE"}
ChargerStatus     == {"AVAILABLE", "RESERVED", "CHARGING", "FAULT", "OFFLINE"}
ReservationStatus == {"NONE", "ACTIVE", "FULFILLED", "CANCELLED", "EXPIRED"}
OrderStatus       == {"NONE", "RESERVED", "CHARGING", "WAITING_PAYMENT",
                      "COMPLETED", "CANCELLED"}
QueueStatus       == {"NONE", "WAITING", "CALLED", "CONFIRMED", "LEFT", "EXPIRED"}
ReportStatus      == {"NONE", "SUBMITTED", "ACCEPTED", "PROCESSING"}
Stage             == {"idle", "targets", "sampling", "calls", "handler",
                      "workflow", "queueing", "confirming", "requeue"}

Unfinished == {"RESERVED", "CHARGING", "WAITING_PAYMENT"}
InQueue    == {"WAITING", "CALLED"}

TypeOK ==
  /\ userStatus \in [User -> AccountStatus]
  /\ stationStatus \in [Station -> OperatingStatus]
  /\ chargerStatus \in [Charger -> ChargerStatus]
  /\ reservation \in [Booking -> ReservationStatus]
  /\ order \in [Booking -> OrderStatus]
  /\ bookedBy \in [Booking -> User \cup {None}]
  /\ bookedOn \in [Booking -> Charger \cup {None}]
  /\ holdOver \in [Booking -> BOOLEAN]
  /\ target \in [Booking -> BOOLEAN]
  /\ queue \in [Entry -> QueueStatus]
  /\ queuedBy \in [Entry -> User \cup {None}]
  /\ queuedFor \in [Entry -> Charger \cup {None}]
  /\ callOver \in [Entry -> BOOLEAN]
  /\ report \in [Reporter \X Charger -> ReportStatus]
  /\ exceptions \in [Charger -> 0..MaxExceptions]
  /\ stage \in Stage

-----------------------------------------------------------------------------
(* The conditions the repositories share.                                  *)

\* Mutant: an unpaid order is forgotten.
HasOrderInProgress(u) ==
  \E b \in Booking : bookedBy[b] = u /\ order[b] \in {"RESERVED", "CHARGING"}

HasUnfinishedOrder(u) ==
  \E b \in Booking : bookedBy[b] = u /\ order[b] \in Unfinished

ActiveReservationOn(c) ==
  \E b \in Booking : bookedOn[b] = c /\ reservation[b] = "ACTIVE"

OrderOn(c, statuses) ==
  \E b \in Booking : bookedOn[b] = c /\ order[b] \in statuses

Queued(u) == \E e \in Entry : queuedBy[e] = u /\ queue[e] \in InQueue

QueueFor(c) == {e \in Entry : queuedFor[e] = c /\ queue[e] \in InQueue}

UnderRepair(c) ==
  \E u \in Reporter : report[<<u, c>>] \in {"ACCEPTED", "PROCESSING"}

Blocked(c) == UnderRepair(c) \/ exceptions[c] > 0

Open(c) == stationStatus[StationOf[c]] = "ACTIVE"

\* Mutants: the hold of a called user, and a booking before its charge, are
\* forgotten.
BusyByBooking(c) == ActiveReservationOn(c) \/ OrderOn(c, {"RESERVED", "CHARGING"})
BusyCharging(c) == OrderOn(c, {"CHARGING"})

Busy(c) ==
  \/ chargerStatus[c] \in {"RESERVED", "CHARGING"}
  \/ ActiveReservationOn(c)
  \/ OrderOn(c, {"RESERVED", "CHARGING"})

Init ==
  /\ userStatus = [u \in User |-> "ACTIVE"]
  /\ stationStatus = [s \in Station |-> "ACTIVE"]
  /\ chargerStatus = [c \in Charger |-> "AVAILABLE"]
  /\ reservation = [b \in Booking |-> "NONE"]
  /\ order = [b \in Booking |-> "NONE"]
  /\ bookedBy = [b \in Booking |-> None]
  /\ bookedOn = [b \in Booking |-> None]
  /\ holdOver = [b \in Booking |-> FALSE]
  /\ target = [b \in Booking |-> FALSE]
  /\ queue = [e \in Entry |-> "NONE"]
  /\ queuedBy = [e \in Entry |-> None]
  /\ queuedFor = [e \in Entry |-> None]
  /\ callOver = [e \in Entry |-> FALSE]
  /\ report = [r \in Reporter \X Charger |-> "NONE"]
  /\ exceptions = [c \in Charger |-> 0]
  /\ stage = "idle"
=============================================================================
