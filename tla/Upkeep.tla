-------------------------------- MODULE Upkeep --------------------------------
(***************************************************************************)
(* What administrators do to users, stations and chargers, and the repair  *)
(* reports users file (AdminRepository, AdminChargerExtensions,            *)
(* RepairRepository).  Each action is one transaction of a request that    *)
(* passed the round of maintenance before it.                              *)
(*                                                                         *)
(* A stale form (expectedUpdatedAt) and a reused operationId refuse or     *)
(* replay the request and change no row.                                   *)
(***************************************************************************)
EXTENDS PlatformStore

Handled == stage = "handler" /\ stage' = "idle"

SubmitReport(u, c) ==
  /\ Handled
  /\ userStatus[u] = "ACTIVE"
  /\ report[<<u, c>>] = "NONE"
  /\ report' = [report EXCEPT ![<<u, c>>] = "SUBMITTED"]
  /\ UNCHANGED <<chargerStatus, bookingVars, queueVars, userStatus, stationStatus, exceptions>>

\* accept and start: either takes the charger out of service.
AdvanceReport(u, c) ==
  /\ Handled
  /\ ~Busy(c)
  /\ \/ report[<<u, c>>] = "SUBMITTED" /\ report' = [report EXCEPT ![<<u, c>>] = "ACCEPTED"]
     \/ report[<<u, c>>] = "ACCEPTED"  /\ report' = [report EXCEPT ![<<u, c>>] = "PROCESSING"]
  /\ chargerStatus' = [chargerStatus EXCEPT ![c] = "OFFLINE"]
  /\ UNCHANGED <<bookingVars, queueVars, userStatus, stationStatus, exceptions>>

ResolveReport(u, c) ==
  /\ Handled
  /\ ~Busy(c)
  /\ report[<<u, c>>] = "PROCESSING"
  /\ report' = [report EXCEPT ![<<u, c>>] = "NONE"]
  /\ LET otherRepair == \E v \in Reporter \ {u} : report[<<v, c>>] \in {"ACCEPTED", "PROCESSING"}
     IN  chargerStatus' =
           [chargerStatus EXCEPT ![c] =
              IF ~otherRepair /\ exceptions[c] = 0 /\ Open(c) THEN "AVAILABLE" ELSE @]
  /\ UNCHANGED <<bookingVars, queueVars, userStatus, stationStatus, exceptions>>

\* Status and restart commands leave a charger under repair or in use alone.
\* Mutants: one of the two is not checked.
ServiceableInUse(c) == ~UnderRepair(c)
ServiceableUnderRepair(c) == ~Busy(c)

Serviceable(c) == ~UnderRepair(c) /\ ~Busy(c)

\* charger.status: marking a charger FAULT or OFFLINE opens an exception
\* when its status really changes.
TakeOut(c, status) ==
  /\ Handled
  /\ Serviceable(c)
  /\ chargerStatus[c] # status
  /\ exceptions[c] < MaxExceptions
  /\ chargerStatus' = [chargerStatus EXCEPT ![c] = status]
  /\ exceptions' = [exceptions EXCEPT ![c] = @ + 1]
  /\ UNCHANGED <<bookingVars, queueVars, userStatus, stationStatus, report>>

Restart(c) ==
  /\ Handled
  /\ Serviceable(c)
  /\ exceptions[c] = 0
  /\ Open(c)
  /\ chargerStatus' = [chargerStatus EXCEPT ![c] = "AVAILABLE"]
  /\ UNCHANGED <<bookingVars, queueVars, upkeepVars>>

\* charger_exceptions.recover: the last open exception restores the charger.
Recoverable(c) == exceptions[c] > 0 /\ Serviceable(c) /\ Open(c)

RecoverException(c) ==
  /\ Handled
  /\ Recoverable(c)
  /\ exceptions' = [exceptions EXCEPT ![c] = @ - 1]
  /\ chargerStatus' = [chargerStatus EXCEPT ![c] = IF exceptions[c] = 1 THEN "AVAILABLE" ELSE @]
  /\ UNCHANGED <<bookingVars, queueVars, userStatus, stationStatus, report>>

SetStation(s, status) ==
  /\ Handled
  /\ status = "INACTIVE" => \A c \in Charger : StationOf[c] = s => ~Busy(c)
  /\ stationStatus' = [stationStatus EXCEPT ![s] = status]
  /\ UNCHANGED <<chargerStatus, bookingVars, queueVars, userStatus, report, exceptions>>

SetUser(u, status) ==
  /\ Handled
  /\ status = "FROZEN" =>
       /\ ~HasUnfinishedOrder(u)
       /\ \A b \in Booking : bookedBy[b] = u => reservation[b] # "ACTIVE"
  /\ userStatus' = [userStatus EXCEPT ![u] = status]
  /\ UNCHANGED <<chargerStatus, bookingVars, queueVars, stationStatus, report, exceptions>>

UpkeepNext ==
  \/ \E u \in Reporter, c \in Charger :
       SubmitReport(u, c) \/ AdvanceReport(u, c) \/ ResolveReport(u, c)
  \/ \E c \in Charger, status \in {"FAULT", "OFFLINE"} : TakeOut(c, status)
  \/ \E c \in Charger : Restart(c) \/ RecoverException(c)
  \/ \E s \in Station, status \in OperatingStatus : SetStation(s, status)
  \/ \E u \in User, status \in AccountStatus : SetUser(u, status)
=============================================================================
