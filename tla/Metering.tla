------------------------------- MODULE Metering -------------------------------
(***************************************************************************)
(* The meter of a charging order: charging_service.cpp samples it from the *)
(* wall clock on every status request, on every pass of the maintenance    *)
(* timer when the order has a target, and when the user stops it;          *)
(* billing_service.cpp and charging_target_repository.cpp compute the      *)
(* sample, charging_repository.cpp checks and stores it.                   *)
(*                                                                         *)
(* The maintenance pass stands before every request of every client: a     *)
(* sample that cannot be stored locks everybody out.                       *)
(*                                                                         *)
(* Orders are metered independently of each other: this is one of them.    *)
(***************************************************************************)
EXTENDS Integers

CONSTANTS
  Maximum,    \* the largest integer JSON carries safely
  Word,       \* the largest qint64
  Tariff,     \* the powers (W) and prices (cents per kWh) considered
  Target,     \* the targets considered
  MaxStart,   \* bound: the last second an order starts in
  MaxTime,    \* bound: seconds of wall clock
  MaxSlips    \* bound: times the wall clock is set back

NoTarget == [type |-> "NONE", value |-> 0]

ASSUME MeteringAssumption ==
  /\ {Maximum, Word, MaxStart, MaxTime, MaxSlips} \subseteq Nat
  /\ 1000 * Maximum + 1000 <= Word       \* thousandths of cents fit into a word
  /\ Tariff \subseteq [power : Nat \ {0}, price : 0..Maximum]
  /\ Target \subseteq [type : {"AMOUNT", "ENERGY", "DURATION"}, value : Nat \ {0}]

-----------------------------------------------------------------------------
(* Fees.                                                                   *)

Failed == -1

Least(a, b) == IF a <= b THEN a ELSE b

\* calculateEnergyFeeCents: cents for so many Wh, rounded half up.
Fee(wh, price) ==
  LET whole == (wh \div 1000) * price
      fraction == ((wh % 1000) * price + 500) \div 1000
  IN  IF wh \in 0..Maximum /\ whole + fraction <= Maximum THEN whole + fraction ELSE Failed

\* BillingService::calculate, for orders without a target.
Billed(power, seconds, price) ==
  LET wh == (power * seconds) \div 3600
      cents == (wh * price + 500) \div 1000
      fits == /\ power * seconds <= Word
              /\ wh <= Maximum
              /\ wh * price + 500 <= Word
              /\ cents <= Maximum
  IN  [ok |-> fits, reached |-> FALSE, duration |-> seconds, energy |-> wh, amount |-> cents]

\* mulDiv: a * b \div d without a product that overflows, saturating.
MulDiv(a, b, d) ==
  LET whole == a \div d
      rest == ((a % d) * b) \div d
  IN  IF whole > Maximum \div b THEN Maximum ELSE Least(Maximum, whole * b + rest)

\* Mutant: the first Wh that reaches the budget, even when it overshoots it.
Overshooting(wh, budget, price) == wh

\* One Wh less when the budget does not suffice for it.
Affordable(wh, budget, price) ==
  IF Fee(wh, price) \in 0..budget \/ wh = 0 THEN wh ELSE wh - 1

\* firstBudgetWh: binary search for the energy that uses a budget up.
BudgetWh(budget, price) ==
  LET search[range \in (0..Maximum) \X (0..Maximum)] ==
        LET low == range[1]
            high == range[2]
            middle == low + (high - low) \div 2
        IN  CASE low = high -> Affordable(low, budget, price)
              [] low < high /\ Fee(middle, price) \in 0..(budget - 1) -> search[<<middle + 1, high>>]
              [] OTHER -> search[<<low, middle>>]
  IN  search[<<0, Maximum>>]

-----------------------------------------------------------------------------
(* Samples.                                                                *)

\* The seconds in which so many Wh flow, the last one counted in full.
SecondsFor(wh, power) ==
  MulDiv(wh, 3600, power) + (IF ((wh % power) * 3600) % power > 0 THEN 1 ELSE 0)

\* Mutant: what has flowed is not cut off at the limit.
Uncapped(flowed, limit) == flowed

Capped(flowed, limit) == Least(flowed, limit)

\* calculateTargetSample.
TargetSample(power, seconds, price, t) ==
  LET limit == IF t.type = "ENERGY" THEN t.value ELSE BudgetWh(t.value, price)
      flowed == MulDiv(seconds, power, 3600)
      timed == t.type = "DURATION"
      reached == IF timed THEN seconds >= t.value ELSE flowed >= limit
      duration == IF timed THEN Capped(seconds, t.value)
                  ELSE IF reached THEN Least(seconds, SecondsFor(limit, power)) ELSE seconds
      wh == IF timed THEN MulDiv(duration, power, 3600) ELSE Capped(flowed, limit)
      cents == Fee(wh, price)
  IN  [ok |-> /\ seconds <= Maximum
              /\ t.type = "AMOUNT" => price > 0 /\ cents <= t.value
              /\ cents # Failed,
       reached |-> reached, duration |-> duration, energy |-> wh, amount |-> cents]

-----------------------------------------------------------------------------
VARIABLES
  now,        \* the wall clock, in seconds
  slips,      \* how often it was set back
  tariff,     \* the charger's power and the order's price snapshot
  target,     \* order_charge_targets
  status,     \* orders.status
  startedAt,  \* orders.started_at
  capturedAt, \* orders.telemetry_captured_at
  duration,   \* orders.duration_seconds
  energy,     \* orders.energy_wh
  amount,     \* orders.amount_cents
  reason      \* orders.stop_reason

meterVars == <<capturedAt, duration, energy, amount>>
vars == <<now, slips, tariff, target, status, startedAt, meterVars, reason>>

TypeOK ==
  /\ now \in 0..MaxTime /\ slips \in 0..MaxSlips
  /\ tariff \in Tariff
  /\ target \in Target \cup {NoTarget}
  /\ status \in {"RESERVED", "CHARGING", "WAITING_PAYMENT"}
  /\ startedAt \in 0..MaxTime /\ capturedAt \in 0..MaxTime
  /\ duration \in 0..Maximum /\ energy \in 0..Maximum /\ amount \in 0..Maximum
  /\ reason \in {"", "MANUAL", "TARGET_AMOUNT", "TARGET_ENERGY", "TARGET_DURATION"}

Init ==
  /\ now = 0 /\ slips = 0
  /\ tariff \in Tariff
  /\ target = NoTarget
  /\ status = "RESERVED"
  /\ startedAt = 0 /\ capturedAt = 0
  /\ duration = 0 /\ energy = 0 /\ amount = 0
  /\ reason = ""

\* startCharging; a free charger has no use for a budget.
Start(t) ==
  /\ status = "RESERVED" /\ now <= MaxStart
  /\ ~(t.type = "AMOUNT" /\ tariff.price = 0)
  /\ status' = "CHARGING"
  /\ target' = t
  /\ startedAt' = now
  /\ capturedAt' = now
  /\ UNCHANGED <<now, slips, tariff, duration, energy, amount, reason>>

\* The sample of an order that has charged for so long; sampleCharging takes
\* the one of now.
SampleAt(seconds) ==
  IF target = NoTarget
    THEN Billed(tariff.power, seconds, tariff.price)
    ELSE TargetSample(tariff.power, seconds, tariff.price, target)
SampleNow == SampleAt(now - startedAt)

\* The checks of recordTelemetry and stopCharging: the sample is not older
\* than the last one, the meter does not run back, and the amount is what
\* the energy costs.
Storable(s) ==
  /\ startedAt <= now
  /\ s.ok
  /\ {s.duration, s.energy, s.amount} \subseteq 0..Maximum
  /\ s.amount = Fee(s.energy, tariff.price)
  /\ capturedAt <= now
  /\ duration <= s.duration
  /\ energy <= s.energy

\* The name of the target, as the reason of a stop.
TargetReason ==
  CASE target.type = "AMOUNT" -> "TARGET_AMOUNT"
    [] target.type = "ENERGY" -> "TARGET_ENERGY"
    [] OTHER -> "TARGET_DURATION"

\* sampleCharging: store a sample, and stop when the user or the target says
\* so.
Sampled(s, manual) ==
  /\ Storable(s)
  /\ capturedAt' = now
  /\ duration' = s.duration
  /\ energy' = s.energy
  /\ amount' = s.amount
  /\ IF manual \/ s.reached
       THEN /\ status' = "WAITING_PAYMENT"
            /\ reason' = IF s.reached THEN TargetReason ELSE "MANUAL"
       ELSE UNCHANGED <<status, reason>>
  /\ UNCHANGED <<now, slips, tariff, target, startedAt>>

\* GET_CHARGING_STATUS.
Poll == status = "CHARGING" /\ \E s \in {SampleNow} : Sampled(s, FALSE)

\* advanceTargets, on every pass of the maintenance.
Pass == target # NoTarget /\ Poll

\* STOP_CHARGING; repeating it changes nothing.
Stop ==
  \/ status = "CHARGING" /\ \E s \in {SampleNow} : Sampled(s, TRUE)
  \/ status = "WAITING_PAYMENT" /\ UNCHANGED vars

\* The clock of the server's host.
Tick ==
  /\ now < MaxTime
  /\ now' = now + 1
  /\ UNCHANGED <<slips, tariff, target, status, startedAt, meterVars, reason>>

SetBack ==
  /\ slips < MaxSlips
  /\ slips' = slips + 1
  /\ now' \in 0..now
  /\ UNCHANGED <<tariff, target, status, startedAt, meterVars, reason>>

Next ==
  \/ \E t \in Target \cup {NoTarget} : Start(t)
  \/ Poll
  \/ Pass
  \/ Stop
  \/ Tick
  \/ SetBack

Spec == Init /\ [][Next]_vars

\* The clock runs, and the timer keeps passing.
FairSpec == Spec /\ WF_vars(Tick) /\ WF_vars(Pass)

-----------------------------------------------------------------------------
\* The energy, the time or the amount used of the target.
Used == CASE target.type = "ENERGY" -> energy
          [] target.type = "DURATION" -> duration
          [] target.type = "AMOUNT" -> amount
          [] OTHER -> 0

\* An order stays within its target at every moment, though it is sampled
\* late or not at all for a while.
WithinTarget == Used <= target.value

\* And one that was stopped for its target got all of it: what was asked
\* for, or for a budget all but less than the next Wh would cost.
TargetKept ==
  /\ WithinTarget
  /\ reason \notin {"", "MANUAL"} =>
       Used = target.value \/ (target.type = "AMOUNT" /\ Fee(energy + 1, tariff.price) > target.value)

\* As long as the clock is not behind what it has shown, the next sample can
\* be stored, whether it records or stops: the maintenance is not held up by
\* a target, and the user can always stop.
MeterNeverBlocked ==
  status = "CHARGING" /\ capturedAt <= now => \A s \in {SampleNow} : Storable(s)

\* What the proofs need: the amount is the fee of the energy, from the start;
\* the meter shows nothing yet or the sample of the moment it was last read;
\* and only an order that has ended has a reason.
Metered ==
  \/ duration = 0 /\ energy = 0
  \/ LET s == SampleAt(capturedAt - startedAt) IN duration = s.duration /\ energy = s.energy
Started == startedAt <= capturedAt
Priced == target.type = "AMOUNT" => tariff.price > 0
IInv ==
  /\ TypeOK
  /\ WithinTarget
  /\ amount = Fee(energy, tariff.price)
  /\ Started
  /\ Priced
  /\ status = "RESERVED" => duration = 0 /\ energy = 0
  /\ status = "CHARGING" => Metered
  /\ status # "WAITING_PAYMENT" => reason = ""

\* What TargetKept and MeterNeverBlocked need of the constants: all that a
\* charger delivers before the clock ends, and a Wh more, can be billed.
Fits ==
  /\ MaxTime <= Maximum
  /\ \A f \in Tariff :
       LET most == (f.power * MaxTime) \div 3600
       IN  f.power * MaxTime <= Word /\ most < Maximum /\ Fee(most + 1, f.price) # Failed

\* An order with a target ends by itself, whether or not its client is there,
\* and though the clock was set back.
TargetsEnd == (status = "CHARGING" /\ target # NoTarget) ~> status = "WAITING_PAYMENT"
=============================================================================
