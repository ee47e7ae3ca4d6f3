------------------------------- MODULE TripStore -------------------------------
(***************************************************************************)
(* ChargePilotStore: the trips of the route-planning pilot, on a clock of  *)
(* its own.  The row of the clock is locked by every transaction, so that  *)
(* one runs at a time; it first catches up with the time that has passed   *)
(* (_synchronize: one batch of events per instant, in their order) and     *)
(* then obeys one command.  Nothing moves between two transactions.        *)
(*                                                                         *)
(* A transaction is a run of steps here, from idle through sync and        *)
(* command back to idle.  One that fails in the database is rolled back as *)
(* a whole, hence not there; a refused command keeps what was caught up.   *)
(*                                                                         *)
(* A recommendation makes at most one trip, which has its name.            *)
(***************************************************************************)
EXTENDS Integers, FiniteSets, FiniteSetsExt

CONSTANTS
  Trip, User, Station,
  NoUser, NoStation,
  Gratis,                   \* the stations whose price is zero
  Configs,                  \* the configurations the administrator chooses from
  OfferLife, Eta, Charge, Delay,   \* durations: of an offer, a ride, a full charge, the background
  DayLength,                \* the business day
  MaxCapacity, MaxTime      \* bounds on the catalog's capacities and on the clock

Config == [first : Nat, second : Nat, minimum : Nat, budget : Nat,
           callTimeout : Nat \ {0}, reservationTimeout : Nat \ {0}, eligibility : Nat \ {0}]

\* What an offer keeps of the configuration it was made under.
Terms == [first : Nat, second : Nat, minimum : Nat, eligibility : Nat \ {0}]
Frozen(c) == [first |-> c.first, second |-> c.second, minimum |-> c.minimum, eligibility |-> c.eligibility]

ASSUME TripAssumption ==
  /\ IsFiniteSet(Trip)
  /\ NoUser \notin User /\ NoStation \notin Station
  /\ Gratis \subseteq Station
  /\ Configs \subseteq Config
  /\ OfferLife \subseteq Nat \ {0}
  /\ Eta \subseteq Nat
  /\ Charge \subseteq Nat \ {0}
  /\ Delay \subseteq Nat \ {0}
  /\ DayLength \in Nat \ {0}
  /\ MaxCapacity \in Nat \ {0}
  /\ MaxTime \in Nat

VARIABLES
  clock, until, stage,      \* the instant reached, the one to reach, the transaction's stage
  config,
  capacity, background, release,
  owner, terms,             \* the offer: whose, under which conditions
  site, rewardEnds, reward, \* fixed when the offer is selected
  status, turn,
  ends,                     \* when the offer lapses, the user may arrive, the call or the
                            \* reservation lapses, the target is reached: by status
  start, served,            \* the charge, while it runs and when it has ended
  award, paidAt,            \* the ledger
  queueSequence

stationVars == <<capacity, background, release>>
offerVars == <<owner, terms>>
planVars == <<site, rewardEnds, reward>>
chargeVars == <<start, served>>
ledgerVars == <<award, paidAt>>
queueVars == <<turn, queueSequence>>
vars == <<clock, until, stage, config, stationVars, offerVars, planVars, status, ends,
          chargeVars, ledgerVars, queueVars>>

Allocated == {"CALLED", "RESERVED", "CHARGING"}
Active == {"EN_ROUTE", "QUEUED", "PENDING_PAYMENT"} \cup Allocated
Marked == {"OFFERED", "EN_ROUTE"} \cup Allocated
Status == {"absent", "OFFERED", "COMPLETED", "CANCELLED", "EXPIRED"} \cup Active

TypeOK ==
  /\ clock \in Nat /\ until \in Nat
  /\ stage \in {"idle", "sync", "command"}
  /\ config \in Configs
  /\ capacity \in [Station -> 1..MaxCapacity]
  /\ background \in [Station -> Nat]
  /\ release \in [Station -> Nat]
  /\ owner \in [Trip -> User \cup {NoUser}]
  /\ terms \in [Trip -> Terms]
  /\ site \in [Trip -> Station \cup {NoStation}]
  /\ rewardEnds \in [Trip -> Nat]
  /\ reward \in [Trip -> Nat]
  /\ status \in [Trip -> Status]
  /\ turn \in [Trip -> Nat]
  /\ ends \in [Trip -> Nat]
  /\ start \in [Trip -> Nat]
  /\ served \in [Trip -> Nat]
  /\ award \in [Trip -> Nat]
  /\ paidAt \in [Trip -> Nat]
  /\ queueSequence \in Nat

\* The baseline of the history occupies some chargers before the first user comes.
Init ==
  /\ clock = 0 /\ until = 0 /\ stage = "idle"
  /\ config \in Configs
  /\ capacity \in [Station -> 1..MaxCapacity]
  /\ background \in [Station -> 0..MaxCapacity]
  /\ \E delay \in Delay : release = [s \in Station |-> IF background[s] > 0 THEN delay ELSE 0]
  /\ \A s \in Station : background[s] <= capacity[s]
  /\ owner = [t \in Trip |-> NoUser]
  /\ terms = [t \in Trip |-> Frozen(config)]
  /\ site = [t \in Trip |-> NoStation]
  /\ rewardEnds = [t \in Trip |-> 0]
  /\ reward = [t \in Trip |-> 0]
  /\ status = [t \in Trip |-> "absent"]
  /\ turn = [t \in Trip |-> 0]
  /\ ends = [t \in Trip |-> 0]
  /\ start = [t \in Trip |-> 0]
  /\ served = [t \in Trip |-> 0]
  /\ award = [t \in Trip |-> 0]
  /\ paidAt = [t \in Trip |-> 0]
  /\ queueSequence = 0

-----------------------------------------------------------------------------
(* Chargers and the queue, for any statuses st, background bg, turns tn.   *)

At(s) == {t \in Trip : site[t] = s}
Taken(st, s) == Cardinality({t \in At(s) : st[t] \in Allocated})
FreeOf(st, bg, s) == capacity[s] - bg[s] - Taken(st, s)
Waiting(st, s) == {t \in At(s) : st[t] = "QUEUED"}
\* Mutant: the last comes first.
Behind(st, tn, t) == {u \in Waiting(st, site[t]) : tn[u] > tn[t]}
Ahead(st, tn, t) == {u \in Waiting(st, site[t]) : tn[u] < tn[t]}

\* Mutant: one call too many.
CallableOver(st, bg, tn) ==
  {t \in Trip : /\ st[t] = "QUEUED"
                /\ Cardinality(Ahead(st, tn, t)) <= FreeOf(st, bg, site[t])}
\* Those whose turn it is, as many as there are free chargers.
Callable(st, bg, tn) ==
  {t \in Trip : /\ st[t] = "QUEUED"
                /\ Cardinality(Ahead(st, tn, t)) < FreeOf(st, bg, site[t])}

\* They are called, until some time after at.  A deadline is cleared when the
\* status it belongs to is left.
Called(st, bg, tn) == [t \in Trip |-> IF t \in Callable(st, bg, tn) THEN "CALLED" ELSE st[t]]
Deadlines(st, bg, tn, dl, at) ==
  [t \in Trip |-> IF t \in Callable(st, bg, tn) THEN at + config.callTimeout
                  ELSE IF st[t] \in Marked THEN dl[t] ELSE 0]
Dispatch(st, bg, tn, dl, at) ==
  /\ status' = Called(st, bg, tn)
  /\ ends' = Deadlines(st, bg, tn, dl, at)

-----------------------------------------------------------------------------
(* Catching up.                                                            *)

Timed == {"EN_ROUTE", "QUEUED"} \cup Allocated
DueAt(t) == IF status[t] \in {"EN_ROUTE", "QUEUED"} THEN rewardEnds[t] ELSE ends[t]
\* Mutant: the last instant is left out.
DueTripsBefore(at) == {t \in Trip : status[t] \in Timed /\ DueAt(t) < at}
DueTrips(at) == {t \in Trip : status[t] \in Timed /\ DueAt(t) <= at}
DueStations(at) == {s \in Station : background[s] > 0 /\ release[s] <= at}
\* Mutant: everything happens when it is noticed.
InstantsNoticed == IF DueTrips(until) = {} /\ DueStations(until) = {} THEN {} ELSE {until}
Instants == {DueAt(t) : t \in DueTrips(until)} \cup {release[s] : s \in DueStations(until)}

\* Mutant: the queues are not looked at after a restart.
BeginStale(now) ==
  /\ stage = "idle"
  /\ now >= clock
  /\ stage' = "sync"
  /\ until' = now
  /\ UNCHANGED <<clock, config, stationVars, offerVars, planVars, status, ends, chargeVars, ledgerVars, queueVars>>

\* A transaction starts at some instant now; advancing the clock by hand is
\* one more transaction, at an instant the administrator chooses.
Begin(now) ==
  /\ stage = "idle"
  /\ now >= clock
  /\ stage' = "sync"
  /\ until' = now
  /\ Dispatch(status, background, turn, ends, clock)
  /\ UNCHANGED <<clock, config, stationVars, offerVars, planVars, chargeVars, ledgerVars, queueVars>>

\* What is due at the earliest instant happens at that instant.
Batch ==
  /\ stage = "sync"
  /\ \E at \in Instants :
       /\ \A i \in Instants : at <= i
       /\ clock' = at
       /\ LET full == {t \in DueTrips(at) : status[t] = "CHARGING"}
              st == [t \in Trip |-> IF t \in full THEN "PENDING_PAYMENT"
                                    ELSE IF t \in DueTrips(at) THEN "EXPIRED" ELSE status[t]]
          IN /\ background' = [s \in Station |-> IF s \in DueStations(at) THEN 0 ELSE background[s]]
             /\ release' = [s \in Station |-> IF s \in DueStations(at) THEN 0 ELSE release[s]]
             /\ served' = [t \in Trip |-> IF t \in full THEN at - start[t] ELSE served[t]]
             /\ start' = [t \in Trip |-> IF t \in full THEN 0 ELSE start[t]]
             /\ Dispatch(st, background', turn, ends, at)
  /\ UNCHANGED <<until, stage, config, capacity, offerVars, planVars, ledgerVars, queueVars>>

Settle ==
  /\ stage = "sync"
  /\ Instants = {}
  /\ clock' = until
  /\ stage' = "command"
  /\ UNCHANGED <<until, config, stationVars, offerVars, planVars, status, ends,
                 chargeVars, ledgerVars, queueVars>>

-----------------------------------------------------------------------------
(* Commands.  Each ends the transaction.                                   *)

\* A read, a retry that is answered from what is there, or a refusal.
Answer ==
  /\ stage = "command"
  /\ stage' = "idle"
  /\ UNCHANGED <<clock, until, config, stationVars, offerVars, planVars, status, ends,
                 chargeVars, ledgerVars, queueVars>>

\* save_recommendation: the offer freezes the rewards and conditions of now.
Offer(u, t, life) ==
  /\ stage = "command"
  /\ status[t] = "absent"
  /\ stage' = "idle"
  /\ owner' = [owner EXCEPT ![t] = u]
  /\ terms' = [terms EXCEPT ![t] = Frozen(config)]
  /\ ends' = [ends EXCEPT ![t] = clock + life]
  /\ status' = [status EXCEPT ![t] = "OFFERED"]
  /\ UNCHANGED <<clock, until, config, stationVars, planVars, chargeVars, ledgerVars, queueVars>>

ActiveTrips(u) == {t \in Trip : owner[t] = u /\ status[t] \in Active}

\* Half of n, the nearest integer and of two the even one.
Halved(n) == IF n % 4 = 1 THEN n \div 2 ELSE (n + 1) \div 2

\* The points depend on the station's rank in the offer and on its multiplier: a half, one or two.
Select(u, t, s, eta) ==
  /\ stage = "command"
  /\ owner[t] = u
  /\ status[t] = "OFFERED"
  /\ clock < ends[t]
  /\ ActiveTrips(u) = {}
  /\ stage' = "idle"
  /\ site' = [site EXCEPT ![t] = s]
  /\ ends' = [ends EXCEPT ![t] = clock + eta]
  /\ rewardEnds' = [rewardEnds EXCEPT ![t] = clock + terms[t].eligibility]
  /\ \E prize \in {0, terms[t].first, terms[t].second}, halves \in {1, 2, 4} :
       reward' = [reward EXCEPT ![t] = Halved(prize * halves)]
  /\ status' = [status EXCEPT ![t] = "EN_ROUTE"]
  /\ UNCHANGED <<clock, until, config, stationVars, offerVars, chargeVars, ledgerVars, queueVars>>

\* act: the trip t, in status from, is in status to until the given instant;
\* then the queues are looked at again.
Act(t, from, to, deadline, tn) ==
  /\ stage = "command"
  /\ status[t] = from
  /\ stage' = "idle"
  /\ Dispatch([status EXCEPT ![t] = to], background, tn, [ends EXCEPT ![t] = deadline], clock)
  /\ UNCHANGED <<clock, until, config, stationVars, offerVars, planVars>>

\* Mutant: the sequence does not advance.
SameTurn == queueSequence
NextTurn == queueSequence + 1

Arrive(t) ==
  /\ status[t] = "EN_ROUTE"
  /\ clock >= ends[t]
  /\ \/ /\ FreeOf(status, background, site[t]) > 0
        /\ Waiting(status, site[t]) = {}
        /\ Act(t, "EN_ROUTE", "RESERVED", clock + config.reservationTimeout, turn)
        /\ UNCHANGED <<chargeVars, ledgerVars, queueVars>>
     \/ /\ FreeOf(status, background, site[t]) <= 0 \/ Waiting(status, site[t]) # {}
        /\ queueSequence' = NextTurn
        /\ turn' = [turn EXCEPT ![t] = NextTurn]
        /\ Act(t, "EN_ROUTE", "QUEUED", 0, turn')
        /\ UNCHANGED <<chargeVars, ledgerVars>>

Confirm(t) ==
  /\ Act(t, "CALLED", "RESERVED", clock + config.reservationTimeout, turn)
  /\ UNCHANGED <<chargeVars, ledgerVars, queueVars>>

\* The offer's energy at the station's power takes some time to charge.
Start(t, charge) ==
  /\ Act(t, "RESERVED", "CHARGING", clock + charge, turn)
  /\ start' = [start EXCEPT ![t] = clock]
  /\ UNCHANGED <<served, ledgerVars, queueVars>>

Stop(t) ==
  /\ Act(t, "CHARGING", "PENDING_PAYMENT", 0, turn)
  /\ served' = [served EXCEPT ![t] = clock - start[t]]
  /\ start' = [start EXCEPT ![t] = 0]
  /\ UNCHANGED <<ledgerVars, queueVars>>

Cancel(t) ==
  /\ \E from \in {"EN_ROUTE", "QUEUED", "CALLED", "RESERVED"} : Act(t, from, "CANCELLED", 0, turn)
  /\ UNCHANGED <<chargeVars, ledgerVars, queueVars>>

Day(at) == at \div DayLength
Awarded(day, points, at) == MapThenSumSet(LAMBDA t : points[t], {t \in Trip : points[t] > 0 /\ Day(at[t]) = day})
\* Mutant: what was awarded before is forgotten.
RemainingAlways == config.budget
Remaining == IF config.budget > Awarded(Day(clock), award, paidAt)
             THEN config.budget - Awarded(Day(clock), award, paidAt) ELSE 0

\* Positive payment, long enough, in time.
Deserved(t) ==
  /\ site[t] \notin Gratis /\ served[t] > 0
  /\ served[t] >= terms[t].minimum
  /\ clock < rewardEnds[t]

Pay(t) ==
  /\ Act(t, "PENDING_PAYMENT", "COMPLETED", 0, turn)
  /\ \E points \in 0..reward[t] :
       /\ points = IF ~Deserved(t) THEN 0 ELSE IF reward[t] < Remaining THEN reward[t] ELSE Remaining
       /\ award' = [award EXCEPT ![t] = points]
       /\ paidAt' = [paidAt EXCEPT ![t] = IF points > 0 THEN clock ELSE 0]
  /\ UNCHANGED <<chargeVars, queueVars>>

SetBackground(s, n, delay) ==
  /\ stage = "command"
  /\ n <= capacity[s] - Taken(status, s)
  /\ stage' = "idle"
  /\ background' = [background EXCEPT ![s] = n]
  /\ release' = [release EXCEPT ![s] = IF n > 0 THEN clock + delay ELSE 0]
  /\ Dispatch(status, background', turn, ends, clock)
  /\ UNCHANGED <<clock, until, config, capacity, offerVars, planVars, chargeVars, ledgerVars, queueVars>>

Configure(c) ==
  /\ stage = "command"
  /\ stage' = "idle"
  /\ config' = c
  /\ UNCHANGED <<clock, until, stationVars, offerVars, planVars, status, ends,
                 chargeVars, ledgerVars, queueVars>>

\* initialize: a restart reads the catalog again.  No one is called.
Reload(s, n) ==
  /\ stage = "idle"
  /\ n >= background[s] + Taken(status, s)
  /\ capacity' = [capacity EXCEPT ![s] = n]
  /\ UNCHANGED <<clock, until, stage, config, background, release, offerVars, planVars,
                 status, ends, chargeVars, ledgerVars, queueVars>>

-----------------------------------------------------------------------------

Catch == (\E now \in 0..MaxTime : Begin(now)) \/ Batch \/ Settle

Travel ==
  \/ \E u \in User, t \in Trip : \/ \E life \in OfferLife : Offer(u, t, life)
                                 \/ \E s \in Station, eta \in Eta : Select(u, t, s, eta)
  \/ \E t \in Trip : \/ Arrive(t) \/ Confirm(t) \/ Stop(t) \/ Cancel(t) \/ Pay(t)
                     \/ \E charge \in Charge : Start(t, charge)

Manage ==
  \/ \E s \in Station : \/ \E n \in 0..MaxCapacity, delay \in Delay : SetBackground(s, n, delay)
                        \/ \E n \in 1..MaxCapacity : Reload(s, n)
  \/ \E c \in Configs : Configure(c)

Next == Catch \/ Answer \/ Travel \/ Manage

Spec == Init /\ [][Next]_vars

-----------------------------------------------------------------------------
(* Properties.                                                             *)

\* Whatever the clock jumps over, nothing whose time has come is left: every
\* call, reservation, charge, waiting right and background still has time to go.
NothingLate ==
  /\ \A t \in Trip : status[t] \in Timed => DueAt(t) > clock
  /\ \A s \in Station : background[s] > 0 => release[s] > clock

\* A station never has more cars on chargers, called or reserved, together
\* with its background, than it has chargers.
NeverOverbooked == \A s \in Station : FreeOf(status, background, s) >= 0

\* Within a transaction no one is waiting at a station with a free charger:
\* whatever freed it (a timeout, a full battery, a larger catalog) has called.
NobodyWaitsInVain ==
  stage # "idle" => \A t \in Trip : status[t] = "QUEUED" => FreeOf(status, background, site[t]) <= 0

\* A user has one trip under way at most; one not yet paid counts.
OneTripPerUser ==
  \A t, v \in Trip : status[t] \in Active /\ status[v] \in Active /\ owner[t] = owner[v] => t = v

\* The inductive invariant: trips under way are at a station, those that wait
\* there have distinct turns, and time only passes.
Placed == \A t \in Trip : status[t] \in Active => site[t] \in Station
TurnsDistinct ==
  /\ \A t \in Trip : turn[t] <= queueSequence
  /\ \A t, v \in Trip : status[t] = "QUEUED" /\ status[v] = "QUEUED" /\ turn[t] = turn[v] => t = v
Passing == clock <= until /\ \A t \in Trip : start[t] <= clock
IInv == TypeOK /\ Passing /\ Placed /\ TurnsDistinct /\ NothingLate /\ OneTripPerUser /\ NeverOverbooked

\* No one is called, or arrives to a charger, past someone who waits at the
\* station and goes on waiting.
FirstInFirstOut ==
  [][\A t, v \in Trip :
       /\ status[v] = "QUEUED" /\ status'[v] = "QUEUED" /\ site[t] = site[v]
       /\ status[t] \notin Allocated /\ status'[t] \in Allocated
       => status[t] = "QUEUED" /\ turn[t] < turn[v]]_vars

Enters(t, to) == status[t] # to /\ status'[t] = to

\* What ends by itself ends at its very instant, even when many instants are
\* caught up with in one transaction; and a call counts from the instant it is made.
EffectsInTime ==
  [][\A t \in Trip :
       /\ Enters(t, "EXPIRED") => clock' = DueAt(t)
       /\ Enters(t, "PENDING_PAYMENT") /\ stage = "sync" =>
            clock' = ends[t] /\ served'[t] = ends[t] - start[t]
       /\ Enters(t, "CALLED") => ends'[t] = clock' + config.callTimeout]_vars

\* A payment never takes the day's awards over the budget in force.
BudgetKept ==
  [][\A d \in 0..Day(MaxTime) :
       Awarded(d, award', paidAt') > Awarded(d, award, paidAt) => Awarded(d, award', paidAt') <= config.budget]_vars
=============================================================================
