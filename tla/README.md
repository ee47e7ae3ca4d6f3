# A specification of the charging platform

TLA+ modules for the Qt charging platform in this repository: the service that
books, charges, meters, queues, repairs and administers chargers, the money and
points of its users, the administrator's channel and forms, what the client
makes of answers and notices, and the trips of the route-planning pilot
ChargePilot.  The modules are checked with TLC on small instances and, where
marked, proved with TLAPS for all instances.

## 1. The system

The server is one process.  A GUI thread shows the administrator's pages; one
worker thread (`ServerThread::run`, `server/network/server_runtime.cpp`) owns
the only SQLite connection, the TCP server for the clients and every service.
All state that matters is in the tables of `database/schema.sql`.

| Component | State | Operations | Hard behaviour |
| --- | --- | --- | --- |
| Reservation and charging (`charging_repository.cpp`, `charging_service.cpp`) | `reservations`, `orders`, `chargers.status`, `order_charge_targets` | reserve, cancel, start, sample, stop, expire | three rows that must agree; a sweep that is all or nothing and stands before every request; targets that stop a charge from the timer |
| Payment (`order_repository.cpp`) | `orders`, `users.balance_cents`, points | pay | an unpaid order blocks the user elsewhere; repeated requests |
| Waiting queue (`queue_repository.cpp`) | `queue_entries`, `chargers.status` | join, leave, confirm, the queue pass | a call holds a charger with no reservation behind it and has one minute; order; who overtakes |
| Repairs (`repair_repository.cpp`) | `repair_reports`, `chargers.status` | submit, accept, start, resolve | one of several ways to put a charger back in service |
| Administration (`admin_repository.cpp`, `admin_charger_extensions.cpp`) | `chargers`, `stations`, `users`, `charger_exceptions` | status, restart, recover, station and user status | changes under running business |
| Maintenance and dispatch (`server_runtime.cpp`, `request_dispatcher.cpp`) | the progress of a round | sweep, samples, pass, then the request | several transactions with time and crashes between them |
| Administrator's pages (`charger_management_page.cpp`, `workflow_management_page.cpp`, `station_management_page.cpp`) | forms, the command whose outcome is unknown | submit, repeat, receive, log out | answers that never come, versions from a clock, administrators who change |
| Administrator's gateway (`admin_request_gateway.cpp`, `admin_service.cpp`) | pending requests, token, generation; sessions | request, login, logout, timeout, receive, close | late, superseded and duplicate answers, lost sessions |
| Billing (`billing_service.cpp`, `charging_target_repository.cpp`) | none | fee, target to energy | 64-bit limits, rounding, monotone meters |
| Wallet, points (`user_api_repository.cpp`, `wallet_service.cpp`) | balance, ledgers, coupons; the client's recharge under way | recharge, check in, level gifts, freeze | lost and late requests under one transaction number, a client that restarts in between |
| Sessions and change notices (`client_session.cpp`, `server_runtime.cpp`) | sessions, subscriptions, the counter of changes | serve, notify, end | notices that say nothing, are coalesced, dropped, or overtaken |
| Client (`client/network`, `client/services`, `client/qml`) | questions under way, the queue entry shown, gifts still to ask for | ask, receive, poll, announce, log out | an answer older than the notice that met it, state that outlives its session |

ChargePilot (`data_analysis/chargepilot`) is a program of its own, in Python, on
its own MySQL database; it shares no state with the platform.  Its workers obey
HTTP requests in parallel, each in one transaction that first locks the row of
the replay clock.

| Component | State | Operations | Hard behaviour |
| --- | --- | --- | --- |
| Trips (`store.py`) | clock and configuration, stations' background, offers, trips, ledger | catch up, offer, select, arrive, confirm, start, stop, cancel, pay, background, configure, advance the clock, reload | a simulated clock that jumps over many deadlines at once; calls that follow each of them; a daily budget shared by payments |
| Predictions and pages (`app.py`, `ranking.py`, `ml`) | models on file | rank, route, predict | none that changes state |

`PROJECT.json` lists every part with its status, and the hazards of the code at
their lines with the properties that watch them.

## 2. The modules

```
PlatformStore                 the tables, shared conditions, Init
  ChargingWorkflow            reservations, charges, payment
  WaitingQueue                queue entries and calls
  Upkeep                      administrators and repair reports
    Platform                  their composition, the clock, crashes; properties
      MCPlatform              instances for TLC
      PlatformProofs          theorems
ChargerCustody                what Platform promises of a charger, abstractly
Metering                      fees, targets and the samples of one order
  MCMetering, MeteringProofs
Ledger                        what is promised of an account, abstractly
Wallet                        money, points, coupons, and the client's recharge
  MCWallet, WalletProofs
Rewards                       the gifts of levels, asked for by the client
  MCRewards, RewardsProofs
WorkflowView                  change notices and the client's view of its entry
  MCWorkflowView, WorkflowViewProofs
AdminGateway                  the administrator's channel and sessions
  MCAdminGateway, AdminGatewayProofs
AdminForms                    the administrator's commands, from form to row
  MCAdminForms, AdminFormsProofs
TripStore                     ChargePilot's trips on their clock
  MCTripStore, TripStoreProofs
```

The parts meet at few places, and a module takes what lies on the other side of
them as a choice.  `Metering` is the sample that `Platform` calls
`RecordTelemetry` and `StopCharging`; it shows that `Platform` may take a sample
as something that can be stored, as long as the clock is not behind what it
showed.  `Wallet` has the payment of
`ChargingWorkflow` with the money in it.  `WorkflowView` takes the entry of
`WaitingQueue` as something that is called and uncalled by others, each call
under a new number, as `CallsAreNew` of `Platform` says.  `AdminForms`
sends the commands of `Upkeep` through the channel of `AdminGateway`, of which
it uses that requests and results keep their order.

**PlatformStore.**  A table is a family of functions from row identifiers to
columns, a row that was not inserted has status `"NONE"`.  A reservation and
its order are inserted in one transaction and share an identifier `b`.  An
entry of the queue is its primary key, so the order of entries is the order of
insertion.  Repair reports are kept per user and charger, which the code allows
one unresolved report; exceptions are counted.  Times appear as what the code
asks of them: `holdOver[b]` (`expires_at <= now`), `callOver[e]`
(`call_expires_at <= now`).  `stage` is the transaction the worker runs next.

**The transactions.**  Every action of `ChargingWorkflow`, `WaitingQueue` and
`Upkeep` is one SQLite transaction with the conditions of its queries as guards
and its `UPDATE`s as primed variables.  A refused request, a stale form
(`expectedUpdatedAt`) and the replay of a finished request change no row and are
`Abandon`.  The queue pass is one action: entries that lapse, chargers
released, heads called are sets computed as the code's queries compute them.

**Platform.**  The stages compose the transactions as the worker runs them:

```
idle -> ExpireReservations -> targets <-> sampling (StopCharging, RecordTelemetry)
     -> FinishTargets -> calls -> QueuePass -> handler
handler -> ExpireReservations -> workflow   reserve, cancel, start, stop
        -> QueuePass -> queueing            Join, Leave -> requeue -> QueuePass
                        ExpireReservations -> confirming   ConfirmCall
        -> the commands of Upkeep, Pay
```

The clock moves between stages (`HoldEnds`, `CallEnds`), but not where one
reading of it is shared: a round passes the same `now` to the sweep and the
pass.  `Abandon` stands for a read, a refusal, a rollback, the end of the
timer's round, and a crash: after a crash the tables are as committed, and the
process starts with a round of maintenance (`server_runtime.cpp:83`).

**ChargerCustody** says what a user may rely on: at any time exactly one thing
is true of a charger, free, out of service or claimed by one user (called,
reserved, charging), with the steps between them.  `ImplementsCustody` maps the
tables to claims (`ClaimsOn`); two rows that disagree would yield two claims.

**Metering.**  The arithmetic of `billing_service.cpp` and
`charging_target_repository.cpp` as operators (`Fee`, `Billed`, `MulDiv`,
`BudgetWh`, `TargetSample`), the binary search as a recursive function of its
range, and the life of one order: it is started with or without a target, and
sampled (`SampleAt` its seconds) by the status request (`Poll`), by the maintenance (`Pass`) and by the user's stop
(`Stop`), each through the checks of the repository (`Storable`).  The clock
goes on in seconds and may be set back.  Orders do not meet in the meter, so
there is one.

**Wallet and Ledger.**  The server's side is a handler per transaction:
`Credit`, `Replay`, `Overflow` of a recharge, `Pay`, `CheckIn`,
`CreditLevelReward`, `SetUser`.  `INSERT OR IGNORE` with the row's
key is `Earned`.  The client's side is the recharge of `WalletService`: `intent`
is the record in the settings that survives logouts and restarts, `trying` the
request it waits for.  A request on its way may be lost or served at any later
time, after its client gave it up (`Fail`, `Abandon`) and asked again (`Retry`).
`Ledger` is the abstract account: it moves for a cause, once, with all it is
worth; `ImplementsLedger` maps the rows with unique keys to causes.

**Rewards.**  The levels of an account are in the client's settings, their
gifts on the server.  The lists `pendingReward_` and `pendingReconcile_` of
`QmlApp` are `reward` and `owed`; that they belong to the program and not to the
session is in `Login` and `Logout`.  One connection carries the requests in
order (`line`).

**WorkflowView.**  The worker's timer sends one notice for all changes since
the last (`Broadcast`); the client asks for its entry when a notice comes, when
a request of its own succeeded, and every ten seconds, one question at a time
(`Pending`).  A notice acts in the turn in which it is read (`Read`), an answer
in a later one (`Turn`), as the code's `QTimer::singleShot(0, ...)` has it.

**AdminGateway** models the two event queues between the GUI thread and the
worker.  Requests and results keep their order; results are received when the
GUI's event loop comes to it, so that timers, logins, logouts and closing
pages fall in between.  The request's `key` is an element of `Page` together
with its owner, and the token a login creates is named after the request.  A
request refused because the runtime does not run is answered like one whose
timer fires (`Timeout`); the events still queued when the worker ends are
dropped (`Stopped`).  The password's check, the request's deadline and the
success of the action are choices.

**AdminForms.**  One row, and the page that shows it: `form` is the row as it
was listed, with its version (`updated_at`), and a command carries the form it
was made of.  The four pages are one module: `Keeps` says which of them keep a
command of unknown outcome (chargers, beyond the session; repairs, for the
session), `Target` what a command may do, `Business` who else writes the row.
`log` is `operation_logs` and `repair_operations`; `Serve` declines, replays,
refuses or executes.  `NextVersion` is the clock, or just after the old version.

**TripStore** models `ChargePilotStore`.  The lock on the clock's row makes the
transactions follow one another, so one at a time is under way, in steps:

```
idle -> Begin (an instant to reach; the queues are looked at) -> sync <-> Batch
     -> Settle -> command -> one command, or Answer -> idle
```

A `Batch` is one turn of the loop in `_synchronize`: all that is due at the
earliest instant happens, and the queues are looked at (`Dispatch`).  Whether
time passes by itself, faster or slower, or is advanced by `control_clock`, is
the choice of `Begin`'s instant; an advance is a transaction more here.  A
transaction that fails in the database leaves nothing behind and is not there; a
`DomainError` is rolled back to the savepoint and keeps the time it caught up
with: `Answer`, which also stands for reads and for repetitions that find their
work done.  A recommendation makes one trip at most (a unique key), so the two
share an identifier.  `ends[t]` is the one deadline that the status of `t` has:
of the offer, the earliest arrival, the call, the reservation, the full charge.
The points' rank and multiplier are chosen when the offer is selected
(`Select`), from what it froze; how long a full charge takes is chosen when it
starts.  The baseline (`set_baseline`, once, before the first user is served) is
part of `Init`.  The minimum energy and the minimum duration are one minimum,
since power is constant.  The users' sum of points is that of the ledger, and is
not kept twice.  `Reload` is a restart with another catalog, which calls nobody.

Assumptions of the models: the users, chargers and stations are registered
beforehand and the other tables start empty; in `Platform` the wall clock is not
set back (the queue orders by `entered_at`, then `id`; identifiers stand for
both), while in `Metering`, `Wallet` and `AdminForms` it may be; a transaction
is atomic and durable, as `BEGIN IMMEDIATE` on one connection gives; one
administrator's window exists, and its pages ask only while it is logged in
(`main_window.cpp:474`); an account runs in one client process per device, since
two would share the settings of its recharge; the 128 pending requests and 32
sessions are the constants `MaxPending` and `MaxSessions`, the 2^53 - 1 of JSON
and the 2^63 - 1 of `qint64` the constants `Maximum` and `Word`.

## 3. Properties

Each is stated and explained beside its definition.

| Module | Safety | Steps | Progress, refinement |
| --- | --- | --- | --- |
| `Platform` | `OneHolderPerCharger`, `NoOrphanHold`, `WorkflowConsistent`, `OneEngagementPerUser`, `CalledKeepsCharger`, `InServiceMeansClear`, `OccupiedMeansOpen`, `FrozenHasNoBusiness`, `SweepNeverBlocked` | `FirstComeFirstServed`, `NoQueueJumping`, `CallsAreNew` | `CallsEnd`, `ReservationsEnd`, `WaitersAreCalled`; `ImplementsCustody` |
| `Metering` | `TargetKept`: within the target at any moment, and all of it when it stops; `MeterNeverBlocked`: the next sample can be stored | | `TargetsEnd` |
| `Wallet` | `NoForgottenCredit`: a credited recharge is in the client's settings until its user was told | | `ImplementsLedger` |
| `Rewards` | `GiftsEarned` (violated, see below) | | `GiftsArrive` |
| `WorkflowView` | `AnnouncedOnce` | | `ViewCatchesUp`, `CallsAnnounced` |
| `AdminGateway` | `NoSessionLost`, `NeverResurrected`, `AnsweredOnce` | `NewestOnly`, `LiveSessionKept` | `SessionsEnd` |
| `AdminForms` | `ToldRight`: what the page said of a command is so and stays so; `OnceAsShown`: once, and on the row the form showed | | |
| `TripStore` | `NeverOverbooked`, `NothingLate`, `NobodyWaitsInVain`, `OneTripPerUser` | `FirstInFirstOut`, `EffectsInTime`, `BudgetKept` | |

The mutants in the modules (operators marked `Mutant:`) are plausible mistakes
in the code; for each property that a run checks one of them makes TLC find it
violated.

## 4. Runs

| Run | Bounds | Checks |
| --- | --- | --- |
| `core` | 3 users, 2 stations with a charger each, 2 bookings, 2 queue entries | one holder, no orphan, agreement of the tables, the sweep, one engagement per user, order, no overtaking |
| `repairs` | 2 reporters, 1 charger, 2 open exceptions, 2 bookings, 1 entry | service is clear, a call keeps its charger, closing and freezing, the custody, `IInv` |
| `liveness` | 2 users, 1 charger, 1 booking, 2 entries, no symmetry | progress |
| `documented` | 2 users, 1 charger | expected violation, see below |
| `metering` | 9 tariffs, 5 targets, starts until 2 s, 14 s of clock, set back once | targets kept, samples storable, targets end |
| `wallet` | 1 user on 2 devices, 2 numbers, 1 order, 2 days, 2 requests a device | no credit forgotten, the ledger |
| `rewards` | 2 accounts, levels to 4, 3 sessions, 1 fault | gifts arrive |
| `rewards_own` | the same | expected violation, see below |
| `view` | 2 changes, 2 sessions, 1 fault | the view catches up, calls are announced, once |
| `gateway` | 4 requests, 2 pages and the login form, 2 pending, 2 sessions | sessions, answers, sessions end |
| `forms` | each page; 2 administrators, 2 commands, 3 requests, 2 ms, set back once, 1 write by others | what is told, what is executed |
| `trips` | 2 users, 2 offers, 1 station of 1 or 2 chargers, instants 0 to 3, days of 2, two configurations | overbooking, deadlines, queue, budget, `IInv` |

The bounds.  A conflict over a charger needs two claimants and one more who
waits; a user in two places needs two places, that is two chargers, or a booking
and an entry.  A booking identifier is used once, so two bookings and two
entries let one charger pass through several hands, including the handing on
of a call that nobody confirms.  Two reporters and two exceptions are what
"another repair" and "another exception" in the code distinguish.  `Symmetric`,
`SymmetricBookings` and `SymmetricStations` permute what nothing names one of
(stations with a charger each are exchanged together with it); none is used with
progress properties.

In `metering` the integers end at 2000 instead of 2^53 - 1 and `Word` is as much
above that as it is in the code; the tariffs give a Wh a second, more and less,
at prices that divide a Wh evenly and that do not, so that each rounding occurs.
No product overflows here or in a real station (a kilowatt-hour would have to
cost 10^12 cents): that is `Fits`, which `MCMetering` has TLC evaluate and on
which two of the theorems rest.  In `wallet` two requests of one
device are a retry beside the late first copy, and two devices two recharges at
once; the amounts are below and at the coupon's threshold, and two of them do
not fit into the balance.  In `rewards` four levels leave a chain of
gifts to break in the middle, and three sessions the
return of an account after another one.  In `view` two changes are a call and a
second one, or its end, and one fault is a lost question, a refusal or a dropped
notice.  In `gateway` two requests of one stream and two logins are the races,
and both tables are small enough to be full.  In `forms` three requests are
a repetition and another command, and two milliseconds with a clock that is set
back are equal and falling times.  In `trips` the clock can jump from 0 over
arrival, call and charge to 3, where everything is due; two trips of one user,
two payments of one day, and one car on the charger with another in the queue
are the conflicts; three cars at one station, and several stations, are left to
the proofs.  The two configurations differ in the budget, which one trip's
reward exceeds in one of them and two in the other.

Deadlock is checked in the runs of `Platform` and in `trips`.  In the others it
is not: when the requests, sessions and time of the bounds are used up and all
is answered, the system has come to its end.

**Fairness** (`FairSpec`).  Platform: the clock passes deadlines; the timer of
one second fires for as long as the worker runs, so the sweep, the end of the
samples and the pass are tried again and again.  Strong fairness, because any
transaction of a round may fail or be preceded by requests, and says that not
all of infinitely many tries fail.  What it excludes is stated in the hazards: a
target sample that fails for ever keeps the pass from running, since the three
are chained with `&&` (`server_runtime.cpp:78`).  Metering: weak fairness of the
clock and of the pass that samples orders with targets.  Gateway: weak fairness
of the two event loops (`Receive`, `Serve`) and of the end of a thread that was
told to quit (`Stopped`).  Rewards: the server answers what it has read and
answers arrive (`Credit`, `Receive`); that a session fails is not excluded by
fairness but by the property, which asks for one in which nothing fails.  WorkflowView: the event
loops of both sides (`Serve`, `Read`, `Turn`) and their timers (`Broadcast`,
`Poll`).  Nothing is assumed of users, administrators, faults and the timers of
requests.

**Findings.**  `documented` checks the table of legal charger transitions in
`docs/design/architecture.md` (6.2), which `ChargingStateMachine::canTransition`
repeats and `tests/tst_billing_service.cpp` tests.  The repositories never
consult it: `charger.status` sets a `FAULT` charger `OFFLINE` and back, and the
acceptance of a repair report does the former too.

`rewards_own` checks that an account is credited gifts of levels it has reached
(`docs/api/user_api_contract.md:256`) and that accounts' levels do not mix
(`progress_service.cpp:63`).  The gifts still to be asked for belong to `QmlApp`
and are not cleared when the session ends (`app_bridge.cpp:182`): what a broken
chain of one account left is asked for in the session of the next, which is
credited it.

**Observations** made on the way, which no run states:

- Any success is celebrated as the level just reached (`app_bridge.cpp:137`),
  though it may be the answer to an older gift, and the request for the level
  may still fail.
- The notices alone do not keep the client up to date, even when nothing fails:
  one that finds a question open asks nothing, and the answer of that question
  may be older than the change.  The timer of ten seconds is what
  `ViewCatchesUp` rests on (the mutant `NoFallback`).
- On the page of the chargers, a command whose first request was executed and
  whose repetition fails with `DATABASE_ERROR` is reported as refused
  (`charger_management_page.cpp:1167`), against the comment there and
  `docs/development/admin_extension_contract.md:114`.  `ToldRight` therefore says
  nothing of failures.
- The pages of stations and users draw a new number after a timeout, against
  `docs/development/admin_service_contract.md:202`; the version makes this
  harmless (`OnceAsShown`).
- That versions advance strictly (`admin_service_contract.md:195`) holds for
  what only administrators write.  Booking, charging and paying write the clock
  as it is into chargers and users, where a form may match a row that was
  changed since, in the same millisecond or after the clock was set back.
- A recharge that was refused for a full balance may be credited later by an
  older copy of its request, when the balance has room again.
- The first opening of a database switches the journal to WAL before the
  transaction that creates the tables: if it ends in between, the file is
  neither new nor of a known version and is refused from then on
  (`database_connection.cpp`), though `database/README.md:6` has any failing
  step rolled back as a whole.

## 5. Proofs

All theorems hold for all values of the constants that satisfy the named
assumption of the module; nothing but the trips is assumed finite.

`PlatformProofs` proves from `StoreAssumption`: `TypeCorrect`, `Invariant`
(`IInv`), `OneHolder`, `NothingOrphaned`, `ServiceIsClear`, `OneEngagement`,
`SweepGoesThrough`, `TablesAgree`, `CallIsKept`, `NobodyLockedIn`,
`FrozenIsFree`, the step properties `QueueIsFair`, `NobodyJumps` and
`CallIsNews`, and the refinement `CustodyImplemented`.

None of the invariants is inductive alone.  Releasing a charger looks at
reservations, charging orders, calls, reports and exceptions, but booking one
looks only at its status and what blocks it: that an AVAILABLE charger is
nobody's is what `WorkflowConsistent` and `CalledKeepsCharger` say.  That a
called user may be given the charger rests on `OneHolderPerCharger`, that the
sweep frees it on both, and that a frozen account or a closed station has
nothing to lose on `FrozenHasNoBusiness` and `OccupiedMeansOpen`.  `IInv` is
their conjunction with the types and the foreign keys; the run `repairs` checks
it, and a lemma per action shows that it is kept.  `SweepNeverBlocked` follows
from it.  `CallIsNews` adds that identifiers have no gap (`NoGap`) and that a
user in a queue is there with the newest entry (`NewestWaits`), so that what
`WorkflowView` assumes of calls is what the queue does.  For the refinement, under `IInv` each charger has exactly one claim
(`ClaimSources`, `OneClaimEach`), and each transaction takes it to one that may
follow.

`MeteringProofs` proves from `MeteringAssumption` that a fee is within half a
cent of the exact amount (`FeeRoundsHalfUp`), that the two ways to compute it
agree (`FeesAgree`), that `mulDiv` is the floor of the quotient or saturates
(`MulDivIsFloor`), and that the binary search of a budget ends at the last Wh the
budget pays for (`BudgetIsSpent`).  The search goes from a range to the half in
which the fee passes the budget (`TurningHalf`); were it wrong for some range,
it would be wrong for a shortest one, but its half is shorter.  That the
equation of the recursive function has a solution is shown by giving one
(`SearchExists`): the Wh at which the fee passes the budget, of which there is
one because fees do not fall (`CentsMonotone`).

`MeterInvariant` (`IInv`) says that the amount is the fee of the energy, and that
a running meter shows nothing or the sample of the moment it was last read.
`NeverBeyondTarget` follows.  `NeverBlocked` and `TargetIsKept` are proved under
`Fits`: all that a charger delivers before the clock ends, and a Wh more, has a
fee.  Without it the code does refuse to bill, and a budget may end where the
integers do.  Then samples grow with the seconds (`TargetSamplesGrow`), so the
next one is not below what the meter shows and can be stored, and one that names
a reason to stop has used the target (`TargetIsUsed`).

`WalletProofs` proves from `WalletAssumption` `WalletInvariant` (a request on
its way, a record, an intent and what was told under one number belong
together), `CreditNeverForgotten`, and `LedgerImplemented`: each handler is one
movement of `Ledger`, or none.

`RewardsProofs` proves `OwnGiftsOnly` from `RewardsAssumption`: where one account
uses the client, the gifts credited are earned.  What `rewards_own` finds comes
from the second account alone.

`WorkflowViewProofs` proves `NoCallTwice` from `ViewAssumption`.  `ViewInvariant`
says that answers come in the order they were given, so that no call on its way
is older than the announced one, and that no later call was heard of.

`AdminGatewayProofs` proves from `GatewayAssumption`: `GatewayInvariant`
(`IInv`), `LoginNeverResurrected`, `NobodyToldTwice`, `SessionsTraced`,
`NothingLost`, `NewestIsHeard` and `LiveIsKept`.  `IInv` says that what is
pending is of the present generation, that a request not ended was not
answered, and that a result brings no token but that of its own login.
`Traced` adds the order of each stream and what a message may carry; with it a
session is followed from its login's result to the window, to a
revocation, or to the closing, which is the last message.

`AdminFormsProofs` proves from `FormsAssumption`: `FormsInvariant`, `ToldIsRight`
and `ShownIsChanged`.  Requests are served in the order they were made, and the
page waits for the last or for none (`InOrder`); so when an answer is taken, no
copy of the command is left on the way, and what is told stays so (`Settled`).
A number stands for one command of its administrator (`OneCommandEach`), because
only he may ask again.  Where only administrators write, no form and no answer
is newer than the row, and one with the row's version is the row (`FormsFit`),
because versions rise whatever the clock does.

`TripStoreProofs` proves `TripInvariant` (`IInv`), `NeverLate`, `CapacityKept`,
`OneTrip`, `NoVainWait`, `FirstComesFirst`, `DueInTime` and `BudgetIsKept` from
`TripAssumption`, which says that there are finitely many trips and that
timeouts are positive, as `_number` checks.  The argument is about `Dispatch`.
Those with fewer than `k` before them in a set of distinct turns are at most
`k` (`FirstOnes`), hence calls never exceed the free chargers (`DispatchFits`);
when somebody goes on waiting, the first of those left has as many before it as
were free, hence none is free any more (`DispatchFills`); and who is called has
a smaller turn than who is not (`DispatchOrder`).  `IInv` supplies what these
need: turns are distinct and below the counter, nothing is late and nothing is
overbooked.  That nothing is late is kept over a jump because a batch takes the
least of all due instants, and the rest are later.

`BudgetIsKept` is about a sum over the ledger.  The fold that defines it takes
the trips in an order of `CHOOSE`; that the order does not matter, so that the
sum can be split into one trip and the others (`TotalSplit`), is proved from a
smallest set for which it would fail.  A payment then adds to its own day what
`Remaining` left, at most, and no other step adds to any day (`StepWithin`).

Only model-checked: `CallsEnd`, `ReservationsEnd`, `WaitersAreCalled`,
`SessionsEnd`, `TargetsEnd`, `GiftsArrive`, `ViewCatchesUp` and `CallsAnnounced`,
since progress under fairness is beyond the prover.  Every other property of a
passing run is the statement of a theorem.  Only proved: `OneTripPerUser`,
`CallsAreNew` and the gateway's `IInv`, which `NobodyToldTwice` and the run's properties make use
of, and the invariants of the meter, the wallet, the forms and the client's
view.

## 6. Not modelled

- *Presentation*: lists, filters, charts, dialogs and maps of the administrator's
  and the client's pages, and the client's mock transport, which imitates the
  server for demonstrations.
- *Read-only queries*: their reads are single statements and change nothing.
- *Data models*: conversions to and from JSON; their statuses are the sets of
  `PlatformStore`.
- *Database maintenance*: migration, backup, validation and restore are file
  and SQL input and output; `DatabaseMaintenance` is called by tests only.
- *ChargePilot's* routing, ranking and predictions, its demo sessions, and the
  offline *data analysis*: numerical work over files; what they offer is an input
  of `TripStore`.
- Of the queue, the repairs and the client's requests, the *replays* by operation
  number: they answer with the row as it is and change nothing.  Those of the
  administration are modelled (`AdminForms`).
- *Ratings, profiles, favourites, timelines, notifications*: rows that nothing
  else reads.  Coupons are granted and never redeemed.
- The *throttling* of failed logins, the *framing* of messages and the limits on
  buffers and clients.
- `recharge_repository.cpp`, which no production code calls; the recharge that
  runs is that of `user_api_repository.cpp`.

Where the code leaves an order open, the models do too: whether the failures of
a session that ends are heard before the next one begins (`Rewards`), and which
of several events of a loop comes first.  Two simplifications are without effect
on the properties: the first tick of the notice timer carries no change, and a
guest, who has a session of its own in `QmlApp`, has no gifts.
