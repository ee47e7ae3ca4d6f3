-------------------------------- MODULE Wallet --------------------------------
(***************************************************************************)
(* Money, points and coupons: the handlers of the server that move them    *)
(* (user_api_repository.cpp, order_repository.cpp), each one transaction,  *)
(* and the client's recharge (wallet_service.cpp), which writes down what  *)
(* it is about to ask for and asks again, under the same transaction       *)
(* number, until it is told.                                               *)
(*                                                                         *)
(* A request that was sent may be lost, or be served after its client gave *)
(* it up, however much later; an answer may be lost.  Payments, check-ins  *)
(* and gifts name what they are for, so that they may arrive at any time   *)
(* and any number of times.                                                *)
(***************************************************************************)
EXTENDS Integers

CONSTANTS
  User,
  Client,         \* an account on a device, with settings of its own
  Account,        \* the user of a client
  Number,         \* transaction numbers, each drawn once (UUIDs)
  Order,
  Debtor,         \* the user of an order
  Level,          \* the levels with a gift
  RechargeCents,  \* the amounts that are recharged
  OrderCents,     \* the amounts orders come to
  MaxBalance,     \* the largest balance
  MaxDay,         \* bound: the server's days
  MaxTry,         \* bound: requests a client sends for recharges
  None

kCheckInRewardPoints == 10
kCouponRechargeThresholdCents == 5000

ASSUME WalletAssumption ==
  /\ Account \in [Client -> User]
  /\ Debtor \in [Order -> User]
  /\ Level \subseteq 2..5
  /\ RechargeCents \subseteq Nat \ {0}
  /\ OrderCents \subseteq Nat
  /\ {MaxBalance, MaxDay, MaxTry} \subseteq Nat
  /\ None \notin [number : Number, client : Client, amount : RechargeCents]

VARIABLES
  balance,    \* users.balance_cents
  frozen,     \* users.status = FROZEN
  ledger,     \* points_ledger, summed up by user
  vouchers,   \* coupons, counted by user
  recharges,  \* recharge_records
  checkins,   \* user_checkins
  gifts,      \* the LEVEL_GIFT rows of points_ledger
  order,      \* orders.status and orders.amount_cents
  today,      \* the server's UTC day
  intent,     \* QSettings pendingRecharge/<scope>
  trying,     \* the request a client waits for (recharging_), 0 when none
  tries,      \* how many it has sent
  requests,   \* recharges on their way to the server
  answer,     \* the answer on its way to a client
  told        \* what the user was told of a recharge

serverVars == <<balance, frozen, ledger, vouchers, recharges, checkins, gifts, order, today>>
clientVars == <<intent, trying, tries, requests, answer, told>>
vars == <<serverVars, clientVars>>

Intent == [number : Number, client : Client, amount : RechargeCents]
Request == [intent : Intent, try : 1..MaxTry]
Record == [number : Number, user : User, amount : RechargeCents]
Bill == [status : {"CHARGING", "WAITING_PAYMENT", "COMPLETED"}, amount : OrderCents \cup {0}]

TypeOK ==
  /\ balance \in [User -> 0..MaxBalance]
  /\ frozen \subseteq User
  /\ ledger \in [User -> Nat] /\ vouchers \in [User -> Nat]
  /\ recharges \subseteq Record
  /\ checkins \subseteq User \X (0..MaxDay)
  /\ gifts \subseteq User \X Level
  /\ order \in [Order -> Bill]
  /\ today \in 0..MaxDay
  /\ intent \in [Client -> Intent \cup {None}]
  /\ trying \in [Client -> 0..MaxTry] /\ tries \in [Client -> 0..MaxTry]
  /\ requests \subseteq Request
  /\ answer \in [Client -> {"", "credited", "refused", "unknown"}]
  /\ told \in [Number -> {"unused", "unknown", "credited", "refused"}]

Init ==
  /\ balance = [u \in User |-> 0] /\ frozen = {}
  /\ ledger = [u \in User |-> 0] /\ vouchers = [u \in User |-> 0]
  /\ recharges = {} /\ checkins = {} /\ gifts = {}
  /\ order = [o \in Order |-> [status |-> "CHARGING", amount |-> 0]]
  /\ today = 0
  /\ intent = [c \in Client |-> None]
  /\ trying = [c \in Client |-> 0] /\ tries = [c \in Client |-> 0]
  /\ requests = {}
  /\ answer = [c \in Client |-> ""]
  /\ told = [n \in Number |-> "unused"]

-----------------------------------------------------------------------------
(* The client's recharge.                                                  *)

\* The intent is in the settings before the request leaves.
Send(c, i) ==
  /\ trying[c] = 0
  /\ tries[c] < MaxTry
  /\ tries' = [tries EXCEPT ![c] = @ + 1]
  /\ trying' = [trying EXCEPT ![c] = tries[c] + 1]
  /\ requests' = requests \cup {[intent |-> i, try |-> tries[c] + 1]}
  /\ intent' = [intent EXCEPT ![c] = i]
  /\ UNCHANGED <<serverVars, answer>>

\* WalletService::recharge without a recharge whose outcome is unknown.
Recharge(c, n, a) ==
  /\ intent[c] = None
  /\ told[n] = "unused"
  /\ told' = [told EXCEPT ![n] = "unknown"]
  /\ Send(c, [number |-> n, client |-> c, amount |-> a])

\* With one: the same amount asks again under the number in the settings,
\* another amount is refused on the spot.
Retry(c) == \E i \in {intent[c]} \ {None} : Send(c, i) /\ UNCHANGED told

\* Mutant: any failure ends the recharge.
ForgottenOnFailure(c, outcome) == None

\* Only a definite outcome takes the intent off the settings.
Remembered(c, outcome) == IF outcome = "unknown" THEN intent[c] ELSE None

\* The callback of the request, with the answer or a failure of the transport.
Told(c, outcome) ==
  /\ trying' = [trying EXCEPT ![c] = 0]
  /\ answer' = [answer EXCEPT ![c] = ""]
  /\ intent' = [intent EXCEPT ![c] = Remembered(c, outcome)]
  /\ told' = [n \in Number |-> IF n = intent[c].number THEN outcome ELSE told[n]]
  /\ UNCHANGED <<serverVars, tries, requests>>

Receive(c) == trying[c] # 0 /\ answer[c] # "" /\ Told(c, answer[c])

\* A timer, a lost connection, an answer that makes no sense.
Fail(c) == trying[c] # 0 /\ Told(c, "unknown")

\* The user logs out or the client ends: nobody is called back.
Abandon(c) ==
  /\ trying[c] # 0
  /\ trying' = [trying EXCEPT ![c] = 0]
  /\ answer' = [answer EXCEPT ![c] = ""]
  /\ UNCHANGED <<serverVars, intent, tries, requests, told>>

-----------------------------------------------------------------------------
(* The server's handlers.                                                  *)

\* UserApiRepository::execute refuses frozen accounts before anything else.
Active(u) == u \notin frozen

\* An answer for a request the client no longer waits for is dropped.
Answered(m, outcome) ==
  /\ requests' = requests \ {m}
  /\ answer' = IF trying[m.intent.client] = m.try
                 THEN [answer EXCEPT ![m.intent.client] = outcome] ELSE answer
  /\ UNCHANGED <<frozen, checkins, gifts, order, ledger, today, intent, trying, tries, told>>

\* recharge_records rows with the transaction number.
Recorded(n) == {r \in recharges : r.number = n}

Entry(i) == [number |-> i.number, user |-> Account[i.client], amount |-> i.amount]

Reward(amount) == IF amount >= kCouponRechargeThresholdCents THEN 1 ELSE 0

\* RECHARGE of a new number: money, record and coupon in one transaction.
Credit(m) ==
  LET i == m.intent
      u == Account[i.client]
  IN  /\ Active(u)
      /\ Recorded(i.number) = {}
      /\ balance[u] <= MaxBalance - i.amount
      /\ balance' = [balance EXCEPT ![u] = @ + i.amount]
      /\ recharges' = recharges \cup {Entry(i)}
      /\ vouchers' = [vouchers EXCEPT ![u] = @ + Reward(i.amount)]
      /\ Answered(m, "credited")

\* Of a number on record: the recharge is confirmed, or is another one.
Replay(m) ==
  LET i == m.intent
  IN  /\ Active(Account[i.client])
      /\ \E r \in Recorded(i.number) : Answered(m, IF r = Entry(i) THEN "credited" ELSE "refused")
      /\ UNCHANGED <<balance, recharges, vouchers>>

\* Of an amount that does not fit into the balance.
Overflow(m) ==
  LET i == m.intent
      u == Account[i.client]
  IN  /\ Active(u)
      /\ Recorded(i.number) = {}
      /\ balance[u] > MaxBalance - i.amount
      /\ Answered(m, "refused")
      /\ UNCHANGED <<balance, recharges, vouchers>>

\* The account is frozen, or the transaction fails and is rolled back.
Rejected(m) == Answered(m, "unknown") /\ UNCHANGED <<balance, recharges, vouchers>>

\* StopCharging or a target stop, of ChargingWorkflow.
BillOrder(o, a) ==
  /\ order[o].status = "CHARGING"
  /\ order' = [order EXCEPT ![o] = [status |-> "WAITING_PAYMENT", amount |-> a]]
  /\ UNCHANGED <<balance, frozen, ledger, vouchers, recharges, checkins, gifts, today, clientVars>>

settlementRewardPoints(amount) == amount \div 100

\* PAY_ORDER; of a completed order it changes nothing.
Pay(o) ==
  LET u == Debtor[o]
  IN  /\ order[o].status = "WAITING_PAYMENT"
      /\ balance[u] >= order[o].amount
      /\ balance' = [balance EXCEPT ![u] = @ - order[o].amount]
      /\ order' = [order EXCEPT ![o].status = "COMPLETED"]
      /\ ledger' = [ledger EXCEPT ![u] = @ + settlementRewardPoints(order[o].amount)]
      /\ UNCHANGED <<frozen, vouchers, recharges, checkins, gifts, today, clientVars>>

\* Mutant: the check-in counts although the day's row was there already.
EarnedAgain(row, rows, amount) == amount

\* What INSERT OR IGNORE of a row earns.
Earned(row, rows, amount) == IF row \in rows THEN 0 ELSE amount

\* CHECK_IN, once a day.
CheckIn(u) ==
  /\ Active(u)
  /\ checkins' = checkins \cup {<<u, today>>}
  /\ ledger' = [ledger EXCEPT ![u] = @ + Earned(<<u, today>>, checkins, kCheckInRewardPoints)]
  /\ UNCHANGED <<balance, frozen, vouchers, recharges, gifts, order, today, clientVars>>

levelRewardPoints(l) == CASE l = 2 -> 100 [] l = 3 -> 150 [] l = 4 -> 200 [] OTHER -> 300

\* CREDIT_LEVEL_REWARD, once a level: the amounts tell the levels apart.
CreditLevelReward(u, l) ==
  /\ Active(u)
  /\ gifts' = gifts \cup {<<u, l>>}
  /\ ledger' = [ledger EXCEPT ![u] = @ + Earned(<<u, l>>, gifts, levelRewardPoints(l))]
  /\ UNCHANGED <<balance, frozen, vouchers, recharges, checkins, order, today, clientVars>>

\* The administrator freezes and thaws accounts without unfinished orders.
SetUser(u) ==
  /\ u \in frozen \/ \A o \in Order : Debtor[o] = u => order[o].status = "COMPLETED"
  /\ frozen' = IF u \in frozen THEN frozen \ {u} ELSE frozen \cup {u}
  /\ UNCHANGED <<balance, ledger, vouchers, recharges, checkins, gifts, order, today, clientVars>>

\* The server's clock, which may be set back.
SetClock ==
  /\ today' \in 0..MaxDay
  /\ UNCHANGED <<balance, frozen, ledger, vouchers, recharges, checkins, gifts, order, clientVars>>

Serve(m) == Credit(m) \/ Replay(m) \/ Overflow(m) \/ Rejected(m)

Next ==
  \/ \E c \in Client, n \in Number, a \in RechargeCents : Recharge(c, n, a)
  \/ \E c \in Client : Retry(c) \/ Receive(c) \/ Fail(c) \/ Abandon(c)
  \/ \E m \in requests : Serve(m)
  \/ \E o \in Order, a \in OrderCents : BillOrder(o, a)
  \/ \E o \in Order : Pay(o)
  \/ \E u \in User : CheckIn(u) \/ SetUser(u)
  \/ \E u \in User, l \in Level : CreditLevelReward(u, l)
  \/ SetClock

Spec == Init /\ [][Next]_vars

-----------------------------------------------------------------------------
(* Properties.                                                             *)

\* The client never loses sight of a recharge: one that was credited is
\* either in its settings, to be asked for again, or the user was told the
\* outcome; and whoever was told that it was credited has the money.  (One
\* refused for a full balance may be credited by an older copy of the
\* request: the user was told of that number, and it is not asked for again.)
NoForgottenCredit ==
  /\ \A r \in recharges : told[r.number] # "unknown" \/ \E c \in Client :
       intent[c] # None /\ intent[c].number = r.number
  /\ \A n \in Number : told[n] = "credited" => Recorded(n) # {}

\* What an account may move for, and what has taken effect.
OfRecharge(r) == [kind |-> "RECHARGE", user |-> r.user, key |-> r.number,
                  money |-> r.amount, points |-> 0, coupons |-> Reward(r.amount)]
OfOrder(o, a) == [kind |-> "ORDER", user |-> Debtor[o], key |-> o,
                  money |-> -a, points |-> settlementRewardPoints(a), coupons |-> 0]
OfCheckIn(x) == [kind |-> "CHECK_IN", user |-> x[1], key |-> x[2],
                 money |-> 0, points |-> kCheckInRewardPoints, coupons |-> 0]
OfGift(x) == [kind |-> "LEVEL_GIFT", user |-> x[1], key |-> x[2],
              money |-> 0, points |-> levelRewardPoints(x[2]), coupons |-> 0]

Causes ==
  {OfRecharge(r) : r \in Record}
    \cup {OfOrder(o, a) : o \in Order, a \in OrderCents}
    \cup {OfCheckIn(x) : x \in User \X (0..MaxDay)}
    \cup {OfGift(x) : x \in User \X Level}

Effects ==
  {OfRecharge(r) : r \in recharges}
    \cup {OfOrder(o, order[o].amount) : o \in {p \in Order : order[p].status = "COMPLETED"}}
    \cup {OfCheckIn(x) : x \in checkins}
    \cup {OfGift(x) : x \in gifts}

Accounts == INSTANCE Ledger WITH
  money <- balance, points <- ledger, coupons <- vouchers,
  applied <- Effects, Cause <- Causes

\* However requests are repeated, delayed and lost, every cause moves the
\* account once and with all it is worth.
ImplementsLedger == Accounts!Spec
=============================================================================
