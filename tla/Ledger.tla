-------------------------------- MODULE Ledger --------------------------------
(***************************************************************************)
(* What the platform promises about a user's account, whatever the network *)
(* does to requests and answers: it moves only for a cause (a recharge, a  *)
(* payment, a day's check-in, a level's gift), for each cause once, by     *)
(* everything the cause is worth at the same time, and never below zero.   *)
(***************************************************************************)
EXTENDS Integers

CONSTANTS User, Cause

VARIABLES
  money,    \* cents, by user
  points,   \* points, by user
  coupons,  \* coupons, by user
  applied   \* the causes that have taken effect

vars == <<money, points, coupons, applied>>

Nothing == [u \in User |-> 0]

Init ==
  /\ money = Nothing /\ points = Nothing /\ coupons = Nothing
  /\ applied = {}

\* A cause is told from others by its kind, its user and its key; the rest of
\* the record is what it is worth.
Apply(c) ==
  /\ \A d \in applied : ~(d.kind = c.kind /\ d.user = c.user /\ d.key = c.key)
  /\ money[c.user] + c.money >= 0
  /\ applied' = applied \cup {c}
  /\ money' = [money EXCEPT ![c.user] = @ + c.money]
  /\ points' = [points EXCEPT ![c.user] = @ + c.points]
  /\ coupons' = [coupons EXCEPT ![c.user] = @ + c.coupons]

Next == \E c \in Cause : Apply(c)

Spec == Init /\ [][Next]_vars
=============================================================================
