-------------------------------- MODULE Rewards --------------------------------
(***************************************************************************)
(* The gifts of the membership levels.  A level is reached on the client   *)
(* and kept in its settings, by account; its gift is points on the         *)
(* server's ledger, which the client asks for when the level is reached    *)
(* and, in case that failed, for every level of the account after each     *)
(* login, one at a time (app_bridge.cpp).                                  *)
(*                                                                         *)
(* What is asked for goes over one connection, in order, and ends with the *)
(* session.  The server credits each level to an account once.             *)
(***************************************************************************)
EXTENDS Naturals, Sequences

CONSTANTS
  User,
  Top,        \* the highest level
  MaxLogins,  \* bound: sessions
  MaxFaults,  \* bound: requests that time out or are refused
  None

ASSUME RewardsAssumption == Top \in 1..5 /\ {MaxLogins, MaxFaults} \subseteq Nat /\ None \notin User

VARIABLES
  user,      \* user_, None for the session of a guest
  level,     \* the settings progress/<phone>
  reward,    \* pendingReward_, level 0 for none
  owed,      \* pendingReconcile_
  line,      \* the requests of the session that are not answered, in order
  credited,  \* the LEVEL_GIFT rows, by account
  intact,    \* nothing has failed since the login
  logins, faults

settled == <<level, credited>>
vars == <<user, settled, reward, owed, line, intact, logins, faults>>

Levels == 2..Top
NoReward == [level |-> 0, retried |-> FALSE]
Asked(l) == [level |-> l, status |-> "sent", awaited |-> TRUE]

TypeOK ==
  /\ user \in User \cup {None}
  /\ level \in [User -> 1..Top]
  /\ reward \in [level : {0} \cup Levels, retried : BOOLEAN]
  /\ owed \in Seq(Levels)
  /\ line \in Seq([level : Levels, status : {"sent", "credited", "refused"}, awaited : BOOLEAN])
  /\ credited \in [User -> SUBSET Levels]
  /\ intact \in BOOLEAN
  /\ logins \in 0..MaxLogins /\ faults \in 0..MaxFaults

Init ==
  /\ user = None
  /\ level = [u \in User |-> 1] /\ credited = [u \in User |-> {}]
  /\ reward = NoReward /\ owed = <<>> /\ line = <<>>
  /\ intact = FALSE
  /\ logins = 0 /\ faults = 0

\* The gifts in an account's settings, oldest first.
Gifts(u) == [i \in 1..(level[u] - 1) |-> i + 1]

\* Take the next gift owed, if there is one, and ask for it after the others.
AskNext(list, rest) ==
  /\ owed' = IF list = <<>> THEN list ELSE Tail(list)
  /\ line' = IF list = <<>> THEN rest ELSE Append(rest, Asked(Head(list)))

\* Mutant: of the account's gifts only the latest is asked for.
LatestOwed(u) == IF level[u] = 1 THEN <<>> ELSE <<level[u]>>

\* All gifts of the account are owed at a login.
Owed(u) == Gifts(u)

\* loginSucceeded: a session for the account, with what was owed before.
Login(u) ==
  /\ user = None /\ logins < MaxLogins
  /\ user' = u
  /\ logins' = logins + 1
  /\ intact' = TRUE
  /\ AskNext(owed \o Owed(u), <<>>)
  /\ UNCHANGED <<settled, reward, faults>>

\* award: the user has earned enough for the next level.
LevelUp ==
  /\ user # None
  /\ level[user] < Top
  /\ level' = [level EXCEPT ![user] = @ + 1]
  /\ reward' = [level |-> level'[user], retried |-> FALSE]
  /\ line' = Append(line, Asked(level'[user]))
  /\ UNCHANGED <<user, owed, credited, intact, logins, faults>>

\* CREDIT_LEVEL_REWARD on the server, one request after the other.
Served(status) ==
  \E i \in DOMAIN line :
    /\ line[i].status = "sent"
    /\ \A j \in 1..(i - 1) : line[j].status # "sent"
    /\ line' = [line EXCEPT ![i].status = status]
    /\ credited' = [credited EXCEPT ![user] =
                      IF status = "credited" THEN @ \cup {line[i].level} ELSE @]
    /\ UNCHANGED <<user, level, reward, owed, logins>>

Credit == Served("credited") /\ UNCHANGED <<intact, faults>>

\* A frozen account, a maintenance that fails.
Refuse == faults < MaxFaults /\ faults' = faults + 1 /\ Served("refused") /\ UNCHANGED intact

\* levelRewardCredited, whichever level the answer is for.
Celebrate(rest) ==
  /\ reward' = NoReward
  /\ AskNext(owed, rest)
  /\ UNCHANGED intact

\* operationFailed, whichever level failed: the gift of a level just reached
\* is asked for once more.
Fail(rest) ==
  /\ reward' = IF reward.level # 0 /\ ~reward.retried THEN [reward EXCEPT !.retried = TRUE] ELSE NoReward
  /\ line' = IF reward'.retried THEN Append(rest, Asked(reward.level)) ELSE rest
  /\ intact' = FALSE
  /\ UNCHANGED owed

\* The answer to the first request; one that is late is dropped.
Receive ==
  /\ line # <<>>
  /\ Head(line).status # "sent"
  /\ CASE ~Head(line).awaited -> line' = Tail(line) /\ UNCHANGED <<reward, owed, intact>>
       [] Head(line).awaited /\ Head(line).status = "credited" -> Celebrate(Tail(line))
       [] OTHER -> Fail(Tail(line))
  /\ UNCHANGED <<user, settled, logins, faults>>

\* The timer of a request.
Timeout ==
  /\ faults < MaxFaults
  /\ faults' = faults + 1
  /\ \E i \in DOMAIN line : line[i].awaited /\ Fail([line EXCEPT ![i].awaited = FALSE])
  /\ UNCHANGED <<user, settled, logins>>

\* The connection ends, and the server has seen the requests up to the n-th.
Disconnect ==
  /\ user # None
  /\ user' = None
  /\ line' = <<>>
  /\ \E n \in 0..Len(line) :
       credited' = [credited EXCEPT ![user] =
         @ \cup {line[i].level : i \in {j \in 1..n : line[j].status # "refused"}}]
  /\ intact' = FALSE
  /\ UNCHANGED <<level, logins, faults>>

\* logout, also after the connection was lost.  The session of the guest takes
\* the next gift owed as if it were its own, and fails with it, as does a
\* repetition for the reward; the failures of the old session are heard or
\* not, as the event loop has it.
Logout ==
  /\ Disconnect
  /\ owed' = IF owed = <<>> THEN owed ELSE Tail(owed)
  /\ \/ reward' = reward /\ owed = <<>>
     \/ reward' = NoReward /\ (owed # <<>> \/ \E i \in DOMAIN line : line[i].awaited)

\* The client ends and is started again.
Restart == Disconnect /\ owed' = <<>> /\ reward' = NoReward

Next ==
  \/ \E u \in User : Login(u)
  \/ LevelUp \/ Credit \/ Refuse \/ Receive \/ Timeout \/ Logout \/ Restart

Spec == Init /\ [][Next]_vars

\* The server answers what it has read, and answers arrive.
FairSpec == Spec /\ WF_vars(Credit) /\ WF_vars(Receive)

-----------------------------------------------------------------------------
\* Every gift a level has earned arrives, also those an earlier session failed
\* to ask for, in a session in which nothing fails and that lasts.
GiftsArrive ==
  \A u \in User : <>[](user = u /\ intact) => []<>(2..level[u] \subseteq credited[u])

\* An account is credited the gifts of the levels it has reached, and no
\* other account's.
GiftsEarned == \A u \in User : credited[u] \subseteq 2..level[u]
=============================================================================
