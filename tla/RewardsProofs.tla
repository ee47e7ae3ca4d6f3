----------------------------- MODULE RewardsProofs -----------------------------
(***************************************************************************)
(* Proofs about Rewards: on a client that only one account uses, every     *)
(* gift credited was earned.  With two accounts it is not so, as the run   *)
(* rewards_own shows; the proof needs the one account only where a gift    *)
(* still owed is asked for in a new session.                               *)
(***************************************************************************)
EXTENDS Rewards, SequenceTheorems, TLAPS

-----------------------------------------------------------------------------
(* The inductive invariant.                                                *)

Statuses == {"sent", "credited", "refused"}
Requests == [level : Levels, status : Statuses, awaited : BOOLEAN]
Pending == [level : {0} \cup Levels, retried : BOOLEAN]

\* What is owed, asked for or waited for are levels the account has reached.
OnlyReached(u) ==
  /\ \A i \in DOMAIN owed : owed[i] <= level[u]
  /\ \A i \in DOMAIN line : line[i].level <= level[u]
  /\ reward.level <= level[u]

IInv(u) == TypeOK /\ OnlyReached(u) /\ GiftsEarned /\ (user = None => line = <<>>)

-----------------------------------------------------------------------------
\* The levels and bounds are numbers.
LEMMA Numbers == Top \in 1..5 /\ MaxLogins \in Nat /\ MaxFaults \in Nat /\ Levels \subseteq Nat /\ None \notin User
  BY RewardsAssumption DEF Levels

\* TypeOK, in the names used here.
LEMMA Types ==
  TypeOK <=> /\ user \in User \cup {None}
             /\ level \in [User -> 1..Top]
             /\ reward \in Pending
             /\ owed \in Seq(Levels)
             /\ line \in Seq(Requests)
             /\ credited \in [User -> SUBSET Levels]
             /\ intact \in BOOLEAN
             /\ logins \in 0..MaxLogins /\ faults \in 0..MaxFaults
  BY DEF TypeOK, Requests, Pending, Statuses

\* A level may be asked for.
LEMMA AskedType == \A l \in Levels : Asked(l) \in Requests /\ Asked(l).level = l
  BY DEF Asked, Requests, Statuses

\* Something at the end of a sequence, which satisfies what the others do.
LEMMA AppendBounded ==
  ASSUME NEW s \in Seq(Requests), NEW m \in Requests, NEW n \in Nat,
         \A i \in DOMAIN s : s[i].level <= n, m.level <= n
  PROVE  Append(s, m) \in Seq(Requests) /\ \A i \in DOMAIN Append(s, m) : Append(s, m)[i].level <= n
  <1>1. /\ Append(s, m) \in Seq(Requests) /\ Len(s) \in Nat
        /\ DOMAIN s = 1..Len(s) /\ DOMAIN Append(s, m) = 1..(Len(s) + 1)
        /\ \A i \in 1..Len(s) : Append(s, m)[i] = s[i]
        /\ Append(s, m)[Len(s) + 1] = m
    BY AppendProperties, LenProperties
  <1>2. QED
    BY <1>1

\* The tail of a sequence.
LEMMA TailBounded ==
  ASSUME NEW s \in Seq(Requests), s # <<>>, NEW n \in Nat,
         \A i \in DOMAIN s : s[i].level <= n
  PROVE  /\ Head(s) \in Requests /\ Head(s).level <= n
         /\ Tail(s) \in Seq(Requests) /\ \A i \in DOMAIN Tail(s) : Tail(s)[i].level <= n
  <1>1. /\ Head(s) \in Requests /\ Head(s) = s[1] /\ 1 \in DOMAIN s
        /\ Tail(s) \in Seq(Requests)
        /\ \A i \in DOMAIN Tail(s) : i + 1 \in DOMAIN s /\ Tail(s)[i] = s[i + 1]
    BY HeadTailProperties, LenProperties, EmptySeq
  <1>2. QED
    BY <1>1

\* The same of the levels owed.
LEMMA TailReached ==
  ASSUME NEW s \in Seq(Levels), s # <<>>, NEW n \in Nat, \A i \in DOMAIN s : s[i] <= n
  PROVE  /\ Head(s) \in Levels /\ Head(s) <= n
         /\ Tail(s) \in Seq(Levels) /\ \A i \in DOMAIN Tail(s) : Tail(s)[i] <= n
  <1>1. /\ Head(s) \in Levels /\ Head(s) = s[1] /\ 1 \in DOMAIN s
        /\ Tail(s) \in Seq(Levels)
        /\ \A i \in DOMAIN Tail(s) : i + 1 \in DOMAIN s /\ Tail(s)[i] = s[i + 1]
    BY HeadTailProperties, LenProperties, EmptySeq
  <1>2. QED
    BY <1>1

\* The next gift owed is asked for: levels that were reached, all of them.
LEMMA AskNextBounded ==
  ASSUME NEW list \in Seq(Levels), NEW rest \in Seq(Requests), NEW n \in Nat,
         \A i \in DOMAIN list : list[i] <= n, \A i \in DOMAIN rest : rest[i].level <= n,
         AskNext(list, rest)
  PROVE  /\ owed' \in Seq(Levels) /\ line' \in Seq(Requests)
         /\ \A i \in DOMAIN owed' : owed'[i] <= n
         /\ \A i \in DOMAIN line' : line'[i].level <= n
  <1>1. CASE list = <<>>
    BY <1>1 DEF AskNext
  <1>2. CASE list # <<>>
    <2>1. /\ Head(list) \in Levels /\ Head(list) <= n
          /\ Tail(list) \in Seq(Levels) /\ \A i \in DOMAIN Tail(list) : Tail(list)[i] <= n
      BY <1>2, TailReached
    <2>2. owed' = Tail(list) /\ line' = Append(rest, Asked(Head(list)))
      BY <1>2 DEF AskNext
    <2>3. Asked(Head(list)) \in Requests /\ Asked(Head(list)).level <= n
      BY <2>1, AskedType
    <2>4. QED
      BY <2>1, <2>2, <2>3, AppendBounded
  <1>3. QED
    BY <1>1, <1>2

\* The gifts in the settings are of levels reached.
LEMMA GiftsReached ==
  ASSUME TypeOK, NEW u \in User
  PROVE  Gifts(u) \in Seq(Levels) /\ \A i \in DOMAIN Gifts(u) : Gifts(u)[i] <= level[u]
  <1>1. level[u] \in 1..Top
    BY Types
  <1>2. \A i \in 1..(level[u] - 1) : i + 1 \in Levels /\ i + 1 <= level[u]
    BY <1>1, Numbers DEF Levels
  <1>3. level[u] - 1 \in Nat
    BY <1>1, Numbers
  <1>4. Gifts(u) \in Seq(Levels)
    BY <1>2, <1>3, IsASeq DEF Gifts
  <1>5. QED
    BY <1>2, <1>4 DEF Gifts

-----------------------------------------------------------------------------
(* One account's client keeps the invariant.                               *)

LEMMA InitKeeps == ASSUME NEW u \in User, Init PROVE IInv(u)
  <1>1. /\ level \in [User -> 1..Top] /\ level[u] = 1
        /\ credited \in [User -> SUBSET Levels] /\ \A v \in User : credited[v] = {}
    BY Numbers DEF Init
  <1>2. /\ owed \in Seq(Levels) /\ line \in Seq(Requests) /\ reward \in Pending
        /\ owed = <<>> /\ line = <<>> /\ reward.level = 0
    BY DEF Init, NoReward, Pending
  <1>3. TypeOK
    <2>1. user \in User \cup {None} /\ intact \in BOOLEAN
      BY DEF Init
    <2>2. logins \in 0..MaxLogins /\ faults \in 0..MaxFaults
      BY Numbers DEF Init
    <2>3. QED
      BY <1>1, <1>2, <2>1, <2>2, Types
  <1>4. OnlyReached(u) /\ GiftsEarned
    BY <1>1, <1>2 DEF OnlyReached, GiftsEarned
  <1>5. QED
    BY <1>2, <1>3, <1>4 DEF IInv

\* The gifts owed from before are the same account's.
LEMMA LoginKeeps ==
  ASSUME NEW u \in User, User = {u}, IInv(u), NEW v \in User, Login(v)
  PROVE  IInv(u)'
  <1>1. /\ v = u /\ user' = u /\ logins' \in 0..MaxLogins /\ intact' = TRUE
        /\ UNCHANGED <<level, credited, reward, faults>>
    BY Numbers, Types DEF Login, settled, IInv
  <1>2. level[u] \in Nat
    BY Numbers, Types DEF IInv
  <1> DEFINE list == owed \o Owed(u)
  <1>3. list \in Seq(Levels) /\ \A i \in DOMAIN list : list[i] <= level[u]
    <2>1. Gifts(u) \in Seq(Levels) /\ \A i \in DOMAIN Gifts(u) : Gifts(u)[i] <= level[u]
      BY GiftsReached DEF IInv
    <2> DEFINE g == Gifts(u)
    <2>2. g \in Seq(Levels) /\ \A i \in DOMAIN g : g[i] <= level[u]
      BY <2>1
    <2>3. owed \in Seq(Levels) /\ \A i \in DOMAIN owed : owed[i] <= level[u]
      BY Types DEF IInv, OnlyReached
    <2>4. list = owed \o g
      BY DEF Owed
    <2> HIDE DEF list, g
    <2>5. /\ owed \o g \in Seq(Levels) /\ Len(owed) \in Nat /\ Len(g) \in Nat
          /\ DOMAIN owed = 1..Len(owed) /\ DOMAIN g = 1..Len(g)
          /\ DOMAIN (owed \o g) = 1..(Len(owed) + Len(g))
          /\ \A i \in 1..(Len(owed) + Len(g)) :
               (owed \o g)[i] = IF i <= Len(owed) THEN owed[i] ELSE g[i - Len(owed)]
      BY <2>2, <2>3, ConcatProperties, LenProperties
    <2>6. ASSUME NEW i \in DOMAIN (owed \o g) PROVE (owed \o g)[i] <= level[u]
      <3>1. CASE i <= Len(owed)
        BY <2>3, <2>5, <3>1
      <3>2. CASE i > Len(owed)
        <4>1. i - Len(owed) \in DOMAIN g
          BY <2>5, <3>2
        <4>2. (owed \o g)[i] = g[i - Len(owed)]
          BY <2>5, <3>2
        <4>3. QED
          BY <2>2, <4>1, <4>2
      <3>3. QED
        BY <2>5, <3>1, <3>2
    <2>7. QED
      BY <2>4, <2>5, <2>6
  <1>4. AskNext(list, <<>>)
    BY <1>1 DEF Login
  <1> HIDE DEF list
  <1>5. /\ owed' \in Seq(Levels) /\ line' \in Seq(Requests)
        /\ \A i \in DOMAIN owed' : owed'[i] <= level[u]
        /\ \A i \in DOMAIN line' : line'[i].level <= level[u]
    <2>1. <<>> \in Seq(Requests) /\ DOMAIN <<>> = {}
      BY EmptySeq, LenProperties
    <2>2. QED
      BY <1>2, <1>3, <1>4, <2>1, AskNextBounded
  <1>6. TypeOK'
    BY <1>1, <1>5, Types DEF IInv, TypeOK, Requests, Pending, Statuses
  <1>7. OnlyReached(u)' /\ GiftsEarned' /\ user' # None
    BY <1>1, <1>5, Numbers DEF IInv, OnlyReached, GiftsEarned
  <1>8. QED
    BY <1>6, <1>7 DEF IInv

\* A level more.
LEMMA LevelUpKeeps ==
  ASSUME NEW u \in User, User = {u}, IInv(u), LevelUp
  PROVE  IInv(u)'
  <1>1. user = u /\ UNCHANGED <<user, owed, credited, intact, logins, faults>>
    BY Types DEF IInv, LevelUp
  <1>2. /\ level[u] \in 1..Top /\ level[u] < Top
        /\ level' = [level EXCEPT ![u] = @ + 1]
        /\ level' \in [User -> 1..Top] /\ level'[u] = level[u] + 1 /\ level'[u] \in Levels
    BY <1>1, Numbers, Types DEF IInv, LevelUp, Levels
  <1>3. reward' \in Pending /\ reward'.level = level'[u]
    BY <1>1, <1>2 DEF LevelUp, Pending
  <1>4. level[u] \in Nat /\ level'[u] \in Nat /\ level[u] <= level'[u]
    BY <1>2, Numbers
  <1>5. line \in Seq(Requests) /\ \A i \in DOMAIN line : line[i].level <= level'[u]
    <2>1. line \in Seq(Requests) /\ \A i \in DOMAIN line : line[i].level \in Nat
      <3>1. line \in Seq(Requests) /\ \A i \in DOMAIN line : line[i] \in Requests
        BY Types, ElementOfSeq, LenProperties DEF IInv
      <3>2. QED
        BY <3>1, Numbers DEF Requests
    <2>2. QED
      BY <1>4, <2>1 DEF IInv, OnlyReached
  <1>6. line' \in Seq(Requests) /\ \A i \in DOMAIN line' : line'[i].level <= level'[u]
    <2>1. line' = Append(line, Asked(level'[u]))
      BY <1>1 DEF LevelUp
    <2>2. Asked(level'[u]) \in Requests /\ Asked(level'[u]).level <= level'[u]
      BY <1>2, <1>4, AskedType
    <2>3. QED
      BY <1>4, <1>5, <2>1, <2>2, AppendBounded
  <1>7. \A i \in DOMAIN owed : owed[i] <= level'[u]
    <2>1. \A i \in DOMAIN owed : owed[i] \in Nat
      BY Types, ElementOfSeq, LenProperties, Numbers DEF IInv
    <2>2. QED
      BY <1>4, <2>1 DEF IInv, OnlyReached
  <1>8. TypeOK'
    BY <1>1, <1>2, <1>3, <1>6, Types DEF IInv, TypeOK, Requests, Pending, Statuses
  <1>9. OnlyReached(u)' /\ GiftsEarned'
    BY <1>1, <1>2, <1>3, <1>4, <1>6, <1>7 DEF IInv, OnlyReached, GiftsEarned
  <1>10. QED
    BY <1>1, <1>8, <1>9, Numbers DEF IInv

\* The server credits the account that asks.
LEMMA ServedKeeps ==
  ASSUME NEW u \in User, User = {u}, IInv(u), NEW status \in {"credited", "refused"}, Served(status),
         faults' \in 0..MaxFaults, UNCHANGED intact
  PROVE  IInv(u)'
  <1>1. PICK i \in DOMAIN line :
          /\ line' = [line EXCEPT ![i].status = status]
          /\ credited' = [credited EXCEPT ![user] = IF status = "credited" THEN @ \cup {line[i].level} ELSE @]
          /\ UNCHANGED <<user, level, reward, owed, logins>>
    BY DEF Served
  <1>2. line \in Seq(Requests) /\ i \in 1..Len(line) /\ line[i] \in Requests
    BY Types, ElementOfSeq, LenProperties DEF IInv
  <1>3. user = u
    <2>1. line # <<>>
      BY <1>2
    <2>2. QED
      BY <2>1, Types DEF IInv
  <1>4. /\ [line[i] EXCEPT !.status = status] \in Requests
        /\ [line[i] EXCEPT !.status = status].level = line[i].level
    BY <1>2 DEF Requests, Statuses
  <1>5. /\ line' \in Seq(Requests) /\ DOMAIN line' = DOMAIN line
        /\ \A j \in DOMAIN line : line'[j].level = line[j].level
    <2>1. line' = [line EXCEPT ![i] = [line[i] EXCEPT !.status = status]]
      BY <1>1
    <2>2. QED
      BY <1>2, <1>4, <2>1, ExceptSeq, LenProperties
  <1>6. line[i].level \in 2..level[u] /\ line[i].level \in Levels
    <2>1. line[i].level \in Levels /\ line[i].level <= level[u] /\ level[u] \in 1..Top
      BY <1>2, Types DEF IInv, OnlyReached, Requests
    <2>2. QED
      BY <2>1, Numbers DEF Levels
  <1>7. credited' \in [User -> SUBSET Levels] /\ credited'[u] \subseteq 2..level[u]
    BY <1>1, <1>3, <1>6, Types DEF IInv, GiftsEarned
  <1>8. TypeOK'
    BY <1>1, <1>5, <1>7, Types DEF IInv, TypeOK, Requests, Pending, Statuses
  <1>9. OnlyReached(u)' /\ GiftsEarned'
    BY <1>1, <1>5, <1>7 DEF IInv, OnlyReached, GiftsEarned
  <1>10. QED
    BY <1>1, <1>3, <1>8, <1>9, Numbers DEF IInv

\* What is asked for at an answer or its absence is owed, or the reward.
LEMMA AnswerKeeps ==
  ASSUME NEW u \in User, User = {u}, IInv(u),
         NEW rest \in Seq(Requests), \A i \in DOMAIN rest : rest[i].level <= level[u],
         Celebrate(rest) \/ Fail(rest) \/ (line' = rest /\ UNCHANGED <<reward, owed, intact>>),
         user = u, UNCHANGED <<user, level, credited, logins>>, faults' \in 0..MaxFaults
  PROVE  IInv(u)'
  <1>1. level[u] \in Nat
    BY Numbers, Types DEF IInv
  <1>2. /\ reward' \in Pending /\ reward'.level <= level[u]
        /\ owed' \in Seq(Levels) /\ line' \in Seq(Requests)
        /\ \A i \in DOMAIN owed' : owed'[i] <= level[u]
        /\ \A i \in DOMAIN line' : line'[i].level <= level[u]
        /\ intact' \in BOOLEAN
    <2>0. /\ owed \in Seq(Levels) /\ \A i \in DOMAIN owed : owed[i] <= level[u]
          /\ reward \in Pending /\ reward.level <= level[u] /\ intact \in BOOLEAN
          /\ NoReward \in Pending /\ NoReward.level <= level[u]
      BY <1>1, Types DEF IInv, OnlyReached, NoReward, Pending
    <2>1. CASE Celebrate(rest)
      <3>1. AskNext(owed, rest) /\ reward' = NoReward /\ intact' = intact
        BY <2>1 DEF Celebrate
      <3>2. QED
        BY <1>1, <2>0, <3>1, AskNextBounded
    <2>2. CASE Fail(rest)
      <3>1. CASE reward.level # 0 /\ ~reward.retried
        <4>1. reward' = [reward EXCEPT !.retried = TRUE]
          BY <2>2, <3>1 DEF Fail
        <4>2. reward' \in Pending /\ reward'.level = reward.level /\ reward'.retried
          BY <2>0, <4>1 DEF Pending
        <4>3. line' = Append(rest, Asked(reward.level))
          BY <2>2, <4>2 DEF Fail
        <4>4. Asked(reward.level) \in Requests /\ Asked(reward.level).level <= level[u]
          BY <2>0, <3>1, AskedType DEF Pending
        <4>5. QED
          BY <1>1, <2>0, <2>2, <4>2, <4>3, <4>4, AppendBounded DEF Fail
      <3>2. CASE ~(reward.level # 0 /\ ~reward.retried)
        <4>1. reward' = NoReward /\ line' = rest
          BY <2>2, <3>2 DEF Fail, NoReward
        <4>2. QED
          BY <2>0, <2>2, <4>1 DEF Fail
      <3>3. QED
        BY <3>1, <3>2
    <2>3. CASE line' = rest /\ UNCHANGED <<reward, owed, intact>>
      BY <2>0, <2>3
    <2>4. QED
      BY <2>1, <2>2, <2>3
  <1>3. TypeOK'
    BY <1>2, Types DEF IInv, TypeOK, Requests, Pending, Statuses
  <1>4. OnlyReached(u)' /\ GiftsEarned'
    BY <1>2 DEF IInv, OnlyReached, GiftsEarned
  <1>5. QED
    BY <1>3, <1>4, Numbers DEF IInv

LEMMA ReceiveKeeps == ASSUME NEW u \in User, User = {u}, IInv(u), Receive PROVE IInv(u)'
  <1>1. /\ line \in Seq(Requests) /\ line # <<>> /\ level[u] \in Nat
        /\ \A i \in DOMAIN line : line[i].level <= level[u]
        /\ user = u /\ faults \in 0..MaxFaults
    BY Numbers, Types DEF IInv, Receive, OnlyReached
  <1>2. Tail(line) \in Seq(Requests) /\ \A i \in DOMAIN Tail(line) : Tail(line)[i].level <= level[u]
    BY <1>1, TailBounded
  <1>3. Celebrate(Tail(line)) \/ Fail(Tail(line)) \/ (line' = Tail(line) /\ UNCHANGED <<reward, owed, intact>>)
    BY DEF Receive
  <1>4. UNCHANGED <<user, level, credited, logins, faults>>
    BY DEF Receive, settled
  <1>5. QED
    BY <1>1, <1>2, <1>3, <1>4, AnswerKeeps

LEMMA TimeoutKeeps == ASSUME NEW u \in User, User = {u}, IInv(u), Timeout PROVE IInv(u)'
  <1>1. PICK i \in DOMAIN line : line[i].awaited /\ Fail([line EXCEPT ![i].awaited = FALSE])
    BY DEF Timeout
  <1>2. line \in Seq(Requests) /\ i \in 1..Len(line) /\ line[i] \in Requests /\ line # <<>>
    BY Types, ElementOfSeq, LenProperties DEF IInv
  <1> DEFINE late == [line[i] EXCEPT !.awaited = FALSE]
             rest == [line EXCEPT ![i] = late]
  <1>3. late \in Requests /\ late.level = line[i].level
    BY <1>2 DEF Requests
  <1>4. rest \in Seq(Requests) /\ \A j \in DOMAIN rest : rest[j].level <= level[u]
    <2>1. \A j \in DOMAIN line : line[j].level <= level[u]
      BY DEF IInv, OnlyReached
    <2> HIDE DEF late
    <2>2. /\ rest \in Seq(Requests) /\ Len(rest) = Len(line)
          /\ \A j \in 1..Len(line) : rest[j] = IF j = i THEN late ELSE line[j]
      BY <1>2, <1>3, ExceptSeq
    <2>3. DOMAIN rest = DOMAIN line
      OBVIOUS
    <2>4. DOMAIN line = 1..Len(line)
      BY <1>2, LenProperties
    <2>5. QED
      BY <1>3, <2>1, <2>2, <2>3, <2>4
  <1>5. Fail(rest)
    BY <1>1
  <1>6. /\ UNCHANGED <<user, level, credited, logins>> /\ faults' \in 0..MaxFaults
    BY Numbers, Types DEF Timeout, settled, IInv
  <1>7. user = u
    BY <1>2, Types DEF IInv
  <1> HIDE DEF rest
  <1>8. QED
    BY <1>4, <1>5, <1>6, <1>7, AnswerKeeps

\* What the server has seen when the connection ends was earned.
LEMMA DisconnectKeeps ==
  ASSUME NEW u \in User, User = {u}, IInv(u), Disconnect,
         owed' \in Seq(Levels), \A i \in DOMAIN owed' : owed'[i] <= level[u],
         reward' \in {reward, NoReward}
  PROVE  IInv(u)'
  <1>1. /\ user = u /\ user' = None /\ line' = <<>> /\ intact' = FALSE
        /\ UNCHANGED <<level, logins, faults>>
    BY Types DEF Disconnect, IInv
  <1>2. PICK n \in 0..Len(line) :
          credited' = [credited EXCEPT ![u] =
            @ \cup {line[i].level : i \in {j \in 1..n : line[j].status # "refused"}}]
    BY <1>1 DEF Disconnect
  <1>3. line \in Seq(Requests) /\ Len(line) \in Nat /\ DOMAIN line = 1..Len(line)
    BY Types, LenProperties DEF IInv
  <1>4. \A i \in 1..n : line[i].level \in Levels /\ line[i].level \in 2..level[u]
    <2> SUFFICES ASSUME NEW i \in 1..n PROVE line[i].level \in Levels /\ line[i].level \in 2..level[u]
      OBVIOUS
    <2>1. line[i] \in Requests /\ line[i].level <= level[u]
      BY <1>2, <1>3, ElementOfSeq DEF IInv, OnlyReached
    <2>2. level[u] \in 1..Top
      BY Types DEF IInv
    <2>3. QED
      BY <2>1, <2>2, Numbers DEF Requests, Levels
  <1>5. credited' \in [User -> SUBSET Levels] /\ credited'[u] \subseteq 2..level[u]
    BY <1>2, <1>4, Types DEF IInv, GiftsEarned
  <1>6. reward' \in Pending /\ reward'.level <= level[u]
    <2>1. reward \in Pending /\ reward.level <= level[u] /\ level[u] \in 1..Top
      BY Types DEF IInv, OnlyReached
    <2>2. NoReward \in Pending /\ NoReward.level = 0
      BY DEF NoReward, Pending
    <2>3. QED
      BY <2>1, <2>2, Numbers
  <1>7. line' \in Seq(Requests) /\ DOMAIN line' = {}
    BY <1>1
  <1>8. TypeOK'
    BY <1>1, <1>5, <1>6, <1>7, Types DEF IInv, TypeOK, Requests, Pending, Statuses
  <1>9. OnlyReached(u)' /\ GiftsEarned'
    BY <1>1, <1>5, <1>6, <1>7 DEF IInv, OnlyReached, GiftsEarned
  <1>10. QED
    BY <1>1, <1>8, <1>9 DEF IInv

LEMMA EndKeeps == ASSUME NEW u \in User, User = {u}, IInv(u), Logout \/ Restart PROVE IInv(u)'
  <1>1. owed \in Seq(Levels) /\ level[u] \in Nat /\ \A i \in DOMAIN owed : owed[i] <= level[u]
    BY Numbers, Types DEF IInv, OnlyReached
  <1>2. owed' \in Seq(Levels) /\ \A i \in DOMAIN owed' : owed'[i] <= level[u]
    <2>1. owed' = owed \/ owed' = <<>> \/ (owed # <<>> /\ owed' = Tail(owed))
      BY DEF Logout, Restart
    <2>2. CASE owed' = <<>>
      BY <2>2
    <2>3. QED
      BY <1>1, <2>1, <2>2, TailReached
  <1>3. Disconnect /\ reward' \in {reward, NoReward}
    BY DEF Logout, Restart
  <1>4. QED
    BY <1>2, <1>3, DisconnectKeeps

LEMMA NextKeeps == ASSUME NEW u \in User, User = {u}, IInv(u), [Next]_vars PROVE IInv(u)'
  <1>1. CASE Credit \/ Refuse
    <2>1. faults' \in 0..MaxFaults /\ UNCHANGED intact
      BY <1>1, Numbers, Types DEF Credit, Refuse, IInv
    <2>2. Served("credited") \/ Served("refused")
      BY <1>1 DEF Credit, Refuse
    <2>3. QED
      BY <2>1, <2>2, ServedKeeps
  <1>2. CASE UNCHANGED vars
    BY <1>2 DEF vars, settled, IInv, TypeOK, OnlyReached, GiftsEarned
  <1>3. QED
    BY <1>1, <1>2, LoginKeeps, LevelUpKeeps, ReceiveKeeps, TimeoutKeeps, EndKeeps DEF Next

-----------------------------------------------------------------------------
(* The theorem.                                                            *)

\* On a client that one account uses, whatever is refused, times out or is cut
\* off, the server credits gifts of levels that were reached, and no others.
THEOREM OwnGiftsOnly == ASSUME NEW u \in User, User = {u} PROVE Spec => []GiftsEarned
  <1>1. Init => IInv(u)
    BY InitKeeps
  <1>2. IInv(u) /\ [Next]_vars => IInv(u)'
    BY NextKeeps
  <1>3. IInv(u) => GiftsEarned
    BY DEF IInv
  <1>4. QED
    BY <1>1, <1>2, <1>3, PTL DEF Spec
=============================================================================
