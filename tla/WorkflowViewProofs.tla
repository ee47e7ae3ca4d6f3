------------------------- MODULE WorkflowViewProofs -------------------------
(***************************************************************************)
(* Proofs about WorkflowView, for any number of changes, faults and        *)
(* sessions.                                                               *)
(***************************************************************************)
EXTENDS WorkflowView, SequenceTheorems, TLAPS

-----------------------------------------------------------------------------
(* The inductive invariant.                                                *)

Requests == [kind : Kinds, live : BOOLEAN]

\* Every call is of a change, and has a number.
Numbered(item) == item.status = "CALLED" => item.call # 0

CallsNumbered ==
  /\ entry.call <= changes
  /\ Numbered(entry)
  /\ \A i \in DOMAIN turns : Numbered(turns[i].item)
  /\ \A i \in DOMAIN down : Numbered(down[i].item)

\* Answers come in the order they were given, so what is announced was never
\* called before what is still to come.
AnswersInOrder ==
  /\ announced <= entry.call
  /\ \A i \in DOMAIN turns :
       announced <= turns[i].item.call /\ turns[i].item.call <= entry.call
  /\ \A i \in DOMAIN down : down[i].kind # "NOTICE" =>
       announced <= down[i].item.call /\ down[i].item.call <= entry.call
  /\ \A i, j \in DOMAIN turns : i < j => turns[i].item.call <= turns[j].item.call
  /\ \A i, j \in DOMAIN down :
       i < j /\ down[i].kind # "NOTICE" /\ down[j].kind # "NOTICE"
         => down[i].item.call <= down[j].item.call
  /\ \A i \in DOMAIN turns, j \in DOMAIN down :
       down[j].kind # "NOTICE" => turns[i].item.call <= down[j].item.call

\* The calls heard are among those up to the one announced.
HeardAreAnnounced == \A c \in DOMAIN heard : c > announced => heard[c] = 0

IInv == TypeOK /\ CallsNumbered /\ AnswersInOrder /\ HeardAreAnnounced /\ AnnouncedOnce

-----------------------------------------------------------------------------
(* The invariant is kept.                                                  *)

\* The bounds are numbers.
LEMMA Bounds == MaxChanges \in Nat /\ MaxFaults \in Nat /\ MaxLogins \in Nat
  BY ViewAssumption

LEMMA InitKeeps == Init => IInv
  <1> SUFFICES ASSUME Init PROVE IInv
    OBVIOUS
  <1>1. heard \in [1..MaxChanges -> 0..MaxChanges] /\ \A c \in DOMAIN heard : heard[c] = 0
    BY Bounds DEF Init
  <1>2. up \in Seq(Requests) /\ down \in Seq(Message) /\ turns \in Seq(Message)
    BY DEF Init
  <1>3. NotCalled \in Entry
    BY Bounds DEF NotCalled, Entry, Statuses
  <1>4. {loggedIn, hears, subscribed} \subseteq BOOLEAN
    BY DEF Init
  <1>5. TypeOK
    BY <1>1, <1>2, <1>3, <1>4, Bounds DEF Init, TypeOK, Requests
  <1>6. CallsNumbered /\ AnswersInOrder /\ HeardAreAnnounced /\ AnnouncedOnce
    BY <1>1 DEF Init, CallsNumbered, AnswersInOrder, HeardAreAnnounced, AnnouncedOnce, NotCalled, Numbered
  <1>7. QED
    BY <1>5, <1>6 DEF IInv

\* What a message is made of.
LEMMA MessageTypes ==
  ASSUME NEW s \in Seq(Message)
  PROVE  \A i \in DOMAIN s : /\ s[i] \in Message /\ s[i].kind \in Kinds \cup {"NOTICE"}
                             /\ s[i].live \in BOOLEAN /\ s[i].item \in Entry /\ s[i].item.call \in Nat
  <1> SUFFICES ASSUME NEW i \in DOMAIN s PROVE s[i] \in Message
    BY Bounds DEF Message, Entry
  <1>1. QED
    BY ElementOfSeq, LenProperties

\* What a change may do to the entry.
LEMMA ChangedEntry ==
  ASSUME TypeOK, CallsNumbered, Changed \/ UNCHANGED tables
  PROVE  /\ changes' \in 0..MaxChanges /\ changes <= changes'
         /\ entry' \in Entry
         /\ entry'.call <= changes' /\ Numbered(entry')
         /\ entry.call <= entry'.call
  <1>1. /\ changes \in 0..MaxChanges /\ changes \in Nat
        /\ entry \in [status : Statuses, call : 0..MaxChanges] /\ entry.call \in Nat
        /\ entry.call <= changes
    BY Bounds DEF TypeOK, Entry, CallsNumbered
  <1>2. CASE UNCHANGED tables \/ (Changed /\ entry' = entry)
    <2>1. changes' \in 0..MaxChanges /\ changes <= changes' /\ entry' = entry
      BY <1>1, <1>2, Bounds DEF tables, Changed
    <2>2. QED
      BY <1>1, <2>1, Bounds DEF CallsNumbered, Entry, Numbered
  <1>3. CASE Changed /\ entry' = [entry EXCEPT !.status = "WAITING"]
    <2>1. changes' \in 0..MaxChanges /\ changes <= changes'
      BY <1>1, <1>3, Bounds DEF Changed
    <2>2. entry' \in Entry /\ entry'.status = "WAITING" /\ entry'.call = entry.call
      BY <1>1, <1>3 DEF Entry, Statuses
    <2>3. QED
      BY <1>1, <2>1, <2>2, Bounds DEF Numbered
  <1>4. CASE Changed /\ entry' = [status |-> "CALLED", call |-> entry.call + 1]
    <2>1. changes' \in 0..MaxChanges /\ changes' = changes + 1
      BY <1>1, <1>4, Bounds DEF Changed
    <2>2. entry'.call = entry.call + 1 /\ entry' \in Entry
      BY <1>1, <1>4, <2>1, Bounds DEF Entry, Statuses
    <2>3. QED
      BY <1>1, <2>1, <2>2, Bounds DEF Numbered
  <1>5. QED
    BY <1>2, <1>3, <1>4 DEF Changed

\* A change alone.
LEMMA ChangeKeeps == IInv /\ Change => IInv'
  <1> SUFFICES ASSUME IInv, Change PROVE IInv'
    OBVIOUS
  <1>1. /\ changes' \in 0..MaxChanges /\ changes <= changes'
        /\ entry' \in Entry
        /\ entry'.call <= changes' /\ Numbered(entry')
        /\ entry.call <= entry'.call
    BY ChangedEntry DEF IInv, Change
  <1>2. UNCHANGED <<noticed, loggedIn, hears, subscribed, up, down, turns, view, announced, heard, faults, logins>>
    BY DEF Change, network, shown
  <1>3. TypeOK'
    BY <1>1, <1>2 DEF IInv, TypeOK
  <1>4. CallsNumbered'
    BY <1>1, <1>2 DEF IInv, CallsNumbered
  <1>5. AnswersInOrder'
    <2>1. entry.call \in Nat /\ entry'.call \in Nat /\ announced \in Nat
      BY <1>1, Bounds DEF IInv, TypeOK, Entry
    <2>2. \A i \in DOMAIN turns : turns[i].item.call \in Nat
      BY MessageTypes DEF IInv, TypeOK
    <2>3. \A i \in DOMAIN down : down[i].item.call \in Nat
      BY MessageTypes DEF IInv, TypeOK
    <2>4. QED
      BY <1>1, <1>2, <2>1, <2>2, <2>3 DEF IInv, AnswersInOrder
  <1>6. HeardAreAnnounced' /\ AnnouncedOnce'
    BY <1>2 DEF IInv, HeardAreAnnounced, AnnouncedOnce
  <1>7. QED
    BY <1>3, <1>4, <1>5, <1>6 DEF IInv

\* An answer given after the change, or a notice, goes behind the others.
LEMMA AnswerLast ==
  ASSUME IInv, NEW m \in Message,
         entry' \in Entry, entry.call <= entry'.call, Numbered(entry'),
         entry'.call <= changes',
         Numbered(m.item), m.kind # "NOTICE" => m.item.call = entry'.call,
         down' = Append(down, m), UNCHANGED <<turns, announced>>
  PROVE  down' \in Seq(Message) /\ CallsNumbered' /\ AnswersInOrder'
  <1>1. /\ down' \in Seq(Message) /\ DOMAIN down' = 1..(Len(down) + 1) /\ DOMAIN down = 1..Len(down)
        /\ Len(down) \in Nat
        /\ \A i \in DOMAIN down : down'[i] = down[i]
        /\ down'[Len(down) + 1] = m
    BY AppendProperties, LenProperties DEF IInv, TypeOK
  <1>2. \A i \in DOMAIN down' : i \in DOMAIN down \/ (i = Len(down) + 1 /\ down'[i] = m)
    BY <1>1
  <1>3. CallsNumbered'
    BY <1>1, <1>2 DEF IInv, CallsNumbered
  <1>4. /\ entry.call \in Nat /\ entry'.call \in Nat /\ announced \in Nat
        /\ \A i \in DOMAIN turns : turns[i].item.call \in Nat
        /\ \A i \in DOMAIN down : down[i].item.call \in Nat
    BY MessageTypes, Bounds DEF IInv, TypeOK, Entry
  <1>5. announced' <= entry'.call
    BY <1>4 DEF IInv, AnswersInOrder
  <1>6. \A i \in DOMAIN turns :
          announced <= turns[i].item.call /\ turns[i].item.call <= entry'.call
    BY <1>4 DEF IInv, AnswersInOrder
  <1>7. \A i \in DOMAIN down : down[i].kind # "NOTICE" =>
          announced <= down[i].item.call /\ down[i].item.call <= entry'.call
    BY <1>4 DEF IInv, AnswersInOrder
  <1>8. \A i \in DOMAIN down' : down'[i].kind # "NOTICE" =>
          announced <= down'[i].item.call /\ down'[i].item.call <= entry'.call
    BY <1>1, <1>2, <1>4, <1>5, <1>7
  <1>9. \A i, j \in DOMAIN down' :
          i < j /\ down'[i].kind # "NOTICE" /\ down'[j].kind # "NOTICE"
            => down'[i].item.call <= down'[j].item.call
    <2> SUFFICES ASSUME NEW i \in DOMAIN down', NEW j \in DOMAIN down', i < j,
                        down'[i].kind # "NOTICE", down'[j].kind # "NOTICE"
                 PROVE  down'[i].item.call <= down'[j].item.call
      OBVIOUS
    <2>1. i \in DOMAIN down
      BY <1>1, <1>2
    <2>2. CASE j \in DOMAIN down
      BY <1>1, <2>1, <2>2 DEF IInv, AnswersInOrder
    <2>3. CASE j = Len(down) + 1
      BY <1>1, <1>7, <2>1, <2>3
    <2>4. QED
      BY <1>2, <2>2, <2>3
  <1>10. \A i \in DOMAIN turns, j \in DOMAIN down' :
           down'[j].kind # "NOTICE" => turns[i].item.call <= down'[j].item.call
    BY <1>1, <1>2, <1>6 DEF IInv, AnswersInOrder
  <1>11. \A i, j \in DOMAIN turns : i < j => turns[i].item.call <= turns[j].item.call
    BY DEF IInv, AnswersInOrder
  <1>12. AnswersInOrder'
    BY <1>5, <1>6, <1>8, <1>9, <1>10, <1>11 DEF AnswersInOrder
  <1>13. QED
    BY <1>1, <1>3, <1>12

\* A request sent.
LEMMA RequestSent ==
  ASSUME NEW s \in Seq(Requests), NEW k1 \in Kinds, NEW k2 \in Kinds, NEW b1, NEW b2
  PROVE  /\ Append(s, Request(k1)) \in Seq(Requests)
         /\ s \o (IF b1 THEN <<>> ELSE <<Request(k1)>>) \in Seq(Requests)
         /\ s \o (IF b1 THEN <<>> ELSE <<Request(k1)>>) \o (IF b2 THEN <<>> ELSE <<Request(k2)>>) \in Seq(Requests)
         /\ <<Request(k1), Request(k2)>> \in Seq(Requests)
  <1>1. Request(k1) \in Requests /\ Request(k2) \in Requests
    BY DEF Request, Requests
  <1>2. <<Request(k1)>> \in Seq(Requests) /\ <<Request(k2)>> \in Seq(Requests) /\ <<>> \in Seq(Requests)
    BY <1>1
  <1>3. s \o (IF b1 THEN <<>> ELSE <<Request(k1)>>) \in Seq(Requests)
    BY <1>2, ConcatProperties
  <1>4. QED
    BY <1>1, <1>2, <1>3, ConcatProperties, AppendProperties

\* The next request, answered after what it changes.
LEMMA ServeKeeps == IInv /\ Serve => IInv'
  <1> SUFFICES ASSUME IInv, Serve PROVE IInv'
    OBVIOUS
  <1>1. /\ changes' \in 0..MaxChanges /\ changes <= changes'
        /\ entry' \in Entry
        /\ entry'.call <= changes' /\ Numbered(entry')
        /\ entry.call <= entry'.call
    <2>1. Changed \/ UNCHANGED tables
      BY DEF Serve
    <2>2. QED
      BY <2>1, ChangedEntry DEF IInv
  <1>2. Head(up) \in Requests /\ up' \in Seq(Requests)
    BY HeadTailProperties DEF IInv, TypeOK, Serve, Requests
  <1> DEFINE m == Answer(Head(up).kind, Head(up).live, TRUE)
  <1>3. m \in Message /\ m.item = entry' /\ m.kind = Head(up).kind
    BY <1>1, <1>2 DEF Answer, Message, Requests
  <1>4. down' = Append(down, m)
    BY DEF Serve
  <1>5. UNCHANGED <<noticed, loggedIn, subscribed, turns, view, announced, heard, faults, logins>>
    BY DEF Serve, shown
  <1>6. down' \in Seq(Message) /\ CallsNumbered' /\ AnswersInOrder'
    <2> HIDE DEF m
    <2>1. QED
      BY <1>1, <1>3, <1>4, <1>5, AnswerLast
  <1>7. hears' \in BOOLEAN
    BY DEF Serve, IInv, TypeOK
  <1>8. TypeOK'
    BY <1>1, <1>2, <1>5, <1>6, <1>7 DEF IInv, TypeOK, Requests
  <1>9. HeardAreAnnounced' /\ AnnouncedOnce'
    BY <1>5 DEF IInv, HeardAreAnnounced, AnnouncedOnce
  <1>10. QED
    BY <1>6, <1>8, <1>9 DEF IInv

\* A refusal.
LEMMA RefuseKeeps == IInv /\ Refuse => IInv'
  <1> SUFFICES ASSUME IInv, Refuse PROVE IInv'
    OBVIOUS
  <1>1. /\ changes' \in 0..MaxChanges
        /\ entry' \in Entry
        /\ entry'.call <= changes' /\ Numbered(entry')
        /\ entry.call <= entry'.call
    BY ChangedEntry DEF IInv, Refuse
  <1>2. Head(up) \in Requests /\ up' \in Seq(Requests)
    BY HeadTailProperties DEF IInv, TypeOK, Refuse, Requests
  <1> DEFINE m == Answer(Head(up).kind, Head(up).live, FALSE)
  <1>3. m \in Message /\ m.item = entry' /\ m.kind = Head(up).kind
    BY <1>1, <1>2 DEF Answer, Message, Requests
  <1>4. down' = Append(down, m)
    BY DEF Refuse
  <1>5. UNCHANGED <<noticed, loggedIn, hears, subscribed, turns, view, announced, heard, logins>>
    BY DEF Refuse, shown
  <1>6. down' \in Seq(Message) /\ CallsNumbered' /\ AnswersInOrder'
    <2> HIDE DEF m
    <2>1. QED
      BY <1>1, <1>3, <1>4, <1>5, AnswerLast
  <1>7. faults' \in 0..MaxFaults
    BY Bounds DEF Refuse, IInv, TypeOK
  <1>8. TypeOK'
    BY <1>1, <1>2, <1>5, <1>6, <1>7 DEF IInv, TypeOK, Requests
  <1>9. HeardAreAnnounced' /\ AnnouncedOnce'
    BY <1>5 DEF IInv, HeardAreAnnounced, AnnouncedOnce
  <1>10. QED
    BY <1>6, <1>8, <1>9 DEF IInv

\* A notice, or none.
LEMMA BroadcastKeeps == IInv /\ Broadcast => IInv'
  <1> SUFFICES ASSUME IInv, Broadcast PROVE IInv'
    OBVIOUS
  <1>1. noticed' = changes /\ UNCHANGED <<changes, entry, loggedIn, hears, subscribed, up, turns, view, announced, heard, logins>>
    BY DEF Broadcast, tables, shown
  <1>2. faults' \in 0..MaxFaults
    BY Bounds DEF Broadcast, IInv, TypeOK
  <1>3. down' \in Seq(Message) /\ CallsNumbered' /\ AnswersInOrder'
    <2>1. CASE down' = Append(down, Notice)
      <3>1. Notice \in Message /\ Numbered(Notice.item) /\ Notice.kind = "NOTICE"
        BY Bounds DEF Notice, Message, NotCalled, Numbered, Entry, Statuses
      <3>2. /\ entry' \in Entry /\ entry.call <= entry'.call /\ Numbered(entry')
            /\ entry'.call <= changes'
        BY <1>1, ChangedEntry DEF IInv, tables
      <3>3. QED
        BY <1>1, <2>1, <3>1, <3>2, AnswerLast
    <2>2. CASE UNCHANGED down
      BY <1>1, <2>2 DEF IInv, TypeOK, CallsNumbered, AnswersInOrder
    <2>3. QED
      BY <2>1, <2>2 DEF Broadcast
  <1>4. TypeOK'
    BY <1>1, <1>2, <1>3 DEF IInv, TypeOK
  <1>5. HeardAreAnnounced' /\ AnnouncedOnce'
    BY <1>1 DEF IInv, HeardAreAnnounced, AnnouncedOnce
  <1>6. QED
    BY <1>3, <1>4, <1>5 DEF IInv

\* What the client sends of its own.
LEMMA SendKeeps == IInv /\ (Login \/ Ask \/ Poll) => IInv'
  <1> SUFFICES ASSUME IInv, Login \/ Ask \/ Poll PROVE IInv'
    OBVIOUS
  <1>1. UNCHANGED <<changes, entry, noticed, hears, subscribed, down, turns, view, announced, heard, faults>>
    BY DEF Login, Ask, Poll, tables, shown
  <1>2. up' \in Seq(Requests)
    <2>1. up \in Seq(Requests) /\ {"SUBSCRIBE", "GET_MINE", "ASK"} \subseteq Kinds
      BY DEF IInv, TypeOK, Requests, Kinds
    <2>2. CASE Login
      BY <2>1, <2>2, RequestSent DEF Login
    <2>3. CASE Ask
      BY <2>1, <2>3, RequestSent DEF Ask
    <2>4. CASE Poll
      BY <2>1, <2>4, RequestSent DEF Poll, Subscription, Fallback, Refresh
    <2>5. QED
      BY <2>2, <2>3, <2>4
  <1>3. loggedIn' \in BOOLEAN /\ logins' \in 0..MaxLogins
    <2>1. loggedIn \in BOOLEAN /\ logins \in 0..MaxLogins
      BY DEF IInv, TypeOK
    <2>2. CASE Login
      BY <2>1, <2>2, Bounds DEF Login
    <2>3. CASE Ask \/ Poll
      BY <2>1, <2>3 DEF Ask, Poll
    <2>4. QED
      BY <2>2, <2>3
  <1>4. TypeOK'
    BY <1>1, <1>2, <1>3 DEF IInv, TypeOK, Requests
  <1>5. CallsNumbered' /\ AnswersInOrder' /\ HeardAreAnnounced' /\ AnnouncedOnce'
    BY <1>1 DEF IInv, CallsNumbered, AnswersInOrder, HeardAreAnnounced, AnnouncedOnce
  <1>6. QED
    BY <1>4, <1>5 DEF IInv

\* The end of a session forgets all that is under way.
LEMMA LogoutKeeps == IInv /\ Logout => IInv'
  <1> SUFFICES ASSUME IInv, Logout PROVE IInv'
    OBVIOUS
  <1>1. /\ UNCHANGED <<changes, entry, noticed, faults, logins>>
        /\ up' = <<>> /\ down' = <<>> /\ turns' = <<>> /\ view' = NotCalled /\ announced' = 0
        /\ loggedIn' = FALSE /\ hears' = FALSE /\ subscribed' = FALSE
    BY DEF Logout, tables
  <1>2. heard' \in [1..MaxChanges -> 0..MaxChanges] /\ \A c \in DOMAIN heard' : heard'[c] = 0
    BY Bounds DEF Logout, IInv, TypeOK
  <1>3. NotCalled \in Entry
    BY Bounds DEF NotCalled, Entry, Statuses
  <1>4. TypeOK'
    <2>1. {loggedIn', hears', subscribed'} \subseteq BOOLEAN
      BY <1>1
    <2>2. up' \in Seq(Requests) /\ down' \in Seq(Message) /\ turns' \in Seq(Message)
      BY <1>1
    <2>3. QED
      BY <1>1, <1>2, <1>3, <2>1, <2>2, Bounds DEF IInv, TypeOK, Requests
  <1>5. entry.call \in Nat
    BY Bounds DEF IInv, TypeOK, Entry
  <1>6. CallsNumbered' /\ AnswersInOrder' /\ HeardAreAnnounced' /\ AnnouncedOnce'
    BY <1>1, <1>2, <1>5 DEF IInv, CallsNumbered, AnswersInOrder, HeardAreAnnounced, AnnouncedOnce
  <1>7. QED
    BY <1>4, <1>6 DEF IInv

\* The first message goes from the wire to its turn, or is acted upon.
LEMMA ReadKeeps == IInv /\ Read => IInv'
  <1> SUFFICES ASSUME IInv, Read PROVE IInv'
    OBVIOUS
  <1>1. UNCHANGED <<changes, entry, noticed, loggedIn, hears, subscribed, view, announced, heard, faults, logins>>
    BY DEF Read, tables, shown
  <1> DEFINE m == Head(down)
  <1>2. /\ m \in Message /\ m = down[1] /\ 1 \in DOMAIN down
        /\ down' \in Seq(Message)
        /\ \A i \in DOMAIN down' : i + 1 \in DOMAIN down /\ i + 1 > 1 /\ down'[i] = down[i + 1]
        /\ \A i \in DOMAIN down' : i \in Nat
    BY HeadTailProperties, LenProperties, EmptySeq DEF IInv, TypeOK, Read
  <1>3. up' \in Seq(Requests)
    <2>1. up \in Seq(Requests) /\ "GET_MINE" \in Kinds
      BY DEF IInv, TypeOK, Requests, Kinds
    <2>2. CASE m.kind = "NOTICE"
      BY <2>1, <2>2, RequestSent DEF Read, Refresh
    <2>3. CASE m.kind # "NOTICE"
      BY <2>1, <2>3 DEF Read
    <2>4. QED
      BY <2>2, <2>3
  <1>4. \/ turns' = turns
        \/ m.kind # "NOTICE" /\ turns' = Append(turns, m)
    <2>1. turns \in Seq(Message)
      BY DEF IInv, TypeOK
    <2> HIDE DEF m
    <2>2. turns \o <<>> = turns /\ turns \o <<m>> = Append(turns, m)
      BY <1>2, <2>1, ConcatEmptySeq, AppendIsConcat
    <2> USE DEF m
    <2>3. QED
      BY <2>2 DEF Read
  <1> HIDE DEF m
  <1>5. CASE turns' = turns
    <2>1. TypeOK'
      BY <1>1, <1>2, <1>3, <1>5 DEF IInv, TypeOK, Requests
    <2>2. CallsNumbered'
      BY <1>1, <1>2, <1>5 DEF IInv, CallsNumbered
    <2>3. AnswersInOrder'
      BY <1>1, <1>2, <1>5 DEF IInv, AnswersInOrder
    <2>4. HeardAreAnnounced' /\ AnnouncedOnce'
      BY <1>1 DEF IInv, HeardAreAnnounced, AnnouncedOnce
    <2>5. QED
      BY <2>1, <2>2, <2>3, <2>4 DEF IInv
  <1>6. CASE m.kind # "NOTICE" /\ turns' = Append(turns, m)
    <2>1. /\ turns' \in Seq(Message) /\ Len(turns) \in Nat
          /\ DOMAIN turns = 1..Len(turns) /\ DOMAIN turns' = 1..(Len(turns) + 1)
          /\ \A i \in DOMAIN turns : turns'[i] = turns[i]
          /\ turns'[Len(turns) + 1] = m
      BY <1>2, <1>6, AppendProperties, LenProperties DEF IInv, TypeOK
    <2>2. \A i \in DOMAIN turns' : i \in DOMAIN turns \/ (i = Len(turns) + 1 /\ turns'[i] = m)
      BY <2>1
    <2>3. TypeOK'
      BY <1>1, <1>2, <1>3, <2>1 DEF IInv, TypeOK, Requests
    <2>4. CallsNumbered'
      BY <1>1, <1>2, <2>1, <2>2 DEF IInv, CallsNumbered
    <2>5. \A i \in DOMAIN turns' :
            announced <= turns'[i].item.call /\ turns'[i].item.call <= entry.call
      BY <1>2, <1>6, <2>1, <2>2 DEF IInv, AnswersInOrder
    <2>6. \A i \in DOMAIN down' : down'[i].kind # "NOTICE" =>
            announced <= down'[i].item.call /\ down'[i].item.call <= entry.call
      BY <1>2 DEF IInv, AnswersInOrder
    <2>7. \A i, j \in DOMAIN turns' : i < j => turns'[i].item.call <= turns'[j].item.call
      <3> SUFFICES ASSUME NEW i \in DOMAIN turns', NEW j \in DOMAIN turns', i < j
                   PROVE  turns'[i].item.call <= turns'[j].item.call
        OBVIOUS
      <3>1. i \in DOMAIN turns
        BY <2>1, <2>2
      <3>2. CASE j \in DOMAIN turns
        BY <2>1, <3>1, <3>2 DEF IInv, AnswersInOrder
      <3>3. CASE turns'[j] = m
        BY <1>2, <1>6, <2>1, <3>1, <3>3 DEF IInv, AnswersInOrder
      <3>4. QED
        BY <2>2, <3>2, <3>3
    <2>8. \A i, j \in DOMAIN down' :
            i < j /\ down'[i].kind # "NOTICE" /\ down'[j].kind # "NOTICE"
              => down'[i].item.call <= down'[j].item.call
      BY <1>2 DEF IInv, AnswersInOrder
    <2>9. \A i \in DOMAIN turns', j \in DOMAIN down' :
            down'[j].kind # "NOTICE" => turns'[i].item.call <= down'[j].item.call
      <3> SUFFICES ASSUME NEW i \in DOMAIN turns', NEW j \in DOMAIN down', down'[j].kind # "NOTICE"
                   PROVE  turns'[i].item.call <= down'[j].item.call
        OBVIOUS
      <3>1. CASE i \in DOMAIN turns
        BY <1>2, <2>1, <3>1 DEF IInv, AnswersInOrder
      <3>2. CASE turns'[i] = m
        BY <1>2, <1>6, <3>2 DEF IInv, AnswersInOrder
      <3>3. QED
        BY <2>2, <3>1, <3>2
    <2>10. AnswersInOrder'
      BY <1>1, <2>5, <2>6, <2>7, <2>8, <2>9 DEF IInv, AnswersInOrder
    <2>11. HeardAreAnnounced' /\ AnnouncedOnce'
      BY <1>1 DEF IInv, HeardAreAnnounced, AnnouncedOnce
    <2>12. QED
      BY <2>3, <2>4, <2>10, <2>11 DEF IInv
  <1>7. QED
    BY <1>4, <1>5, <1>6

\* An answer shown: its call is announced unless it was.
LEMMA TurnKeeps == IInv /\ Turn => IInv'
  <1> SUFFICES ASSUME IInv, Turn PROVE IInv'
    OBVIOUS
  <1>1. UNCHANGED <<changes, entry, noticed, loggedIn, hears, down, faults, logins>>
    BY DEF Turn, tables
  <1> DEFINE m == Head(turns)
  <1>2. /\ m \in Message /\ m = turns[1] /\ 1 \in DOMAIN turns
        /\ turns' \in Seq(Message)
        /\ \A i \in DOMAIN turns' : i + 1 \in DOMAIN turns /\ i + 1 > 1 /\ turns'[i] = turns[i + 1]
        /\ \A i \in DOMAIN turns' : i \in Nat
    BY HeadTailProperties, LenProperties, EmptySeq DEF IInv, TypeOK, Turn
  <1>3. up' \in Seq(Requests)
    <2>1. up \in Seq(Requests) /\ "GET_MINE" \in Kinds
      BY DEF IInv, TypeOK, Requests, Kinds
    <2>2. CASE m.kind = "ASK" /\ m.ok
      BY <2>1, <2>2, RequestSent DEF Turn, Refresh
    <2>3. CASE ~(m.kind = "ASK" /\ m.ok)
      BY <2>1, <2>3, ConcatEmptySeq DEF Turn
    <2>4. QED
      BY <2>2, <2>3
  <1>4. subscribed' \in BOOLEAN
    BY <1>2 DEF Turn, Message, IInv, TypeOK
  <1>5. Show(m.item) \/ UNCHANGED shown
    BY DEF Turn
  <1> HIDE DEF m
  <1>6. m.item \in Entry /\ m.item.call \in 0..MaxChanges /\ Numbered(m.item)
    BY <1>2 DEF IInv, CallsNumbered, Message, Entry
  <1>7. announced \in Nat /\ announced <= m.item.call /\ m.item.call <= entry.call
    BY <1>2, Bounds DEF IInv, TypeOK, AnswersInOrder
  <1>8. view' \in Entry /\ (announced' = announced \/ announced' = m.item.call)
    BY <1>5, <1>6 DEF Show, shown, IInv, TypeOK
  <1>9. HeardAreAnnounced' /\ AnnouncedOnce' /\ heard' \in [1..MaxChanges -> 0..MaxChanges]
    <2>1. CASE Show(m.item) /\ NewCall(m.item)
      <3>1. announced < m.item.call /\ m.item.call \in 1..MaxChanges /\ heard[m.item.call] = 0
        BY <1>6, <1>7, <2>1, Bounds DEF NewCall, Numbered, IInv, HeardAreAnnounced, TypeOK
      <3>2. heard' = [heard EXCEPT ![m.item.call] = 1] /\ announced' = m.item.call
        BY <2>1, <3>1 DEF Show, IInv, TypeOK
      <3>3. heard' \in [1..MaxChanges -> 0..MaxChanges]
        BY <3>1, <3>2, Bounds DEF IInv, TypeOK
      <3>4. \A c \in DOMAIN heard' : heard'[c] = IF c = m.item.call THEN 1 ELSE heard[c]
        BY <3>1, <3>2 DEF IInv, TypeOK
      <3>5. AnnouncedOnce'
        BY <3>2, <3>4 DEF IInv, AnnouncedOnce
      <3>6. HeardAreAnnounced'
        <4> SUFFICES ASSUME NEW c \in DOMAIN heard', c > announced' PROVE heard'[c] = 0
          BY DEF HeardAreAnnounced
        <4>1. c \in DOMAIN heard /\ c \in Nat /\ c > announced /\ c # m.item.call
          BY <1>7, <3>1, <3>2 DEF IInv, TypeOK
        <4>2. QED
          BY <3>4, <4>1 DEF IInv, HeardAreAnnounced
      <3>7. QED
        BY <3>3, <3>5, <3>6
    <2>2. CASE UNCHANGED <<announced, heard>>
      BY <2>2 DEF IInv, TypeOK, HeardAreAnnounced, AnnouncedOnce
    <2>3. QED
      BY <1>5, <2>1, <2>2 DEF Show, shown
  <1>10. announced' \in 0..MaxChanges
    BY <1>6, <1>8 DEF IInv, TypeOK
  <1>11. TypeOK'
    BY <1>1, <1>2, <1>3, <1>4, <1>8, <1>9, <1>10 DEF IInv, TypeOK, Requests
  <1>12. CallsNumbered'
    BY <1>1, <1>2 DEF IInv, CallsNumbered
  <1>13. AnswersInOrder'
    <2>1. announced' <= entry.call
      BY <1>7, <1>8 DEF IInv, AnswersInOrder
    <2>2. \A i \in DOMAIN turns' :
            announced' <= turns'[i].item.call /\ turns'[i].item.call <= entry.call
      BY <1>2, <1>8 DEF IInv, AnswersInOrder
    <2>3. \A i \in DOMAIN down : down[i].kind # "NOTICE" =>
            announced' <= down[i].item.call /\ down[i].item.call <= entry.call
      BY <1>2, <1>8 DEF IInv, AnswersInOrder
    <2>4. \A i, j \in DOMAIN turns' : i < j => turns'[i].item.call <= turns'[j].item.call
      BY <1>2 DEF IInv, AnswersInOrder
    <2>5. \A i \in DOMAIN turns', j \in DOMAIN down :
            down[j].kind # "NOTICE" => turns'[i].item.call <= down[j].item.call
      BY <1>2 DEF IInv, AnswersInOrder
    <2>6. QED
      BY <1>1, <2>1, <2>2, <2>3, <2>4, <2>5 DEF IInv, AnswersInOrder
  <1>14. QED
    BY <1>9, <1>11, <1>12, <1>13 DEF IInv

\* A request given up is as it was, but for nobody waiting for it.
LEMMA TimeoutKeeps == IInv /\ Timeout => IInv'
  <1> SUFFICES ASSUME IInv, Timeout PROVE IInv'
    OBVIOUS
  <1>1. UNCHANGED <<changes, entry, noticed, loggedIn, hears, subscribed, turns, view, announced, heard, logins>>
    BY DEF Timeout, tables, shown
  <1>2. faults' \in 0..MaxFaults
    BY Bounds DEF Timeout, IInv, TypeOK
  <1>3. up' \in Seq(Requests)
    <2>1. up \in Seq(Requests)
      BY DEF IInv, TypeOK, Requests
    <2>2. ASSUME NEW i \in DOMAIN up PROVE Expired(up, i) \in Seq(Requests)
      <3>1. i \in 1..Len(up) /\ up[i] \in Requests
        BY <2>1, ElementOfSeq, LenProperties
      <3>2. [up[i] EXCEPT !.live = FALSE] \in Requests
        BY <3>1 DEF Requests
      <3>3. QED
        BY <2>1, <3>1, <3>2, ExceptSeq DEF Expired
    <2>3. QED
      BY <2>1, <2>2 DEF Timeout
  <1>4. /\ down' \in Seq(Message) /\ DOMAIN down' = DOMAIN down
        /\ \A j \in DOMAIN down : down'[j].kind = down[j].kind /\ down'[j].item = down[j].item
    <2>1. down \in Seq(Message)
      BY DEF IInv, TypeOK
    <2>2. ASSUME NEW i \in DOMAIN down, down' = Expired(down, i)
          PROVE  /\ down' \in Seq(Message) /\ DOMAIN down' = DOMAIN down
                 /\ \A j \in DOMAIN down : down'[j].kind = down[j].kind /\ down'[j].item = down[j].item
      <3>1. i \in 1..Len(down) /\ down[i] \in Message
        BY <2>1, ElementOfSeq, LenProperties
      <3>2. /\ [down[i] EXCEPT !.live = FALSE] \in Message
            /\ [down[i] EXCEPT !.live = FALSE].kind = down[i].kind
            /\ [down[i] EXCEPT !.live = FALSE].item = down[i].item
        BY <3>1 DEF Message
      <3>3. down' = [down EXCEPT ![i] = [down[i] EXCEPT !.live = FALSE]]
        BY <2>2 DEF Expired
      <3>4. QED
        BY <2>1, <3>1, <3>2, <3>3, ExceptSeq, LenProperties
    <2>3. QED
      BY <2>1, <2>2 DEF Timeout
  <1>5. TypeOK'
    BY <1>1, <1>2, <1>3, <1>4 DEF IInv, TypeOK, Requests
  <1>6. CallsNumbered' /\ AnswersInOrder'
    BY <1>1, <1>4 DEF IInv, CallsNumbered, AnswersInOrder
  <1>7. HeardAreAnnounced' /\ AnnouncedOnce'
    BY <1>1 DEF IInv, HeardAreAnnounced, AnnouncedOnce
  <1>8. QED
    BY <1>5, <1>6, <1>7 DEF IInv

LEMMA StutterKeeps == IInv /\ UNCHANGED vars => IInv'
  BY DEF vars, tables, network, shown, IInv, TypeOK, CallsNumbered, AnswersInOrder,
         HeardAreAnnounced, AnnouncedOnce

-----------------------------------------------------------------------------
(* The theorems.                                                           *)

\* Answers reach the client in the order of the calls they tell of, and only
\* calls up to the one announced have been heard.
THEOREM ViewInvariant == Spec => []IInv
  <1>1. IInv /\ [Next]_vars => IInv'
    BY ChangeKeeps, ServeKeeps, RefuseKeeps, BroadcastKeeps, SendKeeps, LogoutKeeps,
       ReadKeeps, TurnKeeps, TimeoutKeeps, StutterKeeps DEF Next
  <1>2. QED
    BY InitKeeps, <1>1, PTL DEF Spec

\* A call is announced at most once in a session: the requests of notices,
\* timer and user may overlap as they will.
THEOREM NoCallTwice == Spec => []AnnouncedOnce
  <1>1. IInv => AnnouncedOnce
    BY DEF IInv
  <1>2. QED
    BY ViewInvariant, <1>1, PTL
=============================================================================
