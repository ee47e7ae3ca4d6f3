-------------------------- MODULE AdminFormsProofs --------------------------
(***************************************************************************)
(* Proofs about AdminForms, for any administrators, commands, requests,    *)
(* clock and writes by others.                                             *)
(***************************************************************************)
EXTENDS AdminForms, SequenceTheorems, TLAPS

-----------------------------------------------------------------------------
(* The inductive invariant.                                                *)

\* Requests are served in the order they were made, and the page waits for
\* the last one or for none: while its answer comes, no copy of the command
\* is left on the way.
InOrder ==
  /\ attempt \in {0, attempts}
  /\ \A i \in DOMAIN inbox : inbox[i].attempt <= attempts
  /\ \A i \in DOMAIN outbox : outbox[i].attempt <= attempts
  /\ \A i, j \in DOMAIN inbox : i < j => inbox[i].attempt < inbox[j].attempt
  /\ \A i \in DOMAIN outbox, j \in DOMAIN inbox : outbox[i].attempt < inbox[j].attempt

\* The page has a command under way or of unknown outcome.
Busy == attempt # 0 \/ pending # None

\* A number stands for one command, asked for by its administrator only.
OneCommandEach ==
  /\ Busy => pending \in Command /\ pending.number <= drawn
  /\ \A i \in DOMAIN inbox : /\ inbox[i].command.number <= drawn
                             /\ inbox[i].admin = inbox[i].command.admin
                             /\ Busy /\ inbox[i].command.number = pending.number
                                  => inbox[i].command = pending
  /\ \A e \in log : /\ e.command.number <= drawn
                    /\ e.admin = e.command.admin
                    /\ Busy /\ e.command.number = pending.number => e.command = pending
  /\ \A i, j \in DOMAIN inbox :
       inbox[i].command.number = inbox[j].command.number => inbox[i].command = inbox[j].command
  /\ \A i \in DOMAIN inbox, e \in log :
       inbox[i].command.number = e.command.number => inbox[i].command = e.command

\* What is awaited is the outcome of the page's command.
Awaited ==
  /\ \A i \in DOMAIN inbox : inbox[i].attempt = attempt => inbox[i].command = pending
  /\ \A i \in DOMAIN outbox : outbox[i].attempt = attempt =>
       /\ outbox[i].number = pending.number
       /\ outbox[i].code = "refused" => Executed(pending.number) = {}

\* What was answered as done is done.
AnsweredRight == \A i \in DOMAIN outbox : outbox[i].code = "done" => Executed(outbox[i].number) # {}

\* Nothing more comes of a command whose outcome the page has told.
Settled ==
  \A n \in 1..MaxCommands : told[n] # "nothing" =>
    /\ n <= drawn
    /\ \A i \in DOMAIN inbox : inbox[i].command.number # n
    /\ Busy => pending.number # n

\* A row that was read is older than the row, or it is the row.
NotNewer(f, r) == f.version <= r.version /\ (f.version = r.version => f = r)
Fits(f) == NotNewer(f, row)

\* So it is with all that is shown or on its way, if only administrators write.
FormsFit ==
  page \in {"repairs", "stations"} =>
    /\ form # None => Fits(form)
    /\ Busy => Fits(pending.form)
    /\ \A i \in DOMAIN inbox : Fits(inbox[i].command.form)
    /\ \A i \in DOMAIN outbox : Fits(outbox[i].item)
    /\ \A e \in log : Fits(e.after)

IInv ==
  /\ TypeOK /\ InOrder /\ OneCommandEach /\ Awaited /\ AnsweredRight /\ Settled /\ ToldRight
  /\ FormsFit /\ OnceAsShown

-----------------------------------------------------------------------------
(* Sequences and types.                                                    *)

\* The bounds are numbers.
LEMMA Bounds ==
  MaxCommands \in Nat /\ MaxAttempts \in Nat /\ MaxTime \in Nat /\ MaxSlips \in Nat /\ MaxWrites \in Nat
  BY FormsAssumption

\* What is appended stands last, the others where they stood.
LEMMA Appended ==
  ASSUME NEW S, NEW s \in Seq(S), NEW x \in S
  PROVE  /\ Append(s, x) \in Seq(S)
         /\ \A i \in DOMAIN s : i \in DOMAIN Append(s, x) /\ Append(s, x)[i] = s[i]
         /\ \A i \in DOMAIN Append(s, x) :
              \/ i \in DOMAIN s /\ Append(s, x)[i] = s[i]
              \/ /\ Append(s, x)[i] = x
                 /\ \A j \in DOMAIN s : j < i
                 /\ \A j \in DOMAIN Append(s, x) : i >= j
                 /\ i \notin DOMAIN s
  OBVIOUS

\* Without the first, the others move up.
LEMMA Shortened ==
  ASSUME NEW S, NEW s \in Seq(S), s # <<>>
  PROVE  /\ Tail(s) \in Seq(S)
         /\ 1 \in DOMAIN s /\ Head(s) = s[1]
         /\ \A i \in DOMAIN Tail(s) :
              i \in Nat /\ i >= 1 /\ i + 1 \in DOMAIN s /\ Tail(s)[i] = s[i + 1]
  OBVIOUS

\* What is on the way is of its type.
LEMMA Elements ==
  ASSUME TypeOK
  PROVE  /\ \A i \in DOMAIN inbox : /\ inbox[i] \in Request /\ inbox[i].command \in Command
                                    /\ inbox[i].admin \in Admin /\ inbox[i].attempt \in 1..MaxAttempts
         /\ \A i \in DOMAIN outbox : /\ outbox[i] \in Result /\ outbox[i].attempt \in 1..MaxAttempts
                                     /\ outbox[i].number \in 1..MaxCommands /\ outbox[i].item \in Row
         /\ \A e \in log : e \in Entry /\ e.command \in Command /\ e.after \in Row
         /\ \A c \in Command : c.number \in 1..MaxCommands /\ c.form \in Row /\ c.admin \in Admin
         /\ \A f \in Row : f.version \in Nat
         /\ attempts \in Nat
  <1>1. \A i \in DOMAIN inbox : inbox[i] \in Request
    BY DEF TypeOK
  <1>2. \A i \in DOMAIN outbox : outbox[i] \in Result
    BY DEF TypeOK
  <1>3. \A e \in log : e \in Entry
    BY DEF TypeOK
  <1>4. \A c \in Command : c.number \in 1..MaxCommands /\ c.form \in Row /\ c.admin \in Admin
    BY DEF Command
  <1>5. \A f \in Row : f.version \in Nat
    BY DEF Row
  <1>6. attempts \in Nat
    BY Bounds DEF TypeOK
  <1>7. QED
    BY <1>1, <1>2, <1>3, <1>4, <1>5, <1>6 DEF Request, Result, Entry

\* The page does not change, and with it what a row may be.
LEMMA SameTypes ==
  ASSUME page' = page
  PROVE  Row' = Row /\ Command' = Command /\ Request' = Request /\ Result' = Result /\ Entry' = Entry
  <1>1. Statuses' = Statuses
    BY DEF Statuses
  <1>2. Row' = Row
    BY <1>1 DEF Row
  <1>3. Command' = Command
    BY <1>1, <1>2 DEF Command
  <1>4. QED
    BY <1>2, <1>3 DEF Request, Result, Entry

-----------------------------------------------------------------------------
(* The invariant is kept by the page.                                      *)

LEMMA InitKeeps == Init => IInv
  <1> SUFFICES ASSUME Init PROVE IInv
    OBVIOUS
  <1>1. page \in Pages /\ log = {} /\ inbox = <<>> /\ outbox = <<>> /\ form = None /\ ~Busy
    BY DEF Init, Busy
  <1>2. DOMAIN inbox = {} /\ DOMAIN outbox = {}
    BY <1>1
  <1>3. row \in Row
    BY DEF Init, Row, Statuses, FirstStatus, Pages
  <1>4. told \in [1..MaxCommands -> {"nothing", "done", "refused", "failed"}]
        /\ \A n \in 1..MaxCommands : told[n] = "nothing"
    BY DEF Init
  <1>5. inbox \in Seq(Request) /\ outbox \in Seq(Result)
    BY <1>1
  <1>6. TypeOK
    BY <1>1, <1>3, <1>4, <1>5, Bounds DEF Init, TypeOK
  <1>7. InOrder /\ OneCommandEach /\ Awaited /\ AnsweredRight
    BY <1>1, <1>2 DEF Init, InOrder, OneCommandEach, Awaited, AnsweredRight
  <1>8. Settled /\ ToldRight
    BY <1>4 DEF Settled, ToldRight
  <1>9. FormsFit /\ OnceAsShown
    BY <1>1, <1>2 DEF FormsFit, OnceAsShown
  <1>10. QED
    BY <1>6, <1>7, <1>8, <1>9 DEF IInv

\* What concerns neither the queues nor the tables: a command is kept or
\* given up, and the row may be shown.
LEMMA PageKeeps ==
  ASSUME IInv,
         UNCHANGED <<page, clockVars, writes, dbVars, attempts, drawn, told, inbox, outbox>>,
         admin' \in Admin \cup {None},
         form' \in {form, row, None},
         attempt' = 0 \/ (attempt' = attempt /\ pending' = pending),
         pending' \in {pending, None}
  PROVE  IInv'
  <1> USE DEF IInv
  <1>1. UNCHANGED <<page, now, slips, writes, row, log, attempts, drawn, told, inbox, outbox>>
    BY DEF clockVars, dbVars
  <1>2. TypeOK'
    BY <1>1, SameTypes, Bounds DEF TypeOK, Pages
  <1>3. Busy' => Busy /\ pending' = pending
    BY DEF Busy
  <1>4. Row' = Row /\ Command' = Command
    BY <1>1, SameTypes
  <1>5. InOrder' /\ AnsweredRight' /\ OnceAsShown' /\ ToldRight'
    BY <1>1 DEF InOrder, AnsweredRight, OnceAsShown, ToldRight, Executed
  <1>6. OneCommandEach' /\ Settled'
    BY <1>1, <1>3, <1>4 DEF OneCommandEach, Settled
  <1>7. Awaited'
    BY <1>1, Elements DEF Awaited, Executed
  <1>8. FormsFit'
    <2>1. Fits(row)
      BY Elements DEF TypeOK, Fits, NotNewer
    <2>2. QED
      BY <1>1, <1>3, <2>1 DEF FormsFit, Fits, NotNewer
  <1>9. QED
    BY <1>2, <1>5, <1>6, <1>7, <1>8

\* A request for a command whose number stands for it alone.
LEMMA SendKeeps ==
  ASSUME IInv, NEW c \in Command, Send(c),
         admin \in Admin, c.admin = admin,
         drawn' \in 0..MaxCommands, drawn <= drawn', c.number <= drawn',
         \A i \in DOMAIN inbox : inbox[i].command.number = c.number => inbox[i].command = c,
         \A e \in log : e.command.number = c.number => e.command = c,
         told[c.number] = "nothing",
         page \in {"repairs", "stations"} => Fits(c.form),
         UNCHANGED <<page, clockVars, writes, dbVars, admin, form, told, outbox>>
  PROVE  IInv'
  <1> USE DEF IInv
  <1> DEFINE r == [command |-> c, admin |-> admin, attempt |-> attempts + 1]
             here == attempts < MaxAttempts /\ attempts' = attempts + 1 /\ attempt' = attempts + 1
                     /\ pending' = c /\ inbox' = Append(inbox, r)
             notHere == attempt' = 0 /\ pending' \in {c, None} /\ attempts' = attempts /\ inbox' = inbox
  <1>1. UNCHANGED <<page, now, slips, writes, row, log, admin, form, told, outbox>>
    BY DEF clockVars, dbVars
  <1>2. here \/ notHere
    BY DEF Send
  <1>3. attempts \in 0..MaxAttempts /\ inbox \in Seq(Request) /\ drawn \in 0..MaxCommands
        /\ drawn' \in 0..MaxCommands
    BY DEF TypeOK
  <1>4. r.command = c /\ r.admin = c.admin /\ r.attempt = attempts + 1 /\ (here => r \in Request)
    BY <1>3, Bounds DEF Request
  <1>5. /\ inbox' \in Seq(Request)
        /\ \A i \in DOMAIN inbox' :
             \/ i \in DOMAIN inbox /\ inbox'[i] = inbox[i]
             \/ /\ here /\ inbox'[i] = r /\ i \notin DOMAIN inbox
                /\ \A j \in DOMAIN inbox' : i >= j
    BY <1>2, <1>3, <1>4, Appended
  <1>6. TypeOK'
    <2>1. pending' \in Command \cup {None} /\ attempt' \in 0..MaxAttempts /\ attempts' \in 0..MaxAttempts
      BY <1>2, <1>3, Bounds
    <2>2. QED
      BY <1>1, <1>5, <2>1, SameTypes, Bounds DEF TypeOK
  <1>7. InOrder'
    <2>1. /\ \A i \in DOMAIN inbox : inbox[i].attempt \in Nat /\ inbox[i].attempt <= attempts
          /\ \A i \in DOMAIN outbox : outbox[i].attempt \in Nat /\ outbox[i].attempt <= attempts
      BY Elements, Bounds DEF InOrder
    <2>2. attempt' \in {0, attempts'} /\ attempts' >= attempts /\ attempts \in Nat /\ attempts' \in Nat
      BY <1>2, <1>3, Bounds
    <2>3. \A i \in DOMAIN inbox' : inbox'[i].attempt <= attempts'
      BY <1>2, <1>4, <1>5, <2>1, <2>2
    <2>4. \A i, j \in DOMAIN inbox' : i < j => inbox'[i].attempt < inbox'[j].attempt
      <3> SUFFICES ASSUME NEW i \in DOMAIN inbox', NEW j \in DOMAIN inbox', i < j
                   PROVE  inbox'[i].attempt < inbox'[j].attempt
        OBVIOUS
      <3>1. i \in Nat /\ j \in Nat
        BY <1>5
      <3>2. i \in DOMAIN inbox /\ inbox'[i] = inbox[i]
        BY <1>5, <3>1
      <3>3. CASE j \in DOMAIN inbox
        BY <1>5, <3>2, <3>3 DEF InOrder
      <3>4. CASE j \notin DOMAIN inbox
        BY <1>4, <1>5, <2>1, <2>2, <3>2, <3>4
      <3>5. QED
        BY <3>3, <3>4
    <2>5. \A i \in DOMAIN outbox, j \in DOMAIN inbox' : outbox[i].attempt < inbox'[j].attempt
      BY <1>4, <1>5, <2>1, <2>2 DEF InOrder
    <2>6. \A i \in DOMAIN outbox : outbox[i].attempt <= attempts'
      BY <2>1, <2>2
    <2>7. QED
      BY <1>1, <2>2, <2>3, <2>4, <2>5, <2>6 DEF InOrder
  <1>8. Busy' => pending' = c
    BY <1>2 DEF Busy
  <1>9. OneCommandEach'
    <2>1. /\ \A i \in DOMAIN inbox : inbox[i].command.number \in Nat
          /\ \A e \in log : e.command.number \in Nat
          /\ c.number \in Nat /\ Command' = Command
      BY <1>1, Elements, SameTypes, Bounds
    <2>2. Busy' => pending' \in Command' /\ pending'.number <= drawn'
      BY <1>8, <2>1
    <2>3. \A i \in DOMAIN inbox' : /\ inbox'[i].command.number <= drawn'
                                   /\ inbox'[i].admin = inbox'[i].command.admin
                                   /\ inbox'[i].command.number = c.number => inbox'[i].command = c
      BY <1>3, <1>4, <1>5, <2>1, Bounds DEF OneCommandEach
    <2>4. \A e \in log : e.command.number <= drawn' /\ e.admin = e.command.admin
      BY <1>3, <2>1, Bounds DEF OneCommandEach
    <2>5. \A i, j \in DOMAIN inbox' :
            inbox'[i].command.number = inbox'[j].command.number => inbox'[i].command = inbox'[j].command
      BY <1>4, <1>5, <2>3 DEF OneCommandEach
    <2>6. \A i \in DOMAIN inbox', e \in log :
            inbox'[i].command.number = e.command.number => inbox'[i].command = e.command
      BY <1>4, <1>5 DEF OneCommandEach
    <2>7. QED
      BY <1>1, <1>8, <2>2, <2>3, <2>4, <2>5, <2>6 DEF OneCommandEach
  <1>10. Awaited'
    <2>1. \A i \in DOMAIN outbox : outbox[i].attempt # attempt'
      BY <1>2, <1>3, Elements, Bounds DEF InOrder
    <2>2. ASSUME NEW i \in DOMAIN inbox', inbox'[i].attempt = attempt' PROVE inbox'[i].command = pending'
      <3>1. inbox'[i].attempt \in Nat /\ inbox'[i].attempt >= 1
        BY <1>3, <1>4, <1>5, Elements, Bounds
      <3>2. here /\ attempt' = attempts + 1
        BY <1>2, <2>2, <3>1
      <3>3. i \notin DOMAIN inbox
        BY <1>3, <1>5, <2>2, <3>2, Elements, Bounds DEF InOrder
      <3>4. QED
        BY <1>4, <1>5, <3>2, <3>3
    <2>3. QED
      BY <1>1, <2>1, <2>2 DEF Awaited
  <1>11. AnsweredRight' /\ ToldRight' /\ OnceAsShown'
    BY <1>1 DEF AnsweredRight, ToldRight, OnceAsShown, Executed
  <1>12. Settled'
    <2>1. ASSUME NEW n \in 1..MaxCommands, told[n] # "nothing"
          PROVE  n # c.number /\ n <= drawn' /\ \A i \in DOMAIN inbox' : inbox'[i].command.number # n
      BY <1>3, <1>4, <1>5, <2>1, Bounds DEF Settled
    <2>2. QED
      BY <1>1, <1>8, <2>1 DEF Settled
  <1>13. FormsFit'
    BY <1>1, <1>4, <1>5, <1>8 DEF FormsFit, Fits, NotNewer
  <1>14. QED
    BY <1>6, <1>7, <1>9, <1>10, <1>11, <1>12, <1>13

LEMMA SubmitKeeps == \A t : IInv /\ form # None /\ t \in Target(form.status) /\ Submit(t) => IInv'
  <1> SUFFICES ASSUME NEW t, IInv, form # None, t \in Target(form.status), Submit(t) PROVE IInv'
    OBVIOUS
  <1> USE DEF IInv
  <1> DEFINE c == [number |-> drawn + 1, admin |-> admin, form |-> form, target |-> t]
  <1>1. form \in Row /\ admin \in Admin /\ drawn \in 0..MaxCommands /\ drawn < MaxCommands
    BY DEF Submit, TypeOK
  <1>2. form.status \in Statuses /\ page \in Pages
    BY <1>1 DEF Row, TypeOK
  <1>3. t \in Statuses
    BY <1>2 DEF Target, Statuses, Pages
  <1>4. c \in Command /\ c.number = drawn + 1 /\ c.admin = admin /\ c.form = form
    BY <1>1, <1>3, Bounds DEF Command
  <1>5. Send(c) /\ drawn' = drawn + 1 /\ UNCHANGED <<page, clockVars, writes, dbVars, admin, form, told, outbox>>
    BY DEF Submit
  <1>6. /\ \A i \in DOMAIN inbox : inbox[i].command.number # c.number
        /\ \A e \in log : e.command.number # c.number
    BY <1>1, <1>4, Elements, Bounds DEF OneCommandEach
  <1>7. told[c.number] = "nothing"
    BY <1>1, <1>4, Bounds DEF Settled
  <1>8. page \in {"repairs", "stations"} => Fits(c.form)
    BY <1>4 DEF FormsFit
  <1>9. drawn' \in 0..MaxCommands /\ drawn <= drawn' /\ c.number <= drawn'
    BY <1>1, <1>4, <1>5, Bounds
  <1> HIDE DEF c
  <1>10. QED
    BY <1>1, <1>4, <1>5, <1>6, <1>7, <1>8, <1>9, SendKeeps

LEMMA RetryKeeps == IInv /\ Retry => IInv'
  <1> SUFFICES ASSUME IInv, Retry PROVE IInv'
    OBVIOUS
  <1> USE DEF IInv
  <1>1. pending \in Command /\ admin \in Admin /\ pending.admin = admin /\ Busy
    BY DEF Retry, RetriedByOwner, TypeOK, Busy
  <1>2. Send(pending) /\ drawn' = drawn
        /\ UNCHANGED <<page, clockVars, writes, dbVars, admin, form, told, outbox>>
    BY DEF Retry
  <1>3. drawn' \in 0..MaxCommands /\ drawn <= drawn' /\ pending.number <= drawn'
    BY <1>1, <1>2, Bounds DEF TypeOK, OneCommandEach
  <1>4. /\ \A i \in DOMAIN inbox : inbox[i].command.number = pending.number => inbox[i].command = pending
        /\ \A e \in log : e.command.number = pending.number => e.command = pending
    BY <1>1 DEF OneCommandEach
  <1>5. told[pending.number] = "nothing"
    BY <1>1, Elements DEF Settled
  <1>6. page \in {"repairs", "stations"} => Fits(pending.form)
    BY <1>1 DEF FormsFit
  <1>7. QED
    BY <1>1, <1>2, <1>3, <1>4, <1>5, <1>6, SendKeeps

\* An answer is read that tells the page nothing of the outcome, or none of
\* its own.
LEMMA OutboxShortened ==
  ASSUME IInv, outbox # <<>>, outbox' = Tail(outbox),
         UNCHANGED <<page, clockVars, writes, dbVars, attempts, drawn, inbox>>,
         admin' \in Admin \cup {None},
         form' \in {form, None} \/ (form' = Head(outbox).item /\ form' \in Row),
         told' = told,
         attempt' = 0 \/ (attempt' = attempt /\ pending' = pending),
         pending' \in {pending, None}
  PROVE  IInv'
  <1> USE DEF IInv
  <1>1. UNCHANGED <<page, now, slips, writes, row, log, attempts, drawn, told, inbox>>
    BY DEF clockVars, dbVars
  <1>2. /\ outbox \in Seq(Result) /\ outbox' \in Seq(Result)
        /\ 1 \in DOMAIN outbox /\ Head(outbox) = outbox[1]
        /\ \A i \in DOMAIN outbox' : i + 1 \in DOMAIN outbox /\ outbox'[i] = outbox[i + 1]
    BY Shortened DEF TypeOK
  <1>3. TypeOK'
    <2>1. attempt' \in 0..MaxAttempts /\ pending' \in Command \cup {None} /\ form' \in Row \cup {None}
      BY Bounds DEF TypeOK
    <2>2. QED
      BY <1>1, <1>2, <2>1, SameTypes, Bounds DEF TypeOK
  <1>4. Busy' => Busy /\ pending' = pending
    BY DEF Busy
  <1>5. Command' = Command
    BY <1>1, SameTypes
  <1>6. InOrder' /\ AnsweredRight' /\ OnceAsShown' /\ ToldRight'
    BY <1>1, <1>2 DEF InOrder, AnsweredRight, OnceAsShown, ToldRight, Executed
  <1>7. OneCommandEach' /\ Settled'
    BY <1>1, <1>4, <1>5 DEF OneCommandEach, Settled
  <1>8. Awaited'
    BY <1>1, <1>2, Elements DEF Awaited, Executed
  <1>9. FormsFit'
    BY <1>1, <1>2, <1>4 DEF FormsFit, Fits, NotNewer
  <1>10. QED
    BY <1>3, <1>6, <1>7, <1>8, <1>9

\* The outcome is told: of what is awaited, nothing else is on the way.
LEMMA KnownKeeps ==
  ASSUME IInv, NEW m, m = Head(outbox), outbox # <<>>, outbox' = Tail(outbox),
         m.attempt = attempt, m.code \in {"done", "refused", "failed"}, Known(m),
         UNCHANGED <<page, clockVars, writes, dbVars, attempts, drawn, inbox>>
  PROVE  IInv'
  <1> USE DEF IInv
  <1>1. UNCHANGED <<page, now, slips, writes, row, log, attempts, drawn, inbox, admin>>
    BY DEF clockVars, dbVars, Known
  <1>2. attempt' = 0 /\ pending' = None /\ told' = [told EXCEPT ![m.number] = m.code]
    BY DEF Known
  <1>3. /\ outbox \in Seq(Result) /\ outbox' \in Seq(Result)
        /\ 1 \in DOMAIN outbox /\ m = outbox[1]
        /\ \A i \in DOMAIN outbox' : i + 1 \in DOMAIN outbox /\ outbox'[i] = outbox[i + 1]
    BY Shortened DEF TypeOK
  <1>4. m \in Result /\ m.number \in 1..MaxCommands /\ m.attempt \in 1..MaxAttempts /\ m.item \in Row
    BY <1>3, Elements
  <1>5. Busy /\ ~Busy' /\ attempt = attempts
    BY <1>2, <1>4, Bounds DEF Busy, InOrder
  <1>6. DOMAIN inbox = {}
    <2>1. ASSUME NEW i \in DOMAIN inbox PROVE FALSE
      BY <1>3, <1>4, <1>5, <2>1, Elements, Bounds DEF InOrder
    <2>2. QED
      BY <2>1
  <1>7. /\ m.number = pending.number
        /\ m.number <= drawn
        /\ m.code = "done" => Executed(m.number) # {}
        /\ m.code = "refused" => Executed(m.number) = {}
    BY <1>3, <1>5 DEF Awaited, AnsweredRight, OneCommandEach
  <1>8. told' \in [1..MaxCommands -> {"nothing", "done", "refused", "failed"}]
        /\ \A n \in 1..MaxCommands : told'[n] = IF n = m.number THEN m.code ELSE told[n]
    BY <1>2, <1>4 DEF TypeOK
  <1>9. form' = form \/ form' = m.item
    BY DEF Known
  <1>10. TypeOK'
    BY <1>1, <1>2, <1>3, <1>4, <1>8, <1>9, SameTypes, Bounds DEF TypeOK
  <1>11. InOrder' /\ AnsweredRight' /\ OnceAsShown'
    BY <1>1, <1>2, <1>3 DEF InOrder, AnsweredRight, OnceAsShown, Executed
  <1>12. OneCommandEach'
    BY <1>1, <1>5 DEF OneCommandEach
  <1>13. Awaited'
    BY <1>2, <1>3, <1>6, <1>1, Elements DEF Awaited
  <1>14. Settled'
    BY <1>1, <1>5, <1>6, <1>7, <1>8 DEF Settled
  <1>15. ToldRight'
    BY <1>1, <1>7, <1>8 DEF ToldRight, Executed
  <1>16. FormsFit'
    BY <1>1, <1>3, <1>5, <1>9 DEF FormsFit, Fits, NotNewer
  <1>17. QED
    BY <1>10, <1>11, <1>12, <1>13, <1>14, <1>15, <1>16

LEMMA ReceiveKeeps == IInv /\ Receive => IInv'
  <1> SUFFICES ASSUME IInv, Receive PROVE IInv'
    OBVIOUS
  <1> DEFINE m == Head(outbox)
  <1>1. /\ outbox # <<>> /\ outbox' = Tail(outbox)
        /\ UNCHANGED <<page, clockVars, writes, dbVars, attempts, drawn, inbox>>
    BY DEF Receive
  <1>2. admin \in Admin \cup {None}
    BY DEF IInv, TypeOK
  <1>3. CASE UNCHANGED <<admin, form, pending, attempt, told>>
    BY <1>1, <1>2, <1>3, OutboxShortened
  <1>4. CASE SignedOut /\ UNCHANGED told
    <2>1. /\ admin' = None /\ form' = None /\ attempt' = 0 /\ told' = told
          /\ pending' \in {pending, None}
      BY <1>4 DEF SignedOut
    <2>2. QED
      BY <1>1, <2>1, OutboxShortened
  <1>5. CASE Unknown
    <2>1. /\ UNCHANGED <<admin, form, told>> /\ attempt' = 0
          /\ pending' \in {pending, None}
      BY <1>5 DEF Unknown
    <2>2. QED
      BY <1>1, <1>2, <2>1, OutboxShortened
  <1>6. CASE m.attempt = attempt /\ m.code \in {"done", "refused", "failed"} /\ Known(m)
    BY <1>1, <1>6, KnownKeeps
  <1>7. QED
    BY <1>3, <1>4, <1>5, <1>6 DEF Receive

LEMMA RestartKeeps == IInv /\ Restart => IInv'
  <1> SUFFICES ASSUME IInv, Restart PROVE IInv'
    OBVIOUS
  <1> USE DEF IInv
  <1>1. /\ UNCHANGED <<page, now, slips, writes, row, log, attempts, drawn, told>>
        /\ admin' = None /\ form' = None /\ pending' = None /\ attempt' = 0
        /\ inbox' = <<>> /\ outbox' = <<>>
    BY DEF Restart, clockVars, dbVars
  <1>2. DOMAIN inbox' = {} /\ DOMAIN outbox' = {} /\ ~Busy'
        /\ inbox' \in Seq(Request) /\ outbox' \in Seq(Result)
    BY <1>1 DEF Busy
  <1>3. TypeOK'
    BY <1>1, <1>2, SameTypes, Bounds DEF TypeOK
  <1>4. InOrder' /\ OneCommandEach' /\ Awaited' /\ AnsweredRight'
    BY <1>1, <1>2 DEF InOrder, OneCommandEach, Awaited, AnsweredRight
  <1>5. Settled' /\ ToldRight' /\ OnceAsShown'
    BY <1>1, <1>2 DEF Settled, ToldRight, OnceAsShown, Executed
  <1>6. FormsFit'
    BY <1>1, <1>2 DEF FormsFit, Fits, NotNewer
  <1>7. QED
    BY <1>3, <1>4, <1>5, <1>6

-----------------------------------------------------------------------------
(* The invariant is kept by the server.                                    *)

\* A request is answered, and its command may be recorded.
LEMMA ReplyKeeps ==
  ASSUME IInv, inbox # <<>>, inbox' = Tail(inbox), NEW m, m = Head(inbox),
         NEW code \in {"done", "refused", "failed", "UNAUTHORIZED", "TIMEOUT"}, NEW item \in Row,
         Reply(m, code, item),
         UNCHANGED <<page, clockVars, writes, guiVars>>,
         row' \in Row, log' \subseteq Entry, log \subseteq log',
         \A e \in log' : e \in log \/ (e.command = m.command /\ e.admin = m.admin),
         code = "done" => \E e \in log' : e.command = m.command,
         code = "refused" => log' = log /\ Executed(m.command.number) = {},
         OnceAsShown',
         page \in {"repairs", "stations"} =>
           /\ \A f \in Row : NotNewer(f, row) => NotNewer(f, row')
           /\ NotNewer(item, row')
           /\ \A e \in log' : NotNewer(e.after, row')
  PROVE  IInv'
  <1> USE DEF IInv
  <1> DEFINE n == m.command.number
             x == [number |-> n, attempt |-> m.attempt, code |-> code, item |-> item]
  <1>1. UNCHANGED <<page, now, slips, writes, admin, form, pending, attempt, attempts, drawn, told>>
    BY DEF clockVars, guiVars
  <1>2. /\ inbox' \in Seq(Request)
        /\ 1 \in DOMAIN inbox /\ m = inbox[1]
        /\ \A i \in DOMAIN inbox' :
             i \in Nat /\ i >= 1 /\ i + 1 \in DOMAIN inbox /\ inbox'[i] = inbox[i + 1]
    BY Shortened DEF TypeOK
  <1>3. m.command \in Command /\ n \in 1..MaxCommands /\ m.attempt \in 1..MaxAttempts
    BY <1>2, Elements
  <1>4. x \in Result /\ x.number = n /\ x.attempt = m.attempt /\ x.code = code /\ x.item = item
    BY <1>3 DEF Result
  <1>5. /\ outbox' \in Seq(Result)
        /\ \A i \in DOMAIN outbox' : (i \in DOMAIN outbox /\ outbox'[i] = outbox[i]) \/ outbox'[i] = x
    <2>1. outbox' = Append(outbox, x) /\ outbox \in Seq(Result)
      BY DEF Reply, TypeOK
    <2> HIDE DEF x
    <2>2. QED
      BY <1>4, <2>1, Appended
  <1>6. TypeOK'
    BY <1>1, <1>2, <1>5, SameTypes, Bounds DEF TypeOK
  <1>7. \A k \in 1..MaxCommands : k # n => Executed(k)' = Executed(k)
    BY DEF Executed
  <1>8. Busy' = Busy /\ Command' = Command
    BY <1>1, SameTypes DEF Busy
  <1>9. InOrder'
    <2>1. /\ \A i \in DOMAIN inbox : inbox[i].attempt \in Nat
          /\ \A i \in DOMAIN outbox : outbox[i].attempt \in Nat
      BY Elements
    <2>2. \A i \in DOMAIN inbox' : inbox'[i].attempt <= attempts /\ x.attempt < inbox'[i].attempt
      BY <1>2, <1>4, <2>1 DEF InOrder
    <2>3. \A i, j \in DOMAIN inbox' : i < j => inbox'[i].attempt < inbox'[j].attempt
      <3> SUFFICES ASSUME NEW i \in DOMAIN inbox', NEW j \in DOMAIN inbox', i < j
                   PROVE  inbox'[i].attempt < inbox'[j].attempt
        OBVIOUS
      <3>1. i + 1 < j + 1 /\ i + 1 \in DOMAIN inbox /\ j + 1 \in DOMAIN inbox
        BY <1>2
      <3>2. inbox[i + 1].attempt < inbox[j + 1].attempt
        BY <3>1 DEF InOrder
      <3>3. QED
        BY <1>2, <3>2
    <2>4. \A i \in DOMAIN outbox, j \in DOMAIN inbox' : outbox[i].attempt < inbox'[j].attempt
      BY <1>2 DEF InOrder
    <2>5. \A i \in DOMAIN outbox' : outbox'[i].attempt <= attempts
      BY <1>2, <1>4, <1>5 DEF InOrder
    <2>6. QED
      BY <1>1, <1>5, <2>2, <2>3, <2>4, <2>5 DEF InOrder
  <1>10. OneCommandEach'
    <2>1. \A e \in log' : /\ e.command.number <= drawn
                          /\ e.admin = e.command.admin
                          /\ Busy /\ e.command.number = pending.number => e.command = pending
      BY <1>2 DEF OneCommandEach
    <2>2. \A i \in DOMAIN inbox', e \in log' :
            inbox'[i].command.number = e.command.number => inbox'[i].command = e.command
      BY <1>2 DEF OneCommandEach
    <2>3. \A i, j \in DOMAIN inbox' :
            inbox'[i].command.number = inbox'[j].command.number => inbox'[i].command = inbox'[j].command
      BY <1>2 DEF OneCommandEach
    <2>4. \A i \in DOMAIN inbox' : /\ inbox'[i].command.number <= drawn
                                   /\ inbox'[i].admin = inbox'[i].command.admin
                                   /\ Busy /\ inbox'[i].command.number = pending.number
                                        => inbox'[i].command = pending
      BY <1>2 DEF OneCommandEach
    <2>5. Busy => pending \in Command /\ pending.number <= drawn
      BY DEF OneCommandEach
    <2>6. QED
      BY <1>1, <1>8, <2>1, <2>2, <2>3, <2>4, <2>5 DEF OneCommandEach
  <1>11. Awaited'
    <2>1. \A i \in DOMAIN inbox' : inbox'[i].attempt = attempt => inbox'[i].command = pending
      BY <1>2 DEF Awaited
    <2>2. ASSUME NEW i \in DOMAIN outbox', outbox'[i].attempt = attempt
          PROVE  /\ outbox'[i].number = pending.number
                 /\ outbox'[i].code = "refused" => Executed(pending.number)' = {}
      <3>1. attempt # 0 /\ attempt = attempts
        BY <1>3, <1>4, <1>5, <2>2, Elements, Bounds DEF InOrder
      <3>2. m.attempt \in Nat /\ m.attempt <= attempts
        BY <1>2, <1>3 DEF InOrder
      <3>3. \A j \in DOMAIN outbox : outbox[j].attempt \in Nat /\ outbox[j].attempt < m.attempt
        BY <1>2, Elements DEF InOrder
      <3>4. attempts \in Nat
        BY Elements
      <3>5. ~(i \in DOMAIN outbox /\ outbox'[i] = outbox[i])
        <4> SUFFICES ASSUME i \in DOMAIN outbox, outbox'[i] = outbox[i] PROVE FALSE
          OBVIOUS
        <4>1. outbox[i].attempt = attempts
          BY <2>2, <3>1
        <4>2. QED
          BY <3>2, <3>3, <3>4, <4>1
      <3>6. outbox'[i] = x
        BY <1>5, <3>5
      <3>7. m.command = pending
        <4>1. m.attempt = attempt
          BY <1>4, <2>2, <3>6
        <4>2. inbox[1].attempt = attempt => inbox[1].command = pending
          BY <1>2 DEF Awaited
        <4>3. QED
          BY <1>2, <4>1, <4>2
      <3>8. QED
        BY <1>1, <1>4, <3>6, <3>7 DEF Executed
    <2>3. QED
      BY <1>1, <2>1, <2>2 DEF Awaited, Executed
  <1>12. AnsweredRight'
    <2>1. \A k \in 1..MaxCommands : Executed(k) \subseteq Executed(k)'
      BY DEF Executed
    <2>2. code = "done" => Executed(n)' # {}
      BY DEF Executed
    <2>3. QED
      BY <1>4, <1>5, <2>1, <2>2, Elements DEF AnsweredRight, Executed
  <1>13. Settled'
    BY <1>1, <1>2, <1>8 DEF Settled
  <1>14. ToldRight'
    <2>1. told[n] = "nothing"
      BY <1>2, <1>3 DEF Settled
    <2>2. ASSUME NEW k \in 1..MaxCommands, k # n
          PROVE  /\ told'[k] = "done" => Executed(k)' # {}
                 /\ told'[k] = "refused" => Executed(k)' = {}
      BY <1>1, <1>7, <2>2 DEF ToldRight
    <2>3. QED
      BY <1>1, <2>1, <2>2 DEF ToldRight, Executed
  <1>15. FormsFit'
    <2> SUFFICES ASSUME page \in {"repairs", "stations"}
                 PROVE  /\ form # None => NotNewer(form, row')
                        /\ Busy => NotNewer(pending.form, row')
                        /\ \A i \in DOMAIN inbox' : NotNewer(inbox'[i].command.form, row')
                        /\ \A i \in DOMAIN outbox' : NotNewer(outbox'[i].item, row')
      BY <1>1, <1>8 DEF FormsFit, Fits
    <2>1. \A f \in Row : NotNewer(f, row) => NotNewer(f, row')
      OBVIOUS
    <2>2. form # None => NotNewer(form, row')
      BY <2>1 DEF FormsFit, Fits, TypeOK
    <2>3. Busy => NotNewer(pending.form, row')
      BY <2>1, Elements DEF FormsFit, Fits, OneCommandEach
    <2>4. ASSUME NEW i \in DOMAIN inbox' PROVE NotNewer(inbox'[i].command.form, row')
      BY <1>2, <2>1, Elements DEF FormsFit, Fits
    <2>5. ASSUME NEW i \in DOMAIN outbox' PROVE NotNewer(outbox'[i].item, row')
      <3>1. \A j \in DOMAIN outbox : NotNewer(outbox[j].item, row')
        BY <2>1, Elements DEF FormsFit, Fits
      <3>2. QED
        BY <1>4, <1>5, <3>1
    <2>6. QED
      BY <2>2, <2>3, <2>4, <2>5
  <1>16. QED
    BY <1>6, <1>9, <1>10, <1>11, <1>12, <1>13, <1>14, <1>15

\* What no request stands on record for was not executed.
LEMMA RecordedIsExecuted ==
  ASSUME IInv, inbox # <<>>, NEW m, m = Head(inbox)
  PROVE  Recorded(m) = Executed(m.command.number) /\ \A e \in Recorded(m) : e.command = m.command
  <1>1. 1 \in DOMAIN inbox /\ m = inbox[1]
    BY Shortened DEF IInv, TypeOK
  <1>2. \A e \in log : e.command.number = m.command.number => e.command = m.command /\ e.admin = m.admin
    BY <1>1 DEF IInv, OneCommandEach
  <1>3. QED
    BY <1>2 DEF Recorded, Executed

\* An answer that changes no table.
LEMMA AnswerKeeps ==
  ASSUME IInv, inbox # <<>>, inbox' = Tail(inbox), NEW m, m = Head(inbox),
         NEW code \in {"done", "refused", "failed", "UNAUTHORIZED", "TIMEOUT"}, NEW item \in Row,
         Reply(m, code, item),
         UNCHANGED <<page, clockVars, writes, guiVars, dbVars>>,
         code = "done" => Executed(m.command.number) # {},
         code = "refused" => Executed(m.command.number) = {},
         page \in {"repairs", "stations"} => Fits(item)
  PROVE  IInv'
  <1>1. row' = row /\ log' = log /\ page' = page
    BY DEF dbVars
  <1>2. row' \in Row /\ log' \subseteq Entry
    BY <1>1 DEF IInv, TypeOK
  <1>3. code = "done" => \E e \in log' : e.command = m.command
    <2>1. Executed(m.command.number) = Recorded(m) /\ \A e \in Recorded(m) : e.command = m.command
      BY RecordedIsExecuted
    <2>2. QED
      BY <1>1, <2>1 DEF Recorded
  <1>4. OnceAsShown'
    BY <1>1 DEF IInv, OnceAsShown
  <1>5. page \in {"repairs", "stations"} =>
          /\ \A f \in Row : NotNewer(f, row) => NotNewer(f, row')
          /\ NotNewer(item, row')
          /\ \A e \in log' : NotNewer(e.after, row')
    BY <1>1 DEF IInv, FormsFit, Fits
  <1>6. QED
    BY <1>1, <1>2, <1>3, <1>4, <1>5, ReplyKeeps

\* The row as it is fits.
LEMMA RowFits == TypeOK => row \in Row /\ Fits(row)
  BY DEF TypeOK, Row, Fits, NotNewer

LEMMA ExecuteKeeps ==
  ASSUME IInv, inbox # <<>>, inbox' = Tail(inbox), NEW m, m = Head(inbox), Execute(m),
         UNCHANGED <<page, clockVars, writes, guiVars>>
  PROVE  IInv'
  <1> USE DEF IInv
  <1> DEFINE c == m.command
             after == [status |-> c.target, version |-> NextVersion, changes |-> row.changes + 1]
             e == [command |-> c, admin |-> m.admin, before |-> row, after |-> after]
  <1>1. m \in Request /\ c \in Command /\ m.admin \in Admin /\ 1 \in DOMAIN inbox /\ m = inbox[1]
    BY Shortened, Elements DEF TypeOK
  <1>2. row \in Row /\ row.version \in Nat /\ row.changes \in Nat /\ now \in Nat
    BY Bounds DEF TypeOK, Row
  <1>3. NextVersion \in Nat /\ NextVersion > row.version
    BY <1>2 DEF NextVersion
  <1>4. after \in Row /\ after.version = NextVersion
    BY <1>1, <1>2, <1>3 DEF Command, Row
  <1>5. /\ Recorded(m) = {} /\ row.version = c.form.version
        /\ row' = after /\ log' = log \cup {e} /\ Reply(m, "done", after)
    BY DEF Execute
  <1>6. e \in Entry /\ e.command = c /\ e.admin = m.admin /\ e.before = row /\ e.after = after
    BY <1>1, <1>2, <1>4 DEF Entry
  <1>7. OnceAsShown'
    <2>1. page \in {"repairs", "stations"} => c.form = row
      BY <1>1, <1>5 DEF FormsFit, Fits, NotNewer
    <2>2. \A d \in log : d.command.number # c.number
      BY <1>5, RecordedIsExecuted DEF Executed
    <2>3. QED
      BY <1>5, <1>6, <2>1, <2>2 DEF OnceAsShown
  <1>8. \A f \in Row : NotNewer(f, row) => NotNewer(f, row')
    BY <1>2, <1>3, <1>4, <1>5, Elements DEF NotNewer
  <1>9. NotNewer(after, row')
    BY <1>3, <1>4, <1>5 DEF NotNewer
  <1>10. page \in {"repairs", "stations"} => \A d \in log' : NotNewer(d.after, row')
    <2>1. page \in {"repairs", "stations"} => \A d \in log : NotNewer(d.after, row')
      BY <1>8, Elements DEF FormsFit, Fits
    <2>2. QED
      BY <1>5, <1>6, <1>9, <2>1
  <1>11. row' \in Row /\ log' \subseteq Entry /\ log \subseteq log'
    BY <1>4, <1>5, <1>6 DEF TypeOK
  <1>12. \A d \in log' : d \in log \/ (d.command = c /\ d.admin = m.admin)
    BY <1>5, <1>6
  <1>13. \E d \in log' : d.command = c
    BY <1>5, <1>6
  <1> HIDE DEF after, e
  <1>14. QED
    BY <1>4, <1>5, <1>7, <1>8, <1>9, <1>10, <1>11, <1>12, <1>13, ReplyKeeps

LEMMA ServeKeeps == IInv /\ Serve => IInv'
  <1> SUFFICES ASSUME IInv, Serve PROVE IInv'
    OBVIOUS
  <1> DEFINE m == Head(inbox)
  <1>1. inbox # <<>> /\ inbox' = Tail(inbox) /\ UNCHANGED <<page, clockVars, writes, guiVars>>
    BY DEF Serve
  <1>2. row \in Row /\ Fits(row)
    BY RowFits DEF IInv
  <1>3. Recorded(m) = Executed(m.command.number)
    BY <1>1, RecordedIsExecuted
  <1>4. CASE Decline(m)
    <2>1. PICK code \in {"TIMEOUT", "UNAUTHORIZED", "failed"} : Reply(m, code, row)
      BY <1>4 DEF Decline
    <2>2. QED
      BY <1>1, <1>2, <1>4, <2>1, AnswerKeeps DEF Decline
  <1>5. CASE Replay(m)
    <2>1. PICK d \in Recorded(m) : Reply(m, "done", d.after)
      BY <1>5 DEF Replay
    <2>2. d \in log /\ d.after \in Row
      BY <2>1, Elements DEF Recorded, IInv
    <2>3. page \in {"repairs", "stations"} => Fits(d.after)
      BY <2>2 DEF IInv, FormsFit
    <2>4. Executed(m.command.number) # {}
      BY <1>3, <2>1
    <2>5. QED
      BY <1>1, <1>5, <2>1, <2>2, <2>3, <2>4, AnswerKeeps DEF Replay
  <1>6. CASE Refuse(m)
    BY <1>1, <1>2, <1>3, <1>6, AnswerKeeps DEF Refuse
  <1>7. CASE Execute(m)
    BY <1>1, <1>7, ExecuteKeeps
  <1>8. QED
    BY <1>1, <1>4, <1>5, <1>6, <1>7 DEF Serve

\* Others change the row; on the pages where only administrators write,
\* nobody does.
LEMMA OthersKeep ==
  ASSUME IInv, page \notin {"repairs", "stations"}, row' \in Row, writes' \in 0..MaxWrites,
         UNCHANGED <<page, clockVars, log, guiVars, inbox, outbox>>
  PROVE  IInv'
  <1> USE DEF IInv
  <1>1. UNCHANGED <<page, now, slips, log, admin, form, pending, attempt, attempts, drawn, told, inbox, outbox>>
    BY DEF clockVars, guiVars
  <1>2. TypeOK'
    BY <1>1, SameTypes DEF TypeOK
  <1>3. InOrder' /\ Awaited' /\ AnsweredRight' /\ ToldRight' /\ OnceAsShown'
    BY <1>1 DEF InOrder, Awaited, AnsweredRight, ToldRight, OnceAsShown, Executed
  <1>4. Command' = Command
    BY <1>1, SameTypes
  <1>5. OneCommandEach' /\ Settled'
    BY <1>1, <1>4 DEF OneCommandEach, Settled, Busy
  <1>6. FormsFit'
    BY <1>1 DEF FormsFit
  <1>7. QED
    BY <1>2, <1>3, <1>5, <1>6

\* The customers' writes, and the other commands that change a charger.
LEMMA WritesKeep == IInv /\ (Business \/ OtherCommand) => IInv'
  <1> SUFFICES ASSUME IInv, Business \/ OtherCommand PROVE IInv'
    OBVIOUS
  <1>1. /\ row \in Row /\ row.version \in Nat /\ row.changes \in Nat /\ row.status \in Statuses
        /\ now \in Nat /\ writes \in 0..MaxWrites
    BY Bounds DEF IInv, TypeOK, Row
  <1>2. CASE Business
    <2>1. PICK s \in Statuses : row' = [row EXCEPT !.status = s, !.version = now]
      BY <1>2 DEF Business
    <2>2. row' \in Row
      BY <1>1, <2>1 DEF Row
    <2>3. page \notin {"repairs", "stations"}
      BY <1>2 DEF Business
    <2>4. /\ writes < MaxWrites /\ writes' = writes + 1
          /\ UNCHANGED <<page, clockVars, log, guiVars, inbox, outbox>>
      BY <1>2 DEF Business
    <2>5. writes' \in 0..MaxWrites
      BY <1>1, <2>4, Bounds
    <2>6. QED
      BY <2>2, <2>3, <2>4, <2>5, OthersKeep
  <1>3. CASE OtherCommand
    <2>1. PICK s \in {"AVAILABLE", "OUT"} :
            row' = [status |-> s, version |-> NextVersion, changes |-> row.changes + 1]
      BY <1>3 DEF OtherCommand
    <2>2. page = "chargers" /\ s \in Statuses
      BY <1>3 DEF OtherCommand, Statuses
    <2>3. NextVersion \in Nat /\ row.changes + 1 \in Nat
      BY <1>1 DEF NextVersion
    <2>4. row' \in Row
      BY <2>1, <2>2, <2>3 DEF Row
    <2>5. writes' \in 0..MaxWrites
      BY <1>1, <1>3, Bounds DEF OtherCommand
    <2>6. QED
      BY <1>3, <2>2, <2>4, <2>5, OthersKeep DEF OtherCommand
  <1>4. QED
    BY <1>2, <1>3

\* The clock goes on, and is set back.
LEMMA ClockKeeps ==
  ASSUME IInv, now' \in 0..MaxTime, slips' \in 0..MaxSlips,
         UNCHANGED <<page, writes, dbVars, guiVars, inbox, outbox>>
  PROVE  IInv'
  <1> USE DEF IInv
  <1>1. UNCHANGED <<page, writes, row, log, admin, form, pending, attempt, attempts, drawn, told, inbox, outbox>>
    BY DEF dbVars, guiVars
  <1>2. TypeOK'
    BY <1>1, SameTypes DEF TypeOK
  <1>3. InOrder' /\ Awaited' /\ AnsweredRight' /\ ToldRight' /\ OnceAsShown'
    BY <1>1 DEF InOrder, Awaited, AnsweredRight, ToldRight, OnceAsShown, Executed
  <1>4. Command' = Command
    BY <1>1, SameTypes
  <1>5. OneCommandEach' /\ Settled'
    BY <1>1, <1>4 DEF OneCommandEach, Settled, Busy
  <1>6. FormsFit'
    BY <1>1 DEF FormsFit, Fits, NotNewer, Busy
  <1>7. QED
    BY <1>2, <1>3, <1>5, <1>6

\* The page without the queues: log in and out, list anew, give up waiting.
LEMMA PageActions ==
  IInv /\ ((\E a \in Admin : Login(a)) \/ Logout \/ Refresh \/ Timeout) => IInv'
  <1> SUFFICES ASSUME IInv, (\E a \in Admin : Login(a)) \/ Logout \/ Refresh \/ Timeout
               PROVE  IInv'
    OBVIOUS
  <1>1. admin \in Admin \cup {None}
    BY DEF IInv, TypeOK
  <1>2. CASE \E a \in Admin : Login(a)
    BY <1>1, <1>2, PageKeeps DEF Login
  <1>3. CASE Logout
    BY <1>1, <1>3, PageKeeps DEF Logout, SignedOut
  <1>4. CASE Refresh
    BY <1>1, <1>4, PageKeeps DEF Refresh
  <1>5. CASE Timeout
    BY <1>1, <1>5, PageKeeps DEF Timeout, Unknown
  <1>6. QED
    BY <1>2, <1>3, <1>4, <1>5

LEMMA NextKeeps == IInv /\ [Next]_vars => IInv'
  <1> SUFFICES ASSUME IInv, [Next]_vars PROVE IInv'
    OBVIOUS
  <1>1. now \in 0..MaxTime /\ slips \in 0..MaxSlips
    BY DEF IInv, TypeOK
  <1>2. CASE (\E a \in Admin : Login(a)) \/ Logout \/ Refresh \/ Timeout
    BY <1>2, PageActions
  <1>3. CASE form # None /\ \E t \in Target(form.status) : Submit(t)
    BY <1>3, SubmitKeeps
  <1>4. CASE Retry \/ Receive \/ Restart
    BY <1>4, RetryKeeps, ReceiveKeeps, RestartKeeps
  <1>5. CASE Serve
    BY <1>5, ServeKeeps
  <1>6. CASE Business \/ OtherCommand
    BY <1>6, WritesKeep
  <1>7. CASE Tick
    <2>1. now' \in 0..MaxTime /\ slips' \in 0..MaxSlips
      BY <1>1, <1>7, Bounds DEF Tick
    <2>2. QED
      BY <1>7, <2>1, ClockKeeps DEF Tick
  <1>8. CASE SetBack
    <2>1. now' \in 0..MaxTime /\ slips' \in 0..MaxSlips
      BY <1>1, <1>8, Bounds DEF SetBack
    <2>2. QED
      BY <1>8, <2>1, ClockKeeps DEF SetBack
  <1>9. CASE UNCHANGED vars
    <2>1. UNCHANGED <<page, clockVars, writes, dbVars, guiVars, inbox, outbox>>
      BY <1>9 DEF vars
    <2>2. now' = now /\ slips' = slips
      BY <2>1 DEF clockVars
    <2>3. QED
      BY <1>1, <2>1, <2>2, ClockKeeps
  <1>10. QED
    BY <1>2, <1>3, <1>4, <1>5, <1>6, <1>7, <1>8, <1>9 DEF Next

-----------------------------------------------------------------------------
(* The theorems.                                                           *)

\* The invariant holds in every behaviour of the forms and of the worker
\* (charger_management_page.cpp, workflow_management_page.cpp,
\* admin_repository.cpp, repair_repository.cpp).
THEOREM FormsInvariant == Spec => []IInv
  BY InitKeeps, NextKeeps, PTL DEF Spec

\* What the page says of a command is so for ever: done is executed, refused
\* is not, and no late copy of it will be (handleWriteResponse, receive).
THEOREM ToldIsRight == Spec => []ToldRight
  <1>1. IInv => ToldRight
    BY DEF IInv
  <1>2. QED
    BY <1>1, FormsInvariant, PTL

\* No number is executed twice, and where only administrators write, a
\* command changes the very row that its form showed, however often and from
\* however many forms it is sent, and whatever the clock does
\* (AdminRepository::mutate, RepairRepository::adminHandle, their updated_at).
THEOREM ShownIsChanged == Spec => []OnceAsShown
  <1>1. IInv => OnceAsShown
    BY DEF IInv
  <1>2. QED
    BY <1>1, FormsInvariant, PTL
=============================================================================
