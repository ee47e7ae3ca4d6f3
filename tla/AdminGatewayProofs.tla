-------------------------- MODULE AdminGatewayProofs --------------------------
(***************************************************************************)
(* The invariants of AdminGateway hold for any number of requests, pages,  *)
(* pending requests and sessions.                                          *)
(***************************************************************************)
EXTENDS AdminGateway, FiniteSetTheorems, SequenceTheorems, TLAPS

AnswersFit == \A r \in Request : request[r] # "ended" => answers[r] = 0
OwnTokens == \A i \in DOMAIN outbox : outbox[i].token \in {NoToken, outbox[i].id}

\* Forgetting requests leaves the others as they are.
LEMMA ForgottenType ==
  ASSUME request \in [Request -> {"new", "pending", "ended"}], NEW rs
  PROVE  /\ Forgotten(rs) \in [Request -> {"new", "pending", "ended"}]
         /\ \A r \in Request : /\ Forgotten(rs)[r] = "new" => request[r] = "new"
                               /\ Forgotten(rs)[r] = "pending" => request[r] = "pending" /\ r \notin rs
                               /\ Forgotten(rs)[r] # "ended" => request[r] # "ended"
                               /\ r \in rs => Forgotten(rs)[r] = "ended"
BY DEF Forgotten

\* Invalidation leaves no request pending.
LEMMA NonePending ==
  ASSUME request \in [Request -> {"new", "pending", "ended"}]
  PROVE  /\ Invalidated \in [Request -> {"new", "pending", "ended"}]
         /\ \A r \in Request : /\ Invalidated[r] # "pending"
                               /\ Invalidated[r] # "ended" => request[r] # "ended"
BY ForgottenType DEF Invalidated, Pending

\* What is submitted is a queue of messages.
LEMMA SubmittedType ==
  ASSUME inbox \in Seq(Message), NEW ms \in Seq(Message)
  PROVE  Submitted(ms) \in Seq(Message)
BY DEF Submitted

\* A revocation is a queue of at most one message.
LEMMA RevocationType ==
  ASSUME NEW t \in Request \cup {NoToken}
  PROVE  Revocation(t) \in Seq(Message)
<1>1. [do |-> "logout", id |-> 0, token |-> t] \in Message
  BY DEF Message
<1>. QED
  BY <1>1 DEF Revocation

\* Sessions are finitely many, and a new one fits.
LEMMA SessionsFit ==
  ASSUME sessions \subseteq Request, Cardinality(sessions) <= MaxSessions
  PROVE  /\ \A S \in SUBSET sessions : Cardinality(S) <= MaxSessions
         /\ \A m \in Request : Room => Cardinality(sessions \cup {m}) <= MaxSessions
<1>1. IsFiniteSet(Request)
  BY GatewayAssumption, FS_Interval DEF GatewayAssumption, Request
<1>2. IsFiniteSet(sessions) /\ Cardinality(sessions) \in Nat
  BY <1>1, FS_Subset, FS_CardinalityType
<1>3. ASSUME NEW S \in SUBSET sessions
      PROVE  Cardinality(S) <= MaxSessions
  BY GatewayAssumption, <1>2, FS_Subset, FS_CardinalityType DEF GatewayAssumption
<1>4. ASSUME NEW m \in Request, Room
      PROVE  Cardinality(sessions \cup {m}) <= MaxSessions
  <2>1. Cardinality(sessions) < MaxSessions
    BY <1>4 DEF Room
  <2>2. Cardinality(sessions \cup {m}) \in {Cardinality(sessions), Cardinality(sessions) + 1}
    BY <1>2, FS_AddElement
  <2>. QED
    BY GatewayAssumption, <1>2, <2>1, <2>2 DEF GatewayAssumption
<1>. QED
  BY <1>3, <1>4

\* The invariant holds initially.
LEMMA InitIInv == Init => IInv
<1>. SUFFICES ASSUME Init PROVE IInv
  OBVIOUS
<1>1. Cardinality({}) = 0
  BY FS_EmptySet
<1>. QED
  BY GatewayAssumption, <1>1 DEF Init, IInv, TypeOK, NeverResurrected, PendingIsCurrent, AnsweredOnce, GatewayAssumption,
     Pending, NoToken, State

\* A new request, made by a page or by the login form.
LEMMA IssueKeeps ==
  ASSUME IInv, NEW r \in Request, NEW s \in Page \cup {LoginPage}, NEW gen \in Nat,
         NEW before \in [Request -> {"new", "pending", "ended"}],
         \A q \in Request : before[q] # "ended" => request[q] # "ended",
         \A q \in Request : before[q] = "pending" => issued[q] = gen,
         Issue(r, s, gen, before), answers' = answers, generation' = gen
  PROVE  /\ request' \in [Request -> {"new", "pending", "ended"}]
         /\ stream' \in [Request -> Page \cup {LoginPage}]
         /\ issued' \in [Request -> Nat]
         /\ PendingIsCurrent'
         /\ AnswersFit'
         /\ \A q \in Request \ {r} : issued'[q] = issued[q]
         /\ issued'[r] = gen
<1>1. /\ request \in [Request -> {"new", "pending", "ended"}]
      /\ stream \in [Request -> Page \cup {LoginPage}]
      /\ issued \in [Request -> Nat]
      /\ AnswersFit
  BY DEF IInv, TypeOK, AnswersFit
<1>2. /\ request[r] = "new"
      /\ request' = [before EXCEPT ![r] = "pending"]
      /\ stream' = [stream EXCEPT ![r] = s]
      /\ issued' = [issued EXCEPT ![r] = gen]
  BY DEF Issue
<1>3. PendingIsCurrent'
  BY <1>1, <1>2 DEF PendingIsCurrent, Pending
<1>4. AnswersFit'
  BY <1>1, <1>2 DEF AnswersFit
<1>. QED
  BY <1>1, <1>2, <1>3, <1>4

\* A page's request.
LEMMA AskKeeps ==
  ASSUME IInv, NEW r \in Request, NEW s \in Page, Ask(r, s)
  PROVE  IInv'
<1>. USE DEF NoToken
<1>1. /\ request \in [Request -> {"new", "pending", "ended"}]
      /\ generation \in Nat /\ token \in Request /\ inbox \in Seq(Message)
  BY DEF IInv, TypeOK, Ask
<1>2. Issue(r, s, generation, Forgotten(Superseded(s))) /\ answers' = answers
      /\ generation' = generation /\ token' = token
  BY DEF Ask
<1>3. /\ Forgotten(Superseded(s)) \in [Request -> {"new", "pending", "ended"}]
      /\ \A q \in Request : Forgotten(Superseded(s))[q] # "ended" => request[q] # "ended"
      /\ \A q \in Request : Forgotten(Superseded(s))[q] = "pending" => issued[q] = generation
  BY <1>1, ForgottenType DEF IInv, PendingIsCurrent, Pending
<1>4. /\ request' \in [Request -> {"new", "pending", "ended"}]
      /\ stream' \in [Request -> Page \cup {LoginPage}]
      /\ issued' \in [Request -> Nat]
      /\ PendingIsCurrent'
      /\ AnswersFit'
      /\ \A q \in Request \ {r} : issued'[q] = issued[q]
      /\ issued'[r] = generation
  BY <1>1, <1>2, <1>3, IssueKeeps
<1>5. NeverResurrected'
  BY <1>1, <1>2, <1>4 DEF IInv, NeverResurrected
<1>6. inbox' \in Seq(Message)
  <2>1. [do |-> "ask", id |-> r, token |-> token] \in Message
    BY <1>1 DEF Message
  <2>2. <<[do |-> "ask", id |-> r, token |-> token]>> \in Seq(Message)
    BY <2>1
  <2>. QED
    BY <1>1, <2>2, SubmittedType DEF Ask
<1>. QED
  BY <1>2, <1>4, <1>5, <1>6 DEF IInv, TypeOK, Ask, AnsweredOnce, AnswersFit

\* The login form's request.
LEMMA LoginKeeps ==
  ASSUME IInv, NEW r \in Request, Login(r)
  PROVE  IInv'
<1>. USE DEF NoToken
<1>1. /\ request \in [Request -> {"new", "pending", "ended"}]
      /\ generation \in Nat /\ token \in Request \cup {0} /\ inbox \in Seq(Message)
  BY DEF IInv, TypeOK
<1>2. Issue(r, LoginPage, generation + 1, Invalidated) /\ answers' = answers
      /\ generation' = generation + 1 /\ token' = 0
  BY DEF Login
<1>3. /\ request' \in [Request -> {"new", "pending", "ended"}]
      /\ stream' \in [Request -> Page \cup {LoginPage}]
      /\ issued' \in [Request -> Nat]
      /\ PendingIsCurrent'
      /\ AnswersFit'
  <2>1. /\ Invalidated \in [Request -> {"new", "pending", "ended"}]
        /\ \A q \in Request : Invalidated[q] # "ended" => request[q] # "ended"
        /\ \A q \in Request : Invalidated[q] = "pending" => issued[q] = generation + 1
    BY <1>1, NonePending
  <2>2. generation + 1 \in Nat /\ LoginPage \in Page \cup {LoginPage}
    BY <1>1
  <2>. QED
    BY <1>2, <2>1, <2>2, IssueKeeps
<1>4. NeverResurrected'
  BY <1>2 DEF NeverResurrected
<1>5. inbox' \in Seq(Message)
  <2>1. <<[do |-> "login", id |-> r, token |-> 0]>> \in Seq(Message)
    <3>1. [do |-> "login", id |-> r, token |-> 0] \in Message
      BY DEF Message
    <3>. QED
      BY <3>1
  <2>2. Revocation(token) \in Seq(Message)
    BY <1>1, RevocationType
  <2>. QED
    <3>1. Revocation(token) \o <<[do |-> "login", id |-> r, token |-> 0]>> \in Seq(Message)
      BY <2>1, <2>2
    <3>2. inbox' = Submitted(Revocation(token) \o <<[do |-> "login", id |-> r, token |-> 0]>>)
      BY DEF Login
    <3>. QED
      BY <1>1, <3>1, <3>2, SubmittedType
<1>. QED
  BY <1>1, <1>2, <1>3, <1>4, <1>5 DEF IInv, TypeOK, Login, AnsweredOnce, AnswersFit

\* Whatever ends all requests and the session keeps the invariant.
LEMMA InvalidationKeeps ==
  ASSUME IInv, request' = Invalidated, token' = NoToken, generation' \in Nat,
         answers' \in [Request -> Nat],
         \A r \in Request : answers'[r] <= 1 /\ (Invalidated[r] # "ended" => answers'[r] = answers[r]),
         UNCHANGED sentVars, inbox' \in Seq(Message),
         state' \in State, open' \in BOOLEAN, outbox' \in Seq(Result), OwnTokens',
         sessions' \subseteq sessions
  PROVE  IInv'
<1>1. /\ request' \in [Request -> {"new", "pending", "ended"}]
      /\ \A r \in Request : /\ request'[r] # "pending"
                            /\ request'[r] # "ended" => request[r] # "ended"
  BY NonePending DEF IInv, TypeOK
<1>2. Cardinality(sessions') <= MaxSessions
  BY SessionsFit DEF IInv, TypeOK
<1>3. TypeOK'
  BY <1>1, <1>2 DEF IInv, TypeOK, sentVars, NoToken
<1>. QED
  BY <1>1, <1>3 DEF IInv, NeverResurrected, PendingIsCurrent, Pending, AnsweredOnce, OwnTokens

\* A result or a UNAUTHORIZED arrives.
LEMMA ReceiveKeeps ==
  ASSUME IInv, Receive
  PROVE  IInv'
<1>. USE DEF NoToken
<1>. DEFINE m == Head(outbox)
<1>1. /\ outbox \in Seq(Result) /\ outbox # <<>> /\ outbox' = Tail(outbox)
      /\ UNCHANGED <<state, open, sentVars, sessions>>
  BY DEF IInv, TypeOK, Receive
<1>2. m \in Result /\ m.token \in {0, m.id}
  BY <1>1 DEF IInv
<1>3. outbox' \in Seq(Result) /\ OwnTokens'
  BY <1>1 DEF IInv, OwnTokens
<1>4. /\ request \in [Request -> {"new", "pending", "ended"}]
      /\ token \in Request \cup {0} /\ generation \in Nat
      /\ answers \in [Request -> Nat] /\ inbox \in Seq(Message)
  BY DEF IInv, TypeOK
<1>5. m.id \in Request /\ m.token \in Request \cup {0}
  BY <1>2 DEF Result
<1>6. CASE ~open
  <2>1. UNCHANGED <<token, generation, request, answers, inbox>>
    BY <1>6 DEF Receive, guiVars
  <2>. QED
    BY <1>1, <1>3, <2>1
    DEF IInv, TypeOK, NeverResurrected, PendingIsCurrent, Pending, AnsweredOnce, OwnTokens, sentVars
<1>7. CASE open /\ ~Expected(m)
  <2>1. /\ request' = Forgotten({m.id} \cap Pending)
        /\ inbox' = Submitted(Revocation(m.token))
        /\ UNCHANGED <<token, generation, answers>>
    BY <1>7 DEF Receive
  <2>2. inbox' \in Seq(Message)
    BY <1>4, <1>5, <2>1, RevocationType, SubmittedType
  <2>3. /\ request' \in [Request -> {"new", "pending", "ended"}]
        /\ \A r \in Request : /\ request'[r] = "pending" => request[r] = "pending"
                              /\ request'[r] # "ended" => request[r] # "ended"
    BY <1>4, <2>1, ForgottenType
  <2>. QED
    BY <1>1, <1>3, <2>1, <2>2, <2>3
    DEF IInv, TypeOK, NeverResurrected, PendingIsCurrent, Pending, AnsweredOnce, OwnTokens, sentVars
<1>8. CASE open /\ Expected(m)
  <2>1. request[m.id] = "pending" /\ issued[m.id] = generation /\ answers[m.id] = 0
    BY <1>5, <1>8 DEF Expected, Pending, IInv
  <2>2. answers' = [answers EXCEPT ![m.id] = @ + 1]
    BY <1>8 DEF Receive
  <2>3. /\ answers' \in [Request -> Nat]
        /\ \A r \in Request : answers'[r] <= 1 /\ (r # m.id => answers'[r] = answers[r])
    BY <1>4, <1>5, <2>1, <2>2 DEF IInv, AnsweredOnce
  <2>4. CASE m.code = "UNAUTHORIZED"
    <3>1. /\ request' = Invalidated /\ token' = 0 /\ generation' = generation + 1
          /\ inbox' = Submitted(Revocation(token))
      BY <1>8, <2>4 DEF Receive
    <3>2. inbox' \in Seq(Message)
      BY <1>4, <3>1, RevocationType, SubmittedType
    <3>3. Invalidated[m.id] = "ended"
      BY <1>4, <1>5, <2>1, ForgottenType DEF Invalidated, Pending
    <3>4. state' \in State /\ open' \in BOOLEAN /\ sessions' \subseteq sessions /\ UNCHANGED sentVars
      BY <1>1 DEF IInv, TypeOK
    <3>. QED
      BY <1>3, <1>4, <2>3, <3>1, <3>2, <3>3, <3>4, InvalidationKeeps
  <2>5. CASE m.code # "UNAUTHORIZED"
    <3>1. /\ request' = Forgotten({m.id})
          /\ token' \in {token, m.id}
          /\ UNCHANGED <<generation, inbox>>
      BY <1>2, <1>8, <2>5 DEF Receive
    <3>2. /\ request' \in [Request -> {"new", "pending", "ended"}]
          /\ \A r \in Request : /\ request'[r] = "pending" => request[r] = "pending"
                                /\ request'[r] # "ended" => request[r] # "ended" /\ r # m.id
      BY <1>4, <1>5, <3>1, ForgottenType
    <3>3. NeverResurrected'
      BY <1>1, <2>1, <3>1 DEF IInv, NeverResurrected, sentVars
    <3>. QED
      BY <1>1, <1>3, <1>5, <2>3, <3>1, <3>2, <3>3
      DEF IInv, TypeOK, PendingIsCurrent, Pending, AnsweredOnce, OwnTokens, sentVars
  <2>. QED
    BY <2>4, <2>5
<1>. QED
  BY <1>6, <1>7, <1>8

\* The worker answers the first message of its queue.
LEMMA ServeKeeps ==
  ASSUME IInv, Serve
  PROVE  IInv'
<1>. USE DEF NoToken
<1>. DEFINE m == Head(inbox)
<1>1. /\ inbox \in Seq(Message) /\ inbox # <<>> /\ inbox' = Tail(inbox) /\ Answer(m)
      /\ outbox \in Seq(Result) /\ sessions \subseteq Request /\ Cardinality(sessions) <= MaxSessions
      /\ UNCHANGED <<state, open, guiVars, sentVars>>
  BY DEF IInv, TypeOK, Serve
<1>2. m \in Message /\ inbox' \in Seq(Message)
  BY <1>1
<1>3. ASSUME NEW code \in {"ok", "failed", "UNAUTHORIZED"}, NEW t \in {0, m.id},
             m.id \in Request, Reply(m, code, t)
      PROVE  outbox' \in Seq(Result) /\ OwnTokens'
  <2>1. [id |-> m.id, code |-> code, token |-> t] \in Result
    BY <1>3 DEF Result
  <2>2. outbox' \in Seq(Result)
    BY <1>1, <1>3, <2>1 DEF Reply
  <2>3. OwnTokens'
    BY <1>1, <1>3, <2>1 DEF Reply, OwnTokens, IInv
  <2>. QED
    BY <2>2, <2>3
<1>4. m.do \in {"login", "ask"} => m.id \in Request
  BY <1>2 DEF Message
<1>5. /\ outbox' \in Seq(Result) /\ OwnTokens'
      /\ sessions' \subseteq Request /\ Cardinality(sessions') <= MaxSessions
  <2>0. UNCHANGED outbox => outbox' \in Seq(Result) /\ OwnTokens'
    BY <1>1 DEF IInv, OwnTokens
  <2>1. sessions' \subseteq sessions =>
          sessions' \subseteq Request /\ Cardinality(sessions') <= MaxSessions
    BY <1>1, SessionsFit
  <2>2. CASE m.do \in {"logout", "close"}
    BY <1>1, <2>0, <2>1, <2>2 DEF Answer
  <2>3. CASE m.do = "ask"
    BY <1>1, <1>3, <1>4, <2>1, <2>3 DEF Answer
  <2>4. CASE m.do = "login" /\ Reply(m, "failed", 0) /\ UNCHANGED sessions
    BY <1>3, <1>4, <2>1, <2>4
  <2>5. CASE m.do = "login" /\ Room /\ sessions' = sessions \cup {m.id} /\ Reply(m, "ok", m.id)
    BY <1>1, <1>3, <1>4, <2>5, SessionsFit
  <2>. QED
    BY <1>1, <1>2, <2>2, <2>3, <2>4, <2>5 DEF Answer, Message
<1>. QED
  BY <1>1, <1>2, <1>5
  DEF IInv, TypeOK, NeverResurrected, PendingIsCurrent, Pending, AnsweredOnce, OwnTokens, guiVars, sentVars

\* A timer fires or a page is destroyed.
LEMMA ForgettingKeeps ==
  ASSUME IInv,
         \/ \E r \in Request : Timeout(r)
         \/ \E s \in Page \cup {LoginPage} : OwnerDestroyed(s)
  PROVE  IInv'
<1>1. /\ request \in [Request -> {"new", "pending", "ended"}] /\ answers \in [Request -> Nat]
  BY DEF IInv, TypeOK
<1>2. ASSUME NEW r \in Request, Timeout(r)
      PROVE  IInv'
  <2>1. request[r] = "pending" /\ answers[r] = 0 /\ request' = Forgotten({r})
        /\ answers' = [answers EXCEPT ![r] = @ + 1]
    BY <1>2 DEF Timeout, Pending, IInv
  <2>2. /\ request' \in [Request -> {"new", "pending", "ended"}]
        /\ \A q \in Request : /\ request'[q] = "pending" => request[q] = "pending"
                              /\ request'[q] # "ended" => request[q] # "ended" /\ q # r
    BY <1>1, <2>1, ForgottenType
  <2>. QED
    <3>1. /\ answers' \in [Request -> Nat]
          /\ \A q \in Request : answers'[q] <= 1 /\ (q # r => answers'[q] = answers[q])
      BY <1>1, <2>1 DEF IInv, AnsweredOnce
    <3>2. UNCHANGED <<state, open, token, generation, sentVars, inbox, outbox, sessions>>
      BY <1>2 DEF Timeout
    <3>. QED
      BY <2>2, <3>1, <3>2
      DEF IInv, TypeOK, NeverResurrected, PendingIsCurrent, Pending, AnsweredOnce, sentVars
<1>3. ASSUME NEW s \in Page \cup {LoginPage}, OwnerDestroyed(s)
      PROVE  IInv'
  <2>1. /\ request' \in [Request -> {"new", "pending", "ended"}]
        /\ \A q \in Request : /\ request'[q] = "pending" => request[q] = "pending"
                              /\ request'[q] # "ended" => request[q] # "ended"
    BY <1>1, <1>3, ForgottenType DEF OwnerDestroyed
  <2>. QED
    BY <1>3, <2>1
    DEF IInv, TypeOK, NeverResurrected, PendingIsCurrent, Pending, AnsweredOnce, OwnerDestroyed, sentVars
<1>. QED
  BY <1>2, <1>3

\* The session is given up with every request.
LEMMA EndingKeeps ==
  ASSUME IInv, Logout \/ Close \/ Stopped
  PROVE  IInv'
<1>. USE DEF NoToken
<1>1. /\ request \in [Request -> {"new", "pending", "ended"}]
      /\ token \in Request \cup {0} /\ generation \in Nat /\ inbox \in Seq(Message)
      /\ answers \in [Request -> Nat] /\ \A r \in Request : answers[r] <= 1
      /\ state \in State /\ open \in BOOLEAN /\ outbox \in Seq(Result) /\ OwnTokens
  BY DEF IInv, TypeOK, AnsweredOnce, OwnTokens
<1>2. CASE Logout
  <2>1. inbox' \in Seq(Message)
    BY <1>1, <1>2, RevocationType, SubmittedType DEF Logout
  <2>2. /\ request' = Invalidated /\ token' = 0 /\ generation' = generation + 1
        /\ UNCHANGED <<state, open, answers, sentVars, outbox, sessions>>
    BY <1>2 DEF Logout
  <2>. QED
    BY <1>1, <2>1, <2>2, InvalidationKeeps DEF OwnTokens
<1>3. CASE Close
  <2>1. [do |-> "close", id |-> 0, token |-> 0] \in Message
    BY DEF Message
  <2>2. inbox' \in Seq(Message)
    <3>1. <<[do |-> "close", id |-> 0, token |-> 0]>> \in Seq(Message)
      BY <2>1
    <3>. QED
      BY <1>1, <1>3, <3>1, SubmittedType DEF Close
  <2>3. /\ request' = Invalidated /\ token' = 0 /\ open' = FALSE
        /\ UNCHANGED <<state, generation, answers, sentVars, outbox, sessions>>
    BY <1>3 DEF Close
  <2>. QED
    BY <1>1, <2>2, <2>3, InvalidationKeeps DEF OwnTokens
<1>4. CASE Stopped /\ open
  <2>1. /\ request' = Invalidated /\ token' = 0 /\ generation' = generation + 1 /\ inbox' = <<>>
        /\ state' = "stopped" /\ sessions' = {} /\ UNCHANGED <<open, sentVars, outbox>>
        /\ answers' = [r \in Request |-> IF r \in Pending THEN answers[r] + 1 ELSE answers[r]]
    BY <1>4 DEF Stopped
  <2>2. \A r \in Pending : r \in Request /\ answers[r] = 0 /\ Invalidated[r] = "ended"
    BY <1>1, ForgottenType DEF Pending, Invalidated, IInv
  <2>3. /\ answers' \in [Request -> Nat]
        /\ \A r \in Request : answers'[r] <= 1 /\ (Invalidated[r] # "ended" => answers'[r] = answers[r])
    BY <1>1, <2>1, <2>2
  <2>4. inbox' \in Seq(Message) /\ state' \in State
    BY <2>1 DEF State
  <2>. QED
    BY <1>1, <2>1, <2>3, <2>4, InvalidationKeeps DEF OwnTokens
<1>5. CASE Stopped /\ ~open
  <2>1. /\ UNCHANGED <<guiVars, open, sentVars, outbox>>
        /\ inbox' = <<>> /\ state' = "stopped" /\ sessions' = {}
    BY <1>5 DEF Stopped
  <2>2. Cardinality(sessions') <= MaxSessions
    BY <2>1, SessionsFit DEF IInv, TypeOK
  <2>. QED
    BY <2>1, <2>2
    DEF IInv, TypeOK, NeverResurrected, PendingIsCurrent, Pending, AnsweredOnce, guiVars, sentVars, State
<1>. QED
  BY <1>2, <1>3, <1>4, <1>5

\* Every step keeps the invariant.
LEMMA NextKeeps ==
  ASSUME IInv, [Next]_vars
  PROVE  IInv'
<1>1. CASE UNCHANGED vars
  BY <1>1
  DEF IInv, TypeOK, NeverResurrected, PendingIsCurrent, Pending, AnsweredOnce, vars, guiVars, sentVars
<1>2. CASE Ready \/ Stop
  BY <1>2
  DEF IInv, TypeOK, NeverResurrected, PendingIsCurrent, Pending, AnsweredOnce, Ready, Stop, guiVars,
      sentVars, State
<1>3. ASSUME NEW t \in Request, SessionExpires(t)
      PROVE  IInv'
  <2>1. sessions' \subseteq Request /\ Cardinality(sessions') <= MaxSessions
    BY <1>3, SessionsFit DEF SessionExpires, IInv, TypeOK
  <2>. QED
    BY <1>3, <2>1
    DEF IInv, TypeOK, NeverResurrected, PendingIsCurrent, Pending, AnsweredOnce, SessionExpires, guiVars,
        sentVars
<1>. QED
  BY <1>1, <1>2, <1>3, AskKeeps, LoginKeeps, ForgettingKeeps, EndingKeeps, ReceiveKeeps, ServeKeeps DEF Next

\* The inductive invariant of the gateway holds in every reachable state.
THEOREM GatewayInvariant == Spec => []IInv
<1>1. Init => IInv
  BY InitIInv
<1>2. IInv /\ [Next]_vars => IInv'
  BY NextKeeps
<1>. QED
  BY <1>1, <1>2, PTL DEF Spec

\* The window is never logged in by a login that was cancelled, repeated or
\* logged out of since.
THEOREM LoginNeverResurrected == Spec => []NeverResurrected
<1>1. IInv => NeverResurrected
  BY DEF IInv
<1>. QED
  BY <1>1, GatewayInvariant, PTL

\* No page is told of a request twice, by whatever two of result, timer and
\* stop come first.
THEOREM NobodyToldTwice == Spec => []AnsweredOnce
<1>1. IInv => AnsweredOnce
  BY DEF IInv
<1>. QED
  BY <1>1, GatewayInvariant, PTL

-----------------------------------------------------------------------------
(* Where the sessions are.  A session appears with the result of its login *)
(* and is from then on followed: in the result, in the window, in a        *)
(* revocation, or in the closing of the channel.                           *)

\* Requests are made in order, and a newer one of a stream ends the others.
StreamsInOrder ==
  \A r, q \in Request : r < q /\ request[q] # "new" =>
    request[r] # "new" /\ (stream[r] = stream[q] => request[r] = "ended")

\* While a login is pending the window has no token, and otherwise it has one
\* if anything is pending; it is of a login that was answered.
TokenFits ==
  /\ \A r \in Pending : stream[r] = LoginPage <=> token = NoToken
  /\ token # NoToken => request[token] # "new"

\* The pages ask with the window's token.
MessageFits(m) ==
  /\ m.do \in {"ask", "login"} => request[m.id] # "new"
  /\ m.do = "ask" => stream[m.id] # LoginPage
  /\ m.do = "ask" /\ m.id \in Pending => m.token = token
  /\ m.do = "login" => stream[m.id] = LoginPage /\ m.id # token

MessagesFit == \A i \in DOMAIN inbox : MessageFits(inbox[i])

\* A session comes with the success of a login; who is unauthorized has none.
ResultFits(m) ==
  /\ request[m.id] # "new"
  /\ m.token # NoToken => m.code = "ok" /\ stream[m.id] = LoginPage
  /\ m.code = "UNAUTHORIZED" /\ m.id \in Pending =>
       token \notin sessions /\ stream[m.id] # LoginPage

ResultsFit == \A i \in DOMAIN outbox : ResultFits(outbox[i])

\* A login is asked for and answered once.
LoginsDiffer ==
  \A i \in DOMAIN inbox : inbox[i].do = "login" =>
    /\ \A j \in DOMAIN inbox : inbox[j].do = "login" /\ inbox[j].id = inbox[i].id => j = i
    /\ \A j \in DOMAIN outbox : outbox[j].id # inbox[i].id

\* Nothing follows the closing of the channel, and nothing is left after it.
ClosingIsLast ==
  /\ \A i \in DOMAIN inbox : inbox[i].do = "close" => i = Len(inbox) /\ ~open
  /\ state = "running" /\ ~open =>
       (\E i \in DOMAIN inbox : inbox[i].do = "close") \/ (inbox = <<>> /\ sessions = {})
  /\ state = "starting" => inbox = <<>> /\ sessions = {}

Traced ==
  /\ IInv /\ StreamsInOrder /\ TokenFits /\ MessagesFit /\ ResultsFit /\ LoginsDiffer
  /\ ClosingIsLast /\ NoSessionLost

\* The ways of the gateway's requests in a step: those made before go on or
\* end, and where the window's token goes, so does all that was asked with it.
RequestsGoOn ==
  /\ \A q \in Request : request[q] # "new" =>
       /\ request'[q] # "new"
       /\ request'[q] = "pending" => request[q] = "pending"
       /\ stream'[q] = stream[q]
  /\ \/ token' = token
     \/ token' = NoToken /\ \A q \in Request : request[q] # "new" => request'[q] # "pending"

\* Nothing is asked anew.
NothingNew ==
  /\ stream' = stream
  /\ \A q \in Request : request'[q] = request[q] \/ (request[q] = "pending" /\ request'[q] = "ended")

\* What is submitted comes last, after all that was there.
LEMMA SubmittedLast ==
  ASSUME inbox \in Seq(Message), NEW ms \in Seq(Message)
  PROVE  /\ \A i \in DOMAIN inbox : i \in DOMAIN Submitted(ms) /\ Submitted(ms)[i] = inbox[i]
         /\ \A i \in DOMAIN Submitted(ms) :
              \/ i \in DOMAIN inbox /\ Submitted(ms)[i] = inbox[i]
              \/ i - Len(inbox) \in DOMAIN ms /\ Submitted(ms)[i] = ms[i - Len(inbox)]
         /\ state = "running" => \A i \in DOMAIN ms :
              Len(inbox) + i \in DOMAIN Submitted(ms) /\ Submitted(ms)[Len(inbox) + i] = ms[i]
<1>1. CASE state = "running"
  <2>1. Submitted(ms) = inbox \o ms
    BY <1>1 DEF Submitted
  <2>2. /\ inbox \o ms \in Seq(Message) /\ Len(inbox \o ms) = Len(inbox) + Len(ms)
        /\ \A i \in 1..Len(inbox) + Len(ms) :
             (inbox \o ms)[i] = IF i <= Len(inbox) THEN inbox[i] ELSE ms[i - Len(inbox)]
    BY ConcatProperties
  <2>3. /\ DOMAIN inbox = 1..Len(inbox) /\ DOMAIN ms = 1..Len(ms)
        /\ DOMAIN (inbox \o ms) = 1..Len(inbox) + Len(ms)
        /\ Len(inbox) \in Nat /\ Len(ms) \in Nat
    BY <2>2, LenProperties
  <2>. QED
    BY <2>1, <2>2, <2>3
<1>2. CASE state # "running"
  BY <1>2 DEF Submitted
<1>. QED
  BY <1>1, <1>2

\* Nothing submitted changes nothing.
LEMMA NothingSubmitted ==
  ASSUME inbox \in Seq(Message)
  PROVE  Submitted(<<>>) = inbox
BY ConcatEmptySeq DEF Submitted

\* The order of requests and streams survives where nothing is asked.
LEMMA OrderStays ==
  ASSUME TypeOK, StreamsInOrder, NothingNew
  PROVE  StreamsInOrder'
BY DEF TypeOK, StreamsInOrder, NothingNew

\* A new request ends the others of its stream.
LEMMA IssueOrders ==
  ASSUME TypeOK, StreamsInOrder, NEW r \in Request, NEW s \in Page \cup {LoginPage}, NEW gen \in Nat,
         NEW before \in [Request -> {"new", "pending", "ended"}],
         \A q \in Request : before[q] = request[q] \/ (request[q] = "pending" /\ before[q] = "ended"),
         \A q \in Request : request[q] = "pending" /\ stream[q] = s => before[q] = "ended",
         Issue(r, s, gen, before)
  PROVE  /\ StreamsInOrder'
         /\ request[r] = "new" /\ request'[r] = "pending" /\ stream'[r] = s
         /\ \A q \in Request : q # r => request'[q] = before[q] /\ stream'[q] = stream[q]
<1>1. /\ request[r] = "new"
      /\ \A q \in Request : q < r => request[q] # "new"
      /\ request' = [before EXCEPT ![r] = "pending"]
      /\ stream' = [stream EXCEPT ![r] = s]
  BY DEF Issue
<1>2. stream \in [Request -> Page \cup {LoginPage}] /\ request \in [Request -> {"new", "pending", "ended"}]
  BY DEF TypeOK
<1>3. /\ request'[r] = "pending" /\ stream'[r] = s
      /\ \A q \in Request : q # r => request'[q] = before[q] /\ stream'[q] = stream[q]
  BY <1>1, <1>2
<1>4. ASSUME NEW a \in Request, NEW b \in Request, a < b, request'[b] # "new"
      PROVE  request'[a] # "new" /\ (stream'[a] = stream'[b] => request'[a] = "ended")
  <2>0. a # b
    BY <1>4 DEF Request
  <2>1. CASE b = r
    BY <1>1, <1>2, <1>3, <1>4, <2>0, <2>1
  <2>2. CASE b # r
    <3>1. request[b] # "new"
      BY <1>3, <1>4, <2>2
    <3>2. request[a] # "new" /\ (stream[a] = stream[b] => request[a] = "ended")
      BY <1>4, <3>1 DEF StreamsInOrder
    <3>3. a # r
      BY <1>1, <3>2
    <3>. QED
      BY <1>3, <2>2, <3>2, <3>3
  <2>. QED
    BY <2>1, <2>2
<1>. QED
  BY <1>1, <1>3, <1>4 DEF StreamsInOrder

\* What was queued goes on to fit.
LEMMA FitGoesOn ==
  ASSUME TypeOK, RequestsGoOn
  PROVE  /\ \A m \in Message : MessageFits(m) => MessageFits(m)'
         /\ sessions' \subseteq sessions => \A m \in Result : ResultFits(m) => ResultFits(m)'
<1>1. \A m \in Message : m.do \in {"ask", "login"} => m.id \in Request /\ m.id # NoToken
  BY DEF Message, Request, NoToken
<1>2. sessions \subseteq Request /\ NoToken \notin Request
  BY DEF TypeOK, NoToken, Request
<1>3. ASSUME NEW m \in Message, MessageFits(m)
      PROVE  MessageFits(m)'
  BY <1>1, <1>3 DEF MessageFits, RequestsGoOn, Pending
<1>4. ASSUME NEW m \in Result, ResultFits(m), sessions' \subseteq sessions
      PROVE  ResultFits(m)'
  <2>1. m.id \in Request
    BY DEF Result
  <2>. QED
    BY <1>2, <1>4, <2>1 DEF ResultFits, RequestsGoOn, Pending
<1>. QED
  BY <1>3, <1>4

\* The queue fits when what is new in it fits.
LEMMA MessagesGoOn ==
  ASSUME TypeOK, MessagesFit, RequestsGoOn,
         \A i \in DOMAIN inbox' :
           (\E j \in DOMAIN inbox : inbox'[i] = inbox[j]) \/ MessageFits(inbox[i])'
  PROVE  MessagesFit'
<1>1. ASSUME NEW i \in DOMAIN inbox', NEW j \in DOMAIN inbox, inbox'[i] = inbox[j]
      PROVE  MessageFits(inbox[i])'
  <2>1. inbox[j] \in Message /\ MessageFits(inbox[j])
    BY DEF TypeOK, MessagesFit
  <2>2. PICK m \in Message : m = inbox[j] /\ MessageFits(m)
    BY <2>1
  <2>3. MessageFits(m)'
    BY <2>2, FitGoesOn
  <2>. QED
    BY <1>1, <2>2, <2>3 DEF MessageFits
<1>. QED
  BY <1>1 DEF MessagesFit

\* A page asks.
LEMMA AskTraced ==
  ASSUME Traced, IInv', NEW r \in Request, NEW s \in Page, Ask(r, s)
  PROVE  Traced'
<1>. DEFINE n == [do |-> "ask", id |-> r, token |-> token]
            before == Forgotten(Superseded(s))
<1>1. /\ TypeOK /\ StreamsInOrder /\ TokenFits /\ MessagesFit /\ ResultsFit /\ LoginsDiffer
      /\ ClosingIsLast /\ NoSessionLost
      /\ request \in [Request -> {"new", "pending", "ended"}] /\ inbox \in Seq(Message)
      /\ outbox \in Seq(Result) /\ token \in Request \cup {NoToken} /\ generation \in Nat
  BY DEF Traced, IInv, TypeOK
<1>2. /\ token # NoToken /\ open /\ s # LoginPage /\ inbox' = Submitted(<<n>>)
      /\ Issue(r, s, generation, before)
      /\ UNCHANGED <<state, open, token, outbox, sessions>>
  BY GatewayAssumption DEF Ask, Issue, GatewayAssumption
<1>3. /\ before \in [Request -> {"new", "pending", "ended"}]
      /\ \A q \in Request : before[q] = request[q] \/ (request[q] = "pending" /\ before[q] = "ended")
      /\ \A q \in Request : request[q] = "pending" /\ stream[q] = s => before[q] = "ended"
  BY <1>1, ForgottenType DEF Forgotten, Superseded, Pending
<1>4. /\ StreamsInOrder'
      /\ request[r] = "new" /\ request'[r] = "pending" /\ stream'[r] = s
      /\ \A q \in Request : q # r => request'[q] = before[q] /\ stream'[q] = stream[q]
  BY <1>1, <1>2, <1>3, IssueOrders
<1>5. RequestsGoOn
  BY <1>2, <1>3, <1>4 DEF RequestsGoOn
<1>6. TokenFits'
  <2>1. \A q \in Request : request'[q] = "pending" => q = r \/ request[q] = "pending"
    BY <1>3, <1>4
  <2>. QED
    BY <1>1, <1>2, <1>4, <1>5, <2>1 DEF TokenFits, RequestsGoOn, Pending
<1>7. n \in Message /\ <<n>> \in Seq(Message) /\ DOMAIN <<n>> = {1} /\ <<n>>[1] = n
  BY <1>1 DEF Message
<1>8. \A i \in DOMAIN inbox' : (i \in DOMAIN inbox /\ inbox'[i] = inbox[i]) \/ inbox'[i] = n
  <2>1. \A i \in DOMAIN inbox' :
          \/ i \in DOMAIN inbox /\ inbox'[i] = inbox[i]
          \/ i - Len(inbox) \in DOMAIN <<n>> /\ inbox'[i] = <<n>>[i - Len(inbox)]
    BY <1>1, <1>2, <1>7, SubmittedLast
  <2>. QED
    BY <1>7, <2>1
<1>9. \A i \in DOMAIN inbox : i \in DOMAIN inbox' /\ inbox'[i] = inbox[i]
  BY <1>1, <1>2, <1>7, SubmittedLast
<1>10. MessagesFit'
  <2>1. ASSUME NEW i \in DOMAIN inbox', inbox'[i] = n
        PROVE  MessageFits(inbox[i])'
    BY <1>2, <1>4, <2>1 DEF MessageFits
  <2>. QED
    BY <1>1, <1>5, <1>8, <2>1, MessagesGoOn
<1>11. ResultsFit'
  BY <1>1, <1>2, <1>5, FitGoesOn DEF ResultsFit, ResultFits
<1>12. LoginsDiffer'
  BY <1>1, <1>2, <1>8 DEF LoginsDiffer
<1>13. ClosingIsLast'
  BY <1>1, <1>2, <1>8 DEF ClosingIsLast, Submitted
<1>14. NoSessionLost'
  BY <1>1, <1>2, <1>9 DEF NoSessionLost, Dismissed
<1>. QED
  BY <1>4, <1>6, <1>10, <1>11, <1>12, <1>13, <1>14 DEF Traced

\* The results fit when what is new in them fits.
LEMMA ResultsGoOn ==
  ASSUME TypeOK, ResultsFit, RequestsGoOn, sessions' \subseteq sessions,
         \A i \in DOMAIN outbox' :
           (\E j \in DOMAIN outbox : outbox'[i] = outbox[j]) \/ ResultFits(outbox[i])'
  PROVE  ResultsFit'
<1>1. ASSUME NEW i \in DOMAIN outbox', NEW j \in DOMAIN outbox, outbox'[i] = outbox[j]
      PROVE  ResultFits(outbox[i])'
  <2>1. outbox[j] \in Result /\ ResultFits(outbox[j])
    BY DEF TypeOK, ResultsFit
  <2>2. PICK m \in Result : m = outbox[j] /\ ResultFits(m)
    BY <2>1
  <2>3. ResultFits(m)'
    BY <2>2, FitGoesOn
  <2>. QED
    BY <1>1, <2>2, <2>3 DEF ResultFits
<1>. QED
  BY <1>1 DEF ResultsFit

\* A revocation comes last, after all that was there.
LEMMA RevocationLast ==
  ASSUME inbox \in Seq(Message), NEW t \in Request \cup {NoToken}
  PROVE  /\ \A i \in DOMAIN inbox :
              i \in DOMAIN Submitted(Revocation(t)) /\ Submitted(Revocation(t))[i] = inbox[i]
         /\ \A i \in DOMAIN Submitted(Revocation(t)) :
              \/ i \in DOMAIN inbox /\ Submitted(Revocation(t))[i] = inbox[i]
              \/ Submitted(Revocation(t))[i].do = "logout"
         /\ t # NoToken /\ state = "running" =>
              \E i \in DOMAIN Submitted(Revocation(t)) :
                Submitted(Revocation(t))[i].do = "logout" /\ Submitted(Revocation(t))[i].token = t
<1>1. CASE t = NoToken
  BY <1>1, NothingSubmitted DEF Revocation
<1>2. CASE t # NoToken
  <2>. DEFINE n == [do |-> "logout", id |-> 0, token |-> t]
  <2>1. /\ Revocation(t) = <<n>> /\ <<n>> \in Seq(Message)
        /\ DOMAIN <<n>> = {1} /\ <<n>>[1] = n /\ n.do = "logout" /\ n.token = t
    BY <1>2 DEF Revocation, Message
  <2>2. \A i \in DOMAIN <<n>> : i = 1 /\ <<n>>[i] = n
    BY <2>1
  <2>. HIDE DEF n
  <2>3. \A i \in DOMAIN Submitted(<<n>>) :
          \/ i \in DOMAIN inbox /\ Submitted(<<n>>)[i] = inbox[i]
          \/ Submitted(<<n>>)[i] = n
    <3>1. \A i \in DOMAIN Submitted(<<n>>) :
            \/ i \in DOMAIN inbox /\ Submitted(<<n>>)[i] = inbox[i]
            \/ i - Len(inbox) \in DOMAIN <<n>> /\ Submitted(<<n>>)[i] = <<n>>[i - Len(inbox)]
      BY <2>1, SubmittedLast
    <3>. QED
      BY <2>2, <3>1
  <2>4. \A i \in DOMAIN inbox : i \in DOMAIN Submitted(<<n>>) /\ Submitted(<<n>>)[i] = inbox[i]
    BY <2>1, SubmittedLast
  <2>5. state = "running" => \E i \in DOMAIN Submitted(<<n>>) : Submitted(<<n>>)[i] = n
    <3>1. state = "running" => \A i \in DOMAIN <<n>> :
            Len(inbox) + i \in DOMAIN Submitted(<<n>>) /\ Submitted(<<n>>)[Len(inbox) + i] = <<n>>[i]
      BY <2>1, SubmittedLast
    <3>2. 1 \in DOMAIN <<n>>
      BY <2>1
    <3>. QED
      BY <2>2, <3>1, <3>2
  <2>. QED
    BY <2>1, <2>3, <2>4, <2>5
<1>. QED
  BY <1>1, <1>2

\* The gateway gives a token back and asks for nothing.
LEMMA RevocationKeeps ==
  ASSUME Traced, RequestsGoOn, NEW t \in Request \cup {NoToken}, open,
         inbox' = Submitted(Revocation(t)),
         \A i \in DOMAIN outbox' : \E j \in DOMAIN outbox : outbox'[i] = outbox[j],
         UNCHANGED <<state, open, sessions>>
  PROVE  MessagesFit' /\ ResultsFit' /\ LoginsDiffer' /\ ClosingIsLast'
<1>1. /\ TypeOK /\ MessagesFit /\ ResultsFit /\ LoginsDiffer /\ ClosingIsLast /\ inbox \in Seq(Message)
  BY DEF Traced, IInv, TypeOK
<1>2. \A i \in DOMAIN inbox' : (i \in DOMAIN inbox /\ inbox'[i] = inbox[i]) \/ inbox'[i].do = "logout"
  BY <1>1, RevocationLast
<1>3. MessagesFit'
  <2>1. ASSUME NEW i \in DOMAIN inbox', inbox'[i].do = "logout"
        PROVE  MessageFits(inbox[i])'
    BY <2>1 DEF MessageFits
  <2>. QED
    BY <1>1, <1>2, <2>1, MessagesGoOn
<1>4. ResultsFit'
  BY <1>1, ResultsGoOn
<1>5. LoginsDiffer'
  <2>1. ASSUME NEW i \in DOMAIN inbox', inbox'[i].do = "login",
               NEW j \in DOMAIN outbox', outbox'[j].id = inbox'[i].id
        PROVE  FALSE
    BY <1>1, <1>2, <2>1 DEF LoginsDiffer
  <2>2. ASSUME NEW i \in DOMAIN inbox', inbox'[i].do = "login",
               NEW j \in DOMAIN inbox', inbox'[j].do = "login", inbox'[j].id = inbox'[i].id
        PROVE  j = i
    BY <1>1, <1>2, <2>2 DEF LoginsDiffer
  <2>. QED
    BY <2>1, <2>2 DEF LoginsDiffer
<1>6. ClosingIsLast'
  BY <1>1, <1>2 DEF ClosingIsLast, Submitted
<1>. QED
  BY <1>3, <1>4, <1>5, <1>6

\* The login form asks.
LEMMA LoginTraced ==
  ASSUME Traced, IInv', NEW r \in Request, Login(r)
  PROVE  Traced'
<1>. DEFINE n == [do |-> "login", id |-> r, token |-> NoToken]
            ms == Revocation(token) \o <<n>>
<1>1. /\ TypeOK /\ StreamsInOrder /\ TokenFits /\ MessagesFit /\ ResultsFit /\ LoginsDiffer
      /\ ClosingIsLast /\ NoSessionLost
      /\ request \in [Request -> {"new", "pending", "ended"}] /\ inbox \in Seq(Message)
      /\ outbox \in Seq(Result) /\ token \in Request \cup {NoToken}
  BY DEF Traced, IInv, TypeOK
<1>2. /\ open /\ inbox' = Submitted(ms) /\ token' = NoToken
      /\ Issue(r, LoginPage, generation + 1, Invalidated)
      /\ UNCHANGED <<state, open, outbox, sessions>>
  BY DEF Login, Issue
<1>3. /\ Invalidated \in [Request -> {"new", "pending", "ended"}]
      /\ \A q \in Request : /\ Invalidated[q] = request[q] \/ (request[q] = "pending" /\ Invalidated[q] = "ended")
                            /\ request[q] = "pending" => Invalidated[q] = "ended"
                            /\ Invalidated[q] # "pending"
  BY <1>1, NonePending, ForgottenType DEF Invalidated, Forgotten, Pending
<1>4. /\ StreamsInOrder'
      /\ request[r] = "new" /\ request'[r] = "pending" /\ stream'[r] = LoginPage
      /\ \A q \in Request : q # r => request'[q] = Invalidated[q] /\ stream'[q] = stream[q]
  <2>1. /\ LoginPage \in Page \cup {LoginPage} /\ generation + 1 \in Nat
        /\ \A q \in Request : Invalidated[q] = request[q] \/ (request[q] = "pending" /\ Invalidated[q] = "ended")
        /\ \A q \in Request : request[q] = "pending" /\ stream[q] = LoginPage => Invalidated[q] = "ended"
    BY <1>1, <1>3 DEF TypeOK
  <2>2. PICK gen \in Nat : gen = generation + 1
    BY <2>1
  <2>3. Issue(r, LoginPage, gen, Invalidated)
    BY <1>2, <2>2
  <2>4. PICK s \in Page \cup {LoginPage} : s = LoginPage
    BY <2>1
  <2>5. PICK before \in [Request -> {"new", "pending", "ended"}] : before = Invalidated
    BY <1>3
  <2>6. /\ \A q \in Request : before[q] = request[q] \/ (request[q] = "pending" /\ before[q] = "ended")
        /\ \A q \in Request : request[q] = "pending" /\ stream[q] = s => before[q] = "ended"
        /\ Issue(r, s, gen, before)
    BY <2>1, <2>3, <2>4, <2>5
  <2>7. TypeOK /\ StreamsInOrder
    BY <1>1
  <2>8. /\ StreamsInOrder'
        /\ request[r] = "new" /\ request'[r] = "pending" /\ stream'[r] = s
        /\ \A q \in Request : q # r => request'[q] = before[q] /\ stream'[q] = stream[q]
    BY <2>6, <2>7, IssueOrders
  <2>. QED
    BY <2>4, <2>5, <2>8
<1>5. RequestsGoOn
  BY <1>2, <1>3, <1>4 DEF RequestsGoOn
<1>6. TokenFits'
  BY <1>2, <1>3, <1>4 DEF TokenFits, Pending
<1>7. /\ ms \in Seq(Message)
      /\ \A i \in DOMAIN ms : (ms[i] = n /\ i = Len(ms)) \/ ms[i].do = "logout"
      /\ token # NoToken => 1 \in DOMAIN ms /\ ms[1].do = "logout" /\ ms[1].token = token
  <2>1. n \in Message /\ <<n>> \in Seq(Message)
    BY DEF Message
  <2>2. CASE token = NoToken
    <3>1. ms = <<n>>
      BY <2>1, <2>2, ConcatEmptySeq DEF Revocation
    <3>2. Len(<<n>>) = 1 /\ DOMAIN <<n>> = {1} /\ <<n>>[1] = n
      OBVIOUS
    <3>. HIDE DEF n, ms
    <3>. QED
      BY <2>1, <2>2, <3>1, <3>2
  <2>3. CASE token # NoToken
    <3>. DEFINE l == [do |-> "logout", id |-> 0, token |-> token]
    <3>1. l \in Message /\ Revocation(token) = <<l>> /\ l.do = "logout" /\ l.token = token
      BY <1>1, <2>3 DEF Revocation, Message
    <3>2. ms = <<l>> \o <<n>>
      BY <3>1
    <3>. HIDE DEF l, n, ms
    <3>3. ms \in Seq(Message) /\ Len(ms) = 2 /\ DOMAIN ms = {1, 2} /\ ms[1] = l /\ ms[2] = n
      BY <2>1, <3>1, <3>2
    <3>. QED
      BY <3>1, <3>3
  <2>. QED
    BY <2>2, <2>3
<1>. HIDE DEF ms
<1>8. \A i \in DOMAIN inbox' :
        \/ i \in DOMAIN inbox /\ inbox'[i] = inbox[i]
        \/ inbox'[i].do = "logout"
        \/ inbox'[i] = n /\ i = Len(inbox) + Len(ms)
  <2>1. \A i \in DOMAIN inbox' :
          \/ i \in DOMAIN inbox /\ inbox'[i] = inbox[i]
          \/ i - Len(inbox) \in DOMAIN ms /\ inbox'[i] = ms[i - Len(inbox)]
    BY <1>1, <1>2, <1>7, SubmittedLast
  <2>2. Len(inbox) \in Nat /\ Len(ms) \in Nat /\ DOMAIN inbox' = 1..Len(inbox')
        /\ Len(inbox') \in Nat
    <3>1. inbox' \in Seq(Message)
      BY DEF IInv, TypeOK
    <3>. QED
      BY <1>1, <1>7, <3>1, LenProperties
  <2>. QED
    BY <1>7, <2>1, <2>2
<1>9. \A i \in DOMAIN inbox : i \in DOMAIN inbox' /\ inbox'[i] = inbox[i]
  BY <1>1, <1>2, <1>7, SubmittedLast
<1>10. MessagesFit'
  <2>1. ASSUME NEW i \in DOMAIN inbox', inbox'[i] = n
        PROVE  MessageFits(inbox[i])'
    BY <1>2, <1>4, <2>1 DEF MessageFits, NoToken, Request
  <2>2. ASSUME NEW i \in DOMAIN inbox', inbox'[i].do = "logout"
        PROVE  MessageFits(inbox[i])'
    BY <2>2 DEF MessageFits
  <2>. QED
    BY <1>1, <1>5, <1>8, <2>1, <2>2, MessagesGoOn
<1>11. ResultsFit'
  BY <1>1, <1>2, <1>5, ResultsGoOn
<1>12. LoginsDiffer'
  <2>1. /\ \A i \in DOMAIN inbox : inbox[i].do = "login" => inbox[i].id # r
        /\ \A i \in DOMAIN outbox : outbox[i].id # r
    BY <1>1, <1>4 DEF MessagesFit, MessageFits, ResultsFit, ResultFits
  <2>2. n.id = r /\ outbox' = outbox
    BY <1>2
  <2>. HIDE DEF n
  <2>3. ASSUME NEW i \in DOMAIN inbox', inbox'[i].do = "login"
        PROVE  \A j \in DOMAIN outbox' : outbox'[j].id # inbox'[i].id
    BY <1>1, <1>8, <2>1, <2>2, <2>3 DEF LoginsDiffer
  <2>4. ASSUME NEW i \in DOMAIN inbox', inbox'[i].do = "login",
               NEW j \in DOMAIN inbox', inbox'[j].do = "login", inbox'[j].id = inbox'[i].id
        PROVE  j = i
    BY <1>1, <1>8, <2>1, <2>2, <2>4 DEF LoginsDiffer
  <2>. QED
    BY <2>3, <2>4 DEF LoginsDiffer
<1>13. ClosingIsLast'
  <2>1. \A i \in DOMAIN inbox' : inbox'[i].do # "close"
    BY <1>1, <1>2, <1>8 DEF ClosingIsLast
  <2>2. state = "starting" => inbox' = inbox
    BY <1>2 DEF Submitted
  <2>. QED
    BY <1>1, <1>2, <2>1, <2>2 DEF ClosingIsLast
<1>14. NoSessionLost'
  <2>1. token # NoToken /\ state = "running" =>
          \E i \in DOMAIN inbox' : inbox'[i].do = "logout" /\ inbox'[i].token = token
    BY <1>1, <1>2, <1>7, SubmittedLast
  <2>2. NoToken \notin sessions
    BY <1>1 DEF TypeOK, NoToken, Request
  <2>. QED
    BY <1>1, <1>2, <1>9, <2>1, <2>2 DEF NoSessionLost, Dismissed
<1>. QED
  BY <1>4, <1>6, <1>10, <1>11, <1>12, <1>13, <1>14 DEF Traced

\* Ending requests and keeping or giving up the token.
LEMMA EndingGoesOn ==
  ASSUME Traced, NothingNew, token' = token \/ (token' = NoToken /\ request' = Invalidated)
  PROVE  StreamsInOrder' /\ RequestsGoOn /\ TokenFits'
<1>1. /\ TypeOK /\ StreamsInOrder /\ TokenFits /\ token \in Request \cup {NoToken}
      /\ request \in [Request -> {"new", "pending", "ended"}]
  BY DEF Traced, IInv, TypeOK
<1>2. StreamsInOrder'
  BY <1>1, OrderStays
<1>3. request' = Invalidated => \A q \in Request : request'[q] # "pending"
  BY <1>1, NonePending
<1>4. RequestsGoOn
  BY <1>1, <1>3 DEF RequestsGoOn, NothingNew
<1>5. TokenFits'
  BY <1>1, <1>3 DEF TokenFits, NothingNew, Pending
<1>. QED
  BY <1>2, <1>4, <1>5

\* What forgetting does to the requests.
LEMMA ForgettingIsNothingNew ==
  ASSUME TypeOK, NEW rs \in SUBSET Pending, request' = Forgotten(rs), stream' = stream
  PROVE  NothingNew
BY DEF NothingNew, Forgotten, Pending

\* The administrator logs out.
LEMMA LogoutTraced ==
  ASSUME Traced, IInv', Logout
  PROVE  Traced'
<1>1. /\ TypeOK /\ NoSessionLost /\ inbox \in Seq(Message) /\ token \in Request
      /\ open /\ token' = NoToken /\ request' = Invalidated /\ stream' = stream
      /\ inbox' = Submitted(Revocation(token)) /\ UNCHANGED <<state, open, outbox, sessions>>
  BY DEF Traced, IInv, TypeOK, Logout, sentVars
<1>2. NothingNew
  BY <1>1, ForgettingIsNothingNew DEF Invalidated
<1>3. StreamsInOrder' /\ RequestsGoOn /\ TokenFits'
  BY <1>1, <1>2, EndingGoesOn
<1>4. MessagesFit' /\ ResultsFit' /\ LoginsDiffer' /\ ClosingIsLast'
  BY <1>1, <1>3, RevocationKeeps
<1>5. NoSessionLost'
  <2>1. \A i \in DOMAIN inbox : i \in DOMAIN inbox' /\ inbox'[i] = inbox[i]
    BY <1>1, RevocationLast
  <2>2. token # NoToken /\ state = "running" =>
          \E i \in DOMAIN inbox' : inbox'[i].do = "logout" /\ inbox'[i].token = token
    BY <1>1, RevocationLast
  <2>3. token # NoToken
    BY <1>1 DEF NoToken, Request
  <2>. QED
    BY <1>1, <2>1, <2>2, <2>3 DEF NoSessionLost, Dismissed
<1>. QED
  BY <1>3, <1>4, <1>5 DEF Traced

\* The window closes.
LEMMA CloseTraced ==
  ASSUME Traced, IInv', Close
  PROVE  Traced'
<1>. DEFINE n == [do |-> "close", id |-> 0, token |-> NoToken]
<1>1. /\ TypeOK /\ MessagesFit /\ ResultsFit /\ LoginsDiffer /\ ClosingIsLast
      /\ inbox \in Seq(Message) /\ outbox \in Seq(Result)
      /\ open /\ token' = NoToken /\ request' = Invalidated /\ stream' = stream
      /\ inbox' = Submitted(<<n>>) /\ open' = FALSE /\ UNCHANGED <<state, outbox, sessions>>
  BY DEF Traced, IInv, TypeOK, Close, sentVars
<1>2. NothingNew
  BY <1>1, ForgettingIsNothingNew DEF Invalidated
<1>3. StreamsInOrder' /\ RequestsGoOn /\ TokenFits'
  BY <1>1, <1>2, EndingGoesOn
<1>4. /\ n \in Message /\ <<n>> \in Seq(Message) /\ DOMAIN <<n>> = {1} /\ <<n>>[1] = n
      /\ Len(<<n>>) = 1 /\ n.do = "close"
  BY DEF Message
<1>. HIDE DEF n
<1>5. \A i \in DOMAIN inbox' :
        (i \in DOMAIN inbox /\ inbox'[i] = inbox[i]) \/ (inbox'[i] = n /\ i = Len(inbox'))
  <2>1. CASE state = "running"
    <3>1. inbox' = inbox \o <<n>>
      BY <1>1, <2>1 DEF Submitted
    <3>. QED
      BY <1>1, <1>4, <3>1, ConcatProperties
  <2>2. CASE state # "running"
    BY <1>1, <2>2 DEF Submitted
  <2>. QED
    BY <2>1, <2>2
<1>6. state = "running" => \E i \in DOMAIN inbox' : inbox'[i] = n
  <2>1. state = "running" => \A i \in DOMAIN <<n>> :
          Len(inbox) + i \in DOMAIN Submitted(<<n>>) /\ Submitted(<<n>>)[Len(inbox) + i] = <<n>>[i]
    BY <1>1, <1>4, SubmittedLast
  <2>. QED
    BY <1>1, <1>4, <2>1
<1>7. MessagesFit'
  <2>1. ASSUME NEW i \in DOMAIN inbox', inbox'[i] = n
        PROVE  MessageFits(inbox[i])'
    BY <1>4, <2>1 DEF MessageFits
  <2>. QED
    BY <1>1, <1>3, <1>5, <2>1, MessagesGoOn
<1>8. ResultsFit'
  BY <1>1, <1>3, ResultsGoOn
<1>9. LoginsDiffer'
  BY <1>1, <1>4, <1>5 DEF LoginsDiffer
<1>10. ClosingIsLast'
  <2>1. \A i \in DOMAIN inbox : inbox[i].do # "close"
    BY <1>1 DEF ClosingIsLast
  <2>2. state = "starting" => inbox' = inbox
    BY <1>1 DEF Submitted
  <2>. QED
    BY <1>1, <1>4, <1>5, <1>6, <2>1, <2>2 DEF ClosingIsLast
<1>11. NoSessionLost'
  BY <1>1, <1>4, <1>6 DEF NoSessionLost, Dismissed
<1>. QED
  BY <1>3, <1>7, <1>8, <1>9, <1>10, <1>11 DEF Traced

\* A timer fires or a page is destroyed.
LEMMA ForgettingTraced ==
  ASSUME Traced, IInv',
         \/ \E r \in Request : Timeout(r)
         \/ \E s \in Page \cup {LoginPage} : OwnerDestroyed(s)
  PROVE  Traced'
<1>1. /\ TypeOK /\ MessagesFit /\ ResultsFit /\ LoginsDiffer /\ ClosingIsLast /\ NoSessionLost
  BY DEF Traced, IInv
<1>2. /\ UNCHANGED <<state, open, token, stream, inbox, outbox, sessions>>
      /\ \E rs \in SUBSET Pending : request' = Forgotten(rs)
  BY DEF Timeout, OwnerDestroyed, Superseded, sentVars
<1>3. NothingNew
  BY <1>1, <1>2, ForgettingIsNothingNew
<1>4. StreamsInOrder' /\ RequestsGoOn /\ TokenFits'
  BY <1>2, <1>3, EndingGoesOn
<1>5. MessagesFit'
  BY <1>1, <1>2, <1>4, MessagesGoOn
<1>6. ResultsFit'
  BY <1>1, <1>2, <1>4, ResultsGoOn
<1>7. LoginsDiffer' /\ ClosingIsLast' /\ NoSessionLost'
  BY <1>1, <1>2 DEF LoginsDiffer, ClosingIsLast, NoSessionLost, Dismissed
<1>. QED
  BY <1>4, <1>5, <1>6, <1>7 DEF Traced

\* The rest of a queue.
LEMMA TailElements ==
  ASSUME NEW S, NEW s \in Seq(S), s # <<>>
  PROVE  /\ Head(s) \in S /\ Tail(s) \in Seq(S) /\ 1 \in DOMAIN s /\ s[1] = Head(s)
         /\ Len(Tail(s)) = Len(s) - 1
         /\ \A i \in DOMAIN Tail(s) : i + 1 \in DOMAIN s /\ Tail(s)[i] = s[i + 1] /\ i \in Nat /\ i # 0
         /\ \A i \in DOMAIN s : i = 1 \/ (i - 1 \in DOMAIN Tail(s) /\ Tail(s)[i - 1] = s[i])
         /\ Len(s) = 1 => Tail(s) = <<>>
<1>1. /\ Tail(s) \in Seq(S) /\ Len(Tail(s)) = Len(s) - 1 /\ Head(s) = s[1] /\ Head(s) \in S
      /\ \A i \in 1..Len(Tail(s)) : Tail(s)[i] = s[i + 1]
  BY HeadTailProperties
<1>2. DOMAIN s = 1..Len(s) /\ DOMAIN Tail(s) = 1..Len(Tail(s)) /\ Len(s) \in Nat /\ Len(s) # 0
  BY <1>1, LenProperties, EmptySeq
<1>3. ASSUME Len(s) = 1
      PROVE  Tail(s) = <<>>
  <2>1. Tail(s) \in Seq(S) /\ Len(Tail(s)) = 0
    BY <1>1, <1>3
  <2>. QED
    BY <2>1, EmptySeq
<1>. QED
  BY <1>1, <1>2, <1>3

\* A result arrives.
LEMMA ReceiveTraced ==
  ASSUME Traced, IInv', Receive
  PROVE  Traced'
<1>. DEFINE m == Head(outbox)
<1>1. /\ TypeOK /\ StreamsInOrder /\ TokenFits /\ MessagesFit /\ ResultsFit /\ LoginsDiffer
      /\ ClosingIsLast /\ NoSessionLost
      /\ request \in [Request -> {"new", "pending", "ended"}] /\ inbox \in Seq(Message)
      /\ outbox \in Seq(Result) /\ token \in Request \cup {NoToken}
      /\ outbox # <<>> /\ outbox' = Tail(outbox) /\ UNCHANGED <<state, open, stream, sessions>>
  BY DEF Traced, IInv, TypeOK, Receive, sentVars
<1>2. /\ m \in Result /\ 1 \in DOMAIN outbox /\ outbox[1] = m
      /\ \A i \in DOMAIN outbox' : i + 1 \in DOMAIN outbox /\ outbox'[i] = outbox[i + 1]
      /\ \A i \in DOMAIN outbox : i = 1 \/ (i - 1 \in DOMAIN outbox' /\ outbox'[i - 1] = outbox[i])
  BY <1>1, TailElements
<1>3. /\ m.id \in Request /\ m.token \in Request \cup {NoToken} /\ m.token \in {NoToken, m.id}
      /\ ResultFits(m)
  <2>1. ResultFits(outbox[1])
    BY <1>1, <1>2 DEF ResultsFit
  <2>. QED
    BY <1>2, <2>1 DEF Result, ResultFits, Traced, IInv
<1>. HIDE DEF m
<1>4. \A i \in DOMAIN outbox' : \E j \in DOMAIN outbox : outbox'[i] = outbox[j]
  BY <1>2
<1>5. NoToken \notin sessions
  BY <1>1 DEF TypeOK, NoToken, Request
<1>11. ASSUME NEW t \in sessions, state = "running"
       PROVE  \/ token = t
              \/ \E i \in DOMAIN inbox : inbox[i].do = "close" \/ (inbox[i].do = "logout" /\ inbox[i].token = t)
              \/ open /\ m.token = t
              \/ open /\ \E i \in DOMAIN outbox' : outbox'[i].token = t
  <2>1. token = t \/ Dismissed(t)
    BY <1>1, <1>11 DEF NoSessionLost
  <2>2. ASSUME NEW i \in DOMAIN outbox, outbox[i].token = t
        PROVE  m.token = t \/ \E k \in DOMAIN outbox' : outbox'[k].token = t
    BY <1>2, <2>2
  <2>. QED
    BY <2>1, <2>2 DEF Dismissed
<1>6. CASE ~open
  <2>1. UNCHANGED <<token, generation, request, answers, inbox>>
    BY <1>6 DEF Receive, guiVars
  <2>2. NothingNew
    BY <1>1, <2>1 DEF NothingNew
  <2>3. StreamsInOrder' /\ RequestsGoOn /\ TokenFits'
    BY <2>1, <2>2, EndingGoesOn
  <2>4. MessagesFit'
    BY <1>1, <2>1, <2>3, MessagesGoOn
  <2>5. ResultsFit'
    BY <1>1, <1>4, <2>3, ResultsGoOn
  <2>6. LoginsDiffer'
    BY <1>1, <1>4, <2>1 DEF LoginsDiffer
  <2>7. ClosingIsLast' /\ NoSessionLost'
    BY <1>1, <1>6, <2>1 DEF ClosingIsLast, NoSessionLost, Dismissed
  <2>. QED
    BY <2>3, <2>4, <2>5, <2>6, <2>7 DEF Traced
<1>7. CASE open /\ ~Expected(m)
  <2>1. /\ request' = Forgotten({m.id} \cap Pending) /\ inbox' = Submitted(Revocation(m.token))
        /\ token' = token
    BY <1>7 DEF Receive, m
  <2>2. NothingNew
    BY <1>1, <2>1, ForgettingIsNothingNew
  <2>3. StreamsInOrder' /\ RequestsGoOn /\ TokenFits'
    BY <2>1, <2>2, EndingGoesOn
  <2>4. MessagesFit' /\ ResultsFit' /\ LoginsDiffer' /\ ClosingIsLast'
    BY <1>1, <1>3, <1>4, <1>7, <2>1, <2>3, RevocationKeeps
  <2>5. NoSessionLost'
    <3>1. \A i \in DOMAIN inbox : i \in DOMAIN inbox' /\ inbox'[i] = inbox[i]
      BY <1>1, <1>3, <2>1, RevocationLast
    <3>2. m.token # NoToken /\ state = "running" =>
            \E i \in DOMAIN inbox' : inbox'[i].do = "logout" /\ inbox'[i].token = m.token
      BY <1>1, <1>3, <2>1, RevocationLast
    <3>. QED
      BY <1>1, <1>5, <1>7, <1>11, <2>1, <3>1, <3>2 DEF NoSessionLost, Dismissed
  <2>. QED
    BY <2>3, <2>4, <2>5 DEF Traced
<1>8. CASE open /\ Expected(m) /\ m.code = "UNAUTHORIZED"
  <2>1. /\ request' = Invalidated /\ inbox' = Submitted(Revocation(token)) /\ token' = NoToken
    BY <1>8 DEF Receive, m
  <2>2. NothingNew
    BY <1>1, <2>1, ForgettingIsNothingNew DEF Invalidated
  <2>3. StreamsInOrder' /\ RequestsGoOn /\ TokenFits'
    BY <2>1, <2>2, EndingGoesOn
  <2>4. MessagesFit' /\ ResultsFit' /\ LoginsDiffer' /\ ClosingIsLast'
    BY <1>1, <1>4, <1>8, <2>1, <2>3, RevocationKeeps
  <2>5. NoSessionLost'
    <3>1. \A i \in DOMAIN inbox : i \in DOMAIN inbox' /\ inbox'[i] = inbox[i]
      BY <1>1, <2>1, RevocationLast
    <3>2. token # NoToken /\ state = "running" =>
            \E i \in DOMAIN inbox' : inbox'[i].do = "logout" /\ inbox'[i].token = token
      BY <1>1, <2>1, RevocationLast
    <3>3. m.token = NoToken
      BY <1>3, <1>8 DEF ResultFits
    <3>. QED
      BY <1>1, <1>5, <1>8, <1>11, <2>1, <3>1, <3>2, <3>3 DEF NoSessionLost, Dismissed
  <2>. QED
    BY <2>3, <2>4, <2>5 DEF Traced
<1>9. CASE open /\ Expected(m) /\ m.code # "UNAUTHORIZED" /\ m.token = NoToken
  <2>1. request' = Forgotten({m.id}) /\ inbox' = inbox /\ token' = token /\ m.id \in Pending
    BY <1>9 DEF Receive, Expected, m
  <2>2. NothingNew
    BY <1>1, <2>1, ForgettingIsNothingNew
  <2>3. StreamsInOrder' /\ RequestsGoOn /\ TokenFits'
    BY <2>1, <2>2, EndingGoesOn
  <2>4. MessagesFit'
    BY <1>1, <2>1, <2>3, MessagesGoOn
  <2>5. ResultsFit'
    BY <1>1, <1>4, <2>3, ResultsGoOn
  <2>6. LoginsDiffer' /\ ClosingIsLast'
    BY <1>1, <1>4, <2>1 DEF LoginsDiffer, ClosingIsLast
  <2>7. NoSessionLost'
    BY <1>1, <1>5, <1>9, <1>11, <2>1 DEF NoSessionLost, Dismissed
  <2>. QED
    BY <2>3, <2>4, <2>5, <2>6, <2>7 DEF Traced
<1>10. CASE open /\ Expected(m) /\ m.token # NoToken
  <2>1. /\ m.code = "ok" /\ stream[m.id] = LoginPage /\ m.id \in Pending /\ m.token = m.id
    BY <1>3, <1>10 DEF ResultFits, Expected
  <2>2. request' = Forgotten({m.id}) /\ inbox' = inbox /\ token' = m.id
    BY <1>10, <2>1 DEF Receive, m
  <2>3. token = NoToken
    BY <1>1, <2>1 DEF TokenFits
  <2>4. NothingNew
    BY <1>1, <2>1, <2>2, ForgettingIsNothingNew
  <2>5. StreamsInOrder'
    BY <1>1, <2>4, OrderStays
  <2>6. \A q \in Request : request'[q] # "pending"
    <3>1. \A q \in Pending : q = m.id
      <4>1. \A q \in Pending : stream[q] = LoginPage /\ q \in Request /\ request[q] = "pending"
        BY <1>1, <2>3 DEF TokenFits, Pending
      <4>2. \A q \in Request : q < m.id \/ m.id < q \/ q = m.id
        BY <1>3 DEF Request
      <4>3. m.id \in Request /\ request[m.id] = "pending" /\ stream[m.id] = LoginPage
        BY <1>3, <2>1 DEF Pending
      <4>. QED
        BY <1>1, <4>1, <4>2, <4>3 DEF StreamsInOrder
    <3>. QED
      BY <1>1, <2>2, <3>1, ForgottenType DEF Pending
  <2>7. TokenFits'
    BY <1>1, <1>3, <2>1, <2>2, <2>4, <2>6 DEF TokenFits, NothingNew, Pending
  <2>8. \A q \in Request : (request[q] # "new" => request'[q] # "new") /\ stream'[q] = stream[q]
    BY <1>1, <2>4 DEF NothingNew
  <2>9. MessagesFit'
    <3>1. \A i \in DOMAIN inbox :
            /\ MessageFits(inbox[i])
            /\ inbox[i].do \in {"ask", "login"} => inbox[i].id \in Request
            /\ inbox[i].do = "login" => inbox[i].id # m.id
      <4>1. \A i \in DOMAIN inbox : inbox[i] \in Message
        BY <1>1
      <4>. QED
        BY <1>1, <1>2, <4>1 DEF MessagesFit, LoginsDiffer, Message
    <3>. QED
      BY <2>2, <2>6, <2>8, <3>1 DEF MessagesFit, MessageFits, Pending
  <2>10. ResultsFit'
    <3>1. \A i \in DOMAIN outbox : ResultFits(outbox[i]) /\ outbox[i].id \in Request
      <4>1. \A i \in DOMAIN outbox : outbox[i] \in Result
        BY <1>1
      <4>. QED
        BY <1>1, <4>1 DEF ResultsFit, Result
    <3>. QED
      BY <1>2, <2>6, <2>8, <3>1 DEF ResultsFit, ResultFits, Pending
  <2>11. LoginsDiffer' /\ ClosingIsLast'
    BY <1>1, <1>4, <2>2 DEF LoginsDiffer, ClosingIsLast
  <2>12. NoSessionLost'
    BY <1>1, <1>5, <1>10, <1>11, <2>1, <2>2, <2>3 DEF NoSessionLost, Dismissed
  <2>. QED
    BY <2>5, <2>7, <2>9, <2>10, <2>11, <2>12 DEF Traced
<1>. QED
  BY <1>6, <1>7, <1>8, <1>9, <1>10

\* An answer is added to the results.
LEMMA ReplyLast ==
  ASSUME outbox \in Seq(Result), NEW m, NEW code, NEW t,
         [id |-> m.id, code |-> code, token |-> t] \in Result, Reply(m, code, t)
  PROVE  /\ \A i \in DOMAIN outbox : i \in DOMAIN outbox' /\ outbox'[i] = outbox[i]
         /\ \A i \in DOMAIN outbox' :
              \/ i \in DOMAIN outbox /\ outbox'[i] = outbox[i]
              \/ outbox'[i] = [id |-> m.id, code |-> code, token |-> t]
         /\ \E i \in DOMAIN outbox' : outbox'[i].token = t
<1>. DEFINE n == [id |-> m.id, code |-> code, token |-> t]
<1>1. outbox' = Append(outbox, n) /\ n.token = t
  BY DEF Reply
<1>2. /\ outbox' \in Seq(Result) /\ Len(outbox') = Len(outbox) + 1
      /\ \A i \in 1..Len(outbox) : outbox'[i] = outbox[i]
      /\ outbox'[Len(outbox) + 1] = n
  BY <1>1, AppendProperties
<1>3. DOMAIN outbox = 1..Len(outbox) /\ DOMAIN outbox' = 1..Len(outbox) + 1 /\ Len(outbox) \in Nat
  BY <1>2, LenProperties
<1>. HIDE DEF n
<1>4. /\ \A i \in DOMAIN outbox : i \in DOMAIN outbox' /\ outbox'[i] = outbox[i]
      /\ \A i \in DOMAIN outbox' : (i \in DOMAIN outbox /\ outbox'[i] = outbox[i]) \/ outbox'[i] = n
      /\ Len(outbox) + 1 \in DOMAIN outbox' /\ outbox'[Len(outbox) + 1] = n
  BY <1>2, <1>3
<1>. QED
  BY <1>1, <1>4 DEF n

\* The worker serves a message.
LEMMA ServeTraced ==
  ASSUME Traced, IInv', Serve
  PROVE  Traced'
<1>. DEFINE m == Head(inbox)
<1>1. /\ TypeOK /\ StreamsInOrder /\ TokenFits /\ MessagesFit /\ ResultsFit /\ LoginsDiffer
      /\ ClosingIsLast /\ NoSessionLost
      /\ inbox \in Seq(Message) /\ outbox \in Seq(Result) /\ sessions \subseteq Request
      /\ inbox # <<>> /\ inbox' = Tail(inbox) /\ Answer(m) /\ state = "running"
      /\ UNCHANGED <<state, open, token, request, stream>>
  BY DEF Traced, IInv, TypeOK, Serve, guiVars, sentVars
<1>2. /\ m \in Message /\ 1 \in DOMAIN inbox /\ inbox[1] = m /\ Len(inbox') = Len(inbox) - 1
      /\ \A i \in DOMAIN inbox' : i + 1 \in DOMAIN inbox /\ inbox'[i] = inbox[i + 1] /\ i \in Nat /\ i # 0
      /\ \A i \in DOMAIN inbox : i = 1 \/ (i - 1 \in DOMAIN inbox' /\ inbox'[i - 1] = inbox[i])
      /\ Len(inbox) = 1 => inbox' = <<>>
      /\ Len(inbox) \in Nat
  BY <1>1, TailElements, LenProperties
<1>3. /\ MessageFits(m) /\ m.do \in {"login", "ask", "logout", "close"} /\ NoToken \notin sessions
      /\ m.do \in {"login", "ask"} => m.id \in Request
  <2>1. MessageFits(inbox[1])
    BY <1>1, <1>2 DEF MessagesFit
  <2>2. NoToken \notin Request
    BY DEF NoToken, Request
  <2>. QED
    BY <1>1, <1>2, <2>1, <2>2 DEF Message, MessageFits
<1>4. \/ m.do = "logout" /\ sessions' = sessions \ {m.token} /\ UNCHANGED outbox
      \/ m.do = "close" /\ sessions' = {} /\ UNCHANGED outbox
      \/ m.do \in {"login", "ask"} /\ Reply(m, "failed", NoToken) /\ UNCHANGED sessions
      \/ m.do = "login" /\ sessions' = sessions \cup {m.id} /\ Reply(m, "ok", m.id)
      \/ m.do = "ask" /\ Reply(m, "ok", NoToken) /\ UNCHANGED sessions
      \/ m.do = "ask" /\ Reply(m, "UNAUTHORIZED", NoToken) /\ sessions' = sessions \ {m.token}
  BY <1>1 DEF Answer
<1>. HIDE DEF m
<1>5. StreamsInOrder' /\ TokenFits'
  BY <1>1 DEF StreamsInOrder, TokenFits, Pending
<1>6. RequestsGoOn
  BY <1>1 DEF RequestsGoOn
<1>7. MessagesFit'
  BY <1>1, <1>2, <1>6, MessagesGoOn
<1>8. \A i \in DOMAIN outbox : i \in DOMAIN outbox' /\ outbox'[i] = outbox[i]
  <2>1. ASSUME NEW code \in {"ok", "failed", "UNAUTHORIZED"}, NEW t \in {NoToken, m.id},
               m.id \in Request, Reply(m, code, t)
        PROVE  \A i \in DOMAIN outbox : i \in DOMAIN outbox' /\ outbox'[i] = outbox[i]
    <3>1. [id |-> m.id, code |-> code, token |-> t] \in Result
      BY <2>1 DEF Result
    <3>. QED
      BY <1>1, <2>1, <3>1, ReplyLast
  <2>. QED
    BY <1>3, <1>4, <2>1
<1>9. \A i \in DOMAIN outbox' :
        \/ i \in DOMAIN outbox /\ outbox'[i] = outbox[i]
        \/ /\ m.do \in {"login", "ask"}
           /\ outbox'[i].id = m.id
           /\ outbox'[i].token \in {NoToken, m.id}
           /\ outbox'[i].token = m.id => m.do = "login" /\ outbox'[i].code = "ok"
           /\ outbox'[i].code = "UNAUTHORIZED" => m.do = "ask" /\ sessions' = sessions \ {m.token}
  <2>1. ASSUME NEW code \in {"ok", "failed", "UNAUTHORIZED"}, NEW t \in {NoToken, m.id},
               m.id \in Request, Reply(m, code, t), NEW i \in DOMAIN outbox'
        PROVE  \/ i \in DOMAIN outbox /\ outbox'[i] = outbox[i]
               \/ outbox'[i].id = m.id /\ outbox'[i].token = t /\ outbox'[i].code = code
    <3>1. [id |-> m.id, code |-> code, token |-> t] \in Result
      BY <2>1 DEF Result
    <3>. QED
      BY <1>1, <2>1, <3>1, ReplyLast
  <2>2. m.id \in Request => m.id # NoToken
    BY DEF Request, NoToken
  <2>. QED
    BY <1>3, <1>4, <2>1, <2>2
<1>10. ResultsFit'
  <2>1. \A i \in DOMAIN outbox : ResultFits(outbox[i]) /\ outbox[i].id \in Request
    <3>1. \A i \in DOMAIN outbox : outbox[i] \in Result
      BY <1>1
    <3>. QED
      BY <1>1, <3>1 DEF ResultsFit, Result
  <2>2. token \in sessions' => token \in sessions
    BY <1>3, <1>4 DEF MessageFits
  <2>3. ASSUME NEW i \in DOMAIN outbox', i \in DOMAIN outbox, outbox'[i] = outbox[i]
        PROVE  ResultFits(outbox[i])'
    BY <1>1, <2>1, <2>2, <2>3 DEF ResultFits, Pending
  <2>4. ASSUME NEW i \in DOMAIN outbox', outbox'[i].id = m.id, m.do \in {"login", "ask"},
               outbox'[i].token \in {NoToken, m.id},
               outbox'[i].token = m.id => m.do = "login" /\ outbox'[i].code = "ok",
               outbox'[i].code = "UNAUTHORIZED" => m.do = "ask" /\ sessions' = sessions \ {m.token}
        PROVE  ResultFits(outbox[i])'
    BY <1>1, <1>3, <2>4 DEF ResultFits, MessageFits, Pending
  <2>. QED
    BY <1>9, <2>3, <2>4 DEF ResultsFit
<1>11. LoginsDiffer'
  <2>1. ASSUME NEW i \in DOMAIN inbox', inbox'[i].do = "login"
        PROVE  /\ inbox[i + 1].do = "login" /\ i + 1 \in DOMAIN inbox /\ i + 1 # 1
               /\ inbox'[i] = inbox[i + 1]
               /\ inbox'[i].id # m.id \/ m.do \notin {"login", "ask"}
    <3>1. inbox'[i] = inbox[i + 1] /\ i + 1 \in DOMAIN inbox /\ i \in Nat /\ i # 0
      BY <1>2, <2>1
    <3>2. MessageFits(inbox[i + 1])
      BY <1>1, <3>1 DEF MessagesFit
    <3>3. m.do = "login" => inbox'[i].id # m.id
      BY <1>1, <1>2, <2>1, <3>1 DEF LoginsDiffer
    <3>4. m.do = "ask" => inbox'[i].id # m.id
      BY <1>3, <2>1, <3>1, <3>2 DEF MessageFits
    <3>. QED
      BY <2>1, <3>1, <3>3, <3>4
  <2>2. ASSUME NEW i \in DOMAIN inbox', inbox'[i].do = "login",
               NEW j \in DOMAIN outbox', outbox'[j].id = inbox'[i].id
        PROVE  FALSE
    BY <1>1, <1>2, <1>9, <2>1, <2>2 DEF LoginsDiffer
  <2>3. ASSUME NEW i \in DOMAIN inbox', inbox'[i].do = "login",
               NEW j \in DOMAIN inbox', inbox'[j].do = "login", inbox'[j].id = inbox'[i].id
        PROVE  j = i
    <3>1. j + 1 = i + 1
      BY <1>1, <1>2, <2>3 DEF LoginsDiffer
    <3>. QED
      BY <1>2, <3>1
  <2>. QED
    BY <2>2, <2>3 DEF LoginsDiffer
<1>12. ClosingIsLast'
  <2>1. ASSUME NEW i \in DOMAIN inbox', inbox'[i].do = "close"
        PROVE  i = Len(inbox') /\ ~open
    BY <1>1, <1>2, <2>1 DEF ClosingIsLast
  <2>2. CASE m.do = "close"
    <3>1. inbox' = <<>> /\ sessions' = {}
      BY <1>1, <1>2, <1>4, <2>2 DEF ClosingIsLast
    <3>. QED
      BY <1>1, <2>1, <3>1 DEF ClosingIsLast
  <2>3. CASE m.do # "close"
    <3>1. ~open => \E i \in DOMAIN inbox' : inbox'[i].do = "close"
      BY <1>1, <1>2, <2>3 DEF ClosingIsLast
    <3>. QED
      BY <1>1, <2>1, <3>1 DEF ClosingIsLast
  <2>. QED
    BY <2>2, <2>3
<1>13. NoSessionLost'
  <2>1. CASE m.do = "close"
    BY <1>4, <2>1 DEF NoSessionLost
  <2>. SUFFICES ASSUME m.do # "close", NEW t \in sessions', token # t
                PROVE  Dismissed(t)'
    BY <1>1, <2>1 DEF NoSessionLost
  <2>2. CASE t \in sessions
    <3>1. Dismissed(t)
      BY <1>1, <2>2 DEF NoSessionLost
    <3>2. ~(m.do = "logout" /\ m.token = t)
      BY <1>4, <2>2
    <3>3. ASSUME NEW i \in DOMAIN inbox,
                 inbox[i].do = "close" \/ (inbox[i].do = "logout" /\ inbox[i].token = t)
          PROVE  Dismissed(t)'
      BY <1>2, <3>2, <3>3 DEF Dismissed
    <3>4. ASSUME open, NEW i \in DOMAIN outbox, outbox[i].token = t
          PROVE  Dismissed(t)'
      BY <1>1, <1>8, <3>4 DEF Dismissed
    <3>. QED
      BY <3>1, <3>3, <3>4 DEF Dismissed
  <2>3. CASE t \notin sessions
    <3>1. t = m.id /\ m.do = "login" /\ Reply(m, "ok", m.id)
      BY <1>4, <2>3
    <3>2. \E i \in DOMAIN outbox' : outbox'[i].token = t
      <4>1. m.id \in Request
        BY <1>3, <3>1
      <4>2. [id |-> m.id, code |-> "ok", token |-> m.id] \in Result
        BY <4>1 DEF Result
      <4>. QED
        BY <1>1, <3>1, <4>2, ReplyLast
    <3>3. ~open => \E i \in DOMAIN inbox' : inbox'[i].do = "close"
      BY <1>1, <1>2 DEF ClosingIsLast
    <3>. QED
      BY <1>1, <3>2, <3>3 DEF Dismissed
  <2>. QED
    BY <2>2, <2>3
<1>. QED
  BY <1>5, <1>7, <1>10, <1>11, <1>12, <1>13 DEF Traced

\* The runtime and the clock of the sessions.
LEMMA RuntimeTraced ==
  ASSUME Traced, IInv', Ready \/ Stop \/ (\E t \in Request : SessionExpires(t)) \/ UNCHANGED vars
  PROVE  Traced'
<1>1. /\ TypeOK /\ StreamsInOrder /\ TokenFits /\ MessagesFit /\ ResultsFit /\ LoginsDiffer
      /\ ClosingIsLast /\ NoSessionLost
  BY DEF Traced, IInv
<1>2. /\ UNCHANGED <<open, token, request, stream, inbox, outbox>>
      /\ sessions' \subseteq sessions
      /\ \/ state = "starting" /\ state' = "running" /\ sessions' = sessions
         \/ state' \notin {"starting", "running"}
         \/ state' = state
  BY DEF Ready, Stop, SessionExpires, vars, guiVars, sentVars
<1>3. StreamsInOrder' /\ TokenFits' /\ LoginsDiffer'
  BY <1>1, <1>2 DEF StreamsInOrder, TokenFits, LoginsDiffer, Pending
<1>4. RequestsGoOn
  BY <1>2 DEF RequestsGoOn
<1>5. MessagesFit' /\ ResultsFit'
  BY <1>1, <1>2, <1>4, MessagesGoOn, ResultsGoOn
<1>6. ClosingIsLast'
  BY <1>1, <1>2 DEF ClosingIsLast
<1>7. NoSessionLost'
  BY <1>1, <1>2 DEF NoSessionLost, Dismissed, ClosingIsLast
<1>. QED
  BY <1>3, <1>5, <1>6, <1>7 DEF Traced

\* The worker's thread is gone.
LEMMA StoppedTraced ==
  ASSUME Traced, IInv', Stopped
  PROVE  Traced'
<1>1. /\ TypeOK /\ outbox' = <<>> /\ inbox' = <<>> /\ sessions' = {} /\ state' = "stopped" /\ stream' = stream
      /\ \/ token' = NoToken /\ request' = Invalidated
         \/ token' = token /\ request' = request
  BY DEF Traced, IInv, Stopped, guiVars, sentVars
<1>2. NothingNew
  <2>1. CASE request' = Invalidated
    BY <1>1, <2>1, ForgettingIsNothingNew DEF Invalidated
  <2>2. CASE request' = request
    BY <1>1, <2>2 DEF NothingNew
  <2>. QED
    BY <1>1, <2>1, <2>2
<1>3. StreamsInOrder' /\ TokenFits'
  BY <1>1, <1>2, EndingGoesOn
<1>. QED
  BY <1>1, <1>3 DEF Traced, MessagesFit, ResultsFit, LoginsDiffer, ClosingIsLast, NoSessionLost

\* Every session is traced in every reachable state.
THEOREM SessionsTraced == Spec => []Traced
<1>1. Init /\ IInv => Traced
  BY DEF Init, Traced, StreamsInOrder, TokenFits, Pending, MessagesFit, ResultsFit, LoginsDiffer,
         ClosingIsLast, NoSessionLost
<1>2. Traced /\ IInv' /\ [Next]_vars => Traced'
  BY AskTraced, LoginTraced, LogoutTraced, CloseTraced, ForgettingTraced, ReceiveTraced, ServeTraced,
     RuntimeTraced, StoppedTraced DEF Next
<1>. QED
  BY <1>1, <1>2, GatewayInvariant, PTL DEF Spec

\* The worker never keeps a session that the window does not have and that
\* nothing under way will end.
THEOREM NothingLost == Spec => []NoSessionLost
<1>1. Traced => NoSessionLost
  BY DEF Traced
<1>. QED
  BY <1>1, SessionsTraced, PTL

\* A page never hears of a request after a newer one of the stream was made.
THEOREM NewestIsHeard == Spec => NewestOnly
<1>1. ASSUME Traced, [Next]_vars, NEW r \in Request, NEW q \in Request,
             r < q, request[q] # "new", stream[r] = stream[q]
      PROVE  answers'[r] = answers[r]
  <2>1. r \notin Pending /\ answers \in [Request -> Nat] /\ outbox \in Seq(Result)
    BY <1>1 DEF Traced, StreamsInOrder, Pending, IInv, TypeOK
  <2>2. \/ answers' = answers
        \/ \E p \in Pending : answers' = [answers EXCEPT ![p] = @ + 1]
        \/ answers' = [p \in Request |-> IF p \in Pending THEN answers[p] + 1 ELSE answers[p]]
    BY <1>1 DEF Next, Ask, Login, Logout, Timeout, OwnerDestroyed, Receive, Expected, Close, Serve,
                SessionExpires, Ready, Stop, Stopped, vars, guiVars
  <2>. QED
    BY <2>1, <2>2
<1>2. Traced /\ [Next]_vars =>
        [\A r, q \in Request : r < q /\ request[q] # "new" /\ stream[r] = stream[q]
           => answers'[r] = answers[r]]_vars
  BY <1>1
<1>. QED
  BY <1>2, SessionsTraced, PTL DEF Spec, NewestOnly

\* An answer to an old session does not end a live one.
THEOREM LiveIsKept == Spec => LiveSessionKept
<1>1. ASSUME Traced, [Next]_vars, token \in sessions, token' = NoToken
      PROVE  outbox' = outbox
  <2>1. /\ token # NoToken /\ outbox \in Seq(Result) /\ ResultsFit
    BY <1>1 DEF Traced, IInv, TypeOK, NoToken, Request
  <2>2. CASE Receive
    <3>. DEFINE m == Head(outbox)
    <3>1. outbox # <<>> /\ m = outbox[1] /\ 1 \in DOMAIN outbox
      BY <2>1, <2>2, TailElements DEF Receive
    <3>2. ResultFits(m)
      BY <2>1, <3>1 DEF ResultsFit
    <3>3. m.code = "UNAUTHORIZED" /\ m.id \in Pending
      BY <1>1, <2>1, <2>2 DEF Receive, Expected, guiVars
    <3>. QED
      BY <1>1, <3>2, <3>3 DEF ResultFits
  <2>3. CASE Serve
    BY <1>1, <2>1, <2>3 DEF Serve, guiVars
  <2>4. CASE ~Receive /\ ~Serve
    BY <1>1, <2>4 DEF Next, Ask, Login, Logout, Timeout, OwnerDestroyed, Close, SessionExpires, Ready,
                      Stop, Stopped, vars
  <2>. QED
    BY <2>2, <2>3, <2>4
<1>2. Traced /\ [Next]_vars => [(token \in sessions /\ token' = NoToken) => outbox' = outbox]_vars
  BY <1>1
<1>. QED
  BY <1>2, SessionsTraced, PTL DEF Spec, LiveSessionKept
=============================================================================
