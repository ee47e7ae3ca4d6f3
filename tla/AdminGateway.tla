----------------------------- MODULE AdminGateway -----------------------------
(***************************************************************************)
(* The administrator's window: AdminRequestGateway on the GUI thread talks *)
(* to AdminService on the worker through ServerRuntime.  Requests travel   *)
(* in one queue of events, results in another; both keep their order, and  *)
(* between sending and receiving the administrator logs in and out, pages  *)
(* close, timers fire and the runtime stops.                               *)
(*                                                                         *)
(* A login creates a session on the worker.  Its token is named after the  *)
(* login request.                                                          *)
(***************************************************************************)
EXTENDS Integers, Sequences, FiniteSets

CONSTANTS
  MaxRequests,              \* number of requests ever made (bound)
  Page,                     \* the owners and refresh keys of the pages
  LoginPage,                \* the owner and key of the login form
  MaxPending,               \* 128 in the code
  MaxSessions               \* 32 in the code

ASSUME GatewayAssumption ==
  /\ MaxRequests \in Nat
  /\ LoginPage \notin Page
  /\ MaxPending \in Nat
  /\ MaxSessions \in Nat

VARIABLES
  state,                    \* ServerRuntime::state_
  open,                     \* does the gateway exist
  token, generation,        \* the gateway's token_ and generation_
  request,                  \* what became of each request
  stream,                   \* its owner and key
  issued,                   \* its generation
  answers,                  \* how often finished was emitted for it
  inbox, outbox,            \* events queued for the worker, for the GUI
  sessions                  \* AdminService::sessions_, by token

guiVars == <<token, generation, request, answers>>
sentVars == <<stream, issued>>
vars == <<state, open, guiVars, sentVars, inbox, outbox, sessions>>

Request == 1..MaxRequests
NoToken == 0
State == {"starting", "running", "stopping", "stopped"}
Message ==
  [do : {"login", "ask"}, id : Request, token : Request \cup {NoToken}]
    \cup [do : {"logout", "close"}, id : {0}, token : Request \cup {NoToken}]
Result == [id : Request, code : {"ok", "failed", "UNAUTHORIZED"}, token : Request \cup {NoToken}]

TypeOK ==
  /\ state \in State
  /\ open \in BOOLEAN
  /\ token \in Request \cup {NoToken}
  /\ generation \in Nat
  /\ request \in [Request -> {"new", "pending", "ended"}]
  /\ stream \in [Request -> Page \cup {LoginPage}]
  /\ issued \in [Request -> Nat]
  /\ answers \in [Request -> Nat]
  /\ inbox \in Seq(Message)
  /\ outbox \in Seq(Result)
  /\ sessions \subseteq Request
  /\ Cardinality(sessions) <= MaxSessions

Init ==
  /\ state = "starting"
  /\ open = TRUE
  /\ token = NoToken
  /\ generation = 0
  /\ request = [r \in Request |-> "new"]
  /\ stream = [r \in Request |-> LoginPage]
  /\ issued = [r \in Request |-> 0]
  /\ answers = [r \in Request |-> 0]
  /\ inbox = <<>>
  /\ outbox = <<>>
  /\ sessions = {}

-----------------------------------------------------------------------------
(* The GUI thread.                                                         *)

Pending == {r \in Request : request[r] = "pending"}

\* The request map after some of the pending ones were forgotten.
Forgotten(rs) == [r \in Request |-> IF r \in rs THEN "ended" ELSE request[r]]

\* submitAdminRequest queues an event while the runtime runs.
Submitted(ms) == IF state = "running" THEN inbox \o ms ELSE inbox

\* Mutant: nothing is given back.
NoRevocation(t) == <<>>

\* revoke: log a token out, if there is one.
Revocation(t) == IF t = NoToken THEN <<>> ELSE <<[do |-> "logout", id |-> 0, token |-> t]>>

\* invalidate revokes the session and forgets every pending request.
Invalidated == Forgotten(Pending)

Issue(r, s, gen, before) ==
  /\ open
  /\ request[r] = "new"
  /\ \A q \in Request : q < r => request[q] # "new"
  /\ request' = [before EXCEPT ![r] = "pending"]
  /\ stream' = [stream EXCEPT ![r] = s]
  /\ issued' = [issued EXCEPT ![r] = gen]

\* Mutant: every request of a stream is kept.
NoneSuperseded(s) == {}

\* A newer request of a stream supersedes the pending one.
Superseded(s) == {q \in Pending : stream[q] = s}

\* A page asks only while the gateway is authenticated.
Ask(r, s) ==
  /\ token # NoToken
  /\ Cardinality(Pending \ Superseded(s)) < MaxPending
  /\ Issue(r, s, generation, Forgotten(Superseded(s)))
  /\ inbox' = Submitted(<<[do |-> "ask", id |-> r, token |-> token]>>)
  /\ UNCHANGED <<state, open, token, generation, answers, outbox, sessions>>

Login(r) ==
  /\ MaxPending > 0
  /\ Issue(r, LoginPage, generation + 1, Invalidated)
  /\ token' = NoToken
  /\ generation' = generation + 1
  /\ inbox' = Submitted(Revocation(token) \o <<[do |-> "login", id |-> r, token |-> NoToken]>>)
  /\ UNCHANGED <<state, open, answers, outbox, sessions>>

Logout ==
  /\ open
  /\ token # NoToken
  /\ request' = Invalidated
  /\ token' = NoToken
  /\ generation' = generation + 1
  /\ inbox' = Submitted(Revocation(token))
  /\ UNCHANGED <<state, open, answers, sentVars, outbox, sessions>>

\* The request's timer fires, or the runtime refused it for not running.
Timeout(r) ==
  /\ open
  /\ r \in Pending
  /\ request' = Forgotten({r})
  /\ answers' = [answers EXCEPT ![r] = @ + 1]
  /\ UNCHANGED <<state, open, token, generation, sentVars, inbox, outbox, sessions>>

\* The page is destroyed.
OwnerDestroyed(s) ==
  /\ Superseded(s) # {}
  /\ request' = Forgotten(Superseded(s))
  /\ UNCHANGED <<state, open, token, generation, answers, sentVars, inbox, outbox, sessions>>

\* Mutant: a result is taken whether or not its request still waits.
ExpectedAnyway(m) == TRUE

\* Is the result for a request that still waits for it?  The others only
\* give back the session they may bring.
Expected(m) == m.id \in Pending /\ issued[m.id] = generation

Receive ==
  LET m == Head(outbox)
      granted == m.code = "ok" /\ m.token # NoToken
  IN  /\ outbox # <<>>
      /\ outbox' = Tail(outbox)
      /\ \/ /\ open /\ Expected(m)
            /\ answers' = [answers EXCEPT ![m.id] = @ + 1]
            /\ IF m.code = "UNAUTHORIZED"
                 THEN /\ request' = Invalidated
                      /\ token' = NoToken
                      /\ generation' = generation + 1
                      /\ inbox' = Submitted(Revocation(token))
                 ELSE /\ request' = Forgotten({m.id})
                      /\ token' = IF granted THEN m.token ELSE token
                      /\ UNCHANGED <<generation, inbox>>
         \/ /\ open /\ ~Expected(m)
            /\ request' = Forgotten({m.id} \cap Pending)
            /\ inbox' = Submitted(Revocation(m.token))
            /\ UNCHANGED <<token, generation, answers>>
         \/ /\ ~open
            /\ UNCHANGED <<guiVars, inbox>>
      /\ UNCHANGED <<state, open, sentVars, sessions>>

\* The destructor.  Nothing is received any more.
Close ==
  /\ open
  /\ open' = FALSE
  /\ request' = Invalidated
  /\ token' = NoToken
  /\ inbox' = Submitted(<<[do |-> "close", id |-> 0, token |-> NoToken]>>)
  /\ UNCHANGED <<state, generation, answers, sentVars, outbox, sessions>>

-----------------------------------------------------------------------------
(* The worker.                                                             *)

Reply(m, code, t) == outbox' = Append(outbox, [id |-> m.id, code |-> code, token |-> t])

Room == Cardinality(sessions) < MaxSessions

\* The password is right or not, and the request is in time or not, and it
\* succeeds or not: choices.  The session of an administrator who was
\* disabled is erased when it is used.
Answer(m) ==
  \/ m.do = "logout" /\ sessions' = sessions \ {m.token} /\ UNCHANGED outbox
  \/ m.do = "close" /\ sessions' = {} /\ UNCHANGED outbox
  \/ m.do \in {"login", "ask"} /\ Reply(m, "failed", NoToken) /\ UNCHANGED sessions
  \/ /\ m.do = "login"
     /\ Room
     /\ sessions' = sessions \cup {m.id}
     /\ Reply(m, "ok", m.id)
  \/ m.do = "ask" /\ m.token \in sessions /\ Reply(m, "ok", NoToken) /\ UNCHANGED sessions
  \/ m.do = "ask" /\ Reply(m, "UNAUTHORIZED", NoToken) /\ sessions' = sessions \ {m.token}

Serve ==
  /\ state = "running"
  /\ inbox # <<>>
  /\ Answer(Head(inbox))
  /\ inbox' = Tail(inbox)
  /\ UNCHANGED <<state, open, guiVars, sentVars>>

\* Half an hour without use, or eight hours.
SessionExpires(t) ==
  /\ t \in sessions
  /\ sessions' = sessions \ {t}
  /\ UNCHANGED <<state, open, guiVars, sentVars, inbox, outbox>>

-----------------------------------------------------------------------------
(* The runtime.                                                            *)

Ready ==
  /\ state = "starting"
  /\ state' = "running"
  /\ UNCHANGED <<open, guiVars, sentVars, inbox, outbox, sessions>>

\* stop() or the failure of the worker.
Stop ==
  /\ state \in {"starting", "running"}
  /\ state' = "stopping"
  /\ UNCHANGED <<open, guiVars, sentVars, inbox, outbox, sessions>>

\* The thread is gone and with it the sessions and the events it did not
\* serve; its results were delivered before.
Stopped ==
  /\ state = "stopping"
  /\ outbox = <<>>
  /\ state' = "stopped"
  /\ inbox' = <<>>
  /\ sessions' = {}
  /\ IF open
       THEN /\ token' = NoToken
            /\ generation' = generation + 1
            /\ request' = Invalidated
            /\ answers' = [r \in Request |-> IF r \in Pending THEN answers[r] + 1 ELSE answers[r]]
       ELSE UNCHANGED guiVars
  /\ UNCHANGED <<open, sentVars, outbox>>

Next ==
  \/ \E r \in Request : Login(r) \/ Timeout(r) \/ \E s \in Page : Ask(r, s)
  \/ Logout
  \/ \E s \in Page \cup {LoginPage} : OwnerDestroyed(s)
  \/ Receive
  \/ Close
  \/ Serve
  \/ \E t \in Request : SessionExpires(t)
  \/ Ready
  \/ Stop
  \/ Stopped

Spec == Init /\ [][Next]_vars

\* Both threads have an event loop, and a thread that was told to quit does.
Fairness == WF_vars(Receive) /\ WF_vars(Serve) /\ WF_vars(Stopped)

FairSpec == Spec /\ Fairness

-----------------------------------------------------------------------------
(* A session on the worker is the window's own, or something under way
   ends it: its revocation, the closing of the channel, or the result of
   its login, which the gateway will refuse and give back.                 *)
Dismissed(t) ==
  \/ \E i \in DOMAIN inbox : inbox[i].do = "close" \/ (inbox[i].do = "logout" /\ inbox[i].token = t)
  \/ open /\ \E i \in DOMAIN outbox : outbox[i].token = t

\* No session is lost.  Otherwise abandoned logins would fill the worker's
\* 32 places and lock the administrator out for half an hour.
NoSessionLost ==
  state = "running" => \A t \in sessions : token = t \/ Dismissed(t)

\* The window is never logged in by a login the administrator has since
\* cancelled, repeated or logged out of: the token is of this generation.
NeverResurrected == token # NoToken => issued[token] = generation

\* A page hears of a request once, whether by result, timer or stop.
AnsweredOnce == \A r \in Request : answers[r] <= 1

\* A request still pending is of the present generation.
PendingIsCurrent == \A r \in Pending : issued[r] = generation

\* What the proofs need besides: a result brings no token but that of its
\* own login, and a request is answered only as it ends.
IInv ==
  /\ TypeOK
  /\ NeverResurrected
  /\ PendingIsCurrent
  /\ AnsweredOnce
  /\ \A r \in Request : request[r] # "ended" => answers[r] = 0
  /\ \A i \in DOMAIN outbox : outbox[i].token \in {NoToken, outbox[i].id}

\* A page hears of a stream in order: never of a request when a newer one
\* of the stream was already made.
NewestOnly ==
  [][\A r, q \in Request : r < q /\ request[q] # "new" /\ stream[r] = stream[q]
       => answers'[r] = answers[r]]_vars

\* UNAUTHORIZED for an old session does not end a new one: a live session
\* is given up by the administrator or with the runtime, by nothing else.
LiveSessionKept ==
  [][(token \in sessions /\ token' = NoToken) => outbox' = outbox]_vars

\* An abandoned session is ended, however the results race.
SessionsEnd ==
  \A t \in Request : (t \in sessions /\ token # t) ~> (t \notin sessions \/ token = t)
=============================================================================
