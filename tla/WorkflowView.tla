----------------------------- MODULE WorkflowView -----------------------------
(***************************************************************************)
(* How a client keeps up with its place in the queue.  The worker notices  *)
(* once per second that rows have changed and tells the subscribed         *)
(* sessions so, without saying what (server_runtime.cpp,                   *)
(* client_session.cpp); the client then asks for its entry, one question   *)
(* at a time, and also every ten seconds, and announces a call it had not  *)
(* seen (workflow_bridge.cpp).                                             *)
(*                                                                         *)
(* Requests, answers and notices go over one connection and keep their     *)
(* order.  But the client acts upon a notice as it reads it and upon an    *)
(* answer in a later turn of its event loop: a notice may find a question  *)
(* open whose answer, already read, is older than the notice.              *)
(***************************************************************************)
EXTENDS Naturals, Sequences, SequencesExt

CONSTANTS
  MaxChanges,  \* bound: changes of the tables
  MaxFaults,   \* bound: requests that time out or fail, notices dropped
  MaxLogins    \* bound: sessions

ASSUME ViewAssumption == {MaxChanges, MaxFaults, MaxLogins} \subseteq Nat

VARIABLES
  changes,     \* total_changes() of the worker's connection
  noticed,     \* previousChanges
  entry,       \* the user's entry: its status and how often it was called
  loggedIn,    \* the session of the user, from login to logout
  hears,       \* workflowSubscribed_, on the server
  subscribed,  \* subscribed_, on the client
  up,          \* the requests on the wire, in order
  down,        \* the answers and notices on the wire, in order
  turns,       \* the answers read and not acted upon yet
  view,        \* queue_
  announced,   \* announcedCall_, the number of the call
  heard,       \* how often each call was announced in the session
  faults, logins

tables == <<changes, entry>>
network == <<up, down, turns>>
shown == <<view, announced, heard>>
vars == <<tables, noticed, loggedIn, hears, subscribed, network, shown, faults, logins>>

\* WAITING stands for every other status, and for no entry.
Statuses == {"WAITING", "CALLED"}
Entry == [status : Statuses, call : 0..MaxChanges]
NotCalled == [status |-> "WAITING", call |-> 0]

Kinds == {"SUBSCRIBE", "GET_MINE", "ASK"}
Request(kind) == [kind |-> kind, live |-> TRUE]
Message == [kind : Kinds \cup {"NOTICE"}, live : BOOLEAN, ok : BOOLEAN, item : Entry]

TypeOK ==
  /\ changes \in 0..MaxChanges /\ noticed \in 0..MaxChanges
  /\ entry \in Entry /\ view \in Entry
  /\ {loggedIn, hears, subscribed} \subseteq BOOLEAN
  /\ up \in Seq([kind : Kinds, live : BOOLEAN])
  /\ down \in Seq(Message) /\ turns \in Seq(Message)
  /\ announced \in 0..MaxChanges
  /\ heard \in [1..MaxChanges -> 0..MaxChanges]
  /\ faults \in 0..MaxFaults /\ logins \in 0..MaxLogins

Init ==
  /\ changes = 0 /\ noticed = 0 /\ entry = NotCalled
  /\ loggedIn = FALSE /\ hears = FALSE /\ subscribed = FALSE
  /\ up = <<>> /\ down = <<>> /\ turns = <<>>
  /\ view = NotCalled /\ announced = 0 /\ heard = [c \in 1..MaxChanges |-> 0]
  /\ faults = 0 /\ logins = 0

\* A request of the kind is under way that its sender waits for:
\* subscriptionPending_ and queuePending_.
Pending(kind) ==
  \E m \in Range(up) \cup Range(down) \cup Range(turns) : m.kind = kind /\ m.live

-----------------------------------------------------------------------------
(* The server.                                                             *)

\* What a change does to the entry: a call, its end, or nothing.
Changed ==
  /\ changes < MaxChanges
  /\ changes' = changes + 1
  /\ entry' \in {entry, [entry EXCEPT !.status = "WAITING"],
                 [status |-> "CALLED", call |-> entry.call + 1]}

\* Other users, the administrator, the maintenance.
Change ==
  /\ Changed
  /\ UNCHANGED <<noticed, loggedIn, hears, subscribed, network, shown, faults, logins>>

Answer(kind, live, ok) == [kind |-> kind, live |-> live, ok |-> ok, item |-> entry']
Notice == [kind |-> "NOTICE", live |-> FALSE, ok |-> TRUE, item |-> NotCalled]

\* handlePayload: the next request, answered at once.
Serve ==
  /\ up # <<>>
  /\ up' = Tail(up)
  /\ LET r == Head(up)
     IN  /\ (r.kind = "ASK" /\ Changed) \/ UNCHANGED tables
         /\ hears' = (hears \/ r.kind = "SUBSCRIBE")
         /\ down' = Append(down, Answer(r.kind, r.live, TRUE))
  /\ UNCHANGED <<noticed, loggedIn, subscribed, turns, shown, faults, logins>>

\* It is refused, or the maintenance before it fails.
Refuse ==
  /\ up # <<>> /\ faults < MaxFaults
  /\ faults' = faults + 1
  /\ up' = Tail(up)
  /\ UNCHANGED tables
  /\ down' = Append(down, Answer(Head(up).kind, Head(up).live, FALSE))
  /\ UNCHANGED <<noticed, loggedIn, hears, subscribed, turns, shown, logins>>

\* The timer: one notice for all changes since the last one, to the sessions
\* that have subscribed; a slow one goes without.
Broadcast ==
  /\ changes # noticed
  /\ noticed' = changes
  /\ \/ ~hears /\ UNCHANGED <<down, faults>>
     \/ hears /\ down' = Append(down, Notice) /\ UNCHANGED faults
     \/ hears /\ faults < MaxFaults /\ faults' = faults + 1 /\ UNCHANGED down
  /\ UNCHANGED <<tables, loggedIn, hears, subscribed, up, turns, shown, logins>>

-----------------------------------------------------------------------------
(* The client.                                                             *)

Subscription == IF subscribed \/ Pending("SUBSCRIBE") THEN <<>> ELSE <<Request("SUBSCRIBE")>>

\* refreshQueue, unless the answer of the last one is still to come.
Refresh(pending) == IF pending THEN <<>> ELSE <<Request("GET_MINE")>>

\* A session: a new connection and a new bridge, which subscribes and asks.
Login ==
  /\ ~loggedIn /\ logins < MaxLogins
  /\ loggedIn' = TRUE /\ logins' = logins + 1
  /\ up' = <<Request("SUBSCRIBE"), Request("GET_MINE")>>
  /\ UNCHANGED <<tables, noticed, hears, subscribed, down, turns, shown, faults>>

\* logout, or the connection is lost: the bridge goes with the session.
Logout ==
  /\ loggedIn
  /\ loggedIn' = FALSE /\ hears' = FALSE /\ subscribed' = FALSE
  /\ up' = <<>> /\ down' = <<>> /\ turns' = <<>>
  /\ view' = NotCalled /\ announced' = 0 /\ heard' = [c \in DOMAIN heard |-> 0]
  /\ UNCHANGED <<tables, noticed, faults, logins>>

\* The user joins, confirms, leaves, one thing at a time.
Ask ==
  /\ loggedIn /\ ~Pending("ASK")
  /\ up' = Append(up, Request("ASK"))
  /\ UNCHANGED <<tables, noticed, loggedIn, hears, subscribed, down, turns, shown, faults, logins>>

\* handleReadyRead: an answer is passed on to its callback's turn, a notice
\* acted upon at once.
Read ==
  /\ down # <<>>
  /\ down' = Tail(down)
  /\ IF Head(down).kind = "NOTICE"
       THEN up' = up \o Refresh(Pending("GET_MINE")) /\ UNCHANGED turns
       ELSE turns' = turns \o (IF Head(down).live THEN <<Head(down)>> ELSE <<>>) /\ UNCHANGED up
  /\ UNCHANGED <<tables, noticed, loggedIn, hears, subscribed, shown, faults, logins>>

\* Mutant: every answer that shows a call announces it.
AlwaysNew(item) == item.status = "CALLED"

\* A call that was not announced yet.
NewCall(item) == item.status = "CALLED" /\ announced # item.call

\* The answer to GET_MINE.
Show(item) ==
  /\ view' = item
  /\ announced' = IF NewCall(item) THEN item.call ELSE announced
  /\ heard' = IF NewCall(item) THEN [heard EXCEPT ![item.call] = @ + 1] ELSE heard

\* The callback of an answer.
Turn ==
  /\ turns # <<>>
  /\ turns' = Tail(turns)
  /\ LET m == Head(turns)
     IN  /\ subscribed' = IF m.kind = "SUBSCRIBE" THEN m.ok ELSE subscribed
         /\ IF m.kind = "GET_MINE" /\ m.ok THEN Show(m.item) ELSE UNCHANGED shown
         /\ up' = up \o (IF m.kind = "ASK" /\ m.ok THEN Refresh(Pending("GET_MINE")) ELSE <<>>)
  /\ UNCHANGED <<tables, noticed, loggedIn, hears, down, faults, logins>>

\* The ten seconds of a request are over: its callback fails, and the answer
\* will be dropped.
Expired(seq, i) == [seq EXCEPT ![i].live = FALSE]

Timeout ==
  /\ faults < MaxFaults
  /\ faults' = faults + 1
  /\ \/ \E i \in DOMAIN up : up[i].live /\ up' = Expired(up, i) /\ UNCHANGED down
     \/ \E i \in DOMAIN down : down[i].live /\ down' = Expired(down, i) /\ UNCHANGED up
  /\ UNCHANGED <<tables, noticed, loggedIn, hears, subscribed, turns, shown, logins>>

\* Mutant: the timer subscribes, and leaves the rest to the notices.
NoFallback(pending) == <<>>

\* What the timer asks for besides.
Fallback(pending) == Refresh(pending)

\* The client's timer of ten seconds.
Poll ==
  /\ loggedIn
  /\ up' = up \o Subscription \o Fallback(Pending("GET_MINE"))
  /\ UNCHANGED <<tables, noticed, loggedIn, hears, subscribed, down, turns, shown, faults, logins>>

Next ==
  \/ Change \/ Serve \/ Refuse \/ Broadcast
  \/ Login \/ Logout \/ Ask \/ Read \/ Turn \/ Timeout \/ Poll

Spec == Init /\ [][Next]_vars

\* The event loops of both sides and their timers go round.
FairSpec ==
  /\ Spec
  /\ WF_vars(Serve) /\ WF_vars(Broadcast)
  /\ WF_vars(Read) /\ WF_vars(Turn) /\ WF_vars(Poll)

-----------------------------------------------------------------------------
\* Whatever notices were dropped, came too early or met an open question: a
\* user who stays logged in comes to see the entry as it is.
ViewCatchesUp ==
  \A s \in Statuses : <>[](loggedIn /\ entry.status = s) => <>[](view.status = s)

\* A call that lasts is announced to its user, ...
CallsAnnounced ==
  (loggedIn /\ entry.status = "CALLED")
    ~> (announced = entry.call \/ entry.status # "CALLED" \/ ~loggedIn)

\* ... and once in a session, however often the entry is asked for.
AnnouncedOnce == \A c \in DOMAIN heard : heard[c] <= 1
=============================================================================
