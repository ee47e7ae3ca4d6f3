------------------------------ MODULE AdminForms ------------------------------
(***************************************************************************)
(* A command of the administrator, from the form to the row it changes and *)
(* back to what the page says of it.  The form shows the row as it was     *)
(* listed, and its version (updated_at) goes with the command; the command *)
(* has a number (operationId) under which the server writes down what came *)
(* of it, so that asking again changes nothing (admin_repository.cpp,      *)
(* repair_repository.cpp).                                                 *)
(*                                                                         *)
(* The pages differ in what they do when no answer comes: that of the      *)
(* chargers keeps the command, beyond the session, until its administrator *)
(* asks again; that of the repairs keeps it as long as the session; those  *)
(* of the stations and the users forget it.                                *)
(*                                                                         *)
(* Requests and results pass the gateway in order; its sessions are those  *)
(* of AdminGateway.                                                        *)
(***************************************************************************)
EXTENDS Naturals, Sequences

CONSTANTS
  Admin, None,
  MaxCommands,  \* bound: commands
  MaxAttempts,  \* bound: requests made for them
  MaxTime,      \* bound: milliseconds of wall clock
  MaxSlips,     \* bound: times it is set back
  MaxWrites     \* bound: writes by others

ASSUME FormsAssumption ==
  /\ None \notin Admin
  /\ {MaxCommands, MaxAttempts, MaxTime, MaxSlips, MaxWrites} \subseteq Nat

VARIABLES
  page,      \* the page, and with it the kind of row; it does not change
  now,       \* the server's clock
  slips,     \* how often it was set back
  writes,    \* how many writes others made
  row,       \* the row the commands are for
  log,       \* the commands on record, with the row before and after
  admin,     \* who is logged in
  form,      \* the row as the page shows it
  pending,   \* the command whose outcome the page does not know
  attempt,   \* the request it waits for, 0 when none
  attempts,  \* how many were made
  drawn,     \* how many numbers were drawn
  inbox,     \* requests on their way to the worker
  outbox,    \* results on their way to the page
  told       \* what the page said of each command

dbVars == <<row, log>>
clockVars == <<now, slips>>
guiVars == <<admin, form, pending, attempt, attempts, drawn, told>>
vars == <<page, clockVars, writes, dbVars, guiVars, inbox, outbox>>

Pages == {"chargers", "repairs", "stations", "users"}

\* BUSY is a charger reserved or charging, OUT one that is FAULT or OFFLINE.
Statuses ==
  CASE page = "chargers" -> {"AVAILABLE", "BUSY", "OUT"}
    [] page = "repairs" -> {"SUBMITTED", "ACCEPTED", "PROCESSING", "RESOLVED"}
    [] page = "stations" -> {"ACTIVE", "INACTIVE"}
    [] page = "users" -> {"ACTIVE", "FROZEN"}

\* The status that a command of the page gives the row.  An edit of a station
\* leaves it as it is, as does the restart of a charger in service.
Target(from) ==
  CASE page = "chargers" -> {"AVAILABLE", "OUT"}
    [] page = "repairs" /\ from = "SUBMITTED" -> {"ACCEPTED"}
    [] page = "repairs" /\ from = "ACCEPTED" -> {"PROCESSING"}
    [] page = "repairs" /\ from = "PROCESSING" -> {"RESOLVED"}
    [] page = "repairs" /\ from = "RESOLVED" -> {}
    [] OTHER -> Statuses

\* A row, with the number of the administrators' changes to it.
Row == [status : Statuses, version : Nat, changes : Nat]
Command == [number : 1..MaxCommands, admin : Admin, form : Row, target : Statuses]
Request == [command : Command, admin : Admin, attempt : 1..MaxAttempts]
Result == [number : 1..MaxCommands, attempt : 1..MaxAttempts, item : Row,
           code : {"done", "refused", "failed", "UNAUTHORIZED", "TIMEOUT"}]
Entry == [command : Command, admin : Admin, before : Row, after : Row]

TypeOK ==
  /\ page \in Pages
  /\ now \in 0..MaxTime /\ slips \in 0..MaxSlips /\ writes \in 0..MaxWrites
  /\ row \in Row
  /\ log \subseteq Entry
  /\ admin \in Admin \cup {None}
  /\ form \in Row \cup {None}
  /\ pending \in Command \cup {None}
  /\ attempt \in 0..MaxAttempts /\ attempts \in 0..MaxAttempts
  /\ drawn \in 0..MaxCommands
  /\ inbox \in Seq(Request) /\ outbox \in Seq(Result)
  /\ told \in [1..MaxCommands -> {"nothing", "done", "refused", "failed"}]

FirstStatus ==
  CASE page = "chargers" -> "AVAILABLE"
    [] page = "repairs" -> "SUBMITTED"
    [] OTHER -> "ACTIVE"

Init ==
  /\ page \in Pages
  /\ now = 0 /\ slips = 0 /\ writes = 0
  /\ row = [status |-> FirstStatus, version |-> 0, changes |-> 0]
  /\ log = {}
  /\ admin = None /\ form = None /\ pending = None
  /\ attempt = 0 /\ attempts = 0 /\ drawn = 0
  /\ inbox = <<>> /\ outbox = <<>>
  /\ told = [n \in 1..MaxCommands |-> "nothing"]

-----------------------------------------------------------------------------
(* The page.                                                               *)

\* The pages that keep a command until they know what came of it.
Keeps == page \in {"chargers", "repairs"}

Login(a) ==
  /\ admin = None
  /\ admin' = a
  /\ UNCHANGED <<page, clockVars, writes, dbVars, form, pending, attempt, attempts, drawn, told,
                 inbox, outbox>>

\* authenticationChanged(false): what is shown is gone, and the request is
\* not waited for any more.
SignedOut ==
  /\ admin' = None
  /\ form' = None
  /\ attempt' = 0
  /\ pending' = IF page = "chargers" THEN pending ELSE None

Logout ==
  /\ admin # None
  /\ SignedOut
  /\ UNCHANGED <<page, clockVars, writes, dbVars, attempts, drawn, told, inbox, outbox>>

\* The list, or the details, as answered; that of the repairs is not asked
\* for while a command is under way.
Refresh ==
  /\ admin # None
  /\ page = "repairs" => attempt = 0
  /\ form' = row
  /\ UNCHANGED <<page, clockVars, writes, dbVars, admin, pending, attempt, attempts, drawn, told,
                 inbox, outbox>>

\* sendPendingWrite: the request, unless the gateway's queue is full.
Send(c) ==
  \/ /\ attempts < MaxAttempts
     /\ attempts' = attempts + 1
     /\ attempt' = attempts + 1
     /\ pending' = c
     /\ inbox' = Append(inbox, [command |-> c, admin |-> admin, attempt |-> attempts + 1])
  \/ /\ attempt' = 0
     /\ pending' = IF Keeps THEN c ELSE None
     /\ UNCHANGED <<attempts, inbox>>

\* submitWrite and mutate: a command with a new number, made of the form.
\* The pages that keep a command take no other until they know its outcome;
\* on the others it supersedes the one under way.
Submit(target) ==
  /\ admin # None /\ form # None
  /\ Keeps => pending = None
  /\ form.status # "BUSY"
  /\ drawn < MaxCommands
  /\ drawn' = drawn + 1
  /\ Send([number |-> drawn + 1, admin |-> admin, form |-> form, target |-> target])
  /\ UNCHANGED <<page, clockVars, writes, dbVars, admin, form, told, outbox>>

\* Mutant: whoever is logged in may ask again.
RetriedByAnyone == admin # None

\* Only its administrator may ask again for a command.
RetriedByOwner == admin # None /\ pending.admin = admin

\* retryPendingWrite: the same command, under its number.
Retry ==
  /\ Keeps /\ pending # None /\ attempt = 0
  /\ RetriedByOwner
  /\ attempts < MaxAttempts
  /\ Send(pending)
  /\ UNCHANGED <<page, clockVars, writes, dbVars, admin, form, drawn, told, outbox>>

\* The outcome stays unknown.
Unknown ==
  /\ attempt' = 0
  /\ pending' = IF Keeps THEN pending ELSE None
  /\ UNCHANGED <<admin, form, told>>

\* The request's timer.
Timeout ==
  /\ attempt # 0
  /\ Unknown
  /\ UNCHANGED <<page, clockVars, writes, dbVars, attempts, drawn, inbox, outbox>>

\* The outcome is known.  The page of the repairs shows the item of the answer.
Known(m) ==
  /\ told' = [told EXCEPT ![m.number] = m.code]
  /\ attempt' = 0
  /\ pending' = None
  /\ form' = IF page = "repairs" /\ m.code = "done" THEN m.item ELSE form
  /\ UNCHANGED admin

\* handleWriteResponse and receive; an answer not waited for is dropped.
Receive ==
  LET m == Head(outbox)
  IN  /\ outbox # <<>>
      /\ outbox' = Tail(outbox)
      /\ \/ m.attempt # attempt /\ UNCHANGED <<admin, form, pending, attempt, told>>
         \/ m.attempt = attempt /\ m.code = "UNAUTHORIZED" /\ SignedOut /\ UNCHANGED told
         \/ m.attempt = attempt /\ m.code = "TIMEOUT" /\ Unknown
         \/ m.attempt = attempt /\ m.code \in {"done", "refused", "failed"} /\ Known(m)
      /\ UNCHANGED <<page, clockVars, writes, dbVars, attempts, drawn, inbox>>

\* The program ends, with the worker, and is started again.
Restart ==
  /\ admin' = None /\ form' = None /\ pending' = None /\ attempt' = 0
  /\ inbox' = <<>> /\ outbox' = <<>>
  /\ UNCHANGED <<page, clockVars, writes, dbVars, attempts, drawn, told>>

-----------------------------------------------------------------------------
(* The server.                                                             *)

\* Mutant: the clock as it is.
Clock == now

\* The version of a change: the clock, or just after the old version.
NextVersion == IF now > row.version THEN now ELSE row.version + 1

\* operation_logs and repair_operations, by the session's administrator and
\* the number.
Recorded(m) == {e \in log : e.command.number = m.command.number /\ e.admin = m.admin}

Reply(m, code, item) ==
  outbox' = Append(outbox, [number |-> m.command.number, attempt |-> m.attempt,
                            code |-> code, item |-> item])

\* Too late, the session is gone, or the transaction or the maintenance
\* before it fails: nothing is changed.
Decline(m) ==
  /\ \E code \in {"TIMEOUT", "UNAUTHORIZED", "failed"} : Reply(m, code, row)
  /\ UNCHANGED dbVars

\* A command on record: what came of it then.
Replay(m) ==
  /\ \E e \in Recorded(m) : Reply(m, "done", e.after)
  /\ UNCHANGED dbVars

\* CONFLICT, or a rule of the business forbids it.
Refuse(m) ==
  /\ Recorded(m) = {}
  /\ Reply(m, "refused", row)
  /\ UNCHANGED dbVars

\* The row is as its version says, and is changed.
Execute(m) ==
  LET c == m.command
      after == [status |-> c.target, version |-> NextVersion, changes |-> row.changes + 1]
  IN  /\ Recorded(m) = {}
      /\ row.version = c.form.version
      /\ c.target \in Target(row.status)
      /\ row.status # "BUSY"
      /\ row' = after
      /\ log' = log \cup {[command |-> c, admin |-> m.admin, before |-> row, after |-> after]}
      /\ Reply(m, "done", after)

\* AdminRepository::mutate and RepairRepository::adminHandle.
Serve ==
  /\ inbox # <<>>
  /\ inbox' = Tail(inbox)
  /\ \E m \in {Head(inbox)} : Decline(m) \/ Replay(m) \/ Refuse(m) \/ Execute(m)
  /\ UNCHANGED <<page, clockVars, writes, guiVars>>

\* Customers book and charge, pay and recharge: they write the clock as it is.
Business ==
  /\ writes < MaxWrites
  /\ writes' = writes + 1
  /\ \E s \in Statuses :
       /\ \/ page = "chargers" /\ {row.status, s} \subseteq {"AVAILABLE", "BUSY"}
          \/ page = "users" /\ row.status = "ACTIVE" /\ s = "ACTIVE"
       /\ row' = [row EXCEPT !.status = s, !.version = now]
  /\ UNCHANGED <<page, clockVars, log, guiVars, inbox, outbox>>

\* The repair of a charger and the recovery of an exception.
OtherCommand ==
  /\ page = "chargers" /\ row.status # "BUSY"
  /\ writes < MaxWrites
  /\ writes' = writes + 1
  /\ \E s \in {"AVAILABLE", "OUT"} :
       row' = [status |-> s, version |-> NextVersion, changes |-> row.changes + 1]
  /\ UNCHANGED <<page, clockVars, log, guiVars, inbox, outbox>>

\* The clock of the server's host.
Tick ==
  /\ now < MaxTime
  /\ now' = now + 1
  /\ UNCHANGED <<page, slips, writes, dbVars, guiVars, inbox, outbox>>

SetBack ==
  /\ slips < MaxSlips
  /\ slips' = slips + 1
  /\ now' \in 0..now
  /\ UNCHANGED <<page, writes, dbVars, guiVars, inbox, outbox>>

Next ==
  \/ \E a \in Admin : Login(a)
  \/ Logout \/ Refresh
  \/ form # None /\ \E t \in Target(form.status) : Submit(t)
  \/ Retry \/ Timeout \/ Receive \/ Restart
  \/ Serve \/ Business \/ OtherCommand
  \/ Tick \/ SetBack

Spec == Init /\ [][Next]_vars

-----------------------------------------------------------------------------
Executed(n) == {e \in log : e.command.number = n}

\* What the page says of a command is so, and stays so, however answers,
\* timers, logouts, other administrators and late copies of it race: one
\* that it calls done was executed, one that it calls refused never is.  (Of
\* one that it calls failed nothing is known: its first request may have been
\* executed, and the second have failed.)
ToldRight ==
  \A n \in 1..MaxCommands :
    /\ told[n] = "done" => Executed(n) # {}
    /\ told[n] = "refused" => Executed(n) = {}

\* A command is executed once, and, where only administrators write, on the
\* very row that its form showed: of the commands made of one form, also one
\* made again because no answer came, one at most changes anything.
OnceAsShown ==
  \A e \in log :
    /\ \A d \in log : d.command.number = e.command.number => d = e
    /\ page \in {"repairs", "stations"} => e.before = e.command.form
=============================================================================
