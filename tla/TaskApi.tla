------------------------------- MODULE TaskApi -------------------------------
(***************************************************************************)
(* The task turns of runtime/task_api.rs and the approval tickets that     *)
(* guard them, over the conversation file of runtime/task_session.rs.      *)
(*                                                                         *)
(* Every operation of TaskConversationStore reads the whole file, and one  *)
(* that saves then writes the whole file back: load_file, the truncation   *)
(* and the write of fs::write are three steps under no lock.  The threads  *)
(* are those of harborbeacon_service, one for each request, or the one of  *)
(* assistant_task_api, which serves turns, and the workers of              *)
(* agent_hub_admin_api, which serve decisions over the same file.  A read  *)
(* of a truncated or garbled file is a parse error.  A write into a file   *)
(* that another thread wrote since it was truncated leaves the tail of the *)
(* longer text, or does not: the lengths decide.  The truncation and the   *)
(* write may fail.                                                         *)
(*                                                                         *)
(* Of the file the task runs and the approval tickets are kept.  Sessions, *)
(* steps, artifacts and events are other records of it: saving one writes  *)
(* the runs and tickets back as they were read.  The tasks are HarborOS    *)
(* actions, whose handler saves nothing else.                              *)
(***************************************************************************)
EXTENDS Integers

CONSTANTS
  Thread,         \* the threads that serve requests
  Task,           \* task ids, that is turn ids of HarborGate
  Guarded,        \* the tasks whose action_requires_approval
  ReadOnly,       \* the tasks submitted with read-only autonomy and a risk above low
  MaxDeliveries,  \* bound: deliveries of one turn
  Deployment      \* processes, the threads that serve turns and decisions, the tasks, the tokens
                  \* turns carry, and bounds on decisions, crashes and failing writes

ASSUME ThreadsAssumption == Thread /= {}
ASSUME TasksAssumption == Task /= {} /\ Guarded \subseteq Task /\ ReadOnly \subseteq Task
ASSUME BoundsAssumption == MaxDeliveries \in Nat \ {0}
ASSUME DeploymentAssumption ==
  Deployment \subseteq
    [processes : SUBSET SUBSET Thread, turns : SUBSET Thread, decides : SUBSET Thread,
     tasks : SUBSET Task, tokens : SUBSET SUBSET (Task \X (1..MaxDeliveries)),
     decisions : Nat, crashes : Nat, faults : Nat]

VARIABLES
  text,       \* what the file holds: nothing yet, a whole document, or garbled text
  db,         \* the document
  faults,     \* truncations and writes that failed
  pc, io,     \* per thread, the operation it is at, and its step of load, truncate and write
  buf,        \* per thread, the document it writes
  req,        \* per thread, the request it serves
  held,       \* per thread, the ticket ensure_action_allowed asks for
  clone,      \* per thread, the run load_approval_context returned
  result,     \* per thread, the status of its TaskResponse
  answer,     \* per thread, the last answer it gave
  delivered,  \* deliveries of each turn
  tokened,    \* tasks with a delivery that carried an approval token
  decisions,
  crashes,
  overlapped, \* whether a request was ever served beside another
  deployed,   \* the deployment, which does not change
  approved,   \* tasks with a ticket an operator approved while it was pending
  refused,    \* tasks with a ticket whose rejection was answered
  effects,    \* how often the action of a task was executed
  dropped     \* tasks of which the save of the begun run or of the resolved tickets failed

file == <<text, db, faults>>
local == <<buf, held, clone, result, answer>>
given == <<req, delivered, tokened, decisions, crashes, overlapped>>
seen == <<approved, refused, effects, dropped>>
vars == <<file, pc, io, local, given, deployed, seen>>

\* An approval ticket is named after the delivery that creates it (new_approval_id).
Ticket == Task \X (1..MaxDeliveries)

\* request_approval_token: the ticket a request names, or none.  A name that is no ticket of the
\* file stands for any other text.
Token == SUBSET Ticket

\* What task_request_identity tells apart: the arguments of a request hold its token.
Identity == [kind : {"turn", "approve", "reject"}, token : Token]

\* from: the identity of the request that the metadata of the run names.
Run == [status : {"none", "running", "needs_input", "completed", "failed"}, from : Identity]

NoRun == [status |-> "none", from |-> [kind |-> "turn", token |-> {}]]

Db == [runs : [Task -> Run],
       tickets : [Ticket -> {"none", "pending", "approved", "rejected"}]]

EmptyDb == [runs |-> [t \in Task |-> NoRun], tickets |-> [a \in Ticket |-> "none"]]

Request == [kind : {"turn", "approve", "reject"}, ticket : Ticket, token : Token]

NoRequest == [kind |-> "turn", ticket |-> CHOOSE a \in Ticket : TRUE, token |-> {}]

\* Where a thread goes after saving a record of which nothing is kept.
AfterSave == [begin_session |-> "begin_run", begin_step |-> "gate",
          fin_step |-> "fin_artifacts", fin_artifacts |-> "fin_events",
          fin_events |-> "fin_session", fin_session |-> "respond",
          reject_session |-> "decision_event", decision_event |-> "summary"]

\* handle_task ignores a failure of begin_task_tracking, and stops finish_task_tracking at one.
OnError == [begin_session |-> "begin_run", begin_step |-> "gate",
            fin_step |-> "respond", fin_artifacts |-> "respond",
            fin_events |-> "respond", fin_session |-> "respond",
            reject_session |-> "fail", decision_event |-> "fail"]

Place == DOMAIN AfterSave \cup
  {"idle", "accept", "replay", "begin_run", "gate", "ticket", "resolve", "execute", "fin_run",
   "respond", "load_approval", "load_run", "reject_ticket", "reject_run", "load_decided",
   "summary", "fail"}

TaskOf(p) == req[p].ticket[1]

\* load_file
Readable == text = "whole"

\* A file that does not exist yet reads as an empty document.
Init ==
  /\ text = "whole"
  /\ db = EmptyDb
  /\ faults = 0
  /\ pc = [p \in Thread |-> "idle"]
  /\ io = [p \in Thread |-> "load"]
  /\ buf = [p \in Thread |-> EmptyDb]
  /\ req = [p \in Thread |-> NoRequest]
  /\ held = [p \in Thread |-> NoRequest.ticket]
  /\ clone = [p \in Thread |-> NoRun]
  /\ result = [p \in Thread |-> "failed"]
  /\ answer = [p \in Thread |-> "none"]
  /\ delivered = [t \in Task |-> 0]
  /\ tokened = {} /\ decisions = 0 /\ crashes = 0 /\ overlapped = FALSE
  /\ deployed \in Deployment
  /\ approved = {} /\ refused = {} /\ dropped = {}
  /\ effects = [t \in Task |-> 0]

Go(p, place) ==
  /\ pc' = [pc EXCEPT ![p] = place]
  /\ io' = [io EXCEPT ![p] = "load"]

\* An operation that only reads.
Read(p, place) == Go(p, place) /\ UNCHANGED <<file, given>>

\* An operation loads the file, changes it to new and saves it.  The write does not truncate
\* again: over text written since, it may leave a tail.
Stores(p, new, ok) ==
  \/ /\ io[p] = "load" /\ Readable
     /\ buf' = [buf EXCEPT ![p] = new]
     /\ io' = [io EXCEPT ![p] = "truncate"]
     /\ UNCHANGED <<file, pc>>
  \/ /\ io[p] = "truncate"
     /\ text' = "empty"
     /\ io' = [io EXCEPT ![p] = "write"]
     /\ UNCHANGED <<db, faults, buf, pc>>
  \/ /\ io[p] = "write"
     /\ text' \in IF text = "empty" THEN {"whole"} ELSE {"whole", "garbled"}
     /\ db' = buf[p]
     /\ buf' = [buf EXCEPT ![p] = EmptyDb]
     /\ Go(p, ok)
     /\ UNCHANGED faults

\* The operation fails: the file cannot be parsed, or not be opened, or the write fails and
\* leaves a part of the text.
StoreFails(p, err) ==
  /\ \/ io[p] = "load" /\ ~Readable /\ UNCHANGED file
     \/ /\ io[p] \in {"truncate", "write"} /\ faults < deployed.faults
        /\ faults' = faults + 1
        /\ text' \in IF io[p] = "truncate" THEN {text} ELSE {text, "garbled"}
        /\ UNCHANGED db
  /\ buf' = [buf EXCEPT ![p] = EmptyDb]
  /\ Go(p, err)

Save(p, new, ok, err) == Stores(p, new, ok) \/ StoreFails(p, err)

-----------------------------------------------------------------------------
\* Requests: HarborGate delivers a turn, again if it had no answer, and an operator decides
\* a ticket, from a list that may be old.

Overlaps(p) == overlapped' = (overlapped \/ \E q \in Thread \ {p} : pc[q] /= "idle")

Deliver(p, t, token) ==
  /\ pc[p] = "idle" /\ p \in deployed.turns
  /\ t \in deployed.tasks /\ delivered[t] < MaxDeliveries
  /\ delivered' = [delivered EXCEPT ![t] = @ + 1]
  /\ tokened' = IF token = {} THEN tokened ELSE tokened \cup {t}
  /\ req' = [req EXCEPT ![p] = [kind |-> "turn", ticket |-> <<t, delivered[t] + 1>>, token |-> token]]
  /\ Overlaps(p)
  /\ Go(p, "accept")
  /\ UNCHANGED <<file, local, decisions, crashes, seen>>

\* build_approval_resume_request: a request to approve resumes the task with the ticket as token.
Decide(p, a, kind) ==
  /\ pc[p] = "idle" /\ p \in deployed.decides
  /\ a[1] \in deployed.tasks /\ decisions < deployed.decisions
  /\ decisions' = decisions + 1
  /\ req' = [req EXCEPT ![p] = [kind |-> kind, ticket |-> a, token |-> IF kind = "approve" THEN {a} ELSE {}]]
  /\ Overlaps(p)
  /\ Go(p, "load_approval")
  /\ UNCHANGED <<file, local, delivered, tokened, crashes, seen>>

Answer(p, what) ==
  /\ answer' = [answer EXCEPT ![p] = what]
  /\ req' = [req EXCEPT ![p] = NoRequest]
  /\ held' = [held EXCEPT ![p] = NoRequest.ticket]
  /\ clone' = [clone EXCEPT ![p] = NoRun]
  /\ result' = [result EXCEPT ![p] = "failed"]
  /\ Go(p, "idle")
  /\ UNCHANGED <<file, buf, delivered, tokened, decisions, crashes, overlapped, effects, approved, dropped>>

\* Mutant: a run that never finished is answered as if it were not there.
KnownOnceFinished(run) == run.status \notin {"none", "running"}

\* task_status_from_task_run_status: a run that never finished is answered as failed.
task_status(run) == IF run.status = "running" THEN "failed" ELSE run.status

\* load_task_run returns a run, whatever came of it.
Known(run) == run.status /= "none"

\* task_request_identity
From(p) == [kind |-> req[p].kind, token |-> req[p].token]

\* A run that was last stored with the identity of the delivered turn is replayed.
accept_or_replay_task(p) ==
  LET run == db.runs[TaskOf(p)] IN
  /\ pc[p] = "accept"
  /\ \/ ~Readable /\ Answer(p, "error") /\ UNCHANGED refused
     \/ /\ Readable /\ ~Known(run)
        /\ Read(p, "begin_session") /\ UNCHANGED <<local, seen>>
     \/ /\ Readable /\ Known(run) /\ run.from /= From(p)
        /\ Answer(p, "conflict") /\ UNCHANGED refused
     \/ /\ Readable /\ Known(run) /\ run.from = From(p)
        /\ result' = [result EXCEPT ![p] = task_status(run)]
        /\ Read(p, "replay") /\ UNCHANGED <<buf, held, clone, answer, seen>>

\* The step, artifacts and events of the run.
replay_task_response(p) ==
  /\ pc[p] = "replay"
  /\ Answer(p, IF Readable THEN result[p] ELSE "error")
  /\ UNCHANGED refused

-----------------------------------------------------------------------------
\* handle_task

\* save_session, save_task_step, replace_artifacts_for_step, replace_events_for_step.
SaveOther(p) ==
  /\ pc[p] \in DOMAIN AfterSave
  /\ Save(p, db, AfterSave[pc[p]], OnError[pc[p]])
  /\ UNCHANGED <<held, clone, result, answer, given, seen>>

WithRun(t, run) == [db EXCEPT !.runs[t] = run]
WithTicket(a, status) == [db EXCEPT !.tickets[a] = status]

\* The error of a save that fails is ignored, and the task goes on without its run in the file.
begin_task_run(p) ==
  /\ pc[p] = "begin_run"
  /\ \/ /\ Stores(p, WithRun(TaskOf(p), [status |-> "running", from |-> From(p)]), "begin_step")
        /\ UNCHANGED dropped
     \/ StoreFails(p, "begin_step") /\ dropped' = dropped \cup {TaskOf(p)}
  /\ UNCHANGED <<held, clone, result, answer, given, approved, refused, effects>>

\* approvals_for_task: read as empty if the file cannot be read.
Pending(t) == {a \in Ticket : Readable /\ a[1] = t /\ db.tickets[a] = "pending"}

\* Mutant: a task without a ticket that is pending needs none.
AllowsWithoutTicket(p, first) ==
  TaskOf(p) \notin Guarded \/ first = {} \/ first = req[p].token

\* enforce with the approval context of the request: its token, and the first ticket that is
\* pending, which it must name.  Without a pending ticket any token will do.
Allows(p, first) ==
  TaskOf(p) \notin Guarded \/ (req[p].token /= {} /\ first \in {{}, req[p].token})

\* The tickets are ordered by the second they were requested in, so that any of several may
\* come first.
ensure_action_allowed(p) ==
  /\ pc[p] = "gate"
  /\ \/ /\ TaskOf(p) \in ReadOnly
        /\ result' = [result EXCEPT ![p] = "failed"]
        /\ Read(p, "fin_run") /\ UNCHANGED held
     \/ \E first \in IF Pending(TaskOf(p)) = {} THEN {{}} ELSE {{a} : a \in Pending(TaskOf(p))} :
          /\ TaskOf(p) \notin ReadOnly
          /\ \/ /\ Allows(p, first)
                /\ Read(p, IF req[p].token /= {} /\ (TaskOf(p) \in Guarded \/ first /= {})
                           THEN "resolve" ELSE "execute")
                /\ UNCHANGED <<held, result>>
             \/ /\ ~Allows(p, first)
                /\ held' \in {[held EXCEPT ![p] = a] : a \in IF first = {} THEN {req[p].ticket} ELSE first}
                /\ result' = [result EXCEPT ![p] = "needs_input"]
                /\ Read(p, "ticket")
  /\ UNCHANGED <<buf, clone, answer, seen>>

\* The approval ticket is saved pending, anew if the task has one.
save_approval(p) ==
  /\ pc[p] = "ticket"
  /\ Save(p, WithTicket(held[p], "pending"), "fin_run", "fin_run")
  /\ UNCHANGED <<held, clone, result, answer, given, seen>>

\* The error of a save that fails is ignored, and the task goes on with its tickets pending.
resolve_pending_approvals(p) ==
  /\ pc[p] = "resolve"
  /\ \/ /\ Stores(p, [db EXCEPT !.tickets = [a \in Ticket |->
                         IF a \in Pending(TaskOf(p)) THEN "approved" ELSE db.tickets[a]]], "execute")
        /\ UNCHANGED dropped
     \/ StoreFails(p, "execute") /\ dropped' = dropped \cup {TaskOf(p)}
  /\ UNCHANGED <<held, clone, result, answer, given, approved, refused, effects>>

\* router.execute, unless the executors cannot be configured.
Execute(p) ==
  /\ pc[p] = "execute"
  /\ \/ /\ effects' = [effects EXCEPT ![TaskOf(p)] = @ + 1]
        /\ \E status \in {"completed", "failed"} : result' = [result EXCEPT ![p] = status]
     \/ UNCHANGED effects /\ result' = [result EXCEPT ![p] = "failed"]
  /\ Read(p, "fin_run")
  /\ UNCHANGED <<buf, held, clone, answer, approved, refused, dropped>>

finish_task_run(p) ==
  /\ pc[p] = "fin_run"
  /\ Save(p, WithRun(TaskOf(p), [status |-> result[p], from |-> From(p)]), "fin_step", "respond")
  /\ UNCHANGED <<held, clone, result, answer, given, seen>>

Respond(p) ==
  /\ pc[p] = "respond"
  /\ IF req[p].kind = "turn"
     THEN Answer(p, result[p]) /\ UNCHANGED refused
     ELSE Read(p, "load_decided") /\ UNCHANGED <<local, seen>>

-----------------------------------------------------------------------------
\* approve_pending_approval and reject_pending_approval

\* Mutant: a ticket that was decided already can be decided again.
DecidableAgain(a) == db.tickets[a] /= "none"

Decidable(a) == db.tickets[a] = "pending"

load_approval(p) ==
  /\ pc[p] = "load_approval"
  /\ IF Readable /\ Decidable(req[p].ticket)
     THEN /\ approved' = IF req[p].kind = "approve" THEN approved \cup {TaskOf(p)} ELSE approved
          /\ Read(p, "load_run") /\ UNCHANGED <<local, refused, effects, dropped>>
     ELSE Answer(p, "error") /\ UNCHANGED refused

\* The run and the session of the ticket.
load_approval_context(p) ==
  /\ pc[p] = "load_run"
  /\ IF Readable /\ Known(db.runs[TaskOf(p)])
     THEN /\ clone' = [clone EXCEPT ![p] = db.runs[TaskOf(p)]]
          /\ Read(p, IF req[p].kind = "approve" THEN "begin_session" ELSE "reject_ticket")
          /\ UNCHANGED <<buf, held, result, answer, seen>>
     ELSE Answer(p, "error") /\ UNCHANGED refused

\* update_approval_status, which fails for a ticket that is no longer in the file.
update_approval_status(p) ==
  /\ pc[p] = "reject_ticket"
  /\ IF io[p] = "load" /\ db.tickets[req[p].ticket] = "none"
     THEN Read(p, "fail") /\ UNCHANGED buf
     ELSE Save(p, WithTicket(req[p].ticket, "rejected"), "reject_run", "fail")
  /\ UNCHANGED <<held, clone, result, answer, given, seen>>

\* The run that was loaded before, failed.  A session that was not found is not saved.
RejectRun(p) ==
  /\ pc[p] = "reject_run"
  /\ \E ok \in {"reject_session", "decision_event"} :
       Save(p, WithRun(TaskOf(p), [clone[p] EXCEPT !.status = "failed"]), ok, "fail")
  /\ UNCHANGED <<held, clone, result, answer, given, seen>>

\* approve_pending_approval loads the ticket again for its event.
load_decided(p) ==
  /\ pc[p] = "load_decided"
  /\ Read(p, IF Readable THEN "decision_event" ELSE "fail")
  /\ UNCHANGED <<local, seen>>

load_approval_summary(p) ==
  /\ pc[p] = "summary"
  /\ IF Readable /\ Known(db.runs[TaskOf(p)])
     THEN /\ Answer(p, req[p].kind)
          /\ refused' = IF req[p].kind = "reject" THEN refused \cup {TaskOf(p)} ELSE refused
     ELSE Answer(p, "error") /\ UNCHANGED refused

Fail(p) ==
  /\ pc[p] = "fail"
  /\ Answer(p, "error")
  /\ UNCHANGED refused

\* A process dies, maybe half way through a write, and is started again.
Crash(dead) ==
  /\ crashes < deployed.crashes
  /\ crashes' = crashes + 1
  /\ text' \in {text} \cup {"garbled" : p \in {q \in dead : io[q] = "write"}}
  /\ pc' = [p \in Thread |-> IF p \in dead THEN "idle" ELSE pc[p]]
  /\ io' = [p \in Thread |-> IF p \in dead THEN "load" ELSE io[p]]
  /\ buf' = [p \in Thread |-> IF p \in dead THEN EmptyDb ELSE buf[p]]
  /\ req' = [p \in Thread |-> IF p \in dead THEN NoRequest ELSE req[p]]
  /\ held' = [p \in Thread |-> IF p \in dead THEN NoRequest.ticket ELSE held[p]]
  /\ clone' = [p \in Thread |-> IF p \in dead THEN NoRun ELSE clone[p]]
  /\ result' = [p \in Thread |-> IF p \in dead THEN "failed" ELSE result[p]]
  /\ UNCHANGED <<db, faults, answer, delivered, tokened, decisions, overlapped, seen>>

Handle(p) ==
  \/ accept_or_replay_task(p) \/ replay_task_response(p)
  \/ SaveOther(p) \/ begin_task_run(p) \/ ensure_action_allowed(p) \/ save_approval(p)
  \/ resolve_pending_approvals(p) \/ Execute(p) \/ finish_task_run(p) \/ Respond(p)
  \/ load_approval(p) \/ load_approval_context(p) \/ update_approval_status(p) \/ RejectRun(p)
  \/ load_decided(p) \/ load_approval_summary(p) \/ Fail(p)

Next ==
  /\ \/ \E p \in Thread :
          \/ \E t \in Task, token \in deployed.tokens : Deliver(p, t, token)
          \/ \E a \in Ticket, kind \in {"approve", "reject"} : Decide(p, a, kind)
          \/ Handle(p)
     \/ \E dead \in deployed.processes : Crash(dead)
  /\ UNCHANGED deployed

Spec == Init /\ [][Next]_vars

-----------------------------------------------------------------------------
TypeOK ==
  /\ text \in {"empty", "whole", "garbled"} /\ db \in Db /\ faults \in Nat
  /\ pc \in [Thread -> Place] /\ io \in [Thread -> {"load", "truncate", "write"}]
  /\ buf \in [Thread -> Db] /\ req \in [Thread -> Request] /\ held \in [Thread -> Ticket]
  /\ clone \in [Thread -> Run]
  /\ result \in [Thread -> {"needs_input", "completed", "failed"}]
  /\ answer \in [Thread -> {"none", "error", "conflict", "approve", "reject", "needs_input",
                            "completed", "failed"}]
  /\ delivered \in [Task -> 0..MaxDeliveries] /\ tokened \subseteq Task
  /\ decisions \in Nat /\ crashes \in Nat /\ overlapped \in BOOLEAN /\ dropped \subseteq Task
  /\ deployed \in Deployment /\ approved \subseteq Task /\ refused \subseteq Task
  /\ effects \in [Task -> Nat]

\* An action that requires approval is executed only for a task whose ticket an operator
\* approved while it was pending, or whose turn came with an approval token of its own, and one
\* that read-only autonomy blocks never: whatever requests overlap, whatever saves fail, and
\* whatever the gate of ensure_action_allowed could not read.
GateHolds ==
  \A t \in Task :
    effects[t] > 0 => t \notin ReadOnly /\ (t \in Guarded => t \in approved \cup tokened)

\* The action of a task is executed once at most, however often HarborGate delivers the turn.
ExecutedOnce == \A t \in Task : effects[t] <= 1

\* As long as no request was served beside another, the action of a task is executed once at
\* most, whatever turns are delivered again, with or without a token, whatever tickets operators
\* decide, even if a process dies between the action and the save of its result, and whatever
\* saves fail, but for the two whose error handle_task ignores: of the run it begins
\* (begin_task_tracking) and of the tickets it resolves (resolve_pending_approvals).
SequentialOnce == ~overlapped => \A t \in Task \ dropped : effects[t] <= 1

\* As long as no request was served beside another, a task whose rejection was answered to the
\* operator is not executed, before or after, whatever is delivered again and approved late,
\* unless one of the saves failed whose error handle_task ignores.
RejectedNeverRuns == ~overlapped => \A t \in refused \ dropped : effects[t] = 0
=============================================================================
