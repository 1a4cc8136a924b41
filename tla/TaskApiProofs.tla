---------------------------- MODULE TaskApiProofs ----------------------------
(***************************************************************************)
(* Proof that the gate of ensure_action_allowed holds for any tasks, any   *)
(* number of threads, deliveries, decisions, crashes and failing writes,   *)
(* whatever the threads do to each other's writes of the conversation      *)
(* file, and of what holds as long as requests do not overlap.             *)
(***************************************************************************)
EXTENDS TaskApi, TLAPS

\* What lies behind the gate.
Passed == {"resolve", "execute"}

\* Where only a request to decide a ticket gets to.
Decision == {"load_approval", "load_run", "reject_ticket", "reject_run", "reject_session",
             "load_decided", "decision_event", "summary"}

\* A thread behind the gate holds a request with a token, or one that needs none.  A token is
\* that of a turn, or of an approval, which is past load_approval only if the ticket was pending
\* there.
ThreadOK(p) ==
  /\ pc[p] \in Passed =>
       TaskOf(p) \notin ReadOnly /\ (TaskOf(p) \in Guarded => req[p].token /= {})
  /\ req[p].kind = "approve" /\ pc[p] /= "load_approval" => TaskOf(p) \in approved
  /\ req[p].kind = "approve" => req[p].token = {req[p].ticket}
  /\ req[p].token /= {} => req[p].kind = "approve" \/ TaskOf(p) \in tokened
  /\ pc[p] \in Decision => req[p].kind /= "turn"

GateInv ==
  /\ pc \in [Thread -> Place] /\ req \in [Thread -> Request] /\ effects \in [Task -> Nat]
  /\ delivered \in [Task -> 0..MaxDeliveries] /\ deployed \in Deployment
  /\ \A p \in Thread : ThreadOK(p)
  /\ GateHolds

\* A step of a thread that does not pass the gate: it stays, moves on, or answers.
Quiet(p) ==
  /\ UNCHANGED <<effects, delivered, tokened>> /\ approved \subseteq approved'
  /\ \/ pc' = pc /\ req' = req
     \/ \E at \in Place \ Passed :
          /\ pc' = [pc EXCEPT ![p] = at]
          /\ \/ /\ req' = req /\ pc[p] /= "load_approval"
                /\ at \in Decision => req[p].kind /= "turn"
             \/ req' = [req EXCEPT ![p] = NoRequest] /\ at \notin Decision

-----------------------------------------------------------------------------
\* There is a ticket to name in a request that is none.
LEMMA NoRequestTyped == NoRequest \in Request /\ NoRequest.kind = "turn" /\ NoRequest.token = {}
<1>1. \E a : a \in Ticket
  <2>1. PICK t : t \in Task
    BY Zenon, TasksAssumption
  <2>2. <<t, 1>> \in Ticket
    BY <2>1, BoundsAssumption DEF Ticket
  <2> QED  BY Zenon, <2>2
<1>2. (CHOOSE a \in Ticket : TRUE) \in Ticket
  BY Zenon, <1>1
<1> QED  BY Zenon, <1>2 DEF NoRequest, Request, Token

\* Quiet steps keep the invariant.
LEMMA QuietKeeps ==
  ASSUME GateInv, NEW p \in Thread, Quiet(p), UNCHANGED deployed
  PROVE  GateInv'
<1>1. pc' \in [Thread -> Place] /\ req' \in [Thread -> Request] /\ effects' \in [Task -> Nat]
      /\ delivered' \in [Task -> 0..MaxDeliveries]
  BY Zenon, NoRequestTyped DEF GateInv, Quiet
<1>2. ASSUME NEW q \in Thread PROVE ThreadOK(q)'
  <2>1. CASE pc' = pc /\ req' = req
    BY Zenon, <2>1 DEF GateInv, ThreadOK, Quiet, TaskOf
  <2>2. CASE q /= p /\ ~(pc' = pc /\ req' = req)
    <3>1. pc'[q] = pc[q] /\ req'[q] = req[q]
      BY Zenon, <2>2 DEF Quiet, GateInv
    <3> QED  BY Zenon, <3>1 DEF GateInv, ThreadOK, Quiet, TaskOf
  <2>3. CASE q = p /\ ~(pc' = pc /\ req' = req)
    <3>1. /\ pc'[q] \notin Passed /\ (pc'[q] \in Decision => req'[q].kind /= "turn")
          /\ req'[q] = NoRequest \/ (req'[q] = req[q] /\ pc[q] /= "load_approval")
      BY Zenon, <2>3 DEF Quiet, GateInv
    <3> QED  BY Zenon, <3>1, NoRequestTyped DEF GateInv, ThreadOK, Quiet, TaskOf
  <2> QED  BY Zenon, <2>1, <2>2, <2>3
<1>3. GateHolds'
  BY Zenon DEF GateHolds, GateInv, Quiet
<1> QED  BY Zenon, <1>1, <1>2, <1>3 DEF GateInv

\* An operation that saves moves on to a place before the gate, as it succeeds or fails.
LEMMA SaveQuiet ==
  ASSUME NEW p \in Thread, pc[p] /= "load_approval", NEW new,
         NEW ok \in Place \ Passed, NEW err \in Place \ Passed,
         ok \in Decision => req[p].kind /= "turn", err \notin Decision,
         Save(p, new, ok, err), UNCHANGED <<req, effects, delivered, tokened, approved>>
  PROVE  Quiet(p)
BY Zenon DEF Save, Stores, StoreFails, Go, Quiet

\* An answer forgets the request.
LEMMA AnswerQuiet ==
  ASSUME NEW p \in Thread, NEW what, Answer(p, what)
  PROVE  Quiet(p)
<1>1. "idle" \in Place \ Passed /\ "idle" \notin Decision
  BY Zenon DEF Place, Passed, Decision
<1>2. /\ pc' = [pc EXCEPT ![p] = "idle"] /\ req' = [req EXCEPT ![p] = NoRequest]
      /\ UNCHANGED <<effects, delivered, tokened, approved>>
  BY Zenon DEF Answer, Go
<1> QED  BY Zenon, <1>1, <1>2 DEF Quiet

\* The operations of a turn and of a decision that do not pass the gate.
LEMMA HandleQuiet ==
  ASSUME GateInv, NEW p \in Thread,
         \/ accept_or_replay_task(p) \/ replay_task_response(p)
         \/ SaveOther(p) \/ begin_task_run(p) \/ save_approval(p) \/ finish_task_run(p)
         \/ Respond(p) \/ load_approval_context(p) \/ update_approval_status(p) \/ RejectRun(p)
         \/ load_decided(p) \/ load_approval_summary(p) \/ Fail(p)
  PROVE  Quiet(p)
<1> USE DEF Passed, Place
<1>0. pc[p] \in Decision => req[p].kind /= "turn"
  BY Zenon DEF GateInv, ThreadOK
<1>1. ASSUME NEW what, Answer(p, what) PROVE Quiet(p)
  BY Zenon, <1>1, AnswerQuiet
<1>2. ASSUME NEW at \in Place \ Passed, pc[p] /= "load_approval", Read(p, at),
             at \in Decision => req[p].kind /= "turn", UNCHANGED <<effects, approved>>
      PROVE  Quiet(p)
  BY Zenon, <1>2 DEF Read, Go, Quiet, given
<1>3. CASE accept_or_replay_task(p)
  <2>1. \/ \E what : Answer(p, what)
        \/ /\ pc[p] = "accept" /\ UNCHANGED <<effects, approved>>
           /\ Read(p, "begin_session") \/ Read(p, "replay")
    BY Zenon, <1>3 DEF accept_or_replay_task, seen
  <2>2. {"begin_session", "replay"} \subseteq (Place \ Passed) \ Decision
    BY Zenon DEF AfterSave, Decision
  <2> QED  BY Zenon, <1>1, <1>2, <2>1, <2>2
<1>4. CASE replay_task_response(p) \/ Fail(p)
  BY Zenon, <1>1, <1>4 DEF replay_task_response, Fail
<1>5. CASE SaveOther(p)
  <2>1. /\ AfterSave[pc[p]] \in Place \ Passed /\ OnError[pc[p]] \in Place \ Passed
        /\ pc[p] /= "load_approval" /\ OnError[pc[p]] \notin Decision
        /\ AfterSave[pc[p]] \in Decision => pc[p] \in Decision
    BY <1>5 DEF SaveOther, AfterSave, OnError, Decision
  <2> QED  BY Zenon, <1>0, <1>5, <2>1, SaveQuiet DEF SaveOther, given, seen
<1>6. CASE begin_task_run(p) \/ save_approval(p) \/ finish_task_run(p)
  <2>1. {"begin_step", "fin_run", "fin_step", "respond"} \subseteq (Place \ Passed) \ Decision
    BY Zenon DEF AfterSave, Decision
  <2> QED  BY Zenon, <1>6, <2>1, SaveQuiet DEF begin_task_run, save_approval, finish_task_run, Save, given, seen
<1>7. CASE Respond(p) \/ load_decided(p)
  <2>1. {"load_decided", "decision_event", "fail"} \subseteq Place \ Passed
    BY Zenon DEF AfterSave
  <2>2. "load_decided" \in Decision
    BY Zenon DEF Decision
  <2> QED  BY Zenon, <1>0, <1>1, <1>2, <1>7, <2>1, <2>2 DEF Respond, load_decided, seen, GateInv, Request
<1>8. CASE load_approval_context(p) \/ load_approval_summary(p)
  <2>1. {"begin_session", "reject_ticket"} \subseteq Place \ Passed /\ "load_run" \in Decision
    BY Zenon DEF AfterSave, Decision
  <2> QED  BY Zenon, <1>0, <1>1, <1>2, <1>8, <2>1 DEF load_approval_context, load_approval_summary, seen
<1>9. CASE update_approval_status(p) \/ RejectRun(p)
  <2>1. /\ {"reject_run", "fail", "reject_session", "decision_event"} \subseteq Place \ Passed
        /\ {"reject_ticket", "reject_run"} \subseteq Decision /\ "fail" \notin Decision
    BY Zenon DEF AfterSave, Decision
  <2>2. CASE \E a : Save(p, a, "reject_run", "fail") \/ Save(p, a, "reject_session", "fail")
                    \/ Save(p, a, "decision_event", "fail")
    BY Zenon, <1>0, <1>9, <2>1, <2>2, SaveQuiet DEF update_approval_status, RejectRun, given, seen
  <2>3. CASE Read(p, "fail")
    BY Zenon, <1>2, <1>9, <2>1, <2>3 DEF update_approval_status, RejectRun, seen
  <2> QED  BY Zenon, <1>9, <2>2, <2>3 DEF update_approval_status, RejectRun
<1> QED  BY Zenon, <1>3, <1>4, <1>5, <1>6, <1>7, <1>8, <1>9

-----------------------------------------------------------------------------
\* Requests enter before the gate, and a decision before its ticket is looked at.
LEMMA RequestKeeps ==
  ASSUME GateInv, NEW p \in Thread, UNCHANGED deployed,
         \/ \E t \in Task, token \in deployed.tokens : Deliver(p, t, token)
         \/ \E a \in Ticket, kind \in {"approve", "reject"} : Decide(p, a, kind)
  PROVE  GateInv'
<1> DEFINE Fits(at, r) ==
             /\ pc' = [pc EXCEPT ![p] = at] /\ req' = [req EXCEPT ![p] = r]
             /\ (at = "accept") = (r.kind = "turn")
             /\ r.kind = "approve" => r.token = {r.ticket}
             /\ r.token /= {} => r.kind = "approve" \/ r.ticket[1] \in tokened'
<1>1. \E at \in {"accept", "load_approval"}, r \in Request : Fits(at, r)
  <2>1. ASSUME NEW t \in Task, NEW token \in deployed.tokens, Deliver(p, t, token)
        PROVE  \E r \in Request : Fits("accept", r)
    <3> DEFINE a == <<t, delivered[t] + 1>>
               r == [kind |-> "turn", ticket |-> a, token |-> token]
    <3>1. a \in Ticket /\ a[1] = t
      BY <2>1, BoundsAssumption DEF Deliver, GateInv, Ticket
    <3>2. token \in Token
      BY Zenon, DeploymentAssumption DEF GateInv, Token, Ticket
    <3>3. req' = [req EXCEPT ![p] = r] /\ pc' = [pc EXCEPT ![p] = "accept"]
      BY Zenon, <2>1 DEF Deliver, Go
    <3>4. token /= {} => t \in tokened'
      BY Zenon, <2>1 DEF Deliver
    <3> HIDE DEF a
    <3>5. r \in Request /\ r.kind = "turn" /\ r.ticket = a /\ r.token = token
      BY Zenon, <3>1, <3>2 DEF Request
    <3> HIDE DEF r
    <3> QED  BY Zenon, <3>1, <3>3, <3>4, <3>5
  <2>2. ASSUME NEW a \in Ticket, NEW kind \in {"approve", "reject"}, Decide(p, a, kind)
        PROVE  \E r \in Request : Fits("load_approval", r)
    <3> DEFINE token == IF kind = "approve" THEN {a} ELSE {}
               r == [kind |-> kind, ticket |-> a, token |-> token]
    <3>1. token \in Token /\ (kind = "approve" => token = {a}) /\ (token /= {} => kind = "approve")
      BY Zenon DEF Token
    <3>2. req' = [req EXCEPT ![p] = r] /\ pc' = [pc EXCEPT ![p] = "load_approval"]
      BY Zenon, <2>2 DEF Decide, Go
    <3> HIDE DEF token
    <3>3. r \in Request /\ r.kind = kind /\ r.ticket = a /\ r.token = token
      BY Zenon, <3>1 DEF Request
    <3> HIDE DEF r
    <3> QED  BY Zenon, <3>1, <3>2, <3>3
  <2> QED  BY Zenon, <2>1, <2>2
<1>2. PICK at \in {"accept", "load_approval"}, r \in Request : Fits(at, r)
  BY Zenon, <1>1
<1>3. /\ UNCHANGED <<effects, approved>> /\ delivered' \in [Task -> 0..MaxDeliveries]
      /\ tokened \subseteq tokened'
  <2>1. CASE \E t \in Task, token \in deployed.tokens : Deliver(p, t, token)
    BY <2>1, BoundsAssumption DEF Deliver, seen, GateInv
  <2>2. CASE \E a \in Ticket, kind \in {"approve", "reject"} : Decide(p, a, kind)
    BY Zenon, <2>2 DEF Decide, seen, GateInv
  <2> QED  BY Zenon, <2>1, <2>2
<1>4. pc' \in [Thread -> Place] /\ req' \in [Thread -> Request] /\ effects' \in [Task -> Nat]
  <2>1. at \in Place
    BY Zenon DEF Place
  <2> QED  BY Zenon, <1>2, <1>3, <2>1 DEF GateInv
<1>5. ASSUME NEW q \in Thread PROVE ThreadOK(q)'
  <2>1. CASE q = p
    <3>1. pc'[q] = at /\ req'[q] = r
      BY Zenon, <1>2, <2>1 DEF GateInv
    <3> QED  BY Zenon, <1>2, <3>1 DEF ThreadOK, Passed, Decision, TaskOf
  <2>2. CASE q /= p
    <3>1. pc'[q] = pc[q] /\ req'[q] = req[q] /\ ThreadOK(q)
      BY Zenon, <1>2, <2>2 DEF GateInv
    <3> QED  BY Zenon, <1>3, <3>1 DEF ThreadOK, TaskOf
  <2> QED  BY Zenon, <2>1, <2>2
<1>6. GateHolds'
  BY Zenon, <1>3 DEF GateHolds, GateInv
<1> QED  BY Zenon, <1>3, <1>4, <1>5, <1>6 DEF GateInv

\* load_approval lets a request to approve on and puts its task among the approved.
LEMMA LoadApprovalKeeps ==
  ASSUME GateInv, NEW p \in Thread, load_approval(p), UNCHANGED deployed
  PROVE  GateInv'
<1>1. CASE \E what : Answer(p, what)
  BY Zenon, <1>1, AnswerQuiet, QuietKeeps
<1>2. CASE ~\E what : Answer(p, what)
  <2>1. /\ pc' = [pc EXCEPT ![p] = "load_run"] /\ UNCHANGED <<req, effects, delivered, tokened>>
        /\ approved \subseteq approved'
        /\ req[p].kind = "approve" => TaskOf(p) \in approved'
    BY Zenon, <1>2 DEF load_approval, Read, Go, given
  <2>2. pc' \in [Thread -> Place]
    BY Zenon, <2>1 DEF GateInv, Place
  <2>3. ASSUME NEW q \in Thread PROVE ThreadOK(q)'
    <3>1. CASE q = p
      BY Zenon, <2>1, <3>1 DEF GateInv, ThreadOK, TaskOf, Passed, Decision, load_approval
    <3>2. CASE q /= p
      <4>1. pc'[q] = pc[q]
        BY Zenon, <2>1, <3>2 DEF GateInv
      <4> QED  BY Zenon, <2>1, <4>1 DEF GateInv, ThreadOK, TaskOf
    <3> QED  BY Zenon, <3>1, <3>2
  <2>4. GateHolds'
    BY Zenon, <2>1 DEF GateHolds, GateInv
  <2> QED  BY Zenon, <2>1, <2>2, <2>3, <2>4 DEF GateInv
<1> QED  BY Zenon, <1>1, <1>2

\* The gate: a request goes on to the action only if nothing forbids it, and if the action
\* needs an approval, only with a token.
LEMMA GateKeeps ==
  ASSUME GateInv, NEW p \in Thread, ensure_action_allowed(p) \/ resolve_pending_approvals(p),
         UNCHANGED deployed
  PROVE  GateInv'
<1>1. UNCHANGED <<req, effects, delivered, tokened, approved>>
  BY Zenon DEF ensure_action_allowed, resolve_pending_approvals, Read, given, seen
<1>2. \/ pc' = pc
      \/ \E at \in Place :
           /\ pc' = [pc EXCEPT ![p] = at] /\ pc[p] /= "load_approval" /\ at \notin Decision
           /\ at \in Passed =>
                TaskOf(p) \notin ReadOnly /\ (TaskOf(p) \in Guarded => req[p].token /= {})
  <2>1. CASE ensure_action_allowed(p)
    BY Zenon, <2>1 DEF ensure_action_allowed, Allows, Read, Go, Place, Passed, Decision
  <2>2. CASE resolve_pending_approvals(p)
    <3>1. pc[p] = "resolve" /\ (pc' = pc \/ pc' = [pc EXCEPT ![p] = "execute"])
      BY Zenon, <2>2 DEF resolve_pending_approvals, Stores, StoreFails, Go
    <3>2. TaskOf(p) \notin ReadOnly /\ (TaskOf(p) \in Guarded => req[p].token /= {})
      BY Zenon, <3>1 DEF GateInv, ThreadOK, Passed
    <3> QED  BY Zenon, <3>1, <3>2 DEF Place, Decision
  <2> QED  BY Zenon, <2>1, <2>2
<1>3. pc' \in [Thread -> Place]
  BY Zenon, <1>2 DEF GateInv
<1>4. ASSUME NEW q \in Thread PROVE ThreadOK(q)'
  <2>1. CASE pc'[q] = pc[q]
    BY Zenon, <1>1, <2>1 DEF GateInv, ThreadOK, TaskOf
  <2>2. CASE pc'[q] /= pc[q]
    <3>1. /\ q = p /\ pc[p] /= "load_approval" /\ pc'[p] \notin Decision
          /\ pc'[p] \in Passed =>
               TaskOf(p) \notin ReadOnly /\ (TaskOf(p) \in Guarded => req[p].token /= {})
      BY Zenon, <1>2, <2>2 DEF GateInv
    <3> QED  BY Zenon, <1>1, <3>1 DEF GateInv, ThreadOK, TaskOf
  <2> QED  BY Zenon, <2>1, <2>2
<1>5. GateHolds'
  BY Zenon, <1>1 DEF GateHolds, GateInv
<1> QED  BY Zenon, <1>1, <1>3, <1>4, <1>5 DEF GateInv

\* The action of a task is executed behind the gate.
LEMMA ExecuteKeeps ==
  ASSUME GateInv, NEW p \in Thread, Execute(p), UNCHANGED deployed
  PROVE  GateInv'
<1>1. /\ pc[p] = "execute" /\ pc' = [pc EXCEPT ![p] = "fin_run"]
      /\ UNCHANGED <<req, delivered, tokened, approved>>
      /\ effects' = effects \/ effects' = [effects EXCEPT ![TaskOf(p)] = @ + 1]
  BY Zenon DEF Execute, Read, Go, given
<1>2. /\ TaskOf(p) \in Task /\ TaskOf(p) \notin ReadOnly
      /\ TaskOf(p) \in Guarded => TaskOf(p) \in approved \cup tokened
  <2>1. TaskOf(p) \in Task
    BY Zenon DEF GateInv, TaskOf, Request, Ticket
  <2> QED  BY Zenon, <1>1, <2>1 DEF GateInv, ThreadOK, Passed
<1>3. pc' \in [Thread -> Place] /\ effects' \in [Task -> Nat]
  <2>1. pc' \in [Thread -> Place]
    BY Zenon, <1>1 DEF GateInv, Place
  <2>2. effects' \in [Task -> Nat]
    BY <1>1, <1>2 DEF GateInv
  <2> QED  BY Zenon, <2>1, <2>2
<1>4. ASSUME NEW q \in Thread PROVE ThreadOK(q)'
  BY Zenon, <1>1 DEF GateInv, ThreadOK, TaskOf, Passed, Decision
<1>5. GateHolds'
  <2>1. \A t \in Task : t /= TaskOf(p) => effects'[t] = effects[t]
    BY Zenon, <1>1 DEF GateInv
  <2> QED  BY Zenon, <1>1, <1>2, <2>1 DEF GateHolds, GateInv
<1> QED  BY Zenon, <1>1, <1>3, <1>4, <1>5 DEF GateInv

\* A crash forgets the requests of its process.
LEMMA CrashKeeps ==
  ASSUME GateInv, NEW dead, Crash(dead), UNCHANGED deployed
  PROVE  GateInv'
<1>1. /\ \A q \in Thread : \/ pc'[q] = pc[q] /\ req'[q] = req[q]
                           \/ pc'[q] = "idle" /\ req'[q] = NoRequest
      /\ UNCHANGED <<effects, delivered, tokened, approved>>
  BY Zenon DEF Crash, seen
<1>2. pc' \in [Thread -> Place] /\ req' \in [Thread -> Request]
  BY Zenon, NoRequestTyped DEF Crash, GateInv, Place
<1>3. ASSUME NEW q \in Thread PROVE ThreadOK(q)'
  BY Zenon, <1>1, NoRequestTyped DEF GateInv, ThreadOK, TaskOf, Passed, Decision
<1>4. GateHolds'
  BY Zenon, <1>1 DEF GateHolds, GateInv
<1> QED  BY Zenon, <1>1, <1>2, <1>3, <1>4 DEF GateInv

\* Nothing is executed before anything is asked for.
LEMMA InitGate == Init => GateInv
<1> SUFFICES ASSUME Init PROVE GateInv
  BY Zenon
<1>1. pc \in [Thread -> Place] /\ req \in [Thread -> Request] /\ effects \in [Task -> Nat]
      /\ delivered \in [Task -> 0..MaxDeliveries] /\ deployed \in Deployment
  BY NoRequestTyped, BoundsAssumption DEF Init, Place
<1>2. ASSUME NEW q \in Thread PROVE ThreadOK(q)
  BY Zenon, NoRequestTyped DEF Init, ThreadOK, Passed, Decision
<1>3. GateHolds
  BY DEF Init, GateHolds
<1> QED  BY Zenon, <1>1, <1>2, <1>3 DEF GateInv

-----------------------------------------------------------------------------
\* The invariant behind the gate of ensure_action_allowed.
THEOREM GateInvariant == Spec => []GateInv
<1>1. GateInv /\ [Next]_vars => GateInv'
  <2> SUFFICES ASSUME GateInv, [Next]_vars PROVE GateInv'
    BY Zenon
  <2>1. CASE UNCHANGED vars
    BY Zenon, <2>1 DEF vars, given, seen, GateInv, ThreadOK, TaskOf, GateHolds
  <2>2. ASSUME NEW p \in Thread, Handle(p), UNCHANGED deployed PROVE GateInv'
    BY Zenon, <2>2, HandleQuiet, QuietKeeps, LoadApprovalKeeps, GateKeeps, ExecuteKeeps DEF Handle
  <2> QED  BY Zenon, <2>1, <2>2, RequestKeeps, CrashKeeps DEF Next
<1> QED  BY <1>1, InitGate, PTL DEF Spec

\* An action that requires approval is executed only for a task with a ticket that was
\* approved while it was pending or with a turn that carried an approval token, and one that
\* read-only autonomy blocks never: for all threads and processes over the conversation file,
\* whatever overlaps, fails or crashes.
THEOREM Gate == Spec => []GateHolds
<1>1. GateInv => GateHolds
  BY Zenon DEF GateInv
<1> QED  BY <1>1, GateInvariant, PTL

-----------------------------------------------------------------------------
(* Types.                                                                  *)

Answers == {"none", "error", "conflict", "approve", "reject", "needs_input", "completed", "failed"}

\* The empty document, and documents with one record changed.
LEMMA Documents ==
  /\ EmptyDb \in Db /\ NoRun \in Run /\ NoRequest.ticket \in Ticket
  /\ \A t \in Task, run \in Run : db \in Db => WithRun(t, run) \in Db
  /\ \A a \in Ticket, s \in {"pending", "rejected"} : db \in Db => WithTicket(a, s) \in Db
<1>1. NoRun \in Run
  BY Zenon DEF NoRun, Run, Identity, Token
<1>2. EmptyDb \in Db
  BY Zenon, <1>1 DEF EmptyDb, Db
<1>3. ASSUME NEW t \in Task, NEW run \in Run, db \in Db PROVE WithRun(t, run) \in Db
  BY Zenon, <1>3 DEF WithRun, Db
<1>4. ASSUME NEW a \in Ticket, NEW s \in {"pending", "rejected"}, db \in Db PROVE WithTicket(a, s) \in Db
  BY Zenon, <1>4 DEF WithTicket, Db
<1>5. NoRequest.ticket \in Ticket
  BY Zenon, NoRequestTyped DEF Request
<1> QED  BY Zenon, <1>1, <1>2, <1>3, <1>4, <1>5

\* Where saving a record leads to are places.
LEMMA Places == \A at \in DOMAIN AfterSave : AfterSave[at] \in Place /\ OnError[at] \in Place
BY DEF AfterSave, OnError, Place

\* load_file, the truncation and the write of an operation that saves.
LEMMA SaveTyped ==
  ASSUME TypeOK, NEW p \in Thread, NEW new \in Db, NEW ok \in Place, NEW err \in Place,
         Stores(p, new, ok) \/ StoreFails(p, err), dropped' \in {dropped, dropped \cup {TaskOf(p)}},
         UNCHANGED <<held, clone, result, answer, given, approved, refused, effects, deployed>>
  PROVE  TypeOK'
<1>1. text' \in {"empty", "whole", "garbled"} /\ db' \in Db
  BY DEF TypeOK, Stores, StoreFails, file
<1>2. pc' \in [Thread -> Place]
  BY DEF TypeOK, Stores, StoreFails, Go
<1>3. io' \in [Thread -> {"load", "truncate", "write"}]
  BY Zenon DEF TypeOK, Stores, StoreFails, Go
<1>4. buf' \in [Thread -> Db]
  BY Documents DEF TypeOK, Stores, StoreFails
<1>5. faults' \in Nat
  BY DEF TypeOK, Stores, StoreFails, file
<1>6. dropped' \subseteq Task
  <2>1. TaskOf(p) \in Task
    BY Zenon DEF TypeOK, TaskOf, Request, Ticket
  <2> QED  BY Zenon, <2>1 DEF TypeOK
<1> QED  BY Zenon, <1>1, <1>2, <1>3, <1>4, <1>5, <1>6 DEF TypeOK, given

\* An answer forgets the request.
LEMMA AnswerTyped ==
  ASSUME TypeOK, NEW p \in Thread, NEW what \in Answers, Answer(p, what), refused' \subseteq Task,
         UNCHANGED deployed
  PROVE  TypeOK'
<1>1. pc' \in [Thread -> Place] /\ io' \in [Thread -> {"load", "truncate", "write"}]
  BY Zenon DEF TypeOK, Answer, Go, Place
<1>2. req' \in [Thread -> Request] /\ held' \in [Thread -> Ticket] /\ clone' \in [Thread -> Run]
  BY Zenon, Documents, NoRequestTyped DEF TypeOK, Answer
<1>3. result' \in [Thread -> {"needs_input", "completed", "failed"}] /\ answer' \in [Thread -> Answers]
  BY Zenon DEF TypeOK, Answer, Answers
<1> QED  BY Zenon, <1>1, <1>2, <1>3 DEF TypeOK, Answer, file, Answers

\* A read moves the thread on.
LEMMA ReadTyped ==
  ASSUME TypeOK, NEW p \in Thread, NEW at \in Place, Read(p, at)
  PROVE  /\ UNCHANGED <<text, db, faults, req, delivered, tokened, decisions, crashes, overlapped>>
         /\ pc' \in [Thread -> Place] /\ io' \in [Thread -> {"load", "truncate", "write"}]
BY Zenon DEF TypeOK, Read, Go, file, given

\* The identity of a request.
LEMMA FromTyped == \A p \in Thread : req[p] \in Request => From(p) \in Identity
BY Zenon DEF From, Request, Identity

\* The operations of a turn and of a decision that save.
LEMMA SavesTyped ==
  ASSUME TypeOK, NEW p \in Thread, UNCHANGED deployed,
         \/ SaveOther(p) \/ begin_task_run(p) \/ save_approval(p) \/ resolve_pending_approvals(p)
         \/ finish_task_run(p) \/ update_approval_status(p) \/ RejectRun(p)
  PROVE  TypeOK'
<1>1. /\ db \in Db /\ req[p] \in Request /\ req[p].ticket \in Ticket /\ TaskOf(p) \in Task /\ held[p] \in Ticket
      /\ clone[p] \in Run /\ result[p] \in {"needs_input", "completed", "failed"}
  BY Zenon DEF TypeOK, TaskOf, Request, Ticket
<1>2. {"begin_step", "fin_run", "fin_step", "respond", "execute", "reject_run", "fail",
       "reject_session", "decision_event"} \subseteq Place
  BY Zenon DEF Place, AfterSave
<1>3. CASE SaveOther(p)
  <2>1. AfterSave[pc[p]] \in Place /\ OnError[pc[p]] \in Place
    BY Zenon, <1>3, Places DEF SaveOther
  <2> QED  BY Zenon, <1>1, <1>3, <2>1, SaveTyped DEF SaveOther, Save, seen
<1>4. CASE begin_task_run(p)
  <2>1. [status |-> "running", from |-> From(p)] \in Run
    BY Zenon, <1>1, FromTyped DEF Run
  <2> QED  BY Zenon, <1>1, <1>2, <1>4, <2>1, Documents, SaveTyped DEF begin_task_run
<1>5. CASE save_approval(p)
  BY Zenon, <1>1, <1>2, <1>5, Documents, SaveTyped DEF save_approval, Save, seen
<1>6. CASE resolve_pending_approvals(p)
  <2> DEFINE d == [db EXCEPT !.tickets = [a \in Ticket |->
                     IF a \in Pending(TaskOf(p)) THEN "approved" ELSE db.tickets[a]]]
  <2>1. d \in Db
    BY Zenon, <1>1 DEF Db
  <2>2. /\ Stores(p, d, "execute") \/ StoreFails(p, "execute")
        /\ dropped' \in {dropped, dropped \cup {TaskOf(p)}}
        /\ UNCHANGED <<held, clone, result, answer, given, approved, refused, effects>>
    BY Zenon, <1>6 DEF resolve_pending_approvals
  <2> HIDE DEF d
  <2> QED  BY Zenon, <1>2, <2>1, <2>2, SaveTyped
<1>7. CASE finish_task_run(p)
  <2>1. [status |-> result[p], from |-> From(p)] \in Run
    BY Zenon, <1>1, FromTyped DEF Run
  <2> QED  BY Zenon, <1>1, <1>2, <1>7, <2>1, Documents, SaveTyped DEF finish_task_run, Save, seen
<1>8. CASE update_approval_status(p)
  <2>1. UNCHANGED <<held, clone, result, answer, given, seen>>
    BY Zenon, <1>8 DEF update_approval_status
  <2>2. CASE Save(p, WithTicket(req[p].ticket, "rejected"), "reject_run", "fail")
    BY Zenon, <1>1, <1>2, <2>1, <2>2, Documents, SaveTyped DEF Save, seen
  <2>3. CASE Read(p, "fail") /\ UNCHANGED buf
    <3>1. /\ UNCHANGED <<text, db, faults, req, delivered, tokened, decisions, crashes, overlapped>>
          /\ pc' \in [Thread -> Place] /\ io' \in [Thread -> {"load", "truncate", "write"}]
      BY Zenon, <1>2, <2>3, ReadTyped
    <3> QED  BY Zenon, <2>1, <2>3, <3>1 DEF TypeOK, seen
  <2> QED  BY Zenon, <1>8, <2>2, <2>3 DEF update_approval_status
<1>9. CASE RejectRun(p)
  <2>1. [clone[p] EXCEPT !.status = "failed"] \in Run
    BY Zenon, <1>1 DEF Run
  <2> QED  BY Zenon, <1>1, <1>2, <1>9, <2>1, Documents, SaveTyped DEF RejectRun, Save, seen
<1> QED  BY Zenon, <1>3, <1>4, <1>5, <1>6, <1>7, <1>8, <1>9

\* The operations that only read, or answer.
LEMMA ReadsTyped ==
  ASSUME TypeOK, GateInv, NEW p \in Thread, UNCHANGED deployed,
         \/ accept_or_replay_task(p) \/ replay_task_response(p) \/ ensure_action_allowed(p)
         \/ Execute(p) \/ Respond(p) \/ load_approval(p) \/ load_approval_context(p)
         \/ load_decided(p) \/ load_approval_summary(p) \/ Fail(p)
  PROVE  TypeOK'
<1>1. /\ db \in Db /\ req[p] \in Request /\ req[p].ticket \in Ticket /\ TaskOf(p) \in Task
      /\ db.runs[TaskOf(p)] \in Run
      /\ result[p] \in {"needs_input", "completed", "failed"} /\ refused \subseteq Task
  BY Zenon DEF TypeOK, TaskOf, Request, Ticket, Db
<1>2. {"begin_session", "replay", "fin_run", "resolve", "execute", "ticket", "load_decided", "load_run",
       "reject_ticket", "decision_event", "fail"} \subseteq Place
  BY Zenon DEF Place, AfterSave
<1>3. ASSUME NEW what, Answer(p, what), what \in {"error", "conflict", "approve", "reject", result[p]},
             refused' \in {refused, refused \cup {TaskOf(p)}}
      PROVE  TypeOK'
  <2>1. what \in Answers /\ refused' \subseteq Task
    BY Zenon, <1>1, <1>3 DEF Answers
  <2> QED  BY Zenon, <1>3, <2>1, AnswerTyped
<1>4. ASSUME NEW at \in Place, Read(p, at), UNCHANGED <<buf, answer, refused, dropped, deployed>>,
             held' \in [Thread -> Ticket], clone' \in [Thread -> Run],
             result' \in [Thread -> {"needs_input", "completed", "failed"}],
             approved' \in {approved, approved \cup {TaskOf(p)}}, effects' \in [Task -> Nat]
      PROVE  TypeOK'
  BY Zenon, <1>1, <1>4, ReadTyped DEF TypeOK
<1>5. CASE accept_or_replay_task(p)
  <2>1. CASE \E what \in {"error", "conflict"} : Answer(p, what) /\ UNCHANGED refused
    BY Zenon, <1>3, <2>1
  <2>2. CASE Read(p, "begin_session") /\ UNCHANGED <<local, seen>>
    BY Zenon, <1>2, <1>4, <2>2 DEF local, seen, TypeOK
  <2>3. CASE /\ Known(db.runs[TaskOf(p)]) /\ Read(p, "replay")
             /\ result' = [result EXCEPT ![p] = task_status(db.runs[TaskOf(p)])]
             /\ UNCHANGED <<buf, held, clone, answer, seen>>
    <3>1. task_status(db.runs[TaskOf(p)]) \in {"needs_input", "completed", "failed"}
      BY Zenon, <1>1, <2>3 DEF task_status, Known, Run
    <3> QED  BY Zenon, <1>2, <1>4, <2>3, <3>1 DEF seen, TypeOK
  <2> QED  BY Zenon, <1>5, <2>1, <2>2, <2>3 DEF accept_or_replay_task
<1>6. CASE replay_task_response(p) \/ Fail(p)
  BY Zenon, <1>3, <1>6 DEF replay_task_response, Fail
<1>7. CASE ensure_action_allowed(p)
  <2>1. \E at \in {"fin_run", "resolve", "execute", "ticket"} : Read(p, at)
    BY Zenon, <1>7 DEF ensure_action_allowed
  <2>2. result' \in [Thread -> {"needs_input", "completed", "failed"}]
    BY Zenon, <1>7 DEF ensure_action_allowed, TypeOK
  <2>3. held' \in [Thread -> Ticket]
    <3>1. Pending(TaskOf(p)) \subseteq Ticket /\ held \in [Thread -> Ticket]
      BY Zenon DEF Pending, TypeOK
    <3>2. held' = held \/ \E a \in Pending(TaskOf(p)) \cup {req[p].ticket} : held' = [held EXCEPT ![p] = a]
      BY Zenon, <1>7 DEF ensure_action_allowed
    <3> QED  BY Zenon, <1>1, <3>1, <3>2
  <2>4. UNCHANGED <<buf, clone, answer, seen>>
    BY Zenon, <1>7 DEF ensure_action_allowed
  <2> QED  BY Zenon, <1>2, <1>4, <2>1, <2>2, <2>3, <2>4 DEF seen, TypeOK
<1>8. CASE Execute(p)
  <2>1. /\ effects \in [Task -> Nat] /\ result \in [Thread -> {"needs_input", "completed", "failed"}]
        /\ effects' = effects \/ effects' = [effects EXCEPT ![TaskOf(p)] = @ + 1]
        /\ \E status \in {"completed", "failed"} : result' = [result EXCEPT ![p] = status]
    BY Zenon, <1>8 DEF Execute, TypeOK
  <2>2. effects' \in [Task -> Nat]
    BY <1>1, <2>1
  <2>3. result' \in [Thread -> {"needs_input", "completed", "failed"}]
    BY Zenon, <2>1
  <2> QED  BY Zenon, <1>2, <1>4, <1>8, <2>2, <2>3 DEF Execute, TypeOK
<1>9. CASE Respond(p) \/ load_decided(p)
  BY Zenon, <1>2, <1>3, <1>4, <1>9 DEF Respond, load_decided, local, seen, TypeOK
<1>10. CASE load_approval(p)
  BY Zenon, <1>2, <1>3, <1>4, <1>10 DEF load_approval, local, TypeOK
<1>11. CASE load_approval_context(p)
  BY Zenon, <1>1, <1>2, <1>3, <1>4, <1>11 DEF load_approval_context, seen, TypeOK
<1>12. CASE load_approval_summary(p)
  <2>1. req[p].kind \in {"approve", "reject"}
    BY Zenon, <1>1, <1>12 DEF load_approval_summary, GateInv, ThreadOK, Decision, Request
  <2> QED  BY Zenon, <1>3, <1>12, <2>1 DEF load_approval_summary
<1> QED  BY Zenon, <1>5, <1>6, <1>7, <1>8, <1>9, <1>10, <1>11, <1>12

\* Requests, and crashes.
LEMMA OutsideTyped ==
  ASSUME TypeOK, UNCHANGED deployed,
         \/ \E p \in Thread :
              \/ \E t \in Task, token \in deployed.tokens : Deliver(p, t, token)
              \/ \E a \in Ticket, kind \in {"approve", "reject"} : Decide(p, a, kind)
         \/ \E dead \in deployed.processes : Crash(dead)
  PROVE  TypeOK'
<1>1. {"accept", "load_approval", "idle"} \subseteq Place
  BY Zenon DEF Place
<1>2. ASSUME NEW p \in Thread, NEW at \in Place, Go(p, at)
      PROVE  pc' \in [Thread -> Place] /\ io' \in [Thread -> {"load", "truncate", "write"}]
  BY Zenon, <1>2 DEF TypeOK, Go
<1>3. ASSUME NEW p \in Thread, Overlaps(p) PROVE overlapped' \in BOOLEAN
  BY Zenon, <1>3 DEF Overlaps
<1>4. ASSUME NEW p \in Thread, NEW t \in Task, NEW token \in deployed.tokens, Deliver(p, t, token)
      PROVE  TypeOK'
  <2> DEFINE a == <<t, delivered[t] + 1>>
             r == [kind |-> "turn", ticket |-> a, token |-> token]
  <2>1. a \in Ticket /\ delivered' \in [Task -> 0..MaxDeliveries]
    BY <1>4, BoundsAssumption DEF Deliver, TypeOK, Ticket
  <2>2. token \in Token
    BY Zenon, DeploymentAssumption DEF TypeOK, Token, Ticket
  <2>3. req' = [req EXCEPT ![p] = r] /\ Go(p, "accept") /\ Overlaps(p)
        /\ UNCHANGED <<file, local, decisions, crashes, seen>>
    BY Zenon, <1>4 DEF Deliver
  <2>4. tokened' \subseteq Task
    BY Zenon, <1>4 DEF Deliver, TypeOK
  <2> HIDE DEF a
  <2>5. r \in Request
    BY Zenon, <2>1, <2>2 DEF Request
  <2> HIDE DEF r
  <2>6. req' \in [Thread -> Request]
    BY Zenon, <2>3, <2>5 DEF TypeOK
  <2> QED  BY Zenon, <1>1, <1>2, <1>3, <2>1, <2>3, <2>4, <2>6 DEF TypeOK, file, local, seen
<1>5. ASSUME NEW p \in Thread, NEW a \in Ticket, NEW kind \in {"approve", "reject"}, Decide(p, a, kind)
      PROVE  TypeOK'
  <2> DEFINE token == IF kind = "approve" THEN {a} ELSE {}
             r == [kind |-> kind, ticket |-> a, token |-> token]
  <2>1. token \in Token
    BY Zenon DEF Token
  <2>2. req' = [req EXCEPT ![p] = r] /\ Go(p, "load_approval") /\ Overlaps(p)
        /\ UNCHANGED <<file, local, delivered, tokened, crashes, seen>>
    BY Zenon, <1>5 DEF Decide
  <2>3. decisions' \in Nat
    BY <1>5 DEF Decide, TypeOK
  <2> HIDE DEF token
  <2>4. r \in Request
    BY Zenon, <2>1 DEF Request
  <2> HIDE DEF r
  <2>5. req' \in [Thread -> Request]
    BY Zenon, <2>2, <2>4 DEF TypeOK
  <2> QED  BY Zenon, <1>1, <1>2, <1>3, <2>2, <2>3, <2>5 DEF TypeOK, file, local, seen
<1>6. ASSUME NEW dead, Crash(dead) PROVE TypeOK'
  <2>1. text' \in {"empty", "whole", "garbled"} /\ crashes' \in Nat
    BY <1>6 DEF Crash, TypeOK
  <2>2. pc' \in [Thread -> Place] /\ io' \in [Thread -> {"load", "truncate", "write"}]
    BY Zenon, <1>1, <1>6 DEF Crash, TypeOK
  <2>3. buf' \in [Thread -> Db] /\ req' \in [Thread -> Request] /\ held' \in [Thread -> Ticket]
    BY Zenon, <1>6, Documents, NoRequestTyped DEF Crash, TypeOK
  <2>4. clone' \in [Thread -> Run] /\ result' \in [Thread -> {"needs_input", "completed", "failed"}]
    BY Zenon, <1>6, Documents DEF Crash, TypeOK
  <2> QED  BY Zenon, <1>6, <2>1, <2>2, <2>3, <2>4 DEF Crash, TypeOK, seen
<1> QED  BY Zenon, <1>4, <1>5, <1>6

\* The variables of the task turns keep their types, whatever the threads interleave.
THEOREM Typed == Spec => []TypeOK
<1>1. Init => TypeOK
  <2> SUFFICES ASSUME Init PROVE TypeOK
    BY Zenon
  <2>1. faults \in Nat /\ decisions \in Nat /\ crashes \in Nat /\ effects \in [Task -> Nat]
        /\ delivered \in [Task -> 0..MaxDeliveries]
    BY BoundsAssumption DEF Init
  <2>2. pc \in [Thread -> Place]
    BY Zenon DEF Init, Place
  <2> QED  BY Zenon, <2>1, <2>2, Documents, NoRequestTyped, DeploymentAssumption DEF Init, TypeOK
<1>2. TypeOK /\ GateInv /\ [Next]_vars => TypeOK'
  <2> SUFFICES ASSUME TypeOK, GateInv, [Next]_vars PROVE TypeOK'
    BY Zenon
  <2>1. CASE UNCHANGED vars
    BY Zenon, <2>1 DEF vars, file, local, given, seen, TypeOK
  <2>2. CASE Next
    BY Zenon, <2>2, SavesTyped, ReadsTyped, OutsideTyped DEF Next, Handle
  <2> QED  BY Zenon, <2>1, <2>2
<1> QED  BY <1>1, <1>2, GateInvariant, PTL DEF Spec

-----------------------------------------------------------------------------
(* Requests that do not overlap.                                           *)

\* The tasks whose action was executed, these and the ones refused, and the ones none of whose
\* ignored saves failed.
Executed == {t \in Task : effects[t] > 0}
Done == Executed \cup refused
Live == Task \ dropped

\* Nothing is left to do for task t: its run is known and none of its tickets can be decided.
Closed(d, t) == Known(d.runs[t]) /\ \A a \in Ticket : a[1] = t => d.tickets[a] /= "pending"

\* A document closes the tasks that are done, has the run of every ticket, and one ticket at
\* most of a task, which needs it.
DocumentOK(d, done, live) ==
  /\ \A t \in done \cap live : Closed(d, t)
  /\ \A a \in Ticket : a[1] \in live /\ d.tickets[a] /= "none" =>
       Known(d.runs[a[1]]) /\ a[1] \in Guarded
  /\ \A a, b \in Ticket :
       a[1] \in live /\ a[1] = b[1] /\ d.tickets[a] /= "none" /\ d.tickets[b] /= "none" => a = b

NoTicket(d, t) == \A a \in Ticket : a[1] = t => d.tickets[a] = "none"

\* What a thread with request r of a live task relies on at a place, if the file holds document d,
\* last time it was whole, and x is executed: a turn found no run and an approval a pending
\* ticket, until the action is executed; a rejection has closed the task.
Relies(place, r, h, d, x, done) ==
  LET t == r.ticket[1] IN
  /\ place \in {"begin_session", "begin_run", "begin_step", "gate"} =>
       /\ t \notin done
       /\ (r.kind = "turn" /\ NoTicket(d, t)) \/ (r.kind = "approve" /\ d.tickets[r.ticket] = "pending")
  /\ place \in {"begin_step", "gate"} => Known(d.runs[t])
  /\ place = "ticket" =>
       t \notin done /\ t \in Guarded /\ Known(d.runs[t]) /\ h = r.ticket /\ NoTicket(d, t)
  /\ place = "resolve" => t \notin done /\ Known(d.runs[t])
  /\ place = "execute" => t \notin done /\ Closed(d, t)
  /\ place \in {"load_run", "reject_ticket"} => d.tickets[r.ticket] = "pending"
  /\ place \in {"reject_run", "reject_session", "decision_event", "summary"} /\ r.kind = "reject" =>
       t \notin x /\ d.tickets[r.ticket] = "rejected"

At(place, r, h, d, x, done, live) ==
  /\ place = "ticket" => h[1] = r.ticket[1]
  /\ r.ticket[1] \in live => Relies(place, r, h, d, x, done)

\* Where an operation that saves leads to, as far as At asks for something there.
Leads(place) ==
  {ok \in Place : \/ place = "begin_session" /\ ok = "begin_run"
                  \/ place = "begin_run" /\ ok = "begin_step"
                  \/ place = "begin_step" /\ ok = "gate"
                  \/ place = "resolve" /\ ok = "execute"
                  \/ place = "ticket" /\ ok = "fin_run"
                  \/ place \in {"fin_run", "fin_step", "fin_artifacts", "fin_events", "fin_session"}
                     /\ ok \in {"fin_step", "fin_artifacts", "fin_events", "fin_session", "respond"}
                  \/ place = "reject_ticket" /\ ok = "reject_run"
                  \/ place = "reject_run" /\ ok \in {"reject_session", "decision_event"}
                  \/ place = "reject_session" /\ ok = "decision_event"
                  \/ place = "decision_event" /\ ok = "summary"}

\* Where nothing is asked for.
Free == {"idle", "accept", "load_approval", "replay", "fin_run", "fin_step", "fin_artifacts",
         "fin_events", "fin_session", "respond", "load_decided", "fail"}

\* Which requests get where.
KindOK(place, kind) ==
  /\ place = "accept" => kind = "turn"
  /\ place \in {"begin_session", "begin_run", "begin_step", "gate", "ticket", "resolve", "execute",
                "fin_run", "fin_step", "fin_artifacts", "fin_events", "fin_session", "respond",
                "load_decided"} => kind /= "reject"
  /\ place \in {"reject_ticket", "reject_run", "reject_session"} => kind = "reject"

\* The file is as the steps of a save of one thread leave it.
FileOK(tx, step) == (step = "truncate" => tx = "whole") /\ (step = "write" => tx = "empty")

\* A live task is executed once at most, and not at all if its rejection was answered.
OnceOK == \A t \in Live : effects[t] <= 1 /\ (t \in refused => effects[t] = 0)

\* No thread but p serves a request.
Solo(p) ==
  /\ \A q \in Thread \ {p} : pc[q] = "idle" /\ io[q] = "load"
  /\ OnceOK
  /\ FileOK(text, io[p]) /\ KindOK(pc[p], req[p].kind)
  /\ DocumentOK(db, Done, Live) /\ At(pc[p], req[p], held[p], db, Executed, Done, Live)
  /\ io[p] /= "load" =>
       /\ DocumentOK(buf[p], Done, Live) /\ Leads(pc[p]) /= {}
       /\ \A ok \in Leads(pc[p]) : At(ok, req[p], held[p], buf[p], Executed, Done, Live)

SoloInv == ~overlapped => \E p \in Thread : Solo(p)

-----------------------------------------------------------------------------
\* What is executed, refused and dropped is left alone.
LEMMA DoneSame ==
  UNCHANGED <<effects, refused, dropped>> =>
    Executed' = Executed /\ Done' = Done /\ Live' = Live /\ (OnceOK => OnceOK')
BY Zenon DEF Executed, Done, Live, OnceOK

\* At the places of handle_task and of a decision in Free any document will do.
LEMMA FreeAt == \A place \in Free : \A r, h, d, x, done, live : At(place, r, h, d, x, done, live)
<1>1. \A place \in Free :
        /\ place \notin {"begin_session", "begin_run", "begin_step", "gate"}
        /\ place \notin {"begin_step", "gate"} /\ place \notin {"load_run", "reject_ticket"}
        /\ place /= "ticket" /\ place /= "resolve" /\ place /= "execute"
        /\ place \notin {"reject_run", "reject_session", "decision_event", "summary"}
  BY DEF Free
<1>2. \A place \in Free : \A r, h, d, x, done : Relies(place, r, h, d, x, done)
  BY <1>1 DEF Relies
<1> QED  BY Zenon, <1>1, <1>2 DEF At

\* Less is asked of a document and a thread if there are fewer live tasks.
LEMMA FewerLive ==
  ASSUME NEW live, NEW fewer, fewer \subseteq live, NEW d, NEW done
  PROVE  /\ DocumentOK(d, done, live) => DocumentOK(d, done, fewer)
         /\ \A place, r, h, x : At(place, r, h, d, x, done, live) => At(place, r, h, d, x, done, fewer)
<1>1. DocumentOK(d, done, live) => DocumentOK(d, done, fewer)
  BY Zenon DEF DocumentOK
<1>2. \A place, r, h, x : At(place, r, h, d, x, done, live) => At(place, r, h, d, x, done, fewer)
  BY Zenon DEF At
<1> QED  BY Zenon, <1>1, <1>2

\* A step of the thread that serves does not wake another one.
LEMMA OthersIdle ==
  ASSUME TypeOK, NEW p \in Thread, Solo(p), pc' = pc \/ \E at : pc' = [pc EXCEPT ![p] = at],
         io' = io \/ \E step : io' = [io EXCEPT ![p] = step]
  PROVE  \A q \in Thread \ {p} : pc'[q] = "idle" /\ io'[q] = "load"
BY Zenon DEF TypeOK, Solo

\* An operation that saves: the document it writes must be in order, and what the thread
\* relies on after it must hold of that document.
LEMMA SoloStores ==
  ASSUME TypeOK, NEW p \in Thread, Solo(p), NEW new, NEW ok \in Leads(pc[p]),
         Stores(p, new, ok), UNCHANGED <<held, clone, result, answer, given, seen>>,
         KindOK(ok, req[p].kind),
         io[p] = "load" /\ Readable =>
           /\ DocumentOK(new, Done, Live)
           /\ \A to \in Leads(pc[p]) : At(to, req[p], held[p], new, Executed, Done, Live)
  PROVE  Solo(p)'
<1>1. /\ UNCHANGED <<req, held, effects, refused>> /\ Executed' = Executed /\ Done' = Done
      /\ Live' = Live /\ OnceOK'
  BY Zenon, DoneSame DEF given, seen, Solo
<1>2. \A q \in Thread \ {p} : pc'[q] = "idle" /\ io'[q] = "load"
  BY Zenon, OthersIdle DEF Stores, Go
<1>3. CASE io[p] = "load"
  <2>1. /\ Readable /\ buf'[p] = new /\ io'[p] = "truncate" /\ pc' = pc
        /\ text' = "whole" /\ db' = db
    BY Zenon, <1>3 DEF Stores, TypeOK, Readable, file
  <2>2. FileOK(text', io'[p])
    BY Zenon, <2>1 DEF FileOK
  <2> QED  BY Zenon, <1>1, <1>2, <1>3, <2>1, <2>2 DEF Solo
<1>4. CASE io[p] = "truncate"
  <2>1. io'[p] = "write" /\ text' = "empty" /\ db' = db /\ buf' = buf /\ pc' = pc
    BY Zenon, <1>4 DEF Stores, TypeOK
  <2>2. FileOK(text', io'[p])
    BY Zenon, <2>1 DEF FileOK
  <2> QED  BY Zenon, <1>1, <1>2, <1>4, <2>1, <2>2 DEF Solo
<1>5. CASE io[p] = "write"
  <2>1. db' = buf[p] /\ pc'[p] = ok /\ io'[p] = "load"
    BY Zenon, <1>5 DEF Stores, Go, TypeOK
  <2>2. FileOK(text', io'[p])
    BY Zenon, <2>1 DEF FileOK
  <2> QED  BY Zenon, <1>1, <1>2, <1>5, <2>1, <2>2 DEF Solo
<1> QED  BY Zenon, <1>3, <1>4, <1>5 DEF TypeOK

\* An operation that fails to save leaves the document that was whole last; what the thread
\* relies on after it must hold of that one.
LEMMA SoloStoreFails ==
  ASSUME TypeOK, NEW p \in Thread, Solo(p), NEW err, StoreFails(p, err),
         UNCHANGED <<held, clone, result, answer, given, effects, refused>>, dropped \subseteq dropped',
         KindOK(err, req[p].kind), At(err, req[p], held[p], db, Executed, Done, Live')
  PROVE  Solo(p)'
<1>1. /\ UNCHANGED <<req, held, effects, refused, db>> /\ Executed' = Executed /\ Done' = Done
      /\ Live' \subseteq Live /\ pc'[p] = err /\ io'[p] = "load"
  BY Zenon DEF given, Executed, Done, Live, StoreFails, Go, file, TypeOK
<1>2. \A q \in Thread \ {p} : pc'[q] = "idle" /\ io'[q] = "load"
  BY Zenon, OthersIdle DEF StoreFails, Go
<1>3. OnceOK' /\ FileOK(text', io'[p])
  BY Zenon, <1>1 DEF Solo, OnceOK, FileOK
<1>4. DocumentOK(db, Done, Live')
  BY Zenon, <1>1, FewerLive DEF Solo
<1> QED  BY Zenon, <1>1, <1>2, <1>3, <1>4 DEF Solo

\* A step of the thread that serves that leaves the file alone and moves on.
LEMMA SoloMove ==
  ASSUME TypeOK, NEW p \in Thread, Solo(p), NEW at, Go(p, at), UNCHANGED file,
         io[p] = "load", OnceOK', KindOK(at, req'[p].kind), DocumentOK(db, Done', Live'),
         At(at, req'[p], held'[p], db, Executed', Done', Live')
  PROVE  Solo(p)'
<1>1. pc'[p] = at /\ io'[p] = "load" /\ text' = text /\ db' = db
  BY Zenon DEF Go, TypeOK, file
<1>2. \A q \in Thread \ {p} : pc'[q] = "idle" /\ io'[q] = "load"
  BY Zenon, OthersIdle DEF Go
<1>3. FileOK(text', io'[p])
  BY Zenon, <1>1 DEF FileOK
<1> QED  BY Zenon, <1>1, <1>2, <1>3 DEF Solo

\* An answer, ...
LEMMA SoloAnswer ==
  ASSUME TypeOK, NEW p \in Thread, Solo(p), NEW what, Answer(p, what), io[p] = "load",
         OnceOK', DocumentOK(db, Done', Live')
  PROVE  Solo(p)'
<1>1. UNCHANGED file /\ Go(p, "idle")
  BY Zenon DEF Answer
<1>2. KindOK("idle", req'[p].kind) /\ At("idle", req'[p], held'[p], db, Executed', Done', Live')
  BY Zenon, FreeAt DEF KindOK, Free
<1> QED  BY Zenon, <1>1, <1>2, SoloMove

\* ... one that refuses nothing, ...
LEMMA SoloAnswerOnly ==
  ASSUME TypeOK, NEW p \in Thread, Solo(p), NEW what, Answer(p, what), io[p] = "load", UNCHANGED refused
  PROVE  Solo(p)'
<1>1. UNCHANGED <<effects, refused, dropped>>
  BY Zenon DEF Answer
<1>2. DocumentOK(db, Done', Live') /\ OnceOK'
  BY Zenon, <1>1, DoneSame DEF Solo
<1> QED  BY Zenon, <1>2, SoloAnswer

\* ... and a read.
LEMMA SoloRead ==
  ASSUME TypeOK, NEW p \in Thread, Solo(p), NEW at, Read(p, at), io[p] = "load",
         UNCHANGED <<effects, refused, dropped>>, KindOK(at, req[p].kind),
         At(at, req[p], held'[p], db, Executed, Done, Live)
  PROVE  Solo(p)'
<1>1. Go(p, at) /\ UNCHANGED <<file, req>>
  BY Zenon DEF Read, given
<1>2. Executed' = Executed /\ Done' = Done /\ Live' = Live /\ OnceOK' /\ DocumentOK(db, Done', Live')
  BY Zenon, DoneSame DEF Solo
<1> QED  BY Zenon, <1>1, <1>2, SoloMove

-----------------------------------------------------------------------------
(* The documents that are written.                                         *)

\* A run that is known, in place of any other.
LEMMA RunStored ==
  ASSUME db \in Db, NEW done \in SUBSET Task, NEW live, DocumentOK(db, done, live),
         NEW t \in Task, NEW run \in Run, Known(run)
  PROVE  /\ DocumentOK(WithRun(t, run), done, live) /\ Known(WithRun(t, run).runs[t])
         /\ WithRun(t, run).tickets = db.tickets
<1> DEFINE d == WithRun(t, run)
<1>1. /\ d.tickets = db.tickets
      /\ \A u \in Task : d.runs[u] = IF u = t THEN run ELSE db.runs[u]
  BY Zenon DEF WithRun, Db
<1>2. \A a \in Ticket : a[1] \in Task
  BY Zenon DEF Ticket
<1> HIDE DEF d
<1>3. DocumentOK(d, done, live)
  <2>1. \A u \in Task : Known(db.runs[u]) => Known(d.runs[u])
    BY Zenon, <1>1
  <2> QED  BY Zenon, <1>1, <1>2, <2>1 DEF DocumentOK, Closed
<1> QED  BY Zenon, <1>1, <1>3 DEF d

\* The first ticket of a task with a run, pending.
LEMMA TicketStored ==
  ASSUME db \in Db, NEW done \in SUBSET Task, NEW live, DocumentOK(db, done, live), NEW a \in Ticket,
         a[1] \in live => a[1] \notin done /\ a[1] \in Guarded /\ Known(db.runs[a[1]]) /\ NoTicket(db, a[1])
  PROVE  DocumentOK(WithTicket(a, "pending"), done, live)
<1> DEFINE d == WithTicket(a, "pending")
<1>1. /\ d.runs = db.runs
      /\ \A b \in Ticket : d.tickets[b] = IF b = a THEN "pending" ELSE db.tickets[b]
  BY Zenon DEF WithTicket, Db
<1> HIDE DEF d
<1>2. DocumentOK(d, done, live)
  BY Zenon, <1>1 DEF DocumentOK, Closed, NoTicket
<1> QED  BY Zenon, <1>2 DEF d

\* A pending ticket, rejected.
LEMMA TicketRejected ==
  ASSUME db \in Db, NEW done \in SUBSET Task, NEW live, DocumentOK(db, done, live), NEW a \in Ticket,
         a[1] \in live => db.tickets[a] = "pending"
  PROVE  /\ DocumentOK(WithTicket(a, "rejected"), done, live)
         /\ WithTicket(a, "rejected").tickets[a] = "rejected"
<1> DEFINE d == WithTicket(a, "rejected")
<1>1. /\ d.runs = db.runs
      /\ \A b \in Ticket : d.tickets[b] = IF b = a THEN "rejected" ELSE db.tickets[b]
  BY Zenon DEF WithTicket, Db
<1> HIDE DEF d
<1>2. DocumentOK(d, done, live)
  BY Zenon, <1>1 DEF DocumentOK, Closed
<1> QED  BY Zenon, <1>1, <1>2 DEF d

\* The pending tickets of a task, approved.
LEMMA TicketsApproved ==
  ASSUME db \in Db, NEW done \in SUBSET Task, NEW live, DocumentOK(db, done, live), NEW t \in Task,
         NEW S, S = {b \in Ticket : b[1] = t /\ db.tickets[b] = "pending"},
         NEW d, d = [db EXCEPT !.tickets = [b \in Ticket |-> IF b \in S THEN "approved" ELSE db.tickets[b]]]
  PROVE  DocumentOK(d, done, live) /\ (Known(db.runs[t]) => Closed(d, t))
<1>1. /\ d.runs = db.runs
      /\ \A b \in Ticket : d.tickets[b] = IF b \in S THEN "approved" ELSE db.tickets[b]
  BY Zenon DEF Db
<1>2. DocumentOK(d, done, live)
  <2>1. \A b \in Ticket : d.tickets[b] /= "none" => db.tickets[b] /= "none"
    BY Zenon, <1>1
  <2>2. \A b \in Ticket : d.tickets[b] = "pending" => db.tickets[b] = "pending"
    BY Zenon, <1>1
  <2> QED  BY Zenon, <1>1, <2>1, <2>2 DEF DocumentOK, Closed
<1>3. Known(db.runs[t]) => Closed(d, t)
  <2>1. \A b \in Ticket : b[1] = t /\ b \notin S => d.tickets[b] /= "pending"
    BY Zenon, <1>1
  <2>2. \A b \in Ticket : b \in S => d.tickets[b] /= "pending"
    <3>1. "approved" /= "pending"
      OBVIOUS
    <3>2. \A b \in Ticket : b \in S => d.tickets[b] = "approved"
      BY Zenon, <1>1
    <3> QED  BY Zenon, <3>1, <3>2
  <2> QED  BY Zenon, <1>1, <2>1, <2>2 DEF Closed
<1> QED  BY Zenon, <1>2, <1>3

-----------------------------------------------------------------------------
(* The steps.                                                              *)

\* Saving a record leads on, and not to where the request does not belong.
LEMMA SavingLeads ==
  \A at \in DOMAIN AfterSave :
    /\ AfterSave[at] \in Leads(at) /\ \A kind : KindOK(at, kind) => KindOK(AfterSave[at], kind)
    /\ \A kind : KindOK(at, kind) => KindOK(OnError[at], kind)
    /\ OnError[at] \in Free \/ (OnError[at] = AfterSave[at] /\ at \in {"begin_session", "begin_step"})
BY DEF AfterSave, OnError, Leads, KindOK, Place, Free

\* The operations that save.
LEMMA SoloSaves ==
  ASSUME TypeOK, NEW p \in Thread, Solo(p),
         \/ SaveOther(p) \/ begin_task_run(p) \/ save_approval(p) \/ resolve_pending_approvals(p)
         \/ finish_task_run(p) \/ update_approval_status(p) \/ RejectRun(p)
  PROVE  Solo(p)'
<1>1. /\ db \in Db /\ Done \in SUBSET Task /\ DocumentOK(db, Done, Live)
      /\ At(pc[p], req[p], held[p], db, Executed, Done, Live) /\ KindOK(pc[p], req[p].kind)
      /\ TaskOf(p) = req[p].ticket[1] /\ TaskOf(p) \in Task /\ req[p].ticket \in Ticket
      /\ clone[p] \in Run /\ result[p] \in {"needs_input", "completed", "failed"} /\ held[p] \in Ticket
      /\ req[p] \in Request
  BY Zenon DEF TypeOK, Solo, Done, Executed, TaskOf, Request, Ticket
<1>2. ASSUME NEW new, NEW ok \in Leads(pc[p]), NEW err \in Free, Save(p, new, ok, err),
             UNCHANGED <<held, clone, result, answer, given, seen>>,
             KindOK(ok, req[p].kind), KindOK(err, req[p].kind),
             io[p] = "load" /\ Readable =>
               /\ DocumentOK(new, Done, Live)
               /\ \A to \in Leads(pc[p]) : At(to, req[p], held[p], new, Executed, Done, Live)
      PROVE  Solo(p)'
  <2>1. CASE Stores(p, new, ok)
    BY Zenon, <1>2, <2>1, SoloStores
  <2>2. CASE StoreFails(p, err)
    <3>1. At(err, req[p], held[p], db, Executed, Done, Live')
      BY Zenon, <1>2, FreeAt
    <3> QED  BY Zenon, <1>2, <2>2, <3>1, SoloStoreFails DEF seen
  <2> QED  BY Zenon, <1>2, <2>1, <2>2 DEF Save
<1>3. CASE SaveOther(p)
  <2>1. /\ AfterSave[pc[p]] \in Leads(pc[p]) /\ KindOK(AfterSave[pc[p]], req[p].kind)
        /\ KindOK(OnError[pc[p]], req[p].kind) /\ pc[p] \in DOMAIN AfterSave
    BY Zenon, <1>1, <1>3, SavingLeads DEF SaveOther
  <2>2. ASSUME NEW to \in Leads(pc[p]) PROVE At(to, req[p], held[p], db, Executed, Done, Live)
    BY Zenon, <1>1, <1>3, <2>2 DEF SaveOther, AfterSave, At, Relies, Leads
  <2>3. CASE OnError[pc[p]] \in Free
    BY Zenon, <1>1, <1>2, <1>3, <2>1, <2>2, <2>3 DEF SaveOther
  <2>4. CASE OnError[pc[p]] = AfterSave[pc[p]]
    <3>1. Stores(p, db, AfterSave[pc[p]]) \/ StoreFails(p, OnError[pc[p]])
      BY Zenon, <1>3 DEF SaveOther, Save
    <3>2. UNCHANGED <<held, clone, result, answer, given, seen>> /\ Live' = Live
      BY Zenon, <1>3 DEF SaveOther, seen, Live
    <3>3. CASE Stores(p, db, AfterSave[pc[p]])
      BY Zenon, <1>1, <2>1, <2>2, <3>2, <3>3, SoloStores
    <3>4. CASE StoreFails(p, OnError[pc[p]])
      <4>1. At(OnError[pc[p]], req[p], held[p], db, Executed, Done, Live')
        BY Zenon, <2>1, <2>2, <2>4, <3>2
      <4> QED  BY Zenon, <2>1, <3>2, <3>4, <4>1, SoloStoreFails DEF seen
    <3> QED  BY Zenon, <3>1, <3>3, <3>4
  <2> QED  BY Zenon, <2>1, <2>3, <2>4, SavingLeads
<1>4. CASE begin_task_run(p)
  <2> DEFINE run == [status |-> "running", from |-> From(p)]
             d   == WithRun(TaskOf(p), run)
  <2>1. run \in Run /\ Known(run)
    BY Zenon, <1>1, FromTyped DEF Run, Known
  <2>2. DocumentOK(d, Done, Live) /\ Known(d.runs[TaskOf(p)]) /\ d.tickets = db.tickets
    BY Zenon, <1>1, <2>1, RunStored
  <2>3. /\ \/ Stores(p, d, "begin_step") /\ UNCHANGED dropped
           \/ StoreFails(p, "begin_step") /\ dropped' = dropped \cup {TaskOf(p)}
        /\ pc[p] = "begin_run"
        /\ UNCHANGED <<held, clone, result, answer, given, approved, refused, effects>>
    BY Zenon, <1>4 DEF begin_task_run
  <2> HIDE DEF run, d
  <2>4. ASSUME NEW to \in Leads(pc[p]) PROVE At(to, req[p], held[p], d, Executed, Done, Live)
    BY Zenon, <1>1, <2>2, <2>3, <2>4 DEF At, Relies, NoTicket, Leads
  <2>5. "begin_step" \in Leads(pc[p]) /\ KindOK("begin_step", req[p].kind)
    BY Zenon, <1>1, <2>3 DEF Place, AfterSave, Leads, KindOK
  <2>6. CASE Stores(p, d, "begin_step") /\ UNCHANGED dropped
    BY Zenon, <2>2, <2>3, <2>4, <2>5, <2>6, SoloStores DEF seen
  <2>7. CASE StoreFails(p, "begin_step") /\ dropped' = dropped \cup {TaskOf(p)}
    <3>1. At("begin_step", req[p], held[p], db, Executed, Done, Live')
      BY Zenon, <1>1, <2>7 DEF At, Live
    <3> QED  BY Zenon, <2>3, <2>5, <2>7, <3>1, SoloStoreFails
  <2> QED  BY Zenon, <2>3, <2>6, <2>7
<1>5. CASE save_approval(p)
  <2> DEFINE d == WithTicket(held[p], "pending")
  <2>1. /\ Save(p, d, "fin_run", "fin_run") /\ pc[p] = "ticket"
        /\ UNCHANGED <<held, clone, result, answer, given, seen>>
    BY Zenon, <1>5 DEF save_approval
  <2>2. held[p][1] = TaskOf(p)
    BY Zenon, <1>1, <2>1 DEF At
  <2>3. TaskOf(p) \in Live => /\ TaskOf(p) \notin Done /\ TaskOf(p) \in Guarded
                              /\ Known(db.runs[TaskOf(p)]) /\ NoTicket(db, TaskOf(p))
    BY Zenon, <1>1, <2>1 DEF At, Relies
  <2>4. DocumentOK(d, Done, Live)
    BY Zenon, <1>1, <2>2, <2>3, TicketStored
  <2> HIDE DEF d
  <2>5. ASSUME NEW to \in Leads(pc[p]) PROVE At(to, req[p], held[p], d, Executed, Done, Live)
    BY Zenon, <2>1, <2>5, FreeAt DEF Leads, Free
  <2>6. "fin_run" \in Leads(pc[p]) /\ KindOK("fin_run", req[p].kind) /\ "fin_run" \in Free
    BY Zenon, <1>1, <2>1 DEF Place, Leads, KindOK, Free
  <2> QED  BY Zenon, <1>2, <2>1, <2>4, <2>5, <2>6
<1>6. CASE resolve_pending_approvals(p)
  <2> DEFINE S == Pending(TaskOf(p))
             d == [db EXCEPT !.tickets = [a \in Ticket |-> IF a \in S THEN "approved" ELSE db.tickets[a]]]
  <2>1. /\ \/ Stores(p, d, "execute") /\ UNCHANGED dropped
           \/ StoreFails(p, "execute") /\ dropped' = dropped \cup {TaskOf(p)}
        /\ pc[p] = "resolve"
        /\ UNCHANGED <<held, clone, result, answer, given, approved, refused, effects>>
    BY Zenon, <1>6 DEF resolve_pending_approvals
  <2>2. TaskOf(p) \in Live => TaskOf(p) \notin Done /\ Known(db.runs[TaskOf(p)])
    BY Zenon, <1>1, <2>1 DEF At, Relies
  <2>3. ASSUME Readable
        PROVE  DocumentOK(d, Done, Live) /\ (Known(db.runs[TaskOf(p)]) => Closed(d, TaskOf(p)))
    <3>1. S = {b \in Ticket : b[1] = TaskOf(p) /\ db.tickets[b] = "pending"}
      BY Zenon, <2>3 DEF Pending
    <3> HIDE DEF S
    <3> QED  BY Zenon, <1>1, <3>1, TicketsApproved
  <2> HIDE DEF S, d
  <2>4. ASSUME Readable, NEW to \in Leads(pc[p])
        PROVE  At(to, req[p], held[p], d, Executed, Done, Live)
    <3>1. to = "execute"
      BY Zenon, <2>1, <2>4 DEF Leads
    <3> QED  BY Zenon, <1>1, <2>2, <2>3, <2>4, <3>1 DEF At, Relies
  <2>5. "execute" \in Leads(pc[p]) /\ KindOK("execute", req[p].kind)
    BY Zenon, <1>1, <2>1 DEF Place, Leads, KindOK
  <2>6. CASE Stores(p, d, "execute") /\ UNCHANGED dropped
    BY Zenon, <2>1, <2>3, <2>4, <2>5, <2>6, SoloStores DEF seen
  <2>7. CASE StoreFails(p, "execute") /\ dropped' = dropped \cup {TaskOf(p)}
    <3>1. At("execute", req[p], held[p], db, Executed, Done, Live')
      BY Zenon, <1>1, <2>7 DEF At, Live
    <3> QED  BY Zenon, <2>1, <2>5, <2>7, <3>1, SoloStoreFails
  <2> QED  BY Zenon, <2>1, <2>6, <2>7
<1>7. CASE finish_task_run(p)
  <2> DEFINE run == [status |-> result[p], from |-> From(p)]
             d   == WithRun(TaskOf(p), run)
  <2>1. run \in Run /\ Known(run)
    BY Zenon, <1>1, FromTyped DEF Run, Known
  <2>2. DocumentOK(d, Done, Live)
    BY Zenon, <1>1, <2>1, RunStored
  <2>3. /\ Save(p, d, "fin_step", "respond") /\ pc[p] = "fin_run"
        /\ UNCHANGED <<held, clone, result, answer, given, seen>>
    BY Zenon, <1>7 DEF finish_task_run
  <2> HIDE DEF run, d
  <2>4. ASSUME NEW to \in Leads(pc[p]) PROVE At(to, req[p], held[p], d, Executed, Done, Live)
    BY Zenon, <2>3, <2>4, FreeAt DEF Leads, Free
  <2>5. /\ "fin_step" \in Leads(pc[p]) /\ KindOK("fin_step", req[p].kind)
        /\ "respond" \in Free /\ KindOK("respond", req[p].kind)
    BY Zenon, <1>1, <2>3 DEF Place, AfterSave, Leads, KindOK, Free
  <2> QED  BY Zenon, <1>2, <2>2, <2>3, <2>4, <2>5
<1>8. CASE update_approval_status(p)
  <2> DEFINE d == WithTicket(req[p].ticket, "rejected")
  <2>1. pc[p] = "reject_ticket" /\ UNCHANGED <<held, clone, result, answer, given, seen>>
    BY Zenon, <1>8 DEF update_approval_status
  <2>2. (TaskOf(p) \in Live => db.tickets[req[p].ticket] = "pending") /\ req[p].kind = "reject"
    BY Zenon, <1>1, <2>1 DEF At, Relies, KindOK
  <2>3. "fail" \in Free /\ KindOK("fail", req[p].kind)
    BY Zenon DEF Free, KindOK
  <2>4. CASE io[p] = "load" /\ Read(p, "fail")
    <3>1. At("fail", req[p], held'[p], db, Executed, Done, Live)
      BY Zenon, <2>3, FreeAt
    <3> QED  BY Zenon, <2>1, <2>3, <2>4, <3>1, SoloRead DEF seen
  <2>5. CASE Save(p, d, "reject_run", "fail")
    <3>1. DocumentOK(d, Done, Live) /\ d.tickets[req[p].ticket] = "rejected"
      BY Zenon, <1>1, <2>2, TicketRejected
    <3>2. TaskOf(p) \in Live => TaskOf(p) \notin Executed
      BY Zenon, <1>1, <2>2 DEF DocumentOK, Closed, Done
    <3> HIDE DEF d
    <3>3. ASSUME NEW to \in Leads(pc[p]) PROVE At(to, req[p], held[p], d, Executed, Done, Live)
      <4>1. to = "reject_run"
        BY Zenon, <2>1, <3>3 DEF Leads
      <4> QED  BY Zenon, <1>1, <3>1, <3>2, <4>1 DEF At, Relies
    <3>4. "reject_run" \in Leads(pc[p]) /\ KindOK("reject_run", req[p].kind)
      BY Zenon, <2>1, <2>2 DEF Place, Leads, KindOK
    <3> QED  BY Zenon, <1>2, <2>1, <2>3, <2>5, <3>1, <3>3, <3>4
  <2> QED  BY Zenon, <1>8, <2>4, <2>5 DEF update_approval_status
<1>9. CASE RejectRun(p)
  <2> DEFINE run == [clone[p] EXCEPT !.status = "failed"]
             d   == WithRun(TaskOf(p), run)
  <2>1. run \in Run /\ Known(run)
    BY Zenon, <1>1 DEF Run, Known
  <2>2. DocumentOK(d, Done, Live) /\ d.tickets = db.tickets
    BY Zenon, <1>1, <2>1, RunStored
  <2>3. PICK ok \in {"reject_session", "decision_event"} : Save(p, d, ok, "fail")
    BY Zenon, <1>9 DEF RejectRun
  <2>4. pc[p] = "reject_run" /\ UNCHANGED <<held, clone, result, answer, given, seen>>
    BY Zenon, <1>9 DEF RejectRun
  <2> HIDE DEF run, d
  <2>5. ASSUME NEW to \in Leads(pc[p]) PROVE At(to, req[p], held[p], d, Executed, Done, Live)
    BY Zenon, <1>1, <2>2, <2>4, <2>5 DEF At, Relies, Leads
  <2>6. ok \in Leads(pc[p]) /\ KindOK(ok, req[p].kind) /\ "fail" \in Free /\ KindOK("fail", req[p].kind)
    BY Zenon, <1>1, <2>4 DEF Place, AfterSave, Leads, KindOK, Free
  <2> QED  BY Zenon, <1>2, <2>2, <2>3, <2>4, <2>5, <2>6
<1> QED  BY Zenon, <1>3, <1>4, <1>5, <1>6, <1>7, <1>8, <1>9

\* A turn that finds no run finds its task untouched.
LEMMA SoloAccept ==
  ASSUME TypeOK, NEW p \in Thread, Solo(p), accept_or_replay_task(p)
  PROVE  Solo(p)'
<1>1. pc[p] = "accept" /\ io[p] = "load" /\ req[p].kind = "turn" /\ TaskOf(p) \in Task
  BY Zenon DEF accept_or_replay_task, Solo, Leads, KindOK, TypeOK, TaskOf, Request, Ticket
<1>2. CASE \E what : Answer(p, what) /\ UNCHANGED refused
  BY Zenon, <1>1, <1>2, SoloAnswerOnly
<1>3. CASE Readable /\ ~Known(db.runs[TaskOf(p)]) /\ Read(p, "begin_session") /\ UNCHANGED <<local, seen>>
  <2>1. TaskOf(p) \in Live => TaskOf(p) \notin Done /\ NoTicket(db, TaskOf(p))
    BY Zenon, <1>1, <1>3 DEF Solo, DocumentOK, Closed, NoTicket
  <2>2. At("begin_session", req[p], held'[p], db, Executed, Done, Live)
    BY Zenon, <1>1, <2>1 DEF At, Relies, TaskOf
  <2>3. KindOK("begin_session", req[p].kind)
    BY Zenon, <1>1 DEF KindOK
  <2> QED  BY Zenon, <1>1, <1>3, <2>2, <2>3, SoloRead DEF seen
<1>4. CASE Read(p, "replay") /\ UNCHANGED seen
  <2>1. At("replay", req[p], held'[p], db, Executed, Done, Live) /\ KindOK("replay", req[p].kind)
    BY Zenon, FreeAt DEF Free, KindOK
  <2> QED  BY Zenon, <1>1, <1>4, <2>1, SoloRead DEF seen
<1> QED  BY Zenon, <1>2, <1>3, <1>4 DEF accept_or_replay_task

\* The gate: an approval finds the one ticket of its task pending, if it can read the file, and a
\* turn no ticket.
LEMMA SoloGate ==
  ASSUME TypeOK, GateInv, NEW p \in Thread, Solo(p), ensure_action_allowed(p)
  PROVE  Solo(p)'
<1> DEFINE Firsts == IF Pending(TaskOf(p)) = {} THEN {{}} ELSE {{a} : a \in Pending(TaskOf(p))}
<1>1. /\ pc[p] = "gate" /\ io[p] = "load"
      /\ req[p].kind \in {"turn", "approve"} /\ TaskOf(p) = req[p].ticket[1]
  BY Zenon DEF ensure_action_allowed, Solo, Leads, KindOK, TypeOK, TaskOf, Request
<1>2. /\ req[p].ticket \in Ticket /\ UNCHANGED <<effects, refused, dropped>>
      /\ req[p].kind = "approve" => req[p].token = {req[p].ticket}
  BY Zenon DEF ensure_action_allowed, TypeOK, Request, seen, GateInv, ThreadOK
<1>3. TaskOf(p) \in Live =>
        /\ TaskOf(p) \notin Done /\ Known(db.runs[TaskOf(p)])
        /\ req[p].kind = "turn" => NoTicket(db, TaskOf(p))
        /\ req[p].kind = "approve" => db.tickets[req[p].ticket] = "pending"
  BY Zenon, <1>1 DEF Solo, At, Relies
<1>4. KindOK("fin_run", req[p].kind) /\ KindOK("resolve", req[p].kind)
      /\ KindOK("execute", req[p].kind) /\ KindOK("ticket", req[p].kind)
  BY Zenon, <1>1 DEF KindOK
<1>5. CASE Read(p, "fin_run")
  <2>1. At("fin_run", req[p], held'[p], db, Executed, Done, Live)
    BY Zenon, FreeAt DEF Free
  <2> QED  BY Zenon, <1>1, <1>2, <1>4, <1>5, <2>1, SoloRead
<1>6. CASE Read(p, "resolve")
  <2>1. At("resolve", req[p], held'[p], db, Executed, Done, Live)
    BY Zenon, <1>1, <1>3 DEF At, Relies
  <2> QED  BY Zenon, <1>1, <1>2, <1>4, <1>6, <2>1, SoloRead
<1>7. CASE Read(p, "execute") /\ (req[p].token = {} \/ TaskOf(p) \notin Guarded)
  <2>1. ASSUME TaskOf(p) \in Live PROVE Closed(db, TaskOf(p))
    <3>1. req[p].kind = "turn"
      <4>1. SUFFICES ASSUME req[p].kind = "approve" PROVE FALSE
        BY Zenon, <1>1
      <4>2. req[p].token /= {} /\ db.tickets[req[p].ticket] /= "none"
        BY Zenon, <1>2, <1>3, <2>1, <4>1
      <4>3. TaskOf(p) \in Guarded
        BY Zenon, <1>1, <1>2, <2>1, <4>2 DEF Solo, DocumentOK
      <4> QED  BY Zenon, <1>7, <4>2, <4>3
    <3> QED  BY Zenon, <1>3, <2>1, <3>1 DEF NoTicket, Closed
  <2>2. At("execute", req[p], held'[p], db, Executed, Done, Live)
    BY Zenon, <1>1, <1>3, <2>1 DEF At, Relies
  <2> QED  BY Zenon, <1>1, <1>2, <1>4, <1>7, <2>2, SoloRead
<1>8. ASSUME NEW first \in Firsts, ~Allows(p, first), Read(p, "ticket"),
             held' \in {[held EXCEPT ![p] = a] : a \in IF first = {} THEN {req[p].ticket} ELSE first}
      PROVE  Solo(p)'
  <2>1. /\ first = {} /\ Pending(TaskOf(p)) = {}
        \/ \E a \in Pending(TaskOf(p)) : first = {a}
    BY Zenon, <1>8
  <2>2. TaskOf(p) \in Guarded
    BY Zenon, <1>8 DEF Allows
  <2>3. held'[p] = req[p].ticket \/ held'[p] \in first
    BY Zenon, <1>8 DEF TypeOK
  <2>4. held'[p][1] = TaskOf(p)
    BY Zenon, <1>1, <2>1, <2>3 DEF Pending
  <2>5. ASSUME TaskOf(p) \in Live PROVE req[p].kind = "turn"
    <3>1. SUFFICES ASSUME req[p].kind = "approve" PROVE FALSE
      BY Zenon, <1>1
    <3>2. ASSUME NEW a \in Pending(TaskOf(p)) PROVE a = req[p].ticket
      <4>1. a \in Ticket /\ a[1] = req[p].ticket[1] /\ db.tickets[a] /= "none"
        BY Zenon, <1>1 DEF Pending
      <4>2. db.tickets[req[p].ticket] /= "none" /\ a[1] \in Live
        BY Zenon, <1>1, <1>3, <2>5, <3>1, <4>1
      <4> QED  BY Zenon, <1>2, <4>1, <4>2 DEF Solo, DocumentOK
    <3>3. first \in {{}, req[p].token} /\ req[p].token /= {}
      BY Zenon, <1>2, <2>1, <3>1, <3>2
    <3> QED  BY Zenon, <1>8, <3>3 DEF Allows
  <2>6. ASSUME TaskOf(p) \in Live PROVE held'[p] = req[p].ticket /\ NoTicket(db, TaskOf(p))
    <3>1. NoTicket(db, TaskOf(p))
      BY Zenon, <1>3, <2>5, <2>6
    <3>2. Pending(TaskOf(p)) = {}
      BY Zenon, <3>1 DEF Pending, NoTicket
    <3> QED  BY Zenon, <2>1, <2>3, <3>1, <3>2
  <2>7. At("ticket", req[p], held'[p], db, Executed, Done, Live)
    BY Zenon, <1>1, <1>3, <2>2, <2>4, <2>6 DEF At, Relies
  <2> QED  BY Zenon, <1>1, <1>2, <1>4, <1>8, <2>7, SoloRead
<1>9. ASSUME NEW first \in Firsts,
             Read(p, IF req[p].token /= {} /\ (TaskOf(p) \in Guarded \/ first /= {})
                     THEN "resolve" ELSE "execute")
      PROVE  Solo(p)'
  BY Zenon, <1>6, <1>7, <1>9
<1> QED  BY Zenon, <1>5, <1>8, <1>9 DEF ensure_action_allowed

\* The action: its task, if live, was not executed before, and there is nothing left that leads
\* to it.
LEMMA SoloExecute ==
  ASSUME TypeOK, NEW p \in Thread, Solo(p), Execute(p)
  PROVE  Solo(p)'
<1>1. /\ pc[p] = "execute" /\ io[p] = "load"
      /\ req[p].kind /= "reject" /\ TaskOf(p) = req[p].ticket[1] /\ TaskOf(p) \in Task
  BY Zenon DEF Execute, Solo, Leads, KindOK, TypeOK, TaskOf, Request, Ticket
<1>2. /\ TaskOf(p) \in Live => TaskOf(p) \notin Done /\ Closed(db, TaskOf(p))
      /\ DocumentOK(db, Done, Live)
  BY Zenon, <1>1 DEF Solo, At, Relies
<1>3. /\ Go(p, "fin_run") /\ UNCHANGED <<file, req, refused, dropped>>
      /\ effects' = effects \/ effects' = [effects EXCEPT ![TaskOf(p)] = @ + 1]
  BY Zenon DEF Execute, Read, given
<1>4. TaskOf(p) \in Live => effects[TaskOf(p)] = 0 /\ TaskOf(p) \notin refused
  BY <1>1, <1>2 DEF Done, Executed, TypeOK
<1>5. \A t \in Live : effects'[t] = effects[t] \/ (t = TaskOf(p) /\ effects'[t] = 1)
  BY <1>1, <1>3, <1>4 DEF TypeOK, Live
<1>6. Live' = Live
  BY Zenon, <1>3 DEF Live
<1>7. OnceOK'
  <2>1. \A t \in Live : effects[t] <= 1 /\ (t \in refused => effects[t] = 0)
    BY Zenon DEF Solo, OnceOK
  <2>2. \A t \in Live : effects'[t] <= 1 /\ (t \in refused => effects'[t] = 0)
    BY <1>4, <1>5, <2>1
  <2> QED  BY Zenon, <1>3, <1>6, <2>2 DEF OnceOK
<1>8. Done' \cap Live \subseteq Done \cup {TaskOf(p)}
  BY Zenon, <1>3, <1>5 DEF Done, Executed
<1>9. DocumentOK(db, Done', Live')
  BY Zenon, <1>2, <1>6, <1>8 DEF DocumentOK
<1>10. KindOK("fin_run", req'[p].kind) /\ At("fin_run", req'[p], held'[p], db, Executed', Done', Live')
  BY Zenon, <1>1, <1>3, FreeAt DEF KindOK, Free
<1> QED  BY Zenon, <1>1, <1>3, <1>7, <1>9, <1>10, SoloMove

\* A decision: what is pending is not done, and what is answered as rejected is closed.
LEMMA SoloDecision ==
  ASSUME TypeOK, GateInv, NEW p \in Thread, Solo(p),
         load_approval(p) \/ load_approval_context(p) \/ load_decided(p) \/ load_approval_summary(p)
  PROVE  Solo(p)'
<1>1. /\ io[p] = "load" /\ req[p].kind \in {"approve", "reject"}
      /\ TaskOf(p) = req[p].ticket[1] /\ TaskOf(p) \in Task /\ req[p].ticket \in Ticket
  BY Zenon DEF load_approval, load_approval_context, load_decided, load_approval_summary, Solo, Leads,
         TypeOK, TaskOf, Request, Ticket, GateInv, ThreadOK, Decision
<1>2. CASE \E what : Answer(p, what) /\ UNCHANGED refused
  BY Zenon, <1>1, <1>2, SoloAnswerOnly
<1>3. ASSUME NEW at, Read(p, at), UNCHANGED <<effects, refused, dropped>>,
             KindOK(at, req[p].kind), At(at, req[p], held'[p], db, Executed, Done, Live)
      PROVE  Solo(p)'
  BY Zenon, <1>1, <1>3, SoloRead
<1>4. CASE load_approval(p) /\ Readable /\ Decidable(req[p].ticket)
  <2>1. KindOK("load_run", req[p].kind) /\ At("load_run", req[p], held'[p], db, Executed, Done, Live)
    BY Zenon, <1>4 DEF KindOK, At, Relies, Decidable
  <2> QED  BY Zenon, <1>3, <1>4, <2>1 DEF load_approval
<1>5. CASE load_approval_context(p) /\ Readable /\ Known(db.runs[TaskOf(p)])
  <2>1. /\ TaskOf(p) \in Live => db.tickets[req[p].ticket] = "pending"
        /\ UNCHANGED <<effects, refused, dropped>>
    BY Zenon, <1>1, <1>5 DEF load_approval_context, Solo, At, Relies, seen
  <2>2. TaskOf(p) \in Live => TaskOf(p) \notin Done
    BY Zenon, <1>1, <2>1 DEF Solo, DocumentOK, Closed
  <2>3. CASE req[p].kind = "approve"
    <3>1. KindOK("begin_session", req[p].kind)
          /\ At("begin_session", req[p], held'[p], db, Executed, Done, Live)
      BY Zenon, <1>1, <2>1, <2>2, <2>3 DEF KindOK, At, Relies
    <3> QED  BY Zenon, <1>3, <1>5, <2>1, <2>3, <3>1 DEF load_approval_context
  <2>4. CASE req[p].kind = "reject"
    <3>1. KindOK("reject_ticket", req[p].kind)
          /\ At("reject_ticket", req[p], held'[p], db, Executed, Done, Live)
      BY Zenon, <1>1, <2>1, <2>4 DEF KindOK, At, Relies
    <3> QED  BY Zenon, <1>3, <1>5, <2>1, <2>4, <3>1 DEF load_approval_context
  <2> QED  BY Zenon, <1>1, <2>3, <2>4
<1>6. CASE load_decided(p)
  <2>1. req[p].kind = "approve" /\ UNCHANGED <<effects, refused, dropped>>
    BY Zenon, <1>1, <1>6 DEF load_decided, Solo, KindOK, seen
  <2>2. ASSUME NEW at \in {"decision_event", "fail"}
        PROVE  KindOK(at, req[p].kind) /\ At(at, req[p], held'[p], db, Executed, Done, Live)
    BY Zenon, <2>1, <2>2 DEF KindOK, At, Relies
  <2>3. \E at \in {"decision_event", "fail"} : Read(p, at)
    BY Zenon, <1>6 DEF load_decided
  <2> QED  BY Zenon, <1>3, <2>1, <2>2, <2>3
<1>7. CASE load_approval_summary(p) /\ Readable /\ Known(db.runs[TaskOf(p)]) /\ req[p].kind = "reject"
  <2>1. /\ Answer(p, "reject") /\ refused' = refused \cup {TaskOf(p)} /\ UNCHANGED <<effects, dropped>>
        /\ Live' = Live
    BY Zenon, <1>7 DEF load_approval_summary, Answer, Live
  <2>2. TaskOf(p) \in Live => TaskOf(p) \notin Executed /\ db.tickets[req[p].ticket] = "rejected"
    BY Zenon, <1>1, <1>7 DEF load_approval_summary, Solo, At, Relies
  <2>3. TaskOf(p) \in Live => Closed(db, TaskOf(p))
    BY Zenon, <1>1, <1>7, <2>2 DEF Solo, DocumentOK, Closed
  <2>4. Done' = Done \cup {TaskOf(p)}
    BY Zenon, <2>1 DEF Done, Executed
  <2>5. DocumentOK(db, Done', Live')
    BY Zenon, <2>1, <2>3, <2>4 DEF Solo, DocumentOK
  <2>6. TaskOf(p) \in Live => effects[TaskOf(p)] = 0
    BY <1>1, <2>2 DEF Executed, TypeOK
  <2>7. OnceOK'
    BY Zenon, <2>1, <2>6 DEF Solo, OnceOK
  <2> QED  BY Zenon, <1>1, <2>1, <2>5, <2>7, SoloAnswer
<1> QED  BY Zenon, <1>1, <1>2, <1>4, <1>5, <1>6, <1>7
         DEF load_approval, load_approval_context, load_approval_summary

\* The other answers.
LEMMA SoloAnswers ==
  ASSUME TypeOK, NEW p \in Thread, Solo(p), replay_task_response(p) \/ Respond(p) \/ Fail(p)
  PROVE  Solo(p)'
<1>1. io[p] = "load"
  BY Zenon DEF replay_task_response, Respond, Fail, Solo, Leads, TypeOK
<1>2. CASE \E what : Answer(p, what) /\ UNCHANGED refused
  BY Zenon, <1>1, <1>2, SoloAnswerOnly
<1>3. CASE pc[p] = "respond" /\ Read(p, "load_decided") /\ UNCHANGED seen
  <2>1. KindOK("load_decided", req[p].kind) /\ At("load_decided", req[p], held'[p], db, Executed, Done, Live)
    BY Zenon, <1>3, FreeAt DEF Solo, KindOK, Free
  <2> QED  BY Zenon, <1>1, <1>3, <2>1, SoloRead DEF seen
<1> QED  BY Zenon, <1>2, <1>3 DEF replay_task_response, Respond, Fail

\* If no thread serves, any of them may be the next.
LEMMA SoloPasses ==
  ASSUME TypeOK, NEW p \in Thread, Solo(p), pc[p] = "idle", NEW q \in Thread
  PROVE  Solo(q)
<1>1. io[p] = "load"
  BY Zenon DEF Solo, Leads
<1>2. pc[q] = "idle" /\ io[q] = "load" /\ \A o \in Thread \ {q} : pc[o] = "idle" /\ io[o] = "load"
  BY Zenon, <1>1 DEF Solo
<1>3. FileOK(text, io[q]) /\ KindOK(pc[q], req[q].kind)
      /\ At(pc[q], req[q], held[q], db, Executed, Done, Live)
  BY Zenon, <1>2, FreeAt DEF FileOK, KindOK, Free
<1> QED  BY Zenon, <1>2, <1>3 DEF Solo

\* A request comes in.
LEMMA SoloRequest ==
  ASSUME TypeOK, NEW p \in Thread, Solo(p),
         \/ \E t \in Task, token \in deployed.tokens : Deliver(p, t, token)
         \/ \E a \in Ticket, kind \in {"approve", "reject"} : Decide(p, a, kind)
  PROVE  Solo(p)'
<1>1. io[p] = "load" /\ UNCHANGED <<file, effects, refused, dropped>>
  BY Zenon DEF Deliver, Decide, Solo, Leads, TypeOK, seen
<1>2. PICK at \in {"accept", "load_approval"} : Go(p, at) /\ (at = "accept" => req'[p].kind = "turn")
  <2>1. CASE \E t \in Task, token \in deployed.tokens : Deliver(p, t, token)
    <3>1. PICK t \in Task, token \in deployed.tokens : Deliver(p, t, token)
      BY Zenon, <2>1
    <3>2. /\ req'[p] = [kind |-> "turn", ticket |-> <<t, delivered[t] + 1>>, token |-> token]
          /\ Go(p, "accept")
      BY Zenon, <3>1 DEF Deliver, TypeOK
    <3>3. req'[p].kind = "turn"
      BY <3>2
    <3> QED  BY Zenon, <3>2, <3>3
  <2>2. CASE \E a \in Ticket, kind \in {"approve", "reject"} : Decide(p, a, kind)
    BY Zenon, <2>2 DEF Decide
  <2> QED  BY Zenon, <2>1, <2>2
<1>3. KindOK(at, req'[p].kind) /\ At(at, req'[p], held'[p], db, Executed', Done', Live')
  BY Zenon, <1>2, FreeAt DEF KindOK, Free
<1>4. DocumentOK(db, Done', Live') /\ OnceOK'
  BY Zenon, <1>1, DoneSame DEF Solo
<1> QED  BY Zenon, <1>1, <1>2, <1>3, <1>4, SoloMove

\* A crash of the process of the thread that serves, or of another process.
LEMMA SoloCrash ==
  ASSUME TypeOK, NEW p \in Thread, Solo(p), NEW dead \in deployed.processes, Crash(dead)
  PROVE  Solo(p)'
<1>1. /\ UNCHANGED <<db, effects, refused, dropped>>
      /\ Executed' = Executed /\ Done' = Done /\ Live' = Live /\ OnceOK'
  BY Zenon, DoneSame DEF Crash, seen, Solo
<1>2. \A q \in Thread \ {p} : pc'[q] = "idle" /\ io'[q] = "load"
  BY Zenon DEF Crash, Solo
<1>3. CASE p \in dead
  <2>1. pc'[p] = "idle" /\ io'[p] = "load"
    BY Zenon, <1>3 DEF Crash
  <2>2. FileOK(text', io'[p]) /\ KindOK(pc'[p], req'[p].kind)
        /\ At(pc'[p], req'[p], held'[p], db', Executed', Done', Live')
    BY Zenon, <2>1, FreeAt DEF FileOK, KindOK, Free
  <2> QED  BY Zenon, <1>1, <1>2, <2>1, <2>2 DEF Solo
<1>4. CASE p \notin dead
  <2>1. pc'[p] = pc[p] /\ io'[p] = io[p] /\ req'[p] = req[p] /\ held'[p] = held[p] /\ buf'[p] = buf[p]
    BY Zenon, <1>4 DEF Crash
  <2>2. dead \subseteq Thread
    BY Zenon, DeploymentAssumption DEF TypeOK
  <2>3. \A q \in dead : io[q] = "load"
    BY Zenon, <1>4, <2>2 DEF Solo
  <2>4. {"garbled" : o \in {q \in dead : io[q] = "write"}} = {}
    BY Zenon, <2>3
  <2>5. text' = text
    BY Zenon, <2>4 DEF Crash
  <2> QED  BY Zenon, <1>1, <1>2, <2>1, <2>5 DEF Solo
<1> QED  BY Zenon, <1>3, <1>4

-----------------------------------------------------------------------------
\* The invariant behind requests of harborbeacon_service, or of assistant_task_api and
\* agent_hub_admin_api, that do not overlap.
THEOREM SoloInvariant == Spec => []SoloInv
<1>1. Init => SoloInv
  <2> SUFFICES ASSUME Init PROVE \E p \in Thread : Solo(p)
    BY Zenon DEF SoloInv
  <2>1. PICK p \in Thread : TRUE
    BY Zenon, ThreadsAssumption
  <2>2. /\ \A q \in Thread : pc[q] = "idle" /\ io[q] = "load"
        /\ Done = {} /\ \A t \in Task : effects[t] = 0
    BY DEF Init, Done, Executed
  <2>3. FileOK(text, io[p]) /\ KindOK(pc[p], req[p].kind)
        /\ At(pc[p], req[p], held[p], db, Executed, Done, Live)
    BY Zenon, <2>2, FreeAt DEF FileOK, KindOK, Free
  <2>4. DocumentOK(db, Done, Live)
    BY Zenon, <2>2 DEF DocumentOK, Init, EmptyDb
  <2>5. OnceOK
    BY <2>2 DEF OnceOK, Live
  <2> QED  BY Zenon, <2>2, <2>3, <2>4, <2>5 DEF Solo
<1>2. SoloInv /\ TypeOK /\ GateInv /\ [Next]_vars => SoloInv'
  <2> SUFFICES ASSUME SoloInv, TypeOK, GateInv, [Next]_vars, ~overlapped'
               PROVE  \E p \in Thread : Solo(p)'
    BY Zenon DEF SoloInv
  <2>1. ~overlapped
    <3>1. CASE UNCHANGED vars
      BY Zenon, <3>1 DEF vars, given
    <3>2. CASE \E p \in Thread : \/ \E t \in Task, token \in deployed.tokens : Deliver(p, t, token)
                                 \/ \E a \in Ticket, kind \in {"approve", "reject"} : Decide(p, a, kind)
      BY Zenon, <3>2 DEF Deliver, Decide, Overlaps
    <3>3. CASE \E p \in Thread : Handle(p)
      <4>1. PICK p \in Thread : Handle(p)
        BY Zenon, <3>3
      <4>2. CASE UNCHANGED given
        BY Zenon, <4>2 DEF given
      <4>3. CASE UNCHANGED overlapped
        BY Zenon, <4>3
      <4>4. CASE \/ SaveOther(p) \/ begin_task_run(p) \/ save_approval(p) \/ resolve_pending_approvals(p)
                 \/ finish_task_run(p) \/ update_approval_status(p) \/ RejectRun(p)
        BY Zenon, <4>2, <4>4 DEF SaveOther, begin_task_run, save_approval, resolve_pending_approvals,
                 finish_task_run, update_approval_status, RejectRun
      <4>5. CASE accept_or_replay_task(p) \/ replay_task_response(p) \/ Respond(p) \/ Fail(p)
        BY Zenon, <4>2, <4>3, <4>5 DEF accept_or_replay_task, replay_task_response, Respond, Fail,
                 Read, Answer
      <4>6. CASE ensure_action_allowed(p) \/ Execute(p)
        BY Zenon, <4>2, <4>6 DEF ensure_action_allowed, Execute, Read
      <4>7. CASE load_approval(p) \/ load_approval_context(p) \/ load_decided(p) \/ load_approval_summary(p)
        BY Zenon, <4>2, <4>3, <4>7 DEF load_approval, load_approval_context, load_decided,
                 load_approval_summary, Read, Answer
      <4> QED  BY Zenon, <4>1, <4>4, <4>5, <4>6, <4>7 DEF Handle
    <3>4. CASE \E dead \in deployed.processes : Crash(dead)
      <4>1. overlapped' = overlapped
        BY Zenon, <3>4 DEF Crash
      <4> QED  BY Zenon, <4>1
    <3> QED  BY Zenon, <3>1, <3>2, <3>3, <3>4 DEF Next
  <2>2. PICK p \in Thread : Solo(p)
    BY Zenon, <2>1 DEF SoloInv
  <2>3. CASE UNCHANGED vars
    <3>1. Solo(p)'
      BY Zenon, <2>2, <2>3, DoneSame DEF vars, file, local, given, seen, Solo
    <3> QED  BY Zenon, <3>1
  <2>4. ASSUME NEW q \in Thread, Handle(q) PROVE Solo(p)'
    <3>1. pc[q] /= "idle"
      BY Zenon, <2>4 DEF Handle, accept_or_replay_task, replay_task_response, SaveOther, AfterSave,
                  begin_task_run, ensure_action_allowed, save_approval, resolve_pending_approvals,
                  Execute, finish_task_run, Respond, load_approval, load_approval_context,
                  update_approval_status, RejectRun, load_decided, load_approval_summary, Fail
    <3>2. q = p
      BY Zenon, <2>2, <3>1 DEF Solo
    <3> QED  BY Zenon, <2>2, <2>4, <3>2, SoloSaves, SoloAccept, SoloGate, SoloExecute, SoloDecision,
                SoloAnswers DEF Handle
  <2>5. ASSUME NEW q \in Thread,
               \/ \E t \in Task, token \in deployed.tokens : Deliver(q, t, token)
               \/ \E a \in Ticket, kind \in {"approve", "reject"} : Decide(q, a, kind)
        PROVE  Solo(q)'
    <3>1. pc[q] = "idle" /\ \A o \in Thread \ {q} : pc[o] = "idle"
      BY Zenon, <2>5 DEF Deliver, Decide, Overlaps
    <3>2. Solo(q)
      BY Zenon, <2>2, <3>1, SoloPasses
    <3> QED  BY Zenon, <2>5, <3>2, SoloRequest
  <2>6. ASSUME NEW dead \in deployed.processes, Crash(dead) PROVE Solo(p)'
    BY Zenon, <2>2, <2>6, SoloCrash
  <2> QED  BY Zenon, <2>2, <2>3, <2>4, <2>5, <2>6 DEF Next
<1> QED  BY <1>1, <1>2, Typed, GateInvariant, PTL DEF Spec

\* As long as requests do not overlap, the action of a task is executed once at most, whatever is
\* delivered again, decided, or lost in a crash, unless begin_task_tracking or
\* resolve_pending_approvals failed to save and handle_task went on.
THEOREM ServedOnce == Spec => []SequentialOnce
<1>1. SoloInv => SequentialOnce
  BY Zenon DEF SoloInv, Solo, OnceOK, Live, SequentialOnce
<1> QED  BY <1>1, SoloInvariant, PTL

\* As long as requests do not overlap, a task whose rejection was answered to the operator is not
\* executed, before or after, unless begin_task_tracking or resolve_pending_approvals failed to
\* save and handle_task went on.
THEOREM RefusedNeverRuns == Spec => []RejectedNeverRuns
<1>1. TypeOK /\ SoloInv => RejectedNeverRuns
  BY Zenon DEF SoloInv, Solo, OnceOK, Live, RejectedNeverRuns, TypeOK
<1> QED  BY <1>1, Typed, SoloInvariant, PTL
=============================================================================
