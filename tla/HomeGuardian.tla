---------------------------- MODULE HomeGuardian ----------------------------
(***************************************************************************)
(* The Home Guardian of the admin service: local vision events are stored, *)
(* offered to a bounded queue, and evaluated against an operator's rule by *)
(* one worker; operators evaluate the rule against the newest event on     *)
(* threads of their own, enable and disable it, and propose it again.      *)
(*                                                                         *)
(* One rule and its action plan; a step is one read or write of the admin  *)
(* state, one critical section of an in-memory table, or one call of an    *)
(* action.  The clock counts abstract units.  A save of the admin state    *)
(* changes its fingerprint (length and modification time in milliseconds); *)
(* loads succeed, and fewer than fifty runs of the rule are kept.  Load    *)
(* and save within one operation of the store are one step: what           *)
(* overlapping saves do to the document is the matter of AdminStateFile.   *)
(***************************************************************************)
EXTENDS Integers, Sequences, Functions

CONSTANTS
    Events,       \* event identities
    Cameras,
    CameraOf,     \* the camera of each event
    Matching,     \* the events the rule's trigger matches
    Plan,         \* the action keys of the rule's action plan, in order
    Desks,        \* HTTP threads on which operators evaluate the rule
    Operators,    \* HTTP threads that change the rule
    Capacity,     \* HOME_GUARDIAN_EVALUATION_QUEUE_CAPACITY
    Interval,     \* HOME_GUARDIAN_AUTO_EVALUATION_MIN_INTERVAL_SECONDS
    Cooldown,     \* HOME_GUARDIAN_ACTION_COOLDOWN_SECONDS
    Memory,       \* HOME_GUARDIAN_IDEMPOTENCY_MEMORY_SECONDS
    MaxTime, MaxDeliveries, MaxSaves, MaxRestarts,  \* bounds of the model
    None

ASSUME GuardianAssumption ==
    /\ CameraOf \in [Events -> Cameras] /\ Matching \subseteq Events
    /\ Plan \in Seq(Range(Plan))
    /\ {Capacity, Interval, Cooldown, Memory} \subseteq Nat
    /\ {MaxTime, MaxDeliveries, MaxSaves, MaxRestarts} \subseteq Nat
    /\ None \notin Events \cup Desks /\ "worker" \notin Desks

VARIABLES
    clock,
    latest,      \* the newest event of the vision event store
    queue,       \* events waiting for the worker
    evalCool,    \* guardian_auto_eval_cooldowns, by camera
    cool,        \* guardian_cooldowns, by camera and action key
    seen,        \* guardian_action_runs, by idempotency key
    review,      \* the rule in the admin state file
    version,     \* the fingerprint of that file
    cache,       \* guardian_rule_cache
    eval,        \* what the worker and each desk are doing
    op,          \* what each operator thread is doing
    budget,      \* deliveries and restarts so far
    asked,       \* history: the status the operators last asked for
    ran,         \* history: when the last run of each key since the boot began
    raced,       \* history: keys on which two evaluations overlapped
    autoRun,     \* history: when the last automatic run began, by camera and action
    backdated,   \* history: cooldowns a slow evaluation set back in time
    skewed       \* history: a save came between the load and the stamp of a refresh

guardianVars == <<queue, evalCool, cool, seen, cache>>
historyVars == <<asked, ran, raced, autoRun, backdated, skewed>>
vars == <<clock, latest, guardianVars, review, version, eval, op, budget, historyVars>>

Actions == Range(Plan)
Keys == Events \X Actions
Evaluators == {"worker"} \cup Desks
Never == -1
Times == Never .. MaxTime

\* AutomationRuleReview: its status (a draft, paused or discarded rule is inactive: the
\* code asks only for active ones), and the idempotency keys that its run
\* summaries record as delivered, acted or skipped.
Statuses == {"active", "inactive"}
Draft == [status |-> "inactive", recorded |-> {}]
Reviews == [status : Statuses, recorded : SUBSET Keys]

Idle == [pc |-> "idle", event |-> None, review |-> Draft, now |-> 0, next |-> 1,
         done |-> {}]
NoOp == [pc |-> "idle", review |-> Draft]

TypeOK ==
    /\ clock \in 0 .. MaxTime /\ latest \in Events \cup {None}
    /\ queue \in Seq(Events) /\ Len(queue) <= Capacity
    /\ evalCool \in [Cameras -> Times]
    /\ cool \in [Cameras \X Actions -> Times] /\ seen \in [Keys -> Times]
    /\ review \in Reviews /\ version \in 0 .. MaxSaves
    /\ cache \in [review : Reviews, version : 0 .. MaxSaves]
    /\ eval \in [Evaluators ->
           [pc : {"idle", "cache", "load", "keep", "take", "decide", "act", "save"},
            event : Events \cup {None}, review : Reviews, now : 0 .. MaxTime,
            next : 1 .. Len(Plan) + 1, done : SUBSET Keys]]
    /\ op \in [Operators -> [pc : {"idle", "load", "keep"}, review : Reviews]]
    /\ budget \in [deliveries : 0 .. MaxDeliveries, restarts : 0 .. MaxRestarts]
    /\ asked \in Statuses /\ raced \subseteq Keys
    /\ ran \in [Keys -> Times] /\ autoRun \in [Cameras \X Actions -> Times]
    /\ backdated \subseteq Cameras \X Actions /\ skewed \in BOOLEAN

\* The service boots with a rule that was enabled and has not run.
Init ==
    /\ clock = 0 /\ latest = None /\ queue = << >>
    /\ evalCool = [c \in Cameras |-> Never]
    /\ cool = [ca \in Cameras \X Actions |-> Never]
    /\ seen = [k \in Keys |-> Never]
    /\ review = [Draft EXCEPT !.status = "active"] /\ version = 0
    /\ cache = [review |-> review, version |-> 0]
    /\ eval = [p \in Evaluators |-> Idle]
    /\ op = [o \in Operators |-> NoOp]
    /\ budget = [deliveries |-> 0, restarts |-> 0]
    /\ asked = review.status /\ ran = [k \in Keys |-> Never] /\ raced = {}
    /\ autoRun = [ca \in Cameras \X Actions |-> Never] /\ backdated = {}
    /\ skewed = FALSE

-----------------------------------------------------------------------------
(* Events: handle_ingest_local_vision_event stores the event and offers it. *)

\* guardian_auto_evaluation_due
auto_evaluation_due(e) ==
    LET last == evalCool[CameraOf[e]] IN
    last = Never \/ clock - last >= Interval

\* HomeGuardianEvaluationQueue::enqueue: a full queue drops the event, which
\* has already taken its camera's interval.
enqueue(e) ==
    queue' = IF Len(queue) < Capacity THEN Append(queue, e) ELSE queue

Ingest(e) ==
    /\ budget.deliveries < MaxDeliveries
    /\ budget' = [budget EXCEPT !.deliveries = @ + 1]
    /\ latest' = e
    /\ IF auto_evaluation_due(e)
       THEN /\ evalCool' = [evalCool EXCEPT ![CameraOf[e]] = clock]
            /\ enqueue(e)
       ELSE UNCHANGED <<evalCool, queue>>
    /\ UNCHANGED <<clock, cool, seen, cache, review, version, eval, op, historyVars>>

-----------------------------------------------------------------------------
(* Rules as the automatic evaluation reads them: cached under the          *)
(* fingerprint of the file.                                                *)

Set(p, r) == eval' = [eval EXCEPT ![p] = r]
Go(p, pc) == Set(p, [eval[p] EXCEPT !.pc = pc])

\* run_home_guardian_worker: the next event of the channel.
WorkerReceive ==
    /\ eval["worker"].pc = "idle" /\ queue # << >>
    /\ queue' = Tail(queue)
    /\ Set("worker", [Idle EXCEPT !.pc = "cache", !.event = Head(queue)])
    /\ UNCHANGED <<clock, latest, evalCool, cool, seen, cache, review, version, op,
                   budget, historyVars>>

\* cached_home_guardian_reviews_for_auto compares fingerprints.
WorkerChecksCache ==
    /\ eval["worker"].pc = "cache"
    /\ Go("worker", IF cache.version = version THEN "take" ELSE "load")
    /\ UNCHANGED <<clock, latest, guardianVars, review, version, op, budget, historyVars>>

\* refresh_home_guardian_rule_cache: loads the rules first ...
WorkerLoads ==
    /\ eval["worker"].pc = "load"
    /\ Set("worker", [eval["worker"] EXCEPT !.pc = "keep", !.review = review])
    /\ UNCHANGED <<clock, latest, guardianVars, review, version, op, budget, historyVars>>

\* Mutant: only the fingerprint is brought up to date.
CacheEntryStaleStamp(r) == [review |-> cache.review, version |-> version]

\* ... and takes the fingerprint when it stores them.
CacheEntry(r) == [review |-> r, version |-> version]

WorkerKeeps ==
    /\ eval["worker"].pc = "keep"
    /\ cache' = CacheEntry(eval["worker"].review)
    /\ Go("worker", "take")
    /\ UNCHANGED <<clock, latest, queue, evalCool, cool, seen, review, version, op,
                   budget, historyVars>>

\* build_home_guardian_rule_evaluation_plan: what an evaluation of event e by a
\* rule r does next.  Only evaluations an operator asked for store a summary.
PlanOf(r, e) == IF r.status = "active" /\ e \in Matching THEN "decide" ELSE "save"

WorkerTakesRules ==
    LET e == eval["worker"].event  r == cache.review IN
    /\ eval["worker"].pc = "take"
    /\ IF PlanOf(r, e) = "decide"
       THEN Set("worker", [eval["worker"] EXCEPT !.pc = "decide", !.review = r, !.now = clock])
       ELSE Set("worker", Idle)
    /\ UNCHANGED <<clock, latest, guardianVars, review, version, op, budget, historyVars>>

\* handle_evaluate_automation_review_latest: the newest event, the rule as the
\* file has it.
DeskBegins(d) ==
    /\ eval[d].pc = "idle" /\ latest # None
    /\ Set(d, [Idle EXCEPT !.pc = PlanOf(review, latest), !.event = latest,
                           !.review = review, !.now = clock])
    /\ UNCHANGED <<clock, latest, guardianVars, review, version, op, budget, historyVars>>

-----------------------------------------------------------------------------
(* evaluate_home_guardian_rules_for_event: the actions, one after another. *)

Action(p) == Plan[eval[p].next]
Key(p) == <<eval[p].event, Action(p)>>
Place(p) == <<CameraOf[eval[p].event], Action(p)>>
Deciding(p) == eval[p].pc = "decide" /\ eval[p].next <= Len(Plan)

\* Mutant: the cooldown ends one unit early.
CooldownOffByOne(p) ==
    cool[Place(p)] # Never /\ eval[p].now - cool[Place(p)] < Cooldown - 1

\* guardian_action_in_cooldown
action_in_cooldown(p) ==
    cool[Place(p)] # Never /\ eval[p].now - cool[Place(p)] < Cooldown

\* guardian_action_run_seen drops what is older than the memory, and
\* home_guardian_run_already_recorded looks at the summaries of the rule.
Remembered(now) == [k \in Keys |-> IF now - seen[k] <= Memory THEN seen[k] ELSE Never]
AlreadyRun(p) == Remembered(eval[p].now)[Key(p)] # Never \/ Key(p) \in eval[p].review.recorded

DecideCooling(p) ==
    /\ Deciding(p) /\ p = "worker" /\ action_in_cooldown(p)
    /\ Set(p, [eval[p] EXCEPT !.next = @ + 1])
    /\ UNCHANGED <<clock, latest, guardianVars, review, version, op, budget, historyVars>>

\* A duplicate is answered "skipped", which a later run takes for a success.
DecideDuplicate(p) ==
    /\ Deciding(p) /\ ~(p = "worker" /\ action_in_cooldown(p)) /\ AlreadyRun(p)
    /\ seen' = Remembered(eval[p].now)
    /\ Set(p, [eval[p] EXCEPT !.next = @ + 1, !.done = @ \cup {Key(p)}])
    /\ UNCHANGED <<clock, latest, queue, evalCool, cool, cache, review, version, op,
                   budget, historyVars>>

DecideToAct(p) ==
    /\ Deciding(p) /\ ~(p = "worker" /\ action_in_cooldown(p)) /\ ~AlreadyRun(p)
    /\ seen' = Remembered(eval[p].now)
    /\ Go(p, "act")
    /\ raced' = raced \cup {k \in {Key(p)} : \E q \in Evaluators \ {p} :
                                eval[q].pc = "act" /\ Key(q) = k}
    /\ UNCHANGED <<clock, latest, queue, evalCool, cool, cache, review, version, op,
                   budget, asked, ran, autoRun, backdated, skewed>>

\* Mutant: a failure is not remembered.
MarkSuccessOnly(p, status) ==
    IF status = "failed" THEN UNCHANGED <<cool, seen>>
    ELSE /\ cool' = [cool EXCEPT ![Place(p)] = eval[p].now]
         /\ seen' = [seen EXCEPT ![Key(p)] = eval[p].now]

\* mark_guardian_action_cooldown and mark_guardian_action_run_seen, for every
\* outcome that is not "skipped", with the time the evaluation began.
Mark(p, status) ==
    /\ cool' = [cool EXCEPT ![Place(p)] = eval[p].now]
    /\ seen' = [seen EXCEPT ![Key(p)] = eval[p].now]

\* execute_home_guardian_notify_action and execute_home_guardian_ha_action: the
\* call is made and answered, made and reported failed, or not made ("blocked").
Act(p, status) ==
    /\ eval[p].pc = "act"
    /\ Mark(p, status)
    /\ Set(p, [eval[p] EXCEPT !.pc = "decide", !.next = @ + 1,
                   !.done = IF status = "acted" THEN @ \cup {Key(p)} ELSE @])
    /\ ran' = [ran EXCEPT ![Key(p)] = eval[p].now]
    /\ autoRun' = IF p = "worker" THEN [autoRun EXCEPT ![Place(p)] = eval[p].now] ELSE autoRun
    /\ backdated' = backdated \cup {pl \in {Place(p)} : cool[pl] > eval[p].now}
    /\ UNCHANGED <<clock, latest, queue, evalCool, cache, review, version, op, budget,
                   asked, raced, skewed>>

\* The end of an automatic evaluation writes the activity log only.
WorkerFinishes ==
    /\ eval["worker"].pc = "decide" /\ eval["worker"].next > Len(Plan)
    /\ Set("worker", Idle)
    /\ UNCHANGED <<clock, latest, guardianVars, review, version, op, budget, historyVars>>

\* append_home_guardian_run_summary and upsert_automation_review: the rule as it
\* was when the evaluation began, with the new summary, replaces the stored one.
Refreshing == {p \in Evaluators : eval[p].pc = "keep"} \cup {o \in Operators : op[o].pc = "keep"}

Write(r) ==
    /\ version < MaxSaves
    /\ review' = r /\ version' = version + 1
    /\ skewed' = (skewed \/ Refreshing # {})

WithSummary(p) == [eval[p].review EXCEPT !.recorded = @ \cup eval[p].done]

DeskEnds(d) == eval[d].pc = "save" \/ (eval[d].pc = "decide" /\ eval[d].next > Len(Plan))

DeskSaves(d) ==
    /\ DeskEnds(d) /\ Write(WithSummary(d))
    /\ Set(d, Idle)
    /\ UNCHANGED <<clock, latest, guardianVars, op, budget, asked, ran, raced, autoRun,
                   backdated>>

\* The write fails: the actions are done and no summary is kept.
DeskFails(d) ==
    /\ DeskEnds(d) /\ Set(d, Idle)
    /\ UNCHANGED <<clock, latest, guardianVars, review, version, op, budget, historyVars>>

-----------------------------------------------------------------------------
(* Operators: handle_update_automation_review_status and the upsert of a   *)
(* proposal, each followed by a refresh of the cache.                      *)

Save(o, r) ==
    /\ op[o].pc = "idle" /\ Write(r)
    /\ op' = [op EXCEPT ![o].pc = "load"]
    /\ asked' = r.status
    /\ UNCHANGED <<clock, latest, guardianVars, eval, budget, ran, raced, autoRun, backdated>>

\* set_automation_review_status
SetStatus(o, s) == Save(o, [review EXCEPT !.status = s])

\* upsert_automation_review of a request: the rule anew, with the status and the run
\* summaries of the request, here none.
Propose(o, s) == Save(o, [Draft EXCEPT !.status = s])

OperatorLoads(o) ==
    /\ op[o].pc = "load"
    /\ op' = [op EXCEPT ![o] = [pc |-> "keep", review |-> review]]
    /\ UNCHANGED <<clock, latest, guardianVars, review, version, eval, budget, historyVars>>

OperatorKeeps(o) ==
    /\ op[o].pc = "keep"
    /\ cache' = CacheEntry(op[o].review)
    /\ op' = [op EXCEPT ![o] = NoOp]
    /\ UNCHANGED <<clock, latest, queue, evalCool, cool, seen, review, version, eval,
                   budget, historyVars>>

-----------------------------------------------------------------------------
Tick ==
    /\ clock < MaxTime /\ clock' = clock + 1
    /\ UNCHANGED <<latest, guardianVars, review, version, eval, op, budget, historyVars>>

\* AdminApi::new after a crash: empty tables, an empty queue, a fresh cache.
Restart ==
    /\ budget.restarts < MaxRestarts
    /\ budget' = [budget EXCEPT !.restarts = @ + 1]
    /\ queue' = << >> /\ evalCool' = [c \in Cameras |-> Never]
    /\ cool' = [ca \in Cameras \X Actions |-> Never] /\ seen' = [k \in Keys |-> Never]
    /\ cache' = CacheEntry(review)
    /\ eval' = [p \in Evaluators |-> Idle] /\ op' = [o \in Operators |-> NoOp]
    /\ ran' = [k \in Keys |-> Never] /\ raced' = {}
    /\ autoRun' = [ca \in Cameras \X Actions |-> Never] /\ backdated' = {}
    /\ skewed' = FALSE
    /\ UNCHANGED <<clock, latest, review, version, asked>>

Evaluate(p) ==
    \/ DecideCooling(p) \/ DecideDuplicate(p) \/ DecideToAct(p)
    \/ \E status \in {"acted", "failed", "blocked"} : Act(p, status)

Worker ==
    \/ WorkerReceive \/ WorkerChecksCache \/ WorkerLoads \/ WorkerKeeps
    \/ WorkerTakesRules \/ Evaluate("worker") \/ WorkerFinishes

Desk(d) == DeskBegins(d) \/ Evaluate(d) \/ DeskSaves(d) \/ DeskFails(d)

Operate(o) ==
    \/ \E s \in Statuses : SetStatus(o, s) \/ Propose(o, s)
    \/ OperatorLoads(o) \/ OperatorKeeps(o)

Next ==
    \/ \E e \in Events : Ingest(e)
    \/ Worker
    \/ \E d \in Desks : Desk(d)
    \/ \E o \in Operators : Operate(o)
    \/ Tick \/ Restart

Spec == Init /\ [][Next]_vars

-----------------------------------------------------------------------------
(* Properties *)

Acts(p) == eval[p].pc = "act" /\ eval'[p].next = eval[p].next + 1

\* Within the idempotency memory and one boot, an action is tried at most once
\* for an event (evaluate_home_guardian_rules_for_event), whoever evaluates it and
\* however often it is delivered or its call fails; except where the worker and
\* an operator passed the check before either of them had marked the key.
OncePerEvent ==
    [][\A p \in Evaluators : Acts(p) =>
          \/ ran[Key(p)] = Never \/ clock - ran[Key(p)] > Memory
          \/ Key(p) \in raced]_vars

\* Two automatic runs of an action for a camera lie a cooldown apart
\* (guardian_action_in_cooldown), unless a slower evaluation by an operator set
\* the cooldown back to the earlier time at which it began.
CooldownHolds ==
    [][Acts("worker") =>
          LET pl == Place("worker") IN
          \/ autoRun[pl] = Never \/ eval["worker"].now - autoRun[pl] >= Cooldown
          \/ pl \in backdated]_vars

\* A cache entry whose fingerprint is that of the file holds the rule that the
\* file holds (cached_home_guardian_reviews_for_auto), so a rule that was disabled
\* does not go on running; except where a save fell between the load and the
\* fingerprint of a refresh.
CacheIsTrue == (cache.version = version /\ ~skewed) => cache.review = review

\* The rule is active only while an operator's last request was to enable it
\* (build_home_guardian_rule_evaluation_plan: "explicit enable is required before
\* execution").
EnabledByRequest == review.status = "active" => asked = "active"
=============================================================================
