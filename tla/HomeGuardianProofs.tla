------------------------- MODULE HomeGuardianProofs -------------------------
(***************************************************************************)
(* Proofs about the Home Guardian, for any events, cameras, action plan,   *)
(* operators, intervals and bounds: the cache holds the rule of the file   *)
(* whose fingerprint it has, an action is tried once for an event, and     *)
(* automatic runs keep the cooldown.                                       *)
(***************************************************************************)
EXTENDS HomeGuardian, TLAPS

Pcs == {"idle", "cache", "load", "keep", "take", "decide", "act", "save"}

\* What the worker or a desk is doing.
Evaluation ==
  [pc : Pcs, event : Events \cup {None}, review : Reviews, now : 0 .. MaxTime,
   next : 1 .. Len(Plan) + 1, done : SUBSET Keys]

\* An evaluation that is under way at time t has an event, and an action in hand if it acts.
Shaped(e, t) ==
  /\ e.pc \in Pcs \ {"idle", "save"} => e.event \in Events
  /\ e.pc = "act" => e.next \in 1 .. Len(Plan)
  /\ e.now <= t

ShapeInv == TypeOK /\ \A p \in Evaluators : Shaped(eval[p], clock)

-----------------------------------------------------------------------------
(* Values.                                                                 *)

\* The action plan is a sequence of actions.
LEMMA PlanTyped == Len(Plan) \in Nat /\ \A i \in 1 .. Len(Plan) : Plan[i] \in Actions
BY GuardianAssumption DEF Actions

\* What an event and a place of the plan name.
LEMMA Named ==
  ASSUME NEW e \in Events, NEW i \in 1 .. Len(Plan)
  PROVE  <<e, Plan[i]>> \in Keys /\ <<CameraOf[e], Plan[i]>> \in Cameras \X Actions
BY PlanTyped, GuardianAssumption DEF Keys

\* Evaluations and operators at rest.
LEMMA Rest ==
  /\ Draft \in Reviews /\ Idle \in Evaluation /\ Idle.pc = "idle" /\ Idle.now = 0
  /\ NoOp \in [pc : {"idle", "load", "keep"}, review : Reviews] /\ NoOp.pc = "idle"
<1>1. Draft \in Reviews
  BY DEF Draft, Reviews, Statuses
<1>2. 0 \in 0 .. MaxTime /\ 1 \in 1 .. Len(Plan) + 1
  BY PlanTyped, GuardianAssumption
<1>3. Idle \in Evaluation
  BY <1>1, <1>2 DEF Idle, Evaluation, Pcs
<1> QED  BY <1>1, <1>3 DEF Idle, NoOp

\* An evaluation that begins, by the worker and at a desk.
LEMMA Received ==
  ASSUME NEW e \in Events
  PROVE  LET r == [Idle EXCEPT !.pc = "cache", !.event = e] IN
         r \in Evaluation /\ r.pc = "cache" /\ r.event = e /\ r.now = 0
<1>1. Idle \in Evaluation /\ Idle.now = 0
  BY Rest
<1> QED  BY <1>1 DEF Evaluation, Pcs

AtDesk(c, e, w, t) == [Idle EXCEPT !.pc = c, !.event = e, !.review = w, !.now = t]

\* A desk begins with the newest event and the rule of the file.
LEMMA Begun ==
  ASSUME NEW c \in Pcs, NEW e \in Events, NEW w \in Reviews, NEW t \in 0 .. MaxTime
  PROVE  LET r == AtDesk(c, e, w, t) IN
         r \in Evaluation /\ r.pc = c /\ r.event = e /\ r.now = t
<1>1. Idle \in Evaluation /\ Idle.now = 0
  BY Rest
<1> QED  BY <1>1 DEF Evaluation, AtDesk

\* An evaluation that goes on with the same event, ...
LEMMA Moved ==
  ASSUME NEW e \in Evaluation, NEW c \in Pcs
  PROVE  LET r == [e EXCEPT !.pc = c] IN
         r \in Evaluation /\ r.pc = c /\ r.event = e.event /\ r.now = e.now /\ r.next = e.next
BY DEF Evaluation

\* The worker has loaded the rule.
LEMMA Loaded ==
  ASSUME NEW e \in Evaluation, NEW w \in Reviews
  PROVE  LET r == [e EXCEPT !.pc = "keep", !.review = w] IN
         r \in Evaluation /\ r.pc = "keep" /\ r.review = w /\ r.event = e.event /\ r.now = e.now
BY DEF Evaluation, Pcs

WithRules(e, w, t) == [e EXCEPT !.pc = "decide", !.review = w, !.now = t]

\* The worker has taken the rule from the cache, and the time.
LEMMA Taken ==
  ASSUME NEW e \in Evaluation, NEW w \in Reviews, NEW t \in 0 .. MaxTime
  PROVE  LET r == WithRules(e, w, t) IN
         r \in Evaluation /\ r.pc = "decide" /\ r.event = e.event /\ r.now = t
BY DEF Evaluation, Pcs, WithRules

\* ... and with the next action.
LEMMA Advanced ==
  ASSUME NEW e \in Evaluation, e.next <= Len(Plan), NEW ks \in SUBSET Keys
  PROVE  /\ [e EXCEPT !.next = @ + 1] \in Evaluation /\ [e EXCEPT !.next = @ + 1].pc = e.pc
         /\ [e EXCEPT !.next = @ + 1].event = e.event /\ [e EXCEPT !.next = @ + 1].now = e.now
         /\ [e EXCEPT !.next = @ + 1, !.done = ks] \in Evaluation
         /\ [e EXCEPT !.next = @ + 1, !.done = ks].pc = e.pc
         /\ [e EXCEPT !.next = @ + 1, !.done = ks].event = e.event
         /\ [e EXCEPT !.next = @ + 1, !.done = ks].now = e.now
         /\ [e EXCEPT !.pc = "decide", !.next = @ + 1, !.done = ks] \in Evaluation
         /\ [e EXCEPT !.pc = "decide", !.next = @ + 1, !.done = ks].pc = "decide"
         /\ [e EXCEPT !.pc = "decide", !.next = @ + 1, !.done = ks].event = e.event
         /\ [e EXCEPT !.pc = "decide", !.next = @ + 1, !.done = ks].now = e.now
<1>1. e.next + 1 \in 1 .. Len(Plan) + 1
  BY PlanTyped DEF Evaluation
<1> QED  BY <1>1 DEF Evaluation, Pcs

\* The queue that one event joins.
LEMMA Queued ==
  ASSUME NEW q \in Seq(Events), Len(q) <= Capacity, NEW e \in Events
  PROVE  /\ Append(q, e) \in Seq(Events) /\ (Len(q) < Capacity => Len(Append(q, e)) <= Capacity)
BY GuardianAssumption

\* The queue that one event leaves.
LEMMA Dequeued ==
  ASSUME NEW q \in Seq(Events), Len(q) <= Capacity, q /= << >>
  PROVE  Tail(q) \in Seq(Events) /\ Len(Tail(q)) <= Capacity
BY GuardianAssumption

\* The counters of the model's bounds.
LEMMA Counted ==
  ASSUME NEW b \in [deliveries : 0 .. MaxDeliveries, restarts : 0 .. MaxRestarts]
  PROVE  /\ b.deliveries < MaxDeliveries =>
              [b EXCEPT !.deliveries = @ + 1] \in [deliveries : 0 .. MaxDeliveries, restarts : 0 .. MaxRestarts]
         /\ b.restarts < MaxRestarts =>
              [b EXCEPT !.restarts = @ + 1] \in [deliveries : 0 .. MaxDeliveries, restarts : 0 .. MaxRestarts]
<1>1. MaxDeliveries \in Nat /\ MaxRestarts \in Nat
  BY GuardianAssumption
<1>2. /\ b.deliveries < MaxDeliveries => b.deliveries + 1 \in 0 .. MaxDeliveries
      /\ b.restarts < MaxRestarts => b.restarts + 1 \in 0 .. MaxRestarts
  BY <1>1
<1> QED  BY <1>2

-----------------------------------------------------------------------------
(* What the worker and the desks do.                                       *)

\* A step of evaluation p that neither acts nor decides to act.
Quiet(p, r) ==
  /\ Set(p, r) /\ Shaped(r, clock) /\ r.pc /= "act" /\ (r.pc = "keep" => r.review = review)
  /\ UNCHANGED <<clock, cool, ran, raced, autoRun, backdated>>
  /\ seen' = seen \/ seen' = Remembered(eval[p].now)

\* What holds of the evaluation that takes a step.
LEMMA Own ==
  ASSUME ShapeInv, NEW p \in Evaluators
  PROVE  /\ eval[p] \in Evaluation /\ Shaped(eval[p], clock) /\ eval \in [Evaluators -> Evaluation]
         /\ clock \in 0 .. MaxTime /\ eval[p].now \in 0 .. MaxTime
         /\ eval[p].next \in Nat /\ eval[p].review \in Reviews /\ eval[p].done \in SUBSET Keys
<1>1. eval \in [Evaluators -> Evaluation] /\ Shaped(eval[p], clock) /\ clock \in 0 .. MaxTime
  BY DEF ShapeInv, TypeOK, Evaluation, Pcs
<1>2. eval[p] \in Evaluation
  BY <1>1
<1>3. /\ eval[p].now \in 0 .. MaxTime /\ eval[p].next \in Nat /\ eval[p].review \in Reviews
      /\ eval[p].done \in SUBSET Keys
  BY <1>2, PlanTyped DEF Evaluation
<1> QED  BY Zenon, <1>1, <1>2, <1>3

\* A key, while an action is decided on or carried out.
LEMMA InHand ==
  ASSUME ShapeInv, NEW p \in Evaluators, Deciding(p) \/ eval[p].pc = "act"
  PROVE  /\ eval[p].event \in Events /\ eval[p].next \in 1 .. Len(Plan) /\ eval[p].next <= Len(Plan)
         /\ Key(p) \in Keys /\ Place(p) \in Cameras \X Actions
<1>1. eval[p] \in Evaluation /\ Shaped(eval[p], clock)
  BY Zenon, Own
<1>2. eval[p].event \in Events /\ eval[p].next \in 1 .. Len(Plan) /\ eval[p].next <= Len(Plan)
  BY <1>1, PlanTyped DEF Shaped, Evaluation, Deciding, Pcs
<1> QED  BY Zenon, <1>2, Named DEF Key, Place, Action

\* The steps of p in which it neither acts nor decides to act ...
Evaluates(p) ==
  \/ /\ p = "worker"
     /\ \/ WorkerReceive \/ WorkerChecksCache \/ WorkerLoads \/ WorkerKeeps
        \/ WorkerTakesRules \/ WorkerFinishes
  \/ DecideCooling(p) \/ DecideDuplicate(p)
  \/ DeskBegins(p) \/ DeskSaves(p) \/ DeskFails(p)

\* ... are quiet.
LEMMA QuietSteps ==
  ASSUME ShapeInv, NEW p \in Evaluators, Evaluates(p)
  PROVE  \E r \in Evaluation : Quiet(p, r)
<1>1. /\ eval[p] \in Evaluation /\ Shaped(eval[p], clock) /\ clock \in 0 .. MaxTime
      /\ eval[p].now \in 0 .. MaxTime /\ eval[p].done \in SUBSET Keys
      /\ review \in Reviews /\ cache.review \in Reviews
      /\ 0 <= clock /\ clock <= clock /\ eval[p].now <= clock
  BY Own DEF ShapeInv, TypeOK, Shaped
<1>2. ASSUME NEW r \in Evaluation, Set(p, r), r.pc \in {"idle", "save"}, r.now <= clock,
             UNCHANGED <<clock, cool, seen, ran, raced, autoRun, backdated>>
      PROVE  \E e \in Evaluation : Quiet(p, e)
  BY Zenon, <1>2 DEF Quiet, Shaped
<1>3. ASSUME NEW r \in Evaluation, Set(p, r), r.pc \in Pcs \ {"act"}, r.event \in Events,
             r.now <= clock, UNCHANGED <<clock, cool, ran, raced, autoRun, backdated>>,
             seen' = seen \/ seen' = Remembered(eval[p].now), r.pc = "keep" => r.review = review
      PROVE  \E e \in Evaluation : Quiet(p, e)
  BY Zenon, <1>3 DEF Quiet, Shaped
<1>4. CASE Set(p, Idle) /\ UNCHANGED <<clock, cool, seen, ran, raced, autoRun, backdated>>
  BY Zenon, <1>1, <1>2, <1>4, Rest
<1>5. CASE p = "worker" /\ WorkerReceive
  <2>1. Head(queue) \in Events
    BY <1>5 DEF ShapeInv, TypeOK, WorkerReceive
  <2> DEFINE r == [Idle EXCEPT !.pc = "cache", !.event = Head(queue)]
  <2>2. r \in Evaluation /\ r.pc = "cache" /\ r.event \in Events /\ r.now <= clock
    BY Zenon, <1>1, <2>1, Received
  <2>3. Set(p, r) /\ UNCHANGED <<clock, cool, seen, ran, raced, autoRun, backdated>>
    BY Zenon, <1>5 DEF WorkerReceive, historyVars
  <2> HIDE DEF r
  <2> QED  BY Zenon, <1>3, <2>2, <2>3 DEF Pcs
<1>6. ASSUME NEW c \in Pcs \ {"act", "keep"}, Go(p, c), eval[p].pc \in Pcs \ {"idle", "save"},
             UNCHANGED <<clock, cool, seen, ran, raced, autoRun, backdated>>
      PROVE  \E e \in Evaluation : Quiet(p, e)
  <2> DEFINE r == [eval[p] EXCEPT !.pc = c]
  <2>1. r \in Evaluation /\ r.pc = c /\ r.event \in Events /\ r.now <= clock
    BY Zenon, <1>1, <1>6, Moved DEF Shaped
  <2>2. Set(p, r)
    BY Zenon, <1>6 DEF Go
  <2> HIDE DEF r
  <2> QED  BY Zenon, <1>3, <1>6, <2>1, <2>2
<1>7. CASE p = "worker" /\ (WorkerChecksCache \/ WorkerKeeps)
  <2>1. /\ eval[p].pc \in Pcs \ {"idle", "save"}
        /\ UNCHANGED <<clock, cool, seen, ran, raced, autoRun, backdated>>
        /\ Go(p, "take") \/ Go(p, "load")
    BY Zenon, <1>7 DEF WorkerChecksCache, WorkerKeeps, guardianVars, historyVars, Pcs
  <2> QED  BY Zenon, <1>6, <2>1 DEF Pcs
<1>8. CASE p = "worker" /\ WorkerLoads
  <2> DEFINE r == [eval[p] EXCEPT !.pc = "keep", !.review = review]
  <2>1. eval[p].pc = "load" /\ Set(p, r) /\ UNCHANGED <<clock, cool, seen, ran, raced, autoRun, backdated>>
    BY Zenon, <1>8 DEF WorkerLoads, guardianVars, historyVars
  <2>2. r \in Evaluation /\ r.pc = "keep" /\ r.review = review /\ r.event \in Events /\ r.now <= clock
    <3>1. eval[p].event \in Events
      BY Zenon, <1>1, <2>1 DEF Shaped, Pcs
    <3>2. /\ r \in Evaluation /\ r.pc = "keep" /\ r.review = review
          /\ r.event = eval[p].event /\ r.now = eval[p].now
      BY Zenon, <1>1, Loaded
    <3> QED  BY Zenon, <1>1, <3>1, <3>2
  <2> HIDE DEF r
  <2> QED  BY Zenon, <1>3, <2>1, <2>2 DEF Pcs
<1>9. CASE p = "worker" /\ WorkerTakesRules
  <2> DEFINE r == WithRules(eval[p], cache.review, clock)
  <2>1. /\ eval[p].pc = "take"
        /\ Set(p, r) \/ Set(p, Idle)
        /\ UNCHANGED <<clock, cool, seen, ran, raced, autoRun, backdated>>
    BY Zenon, <1>9 DEF WorkerTakesRules, WithRules, guardianVars, historyVars
  <2>2. eval[p].event \in Events
    BY Zenon, <1>1, <2>1 DEF Shaped, Pcs
  <2>3. r \in Evaluation /\ r.pc = "decide" /\ r.event = eval[p].event /\ r.now = clock
    BY Zenon, <1>1, Taken
  <2>4. r \in Evaluation /\ r.pc = "decide" /\ r.event \in Events /\ r.now <= clock
    BY Zenon, <1>1, <2>2, <2>3
  <2> HIDE DEF r
  <2> QED  BY Zenon, <1>3, <1>4, <2>1, <2>4 DEF Pcs
<1>10. CASE \/ p = "worker" /\ WorkerFinishes
            \/ DeskSaves(p) \/ DeskFails(p)
  BY Zenon, <1>4, <1>10 DEF WorkerFinishes, DeskSaves, DeskFails, guardianVars, historyVars
<1>11. CASE DecideCooling(p)
  <2> DEFINE r == [eval[p] EXCEPT !.next = @ + 1]
  <2>1. /\ Deciding(p) /\ Set(p, r) /\ eval[p].pc = "decide"
        /\ UNCHANGED <<clock, cool, seen, ran, raced, autoRun, backdated>>
    BY Zenon, <1>11 DEF DecideCooling, Deciding, guardianVars, historyVars
  <2>2. eval[p].event \in Events /\ eval[p].next <= Len(Plan)
    BY Zenon, <2>1, InHand
  <2>3. r \in Evaluation /\ r.pc = "decide" /\ r.event \in Events /\ r.now <= clock
    BY Zenon, <1>1, <2>1, <2>2, Advanced
  <2> HIDE DEF r
  <2> QED  BY Zenon, <1>3, <2>1, <2>3 DEF Pcs
<1>12. CASE DecideDuplicate(p)
  <2> DEFINE ks == eval[p].done \cup {Key(p)}
             r  == [eval[p] EXCEPT !.next = @ + 1, !.done = ks]
  <2>1. /\ Deciding(p) /\ eval[p].pc = "decide" /\ seen' = Remembered(eval[p].now)
        /\ UNCHANGED <<clock, cool, ran, raced, autoRun, backdated>>
    BY Zenon, <1>12 DEF DecideDuplicate, Deciding, historyVars
  <2>2. eval[p].event \in Events /\ eval[p].next <= Len(Plan) /\ ks \in SUBSET Keys
    BY <1>1, <2>1, InHand
  <2>3. r \in Evaluation /\ r.pc = "decide" /\ r.event \in Events /\ r.now <= clock
    BY Zenon, <1>1, <2>1, <2>2, Advanced
  <2>4. Set(p, r)
    BY Zenon, <1>12 DEF DecideDuplicate
  <2> HIDE DEF r
  <2> QED  BY Zenon, <1>3, <2>1, <2>3, <2>4 DEF Pcs
<1>13. CASE DeskBegins(p)
  <2>1. latest \in Events /\ PlanOf(review, latest) \in {"decide", "save"}
    BY <1>13 DEF DeskBegins, ShapeInv, TypeOK, PlanOf
  <2> DEFINE r == AtDesk(PlanOf(review, latest), latest, review, clock)
  <2>2. PlanOf(review, latest) \in Pcs /\ PlanOf(review, latest) \notin {"act", "keep"}
    BY <2>1 DEF Pcs
  <2>3. /\ r \in Evaluation /\ r.pc = PlanOf(review, latest)
        /\ r.event = latest /\ r.now = clock
    <3>1. /\ PlanOf(review, latest) \in Pcs /\ latest \in Events /\ review \in Reviews
          /\ clock \in 0 .. MaxTime
      BY Zenon, <1>1, <2>1, <2>2
    <3> HIDE DEF r
    <3>2. AtDesk(PlanOf(review, latest), latest, review, clock) = r
      BY DEF r
    <3>3. \A c \in Pcs, e \in Events, w \in Reviews, t \in 0 .. MaxTime :
             LET x == AtDesk(c, e, w, t) IN
             x \in Evaluation /\ x.pc = c /\ x.event = e /\ x.now = t
      BY Zenon, Begun
    <3> QED  BY ONLY <3>1, <3>2, <3>3
  <2>4. r \in Evaluation /\ r.pc \in Pcs \ {"act", "keep"} /\ r.event \in Events /\ r.now <= clock
    BY Zenon, <1>1, <2>1, <2>2, <2>3
  <2>5. Set(p, r) /\ UNCHANGED <<clock, cool, seen, ran, raced, autoRun, backdated>>
    BY Zenon, <1>13 DEF DeskBegins, AtDesk, guardianVars, historyVars
  <2> HIDE DEF r
  <2> QED  BY Zenon, <1>3, <2>4, <2>5
<1> QED  BY Zenon, <1>5, <1>7, <1>8, <1>9, <1>10, <1>11, <1>12, <1>13 DEF Evaluates

\* Deciding to act, and acting.
LEMMA LoudSteps ==
  ASSUME ShapeInv, NEW p \in Evaluators,
         DecideToAct(p) \/ \E status \in {"acted", "failed", "blocked"} : Act(p, status)
  PROVE  \E r \in Evaluation :
           /\ Set(p, r) /\ Shaped(r, clock)
           /\ DecideToAct(p) => r.pc = "act" /\ r.event = eval[p].event /\ r.next = eval[p].next
                                /\ r.now = eval[p].now
           /\ ~DecideToAct(p) => r.pc = "decide"
<1>1. /\ eval[p] \in Evaluation /\ Shaped(eval[p], clock) /\ eval[p].done \in SUBSET Keys
      /\ eval[p].review \in Reviews /\ eval[p].now \in 0 .. MaxTime
  BY Zenon, Own
<1>2. /\ eval[p].event \in Events /\ eval[p].next \in 1 .. Len(Plan) /\ eval[p].next <= Len(Plan)
      /\ Key(p) \in Keys
  BY Zenon, InHand DEF DecideToAct, Act
<1>3. CASE DecideToAct(p)
  <2> DEFINE r == [eval[p] EXCEPT !.pc = "act"]
  <2>1. /\ r \in Evaluation /\ r.pc = "act" /\ r.event = eval[p].event /\ r.next = eval[p].next
        /\ r.now = eval[p].now
    BY Zenon, <1>1, Moved DEF Pcs
  <2>2. Set(p, r)
    BY Zenon, <1>3 DEF DecideToAct, Go
  <2> HIDE DEF r
  <2>3. Shaped(r, clock)
    BY Zenon, <1>1, <1>2, <2>1 DEF Shaped
  <2> QED  BY Zenon, <1>3, <2>1, <2>2, <2>3
<1>4. ASSUME NEW status \in {"acted", "failed", "blocked"}, Act(p, status)
      PROVE  ~DecideToAct(p) /\ \E r \in Evaluation : Set(p, r) /\ Shaped(r, clock) /\ r.pc = "decide"
  <2> DEFINE ks == IF status = "acted" THEN eval[p].done \cup {Key(p)} ELSE eval[p].done
             r  == [eval[p] EXCEPT !.pc = "decide", !.next = @ + 1, !.done = ks]
  <2>1. ks \in SUBSET Keys
    BY <1>1, <1>2
  <2>2. Set(p, r) /\ ~DecideToAct(p)
    BY Zenon, <1>4 DEF Act, DecideToAct, Deciding
  <2> HIDE DEF ks
  <2>3. r \in Evaluation /\ r.pc = "decide" /\ r.event = eval[p].event /\ r.now = eval[p].now
    BY Zenon, <1>1, <1>2, <2>1, Advanced
  <2> HIDE DEF r
  <2>4. Shaped(r, clock)
    BY Zenon, <1>1, <1>2, <2>3 DEF Shaped
  <2> QED  BY Zenon, <2>2, <2>3, <2>4
<1> QED  BY Zenon, <1>3, <1>4

-----------------------------------------------------------------------------
(* Types, and the shape of an evaluation.                                  *)

\* The parts of the state without the evaluations.
EvalsTyped == eval \in [Evaluators -> Evaluation]
OthersTyped ==
  /\ clock \in 0 .. MaxTime /\ latest \in Events \cup {None}
  /\ queue \in Seq(Events) /\ Len(queue) <= Capacity
  /\ evalCool \in [Cameras -> Times]
  /\ cool \in [Cameras \X Actions -> Times] /\ seen \in [Keys -> Times]
  /\ review \in Reviews /\ version \in 0 .. MaxSaves
  /\ cache \in [review : Reviews, version : 0 .. MaxSaves]
  /\ op \in [Operators -> [pc : {"idle", "load", "keep"}, review : Reviews]]
  /\ budget \in [deliveries : 0 .. MaxDeliveries, restarts : 0 .. MaxRestarts]
  /\ asked \in Statuses /\ raced \subseteq Keys
  /\ ran \in [Keys -> Times] /\ autoRun \in [Cameras \X Actions -> Times]
  /\ backdated \subseteq Cameras \X Actions /\ skewed \in BOOLEAN

\* The parts make up the type of the state, ...
LEMMA Parts == TypeOK <=> EvalsTyped /\ OthersTyped
BY Zenon DEF TypeOK, EvalsTyped, OthersTyped, Evaluation, Pcs

\* ... and with the shape of the evaluations the invariant of the next state.
LEMMA Whole ==
  ASSUME EvalsTyped', OthersTyped', \A p \in Evaluators : Shaped(eval[p], clock)'
  PROVE  ShapeInv'
BY Zenon DEF ShapeInv, TypeOK, EvalsTyped, OthersTyped, Evaluation, Pcs

\* The times a table may hold.
LEMMA TimesTyped == Never \in Times /\ 0 .. MaxTime \subseteq Times
BY GuardianAssumption DEF Times, Never

\* What is still remembered, the rules that are written, and the entries of the cache.
LEMMA ValuesTyped ==
  ASSUME ShapeInv
  PROVE  /\ \A t : Remembered(t) \in [Keys -> Times]
         /\ \A p \in Evaluators : WithSummary(p) \in Reviews
         /\ \A s \in Statuses : [review EXCEPT !.status = s] \in Reviews
         /\ \A s \in Statuses : [Draft EXCEPT !.status = s] \in Reviews
         /\ \A r \in Reviews : CacheEntry(r) \in [review : Reviews, version : 0 .. MaxSaves]
<1>1. \A t : Remembered(t) \in [Keys -> Times]
  <2>1. seen \in [Keys -> Times]
    BY Zenon DEF ShapeInv, TypeOK
  <2> QED  BY Zenon, <2>1, TimesTyped DEF Remembered
<1>2. ASSUME NEW p \in Evaluators
      PROVE  WithSummary(p) \in Reviews
  <2>1. eval[p].review \in Reviews /\ eval[p].done \in SUBSET Keys
    BY Zenon, Own
  <2> QED  BY <2>1 DEF WithSummary, Reviews
<1>3. \A s \in Statuses : [review EXCEPT !.status = s] \in Reviews
  BY DEF ShapeInv, TypeOK, Reviews
<1>4. \A s \in Statuses : [Draft EXCEPT !.status = s] \in Reviews
  BY Rest DEF Reviews
<1>5. \A r \in Reviews : CacheEntry(r) \in [review : Reviews, version : 0 .. MaxSaves]
  BY DEF ShapeInv, TypeOK, CacheEntry
<1> QED  BY Zenon, <1>1, <1>2, <1>3, <1>4, <1>5

\* One evaluation changes.
LEMMA ShapeSet ==
  ASSUME ShapeInv, NEW p \in Evaluators, NEW r \in Evaluation, Set(p, r), Shaped(r, clock),
         clock' = clock
  PROVE  EvalsTyped' /\ \A q \in Evaluators : Shaped(eval[q], clock)'
<1>1. eval \in [Evaluators -> Evaluation]
  BY Zenon, Own
<1>2. EvalsTyped'
  BY Zenon, <1>1 DEF EvalsTyped, Set
<1>3. ASSUME NEW q \in Evaluators
      PROVE  Shaped(eval[q], clock)'
  <2>1. eval'[q] = eval[q] \/ eval'[q] = r
    BY Zenon, <1>1 DEF Set
  <2>2. Shaped(eval'[q], clock)
    BY Zenon, <2>1, Own
  <2> QED  BY Zenon, <2>2 DEF Shaped
<1> QED  BY Zenon, <1>2, <1>3

\* The shape holds at the start ...
LEMMA ShapeInit == Init => ShapeInv
<1> SUFFICES ASSUME Init PROVE ShapeInv
  OBVIOUS
<1>1. [Draft EXCEPT !.status = "active"] \in Reviews
  BY Rest DEF Reviews, Statuses
<1>2. review \in Reviews /\ asked \in Statuses /\ cache \in [review : Reviews, version : 0 .. MaxSaves]
  <2>1. review \in Reviews
    BY Zenon, <1>1 DEF Init
  <2>2. review.status \in Statuses
    BY <2>1 DEF Reviews
  <2>3. [review |-> review, version |-> 0] \in [review : Reviews, version : 0 .. MaxSaves]
    BY <2>1, GuardianAssumption
  <2> QED  BY Zenon, <2>1, <2>2, <2>3 DEF Init
<1>3. /\ clock \in 0 .. MaxTime /\ version \in 0 .. MaxSaves /\ queue \in Seq(Events)
      /\ Len(queue) <= Capacity
      /\ budget \in [deliveries : 0 .. MaxDeliveries, restarts : 0 .. MaxRestarts]
  BY GuardianAssumption DEF Init
<1>4. /\ evalCool \in [Cameras -> Times] /\ cool \in [Cameras \X Actions -> Times]
      /\ seen \in [Keys -> Times] /\ ran \in [Keys -> Times]
      /\ autoRun \in [Cameras \X Actions -> Times]
  BY Zenon, TimesTyped DEF Init
<1>5. EvalsTyped /\ op \in [Operators -> [pc : {"idle", "load", "keep"}, review : Reviews]]
  BY Zenon, Rest DEF Init, EvalsTyped
<1>6. OthersTyped
  BY Zenon, <1>2, <1>3, <1>4, <1>5 DEF Init, OthersTyped
<1>7. Shaped(Idle, 0)
  BY Rest DEF Shaped
<1> QED  BY Zenon, <1>5, <1>6, <1>7, Parts DEF Init, ShapeInv

\* ... and is kept: ingest, the clock and a restart, ...
LEMMA ShapeAround ==
  ASSUME ShapeInv, (\E e \in Events : Ingest(e)) \/ Tick \/ Restart
  PROVE  ShapeInv'
<1>1. EvalsTyped /\ OthersTyped
  BY Zenon, Parts DEF ShapeInv
<1>2. ASSUME NEW e \in Events, Ingest(e)
      PROVE  ShapeInv'
  <2>1. budget' \in [deliveries : 0 .. MaxDeliveries, restarts : 0 .. MaxRestarts]
    BY Zenon, <1>1, <1>2, Counted DEF OthersTyped, Ingest
  <2>2. evalCool' \in [Cameras -> Times]
    <3>1. evalCool' = evalCool \/ evalCool' = [evalCool EXCEPT ![CameraOf[e]] = clock]
      BY Zenon, <1>2 DEF Ingest
    <3>2. evalCool \in [Cameras -> Times] /\ clock \in Times
      BY <1>1, TimesTyped DEF OthersTyped
    <3> QED  BY Zenon, <3>1, <3>2
  <2>3. queue' \in Seq(Events) /\ Len(queue)' <= Capacity
    <3>1. queue' = queue \/ (queue' = Append(queue, e) /\ Len(queue) < Capacity)
      BY Zenon, <1>2 DEF Ingest, enqueue
    <3>2. queue \in Seq(Events) /\ Len(queue) <= Capacity
      BY Zenon, <1>1 DEF OthersTyped
    <3> QED  BY Zenon, <3>1, <3>2, Queued
  <2>4. OthersTyped' /\ EvalsTyped'
    BY Zenon, <1>1, <1>2, <2>1, <2>2, <2>3 DEF OthersTyped, EvalsTyped, Ingest, historyVars
  <2> QED  BY Zenon, <1>2, <2>4, Whole DEF ShapeInv, Ingest, Shaped
<1>3. CASE Tick
  <2>1. clock' \in 0 .. MaxTime
    <3>1. clock \in 0 .. MaxTime /\ clock < MaxTime /\ clock' = clock + 1 /\ MaxTime \in Nat
      BY <1>1, <1>3, GuardianAssumption DEF OthersTyped, Tick
    <3> QED  BY ONLY <3>1
  <2>2. OthersTyped' /\ EvalsTyped'
    BY Zenon, <1>1, <1>3, <2>1 DEF OthersTyped, EvalsTyped, Tick, guardianVars, historyVars
  <2>3. ASSUME NEW p \in Evaluators
        PROVE  Shaped(eval[p], clock)'
    <3>1. eval[p].now \in 0 .. MaxTime /\ clock \in 0 .. MaxTime /\ Shaped(eval[p], clock)
      BY Zenon, Own
    <3>2. eval[p].now <= clock'
      BY <1>3, <3>1, GuardianAssumption DEF Tick, Shaped
    <3> QED  BY Zenon, <1>3, <3>1, <3>2 DEF Tick, Shaped
  <2> QED  BY Zenon, <2>2, <2>3, Whole
<1>4. CASE Restart
  <2>1. budget' \in [deliveries : 0 .. MaxDeliveries, restarts : 0 .. MaxRestarts]
    BY Zenon, <1>1, <1>4, Counted DEF OthersTyped, Restart
  <2>2. queue' \in Seq(Events) /\ Len(queue)' <= Capacity
    BY <1>4, GuardianAssumption DEF Restart
  <2>3. cache' \in [review : Reviews, version : 0 .. MaxSaves]
    BY Zenon, <1>1, <1>4, ValuesTyped DEF OthersTyped, Restart
  <2>4. /\ evalCool' \in [Cameras -> Times] /\ cool' \in [Cameras \X Actions -> Times]
        /\ seen' \in [Keys -> Times] /\ ran' \in [Keys -> Times]
        /\ autoRun' \in [Cameras \X Actions -> Times]
    BY Zenon, <1>4, TimesTyped DEF Restart
  <2>5. EvalsTyped' /\ op' \in [Operators -> [pc : {"idle", "load", "keep"}, review : Reviews]]
    BY Zenon, <1>4, Rest DEF Restart, EvalsTyped
  <2>6. OthersTyped'
    BY Zenon, <1>1, <1>4, <2>1, <2>2, <2>3, <2>4, <2>5 DEF OthersTyped, Restart
  <2>7. Shaped(Idle, clock)
    BY <1>1, Rest DEF Shaped, OthersTyped, Pcs
  <2>8. \A p \in Evaluators : Shaped(eval[p], clock)'
    BY Zenon, <1>4, <2>7 DEF Restart, Shaped
  <2> QED  BY Zenon, <2>5, <2>6, <2>8, Whole
<1> QED  BY Zenon, <1>2, <1>3, <1>4

\* ... the operators, ...
LEMMA ShapeOperate ==
  ASSUME ShapeInv, NEW o \in Operators, Operate(o)
  PROVE  ShapeInv'
<1>1. EvalsTyped /\ OthersTyped
  BY Zenon, Parts DEF ShapeInv
<1>2. ASSUME OthersTyped', UNCHANGED <<clock, eval>>
      PROVE  ShapeInv'
  BY Zenon, <1>1, <1>2, Whole DEF ShapeInv, EvalsTyped, Shaped
<1>3. ASSUME NEW r \in Reviews, Save(o, r)
      PROVE  ShapeInv'
  <2>1. review' \in Reviews /\ version' \in 0 .. MaxSaves /\ skewed' \in BOOLEAN /\ asked' \in Statuses
    <3>1. version' \in 0 .. MaxSaves
      BY <1>1, <1>3, GuardianAssumption DEF OthersTyped, Save, Write
    <3>2. r.status \in Statuses
      BY DEF Reviews
    <3> QED  BY Zenon, <1>3, <3>1, <3>2 DEF Save, Write
  <2>2. op' \in [Operators -> [pc : {"idle", "load", "keep"}, review : Reviews]]
    BY <1>1, <1>3 DEF OthersTyped, Save
  <2>3. OthersTyped'
    BY Zenon, <1>1, <1>3, <2>1, <2>2 DEF OthersTyped, Save, guardianVars
  <2> QED  BY Zenon, <1>2, <1>3, <2>3 DEF Save
<1>4. ASSUME NEW s \in Statuses, SetStatus(o, s) \/ Propose(o, s)
      PROVE  ShapeInv'
  BY Zenon, <1>3, <1>4, ValuesTyped DEF SetStatus, Propose
<1>5. CASE OperatorLoads(o)
  <2>1. op' \in [Operators -> [pc : {"idle", "load", "keep"}, review : Reviews]]
    BY <1>1, <1>5 DEF OthersTyped, OperatorLoads
  <2>2. OthersTyped'
    BY Zenon, <1>1, <1>5, <2>1 DEF OthersTyped, OperatorLoads, guardianVars, historyVars
  <2> QED  BY Zenon, <1>2, <1>5, <2>2 DEF OperatorLoads
<1>6. CASE OperatorKeeps(o)
  <2>1. op[o].review \in Reviews
    BY <1>1 DEF OthersTyped
  <2>2. cache' \in [review : Reviews, version : 0 .. MaxSaves]
    BY Zenon, <1>6, <2>1, ValuesTyped DEF OperatorKeeps
  <2>3. op' \in [Operators -> [pc : {"idle", "load", "keep"}, review : Reviews]]
    BY Zenon, <1>1, <1>6, Rest DEF OthersTyped, OperatorKeeps
  <2>4. OthersTyped'
    BY Zenon, <1>1, <1>6, <2>2, <2>3 DEF OthersTyped, OperatorKeeps, historyVars
  <2> QED  BY Zenon, <1>2, <1>6, <2>4 DEF OperatorKeeps
<1> QED  BY Zenon, <1>4, <1>5, <1>6 DEF Operate

\* The steps that neither act nor decide to act keep the shape, ...
LEMMA ShapeQuiet ==
  ASSUME ShapeInv, NEW p \in Evaluators, Evaluates(p)
  PROVE  ShapeInv'
<1>1. EvalsTyped /\ OthersTyped
  BY Zenon, Parts DEF ShapeInv
<1>2. PICK r \in Evaluation : Quiet(p, r)
  BY Zenon, QuietSteps
<1>3. EvalsTyped' /\ \A q \in Evaluators : Shaped(eval[q], clock)'
  BY Zenon, <1>2, ShapeSet DEF Quiet
<1>4. seen' \in [Keys -> Times]
  <2>1. seen \in [Keys -> Times] /\ \A t : Remembered(t) \in [Keys -> Times]
    BY Zenon, <1>1, ValuesTyped DEF OthersTyped
  <2> QED  BY Zenon, <1>2, <2>1 DEF Quiet
<1>5. /\ clock' \in 0 .. MaxTime /\ cool' \in [Cameras \X Actions -> Times] /\ raced' \subseteq Keys
      /\ ran' \in [Keys -> Times] /\ autoRun' \in [Cameras \X Actions -> Times]
      /\ backdated' \subseteq Cameras \X Actions
  BY Zenon, <1>1, <1>2 DEF Quiet, OthersTyped
<1>6. queue' \in Seq(Events) /\ Len(queue)' <= Capacity
  <2>1. UNCHANGED queue \/ (queue' = Tail(queue) /\ queue /= << >>)
    BY Zenon DEF Evaluates, WorkerReceive, WorkerChecksCache, WorkerLoads, WorkerKeeps,
       WorkerTakesRules, WorkerFinishes, DecideCooling, DecideDuplicate, DeskBegins, DeskSaves,
       DeskFails, guardianVars
  <2>2. ASSUME queue /= << >>
        PROVE  Tail(queue) \in Seq(Events) /\ Len(Tail(queue)) <= Capacity
    <3>1. queue \in Seq(Events) /\ Len(queue) <= Capacity
      BY Zenon, <1>1 DEF OthersTyped
    <3> QED  BY Zenon, <2>2, <3>1, Dequeued
  <2> QED  BY Zenon, <1>1, <2>1, <2>2 DEF OthersTyped
<1>7. cache' \in [review : Reviews, version : 0 .. MaxSaves]
  <2>1. eval["worker"].review \in Reviews
    BY Zenon, Own DEF Evaluators
  <2>2. UNCHANGED cache \/ cache' = CacheEntry(eval["worker"].review)
    BY Zenon DEF Evaluates, WorkerReceive, WorkerChecksCache, WorkerLoads, WorkerKeeps,
       WorkerTakesRules, WorkerFinishes, DecideCooling, DecideDuplicate, DeskBegins, DeskSaves,
       DeskFails, guardianVars
  <2>3. CacheEntry(eval["worker"].review) \in [review : Reviews, version : 0 .. MaxSaves]
    BY Zenon, <2>1, ValuesTyped
  <2> QED  BY Zenon, <1>1, <2>2, <2>3 DEF OthersTyped
<1>8. review' \in Reviews /\ version' \in 0 .. MaxSaves /\ skewed' \in BOOLEAN
  <2>1. UNCHANGED <<review, version, skewed>> \/ Write(WithSummary(p))
    BY Zenon DEF Evaluates, WorkerReceive, WorkerChecksCache, WorkerLoads, WorkerKeeps,
       WorkerTakesRules, WorkerFinishes, DecideCooling, DecideDuplicate, DeskBegins, DeskSaves,
       DeskFails, historyVars
  <2>2. CASE Write(WithSummary(p))
    <3>1. version' \in 0 .. MaxSaves
      BY <1>1, <2>2, GuardianAssumption DEF OthersTyped, Write
    <3> QED  BY Zenon, <2>2, <3>1, ValuesTyped DEF Write
  <2> QED  BY Zenon, <1>1, <2>1, <2>2 DEF OthersTyped
<1>9. UNCHANGED <<latest, op, budget, asked>>
  BY Zenon DEF Evaluates, WorkerReceive, WorkerChecksCache, WorkerLoads, WorkerKeeps,
     WorkerTakesRules, WorkerFinishes, DecideCooling, DecideDuplicate, DeskBegins, DeskSaves,
     DeskFails, historyVars
<1>10. UNCHANGED evalCool
  BY Zenon DEF Evaluates, WorkerReceive, WorkerChecksCache, WorkerLoads, WorkerKeeps,
     WorkerTakesRules, WorkerFinishes, DecideCooling, DecideDuplicate, DeskBegins, DeskSaves,
     DeskFails, guardianVars
<1>11. OthersTyped'
  BY Zenon, <1>1, <1>4, <1>5, <1>6, <1>7, <1>8, <1>9, <1>10 DEF OthersTyped
<1> QED  BY Zenon, <1>3, <1>11, Whole

\* ... and so do the decision to act and the action.
LEMMA ShapeLoud ==
  ASSUME ShapeInv, NEW p \in Evaluators,
         DecideToAct(p) \/ \E status \in {"acted", "failed", "blocked"} : Act(p, status)
  PROVE  ShapeInv'
<1>1. EvalsTyped /\ OthersTyped
  BY Zenon, Parts DEF ShapeInv
<1>2. PICK r \in Evaluation : Set(p, r) /\ Shaped(r, clock)
  BY Zenon, LoudSteps
<1>3. UNCHANGED clock
  BY Zenon DEF DecideToAct, Act
<1>4. EvalsTyped' /\ \A q \in Evaluators : Shaped(eval[q], clock)'
  BY Zenon, <1>2, <1>3, ShapeSet
<1>5. eval[p].now \in Times /\ Key(p) \in Keys /\ Place(p) \in Cameras \X Actions
  <2>1. eval[p].now \in 0 .. MaxTime
    BY Zenon, Own
  <2>2. Key(p) \in Keys /\ Place(p) \in Cameras \X Actions
    BY Zenon, InHand DEF DecideToAct, Act
  <2> QED  BY <2>1, <2>2, TimesTyped
<1>6. CASE DecideToAct(p)
  <2>1. raced' \subseteq Keys
    BY <1>1, <1>5, <1>6 DEF DecideToAct, OthersTyped
  <2>2. seen' \in [Keys -> Times]
    BY Zenon, <1>6, ValuesTyped DEF DecideToAct
  <2>3. OthersTyped'
    BY Zenon, <1>1, <1>6, <2>1, <2>2 DEF OthersTyped, DecideToAct
  <2> QED  BY Zenon, <1>4, <2>3, Whole
<1>7. ASSUME NEW status \in {"acted", "failed", "blocked"}, Act(p, status)
      PROVE  ShapeInv'
  <2>1. /\ cool' \in [Cameras \X Actions -> Times] /\ seen' \in [Keys -> Times]
        /\ ran' \in [Keys -> Times] /\ autoRun' \in [Cameras \X Actions -> Times]
    <3>1. /\ cool' = [cool EXCEPT ![Place(p)] = eval[p].now]
          /\ seen' = [seen EXCEPT ![Key(p)] = eval[p].now]
          /\ ran' = [ran EXCEPT ![Key(p)] = eval[p].now]
          /\ autoRun' = autoRun \/ autoRun' = [autoRun EXCEPT ![Place(p)] = eval[p].now]
      BY Zenon, <1>7 DEF Act, Mark
    <3>2. /\ cool \in [Cameras \X Actions -> Times] /\ seen \in [Keys -> Times]
          /\ ran \in [Keys -> Times] /\ autoRun \in [Cameras \X Actions -> Times]
      BY Zenon, <1>1 DEF OthersTyped
    <3> QED  BY Zenon, <1>5, <3>1, <3>2
  <2>2. backdated' \subseteq Cameras \X Actions
    BY Zenon, <1>1, <1>5, <1>7 DEF Act, OthersTyped
  <2>3. OthersTyped'
    BY Zenon, <1>1, <1>7, <2>1, <2>2 DEF OthersTyped, Act
  <2> QED  BY Zenon, <1>4, <2>3, Whole
<1> QED  BY Zenon, <1>6, <1>7

\* The steps of the Home Guardian by kind.
LEMMA Kinds ==
  ASSUME Next
  PROVE  \/ (\E e \in Events : Ingest(e)) \/ Tick \/ Restart
         \/ \E o \in Operators : Operate(o)
         \/ \E p \in Evaluators :
              \/ Evaluates(p) \/ DecideToAct(p)
              \/ \E status \in {"acted", "failed", "blocked"} : Act(p, status)
<1>1. "worker" \in Evaluators /\ \A d \in Desks : d \in Evaluators
  BY DEF Evaluators
<1> QED  BY Zenon, <1>1 DEF Next, Worker, Desk, Evaluate, Evaluates

\* Every step keeps the shape.
LEMMA ShapeStep == ShapeInv /\ [Next]_vars => ShapeInv'
<1> SUFFICES ASSUME ShapeInv, [Next]_vars PROVE ShapeInv'
  OBVIOUS
<1>1. CASE Next
  BY Zenon, <1>1, Kinds, ShapeAround, ShapeOperate, ShapeQuiet, ShapeLoud
<1>2. CASE UNCHANGED vars
  BY Zenon, <1>2 DEF vars, guardianVars, historyVars, ShapeInv, TypeOK, Shaped
<1> QED  BY Zenon, <1>1, <1>2

\* Every value that the Home Guardian keeps is of its kind, and an evaluation that acts has
\* an event and an action in hand (evaluate_home_guardian_rules_for_event).
THEOREM GuardianShape == Spec => []ShapeInv
BY ShapeInit, ShapeStep, PTL DEF Spec

\* The queue never holds more than its capacity, and every other variable is of its kind.
THEOREM GuardianTyped == Spec => []TypeOK
<1>1. ShapeInv => TypeOK
  BY Zenon DEF ShapeInv
<1> QED  BY <1>1, GuardianShape, PTL

-----------------------------------------------------------------------------
(* The rules that the automatic evaluation reads.                          *)

\* A refresh under way holds the rule of the file, unless a save came in between.
KeptInv ==
  /\ cache.version <= version /\ CacheIsTrue
  /\ ~skewed => /\ \A p \in Evaluators : eval[p].pc = "keep" => eval[p].review = review
                /\ \A o \in Operators : op[o].pc = "keep" => op[o].review = review

\* The versions are numbers.
LEMMA Versions ==
  ASSUME ShapeInv
  PROVE  version \in Nat /\ cache.version \in Nat
BY GuardianAssumption DEF ShapeInv, TypeOK

\* A save: the cache falls behind, and a refresh under way is marked.
LEMMA KeptWrite ==
  ASSUME ShapeInv, KeptInv, NEW r, Write(r), UNCHANGED cache,
         \A p \in Evaluators : eval'[p].pc = "keep" => eval[p].pc = "keep",
         \A o \in Operators : op'[o].pc = "keep" => op[o].pc = "keep"
  PROVE  KeptInv'
<1>1. cache.version < version' /\ cache.version <= version' /\ cache.version /= version'
  BY Versions DEF KeptInv, Write
<1>2. (cache.version <= version)' /\ CacheIsTrue'
  BY Zenon, <1>1 DEF CacheIsTrue
<1>3. ~skewed' => Refreshing = {}
  BY Zenon DEF Write
<1>4. ~skewed' => \A p \in Evaluators : eval'[p].pc /= "keep"
  BY <1>3 DEF Refreshing
<1>5. ~skewed' => \A o \in Operators : op'[o].pc /= "keep"
  BY <1>3 DEF Refreshing
<1> QED  BY Zenon, <1>2, <1>4, <1>5 DEF KeptInv

\* A refresh ends: the entry holds what was loaded under the fingerprint of now.
LEMMA KeptStored ==
  ASSUME ShapeInv, KeptInv, NEW r \in Reviews, ~skewed => r = review, cache' = CacheEntry(r),
         UNCHANGED <<review, version, skewed>>,
         \A p \in Evaluators : eval'[p].pc = "keep" => eval'[p] = eval[p],
         \A o \in Operators : op'[o].pc = "keep" => op'[o] = op[o]
  PROVE  KeptInv'
<1>1. cache'.version = version /\ cache'.review = r
  BY DEF CacheEntry
<1>2. version <= version
  BY Versions
<1> QED  BY Zenon, <1>1, <1>2 DEF KeptInv, CacheIsTrue

\* A step that leaves the cache and the file alone: whoever loads the rule has it.
LEMMA KeptAlone ==
  ASSUME KeptInv, UNCHANGED <<cache, review, version, skewed>>,
         \A p \in Evaluators : eval'[p].pc = "keep" => eval'[p] = eval[p] \/ eval'[p].review = review,
         \A o \in Operators : op'[o].pc = "keep" => op'[o] = op[o] \/ op'[o].review = review
  PROVE  KeptInv'
BY Zenon DEF KeptInv, CacheIsTrue

\* The other evaluations are left alone.
LEMMA SetOnly ==
  ASSUME ShapeInv, NEW p \in Evaluators, NEW r, Set(p, r)
  PROVE  eval'[p] = r /\ \A q \in Evaluators : q /= p => eval'[q] = eval[q]
<1>1. eval \in [Evaluators -> Evaluation]
  BY Zenon, Own
<1> QED  BY Zenon, <1>1 DEF Set

\* The invariant of the refreshes is kept by the operators ...
LEMMA KeptOperate ==
  ASSUME ShapeInv, KeptInv, NEW o \in Operators, Operate(o)
  PROVE  KeptInv'
<1>1. op \in [Operators -> [pc : {"idle", "load", "keep"}, review : Reviews]]
  BY Zenon DEF ShapeInv, TypeOK
<1>2. ASSUME NEW r, Save(o, r)
      PROVE  KeptInv'
  <2>1. \A x \in Operators : op'[x].pc = "keep" => op[x].pc = "keep"
    BY <1>1, <1>2 DEF Save
  <2> QED  BY Zenon, <1>2, <2>1, KeptWrite DEF Save, guardianVars
<1>3. CASE OperatorLoads(o)
  <2>1. \A x \in Operators : op'[x] = op[x] \/ op'[x].review = review
    BY <1>1, <1>3 DEF OperatorLoads
  <2> QED  BY Zenon, <1>3, <2>1, KeptAlone DEF OperatorLoads, guardianVars, historyVars
<1>4. CASE OperatorKeeps(o)
  <2>1. \A x \in Operators : op'[x].pc = "keep" => op'[x] = op[x]
    <3>1. \A x \in Operators : op'[x] = op[x] \/ op'[x] = NoOp
      BY Zenon, <1>1, <1>4 DEF OperatorKeeps
    <3>2. NoOp.pc /= "keep"
      BY DEF NoOp
    <3> QED  BY Zenon, <3>1, <3>2
  <2>2. op[o].review \in Reviews
    BY <1>1
  <2>3. ~skewed => op[o].review = review
    BY Zenon, <1>4 DEF KeptInv, OperatorKeeps
  <2> QED  BY Zenon, <1>4, <2>1, <2>2, <2>3, KeptStored DEF OperatorKeeps, historyVars
<1> QED  BY Zenon, <1>2, <1>3, <1>4 DEF Operate, SetStatus, Propose

\* ... and by the evaluations.
LEMMA KeptQuiet ==
  ASSUME ShapeInv, KeptInv, NEW p \in Evaluators, Evaluates(p)
  PROVE  KeptInv'
<1>1. PICK r \in Evaluation : Quiet(p, r)
  BY Zenon, QuietSteps
<1>2. eval'[p] = r /\ \A q \in Evaluators : q /= p => eval'[q] = eval[q]
  BY Zenon, <1>1, SetOnly DEF Quiet
<1>3. UNCHANGED op
  BY Zenon DEF Evaluates, WorkerReceive, WorkerChecksCache, WorkerLoads, WorkerKeeps,
     WorkerTakesRules, WorkerFinishes, DecideCooling, DecideDuplicate, DeskBegins, DeskSaves,
     DeskFails
<1>4. CASE DeskSaves(p)
  <2>1. eval'[p].pc /= "keep"
    BY Zenon, <1>4, SetOnly, Rest DEF DeskSaves
  <2>2. \A q \in Evaluators : eval'[q].pc = "keep" => eval[q].pc = "keep"
    BY Zenon, <1>2, <2>1
  <2> QED  BY Zenon, <1>3, <1>4, <2>2, KeptWrite DEF DeskSaves, guardianVars
<1>5. CASE p = "worker" /\ WorkerKeeps
  <2>1. eval'[p] = [eval[p] EXCEPT !.pc = "take"]
    BY Zenon, <1>5, SetOnly DEF WorkerKeeps, Go
  <2>2. eval'[p].pc /= "keep"
    BY Zenon, <2>1, Moved, Own DEF Pcs
  <2>3. eval[p].review \in Reviews /\ (~skewed => eval[p].review = review)
    BY Zenon, <1>5, Own DEF KeptInv, WorkerKeeps
  <2>4. \A q \in Evaluators : eval'[q].pc = "keep" => eval'[q] = eval[q]
    BY Zenon, <1>2, <2>2
  <2> QED  BY Zenon, <1>3, <1>5, <2>3, <2>4, KeptStored DEF WorkerKeeps, historyVars
<1>6. CASE ~DeskSaves(p) /\ ~(p = "worker" /\ WorkerKeeps)
  <2>1. UNCHANGED <<review, version, skewed>>
    BY Zenon, <1>6 DEF Evaluates, WorkerReceive, WorkerChecksCache, WorkerLoads,
       WorkerTakesRules, WorkerFinishes, DecideCooling, DecideDuplicate, DeskBegins,
       DeskFails, historyVars
  <2>2. UNCHANGED cache
    BY Zenon, <1>6 DEF Evaluates, WorkerReceive, WorkerChecksCache, WorkerLoads,
       WorkerTakesRules, WorkerFinishes, DecideCooling, DecideDuplicate, DeskBegins,
       DeskFails, guardianVars
  <2>3. \A q \in Evaluators : eval'[q].pc = "keep" => eval'[q] = eval[q] \/ eval'[q].review = review
    BY Zenon, <1>1, <1>2 DEF Quiet
  <2> QED  BY Zenon, <1>3, <2>1, <2>2, <2>3, KeptAlone
<1> QED  BY Zenon, <1>4, <1>5, <1>6

\* Deciding to act, and acting, concern no refresh.
LEMMA KeptLoud ==
  ASSUME ShapeInv, KeptInv, NEW p \in Evaluators,
         DecideToAct(p) \/ \E status \in {"acted", "failed", "blocked"} : Act(p, status)
  PROVE  KeptInv'
<1>1. PICK r \in Evaluation : Set(p, r) /\ r.pc /= "keep"
  BY Zenon, LoudSteps
<1>2. \A q \in Evaluators : eval'[q].pc = "keep" => eval'[q] = eval[q]
  BY Zenon, <1>1, SetOnly
<1>3. UNCHANGED <<cache, review, version, skewed, op>>
  BY Zenon DEF DecideToAct, Act
<1> QED  BY Zenon, <1>2, <1>3, KeptAlone

\* Every step keeps the invariant of the refreshes.
LEMMA KeptStep == ShapeInv /\ KeptInv /\ [Next]_vars => KeptInv'
<1> SUFFICES ASSUME ShapeInv, KeptInv, [Next]_vars PROVE KeptInv'
  OBVIOUS
<1>1. CASE (\E e \in Events : Ingest(e)) \/ Tick
  <2>1. UNCHANGED <<cache, review, version, skewed, eval, op>>
    BY Zenon, <1>1 DEF Ingest, Tick, guardianVars, historyVars
  <2> QED  BY Zenon, <2>1, KeptAlone
<1>2. CASE Restart
  <2>1. \A p \in Evaluators : eval'[p].pc /= "keep"
    BY Zenon, <1>2, Rest DEF Restart
  <2>2. \A o \in Operators : op'[o].pc /= "keep"
    BY Zenon, <1>2, Rest DEF Restart
  <2>3. cache'.version = version /\ cache'.review = review /\ version <= version
    BY <1>2, Versions DEF Restart, CacheEntry
  <2> QED  BY Zenon, <1>2, <2>1, <2>2, <2>3 DEF KeptInv, CacheIsTrue, Restart
<1>3. CASE UNCHANGED vars
  BY Zenon, <1>3, KeptAlone DEF vars, guardianVars, historyVars
<1> QED  BY Zenon, <1>1, <1>2, <1>3, Kinds, KeptOperate, KeptQuiet, KeptLoud

\* A cache entry under the fingerprint of the file is the file's rule
\* (cached_home_guardian_reviews_for_auto, refresh_home_guardian_rule_cache), whatever
\* the worker, the operators and the desks do, unless a save fell within a refresh.
THEOREM CachedRuleIsCurrent == Spec => []CacheIsTrue
<1>1. Init => KeptInv
  <2> SUFFICES ASSUME Init PROVE KeptInv
    OBVIOUS
  <2>1. cache.version = 0 /\ version = 0 /\ cache.review = review
    BY DEF Init
  <2>2. \A p \in Evaluators : eval[p].pc /= "keep"
    BY Zenon, Rest DEF Init
  <2>3. \A o \in Operators : op[o].pc /= "keep"
    BY Zenon, Rest DEF Init
  <2>4. cache.version <= version
    BY <2>1
  <2> QED  BY Zenon, <2>1, <2>2, <2>3, <2>4 DEF KeptInv, CacheIsTrue
<1>2. KeptInv => CacheIsTrue
  BY Zenon DEF KeptInv
<1> QED  BY <1>1, <1>2, KeptStep, GuardianShape, PTL DEF Spec

-----------------------------------------------------------------------------
(* Once for an event.                                                      *)

\* At time t a run that began at time last, if any, is older than the memory.
Gone(t, last) == last = Never \/ t - last > Memory

Acting(p) == eval[p].pc = "act"

\* The table of runs is right about what is recent; who acts was told so, or is one of two.
OnceInv ==
  /\ \A k \in Keys : seen[k] = ran[k] \/ Gone(clock, ran[k])
  /\ \A p \in Evaluators : Acting(p) => Gone(clock, ran[Key(p)]) \/ Key(p) \in raced
  /\ \A p, q \in Evaluators : Acting(p) /\ Acting(q) /\ p /= q /\ Key(p) = Key(q) => Key(p) \in raced

\* What is gone stays gone.
LEMMA GoneLater ==
  ASSUME NEW s \in Int, NEW t \in Int, s <= t, NEW l \in Int, Gone(s, l)
  PROVE  Gone(t, l)
<1>1. Memory \in Int
  BY GuardianAssumption
<1> QED  BY <1>1 DEF Gone

\* The clock and the tables hold numbers.
LEMMA Numbers ==
  ASSUME ShapeInv
  PROVE  /\ clock \in Int /\ \A k \in Keys : seen[k] \in Int /\ ran[k] \in Int
         /\ \A p \in Evaluators : eval[p].now \in Int /\ eval[p].now <= clock
         /\ \A pl \in Cameras \X Actions : /\ cool[pl] \in Int /\ autoRun[pl] \in Int
                                           /\ autoRun[pl] >= Never
<1>1. /\ clock \in Int /\ seen \in [Keys -> Times] /\ ran \in [Keys -> Times]
      /\ cool \in [Cameras \X Actions -> Times] /\ autoRun \in [Cameras \X Actions -> Times]
  BY DEF ShapeInv, TypeOK
<1>2. \A t \in Times : t \in Int /\ t >= Never
  BY GuardianAssumption DEF Times, Never
<1>3. ASSUME NEW p \in Evaluators
      PROVE  eval[p].now \in Int /\ eval[p].now <= clock
  <2>1. eval[p].now \in 0 .. MaxTime /\ Shaped(eval[p], clock)
    BY Zenon, Own
  <2> QED  BY <2>1 DEF Shaped
<1> QED  BY Zenon, <1>1, <1>2, <1>3

\* Who is left alone has the same key and place.
LEMMA SameKey ==
  ASSUME NEW q, eval'[q].event = eval[q].event, eval'[q].next = eval[q].next
  PROVE  Key(q)' = Key(q) /\ Place(q)' = Place(q)
BY Zenon DEF Key, Place, Action

\* Forgetting what is old leaves the table right (guardian_action_run_seen).
LEMMA StillRemembered ==
  ASSUME ShapeInv, OnceInv, NEW p \in Evaluators, NEW k \in Keys
  PROVE  /\ Remembered(eval[p].now)[k] = ran[k] \/ Gone(clock, ran[k])
         /\ Remembered(eval[p].now)[k] = Never => Gone(clock, ran[k])
<1>1. Remembered(eval[p].now)[k] = IF eval[p].now - seen[k] <= Memory THEN seen[k] ELSE Never
  BY Zenon DEF Remembered
<1>2. seen[k] = ran[k] \/ Gone(clock, ran[k])
  BY Zenon DEF OnceInv
<1>3. /\ clock \in Int /\ seen[k] \in Int /\ ran[k] \in Int /\ eval[p].now \in Int
      /\ eval[p].now <= clock /\ Memory \in Int
  BY Numbers, GuardianAssumption
<1>4. CASE eval[p].now - seen[k] <= Memory
  BY Zenon, <1>1, <1>2, <1>4 DEF Gone
<1>5. CASE ~(eval[p].now - seen[k] <= Memory)
  <2>1. clock - seen[k] > Memory
    BY ONLY <1>3, <1>5
  <2> QED  BY Zenon, <1>2, <2>1 DEF Gone
<1> QED  BY Zenon, <1>4, <1>5

\* A step that changes no evaluation and none of the tables.
LEMMA OnceFrame ==
  ASSUME OnceInv, UNCHANGED <<clock, seen, ran, raced, eval>>
  PROVE  OnceInv'
BY Zenon DEF OnceInv, Acting, Key, Action, Gone

\* The passing of time only makes runs older.
LEMMA OnceTick ==
  ASSUME ShapeInv, OnceInv, Tick
  PROVE  OnceInv'
<1>1. UNCHANGED <<seen, ran, raced, eval>>
  BY Zenon DEF Tick, guardianVars, historyVars
<1>2. clock \in Int /\ clock' \in Int /\ clock <= clock'
  BY Numbers DEF Tick
<1>3. \A k \in Keys : Gone(clock, ran[k]) => Gone(clock', ran[k])
  BY Zenon, <1>2, Numbers, GoneLater
<1>4. \A p \in Evaluators : Acting(p) => Key(p) \in Keys
  BY Zenon, InHand DEF Acting
<1>5. \A p \in Evaluators : Acting(p)' = Acting(p) /\ Key(p)' = Key(p)
  BY Zenon, <1>1 DEF Acting, Key, Action
<1>6. (\A k \in Keys : seen[k] = ran[k] \/ Gone(clock, ran[k]))'
  BY Zenon, <1>1, <1>3 DEF OnceInv, Gone
<1>7. ASSUME NEW p \in Evaluators, Acting(p)'
      PROVE  (Gone(clock, ran[Key(p)]) \/ Key(p) \in raced)'
  <2>1. Acting(p) /\ Key(p) \in Keys /\ Key(p)' = Key(p)
    BY Zenon, <1>4, <1>5, <1>7
  <2>2. Gone(clock', ran[Key(p)]) \/ Key(p) \in raced
    BY Zenon, <1>3, <2>1 DEF OnceInv
  <2> QED  BY Zenon, <1>1, <2>1, <2>2 DEF Gone
<1> QED  BY Zenon, <1>1, <1>5, <1>6, <1>7 DEF OnceInv

\* A quiet step: the table forgets only what is old, and nobody begins to act.
LEMMA OnceQuiet ==
  ASSUME ShapeInv, OnceInv, NEW p \in Evaluators, NEW r, Quiet(p, r)
  PROVE  OnceInv'
<1>1. /\ UNCHANGED <<clock, ran, raced>>
      /\ seen' = seen \/ seen' = Remembered(eval[p].now)
  BY Zenon DEF Quiet
<1>2. ~Acting(p)' /\ \A q \in Evaluators : q /= p => eval'[q] = eval[q]
  BY Zenon, SetOnly DEF Quiet, Acting
<1>3. ASSUME NEW q \in Evaluators, Acting(q)'
      PROVE  q /= p /\ Acting(q) /\ Key(q)' = Key(q)
  BY Zenon, <1>2, <1>3 DEF Acting, Key, Action
<1>4. (\A k \in Keys : seen[k] = ran[k] \/ Gone(clock, ran[k]))'
  <2>1. \A k \in Keys : seen'[k] = ran[k] \/ Gone(clock, ran[k])
    BY Zenon, <1>1, StillRemembered DEF OnceInv
  <2> QED  BY Zenon, <1>1, <2>1 DEF Gone
<1>5. (\A q \in Evaluators : Acting(q) => Gone(clock, ran[Key(q)]) \/ Key(q) \in raced)'
  BY Zenon, <1>1, <1>3 DEF OnceInv, Gone
<1>6. (\A q, x \in Evaluators :
         Acting(q) /\ Acting(x) /\ q /= x /\ Key(q) = Key(x) => Key(q) \in raced)'
  BY Zenon, <1>1, <1>3 DEF OnceInv
<1> QED  BY Zenon, <1>4, <1>5, <1>6 DEF OnceInv

\* Who decides to act has not found the key, and marks an overlap with another who acts.
LEMMA OnceDecide ==
  ASSUME ShapeInv, OnceInv, NEW p \in Evaluators, DecideToAct(p)
  PROVE  OnceInv'
<1>1. PICK r \in Evaluation :
        Set(p, r) /\ r.event = eval[p].event /\ r.next = eval[p].next
  BY Zenon, LoudSteps
<1>2. eval'[p] = r /\ \A q \in Evaluators : q /= p => eval'[q] = eval[q]
  BY Zenon, <1>1, SetOnly
<1>3. \A q \in Evaluators : Key(q)' = Key(q)
  BY Zenon, <1>1, <1>2, SameKey
<1>4. \A q \in Evaluators : q /= p => Acting(q)' = Acting(q)
  BY Zenon, <1>2 DEF Acting
<1>5. /\ UNCHANGED <<clock, ran>> /\ seen' = Remembered(eval[p].now)
      /\ Remembered(eval[p].now)[Key(p)] = Never /\ Key(p) \in Keys
  BY Zenon, InHand DEF DecideToAct, AlreadyRun
<1>6. /\ \A k \in raced : k \in raced'
      /\ \A q \in Evaluators : q /= p /\ Acting(q) /\ Key(q) = Key(p) => Key(p) \in raced'
  BY Zenon DEF DecideToAct, Acting
<1>7. (\A k \in Keys : seen[k] = ran[k] \/ Gone(clock, ran[k]))'
  <2>1. \A k \in Keys : seen'[k] = ran[k] \/ Gone(clock, ran[k])
    BY Zenon, <1>5, StillRemembered
  <2> QED  BY Zenon, <1>5, <2>1 DEF Gone
<1>8. Gone(clock, ran[Key(p)])
  BY Zenon, <1>5, StillRemembered
<1>9. ASSUME NEW q \in Evaluators, Acting(q)'
      PROVE  (Gone(clock, ran[Key(q)]) \/ Key(q) \in raced)'
  <2>1. Gone(clock, ran[Key(q)]) \/ Key(q) \in raced
    BY Zenon, <1>4, <1>8, <1>9 DEF OnceInv
  <2> QED  BY Zenon, <1>3, <1>5, <1>6, <2>1 DEF Gone
<1>10. ASSUME NEW q \in Evaluators, NEW x \in Evaluators, Acting(q)', Acting(x)', q /= x,
              Key(q) = Key(x)
       PROVE  Key(q) \in raced'
  <2>1. CASE q = p
    BY Zenon, <1>4, <1>6, <1>10, <2>1
  <2>2. CASE x = p
    BY Zenon, <1>4, <1>6, <1>10, <2>2
  <2>3. CASE q /= p /\ x /= p
    <3>1. Key(q) \in raced
      BY Zenon, <1>4, <1>10, <2>3 DEF OnceInv
    <3> QED  BY Zenon, <1>6, <3>1
  <2> QED  BY Zenon, <2>1, <2>2, <2>3
<1>11. (\A q, x \in Evaluators :
          Acting(q) /\ Acting(x) /\ q /= x /\ Key(q) = Key(x) => Key(q) \in raced)'
  BY Zenon, <1>3, <1>10
<1> QED  BY Zenon, <1>7, <1>9, <1>11 DEF OnceInv

\* The run is recorded under its key; another who acts on that key was marked.
LEMMA OnceAct ==
  ASSUME ShapeInv, OnceInv, NEW p \in Evaluators, NEW status \in {"acted", "failed", "blocked"},
         Act(p, status)
  PROVE  OnceInv'
<1>1. ~DecideToAct(p)
  BY Zenon DEF Act, DecideToAct, Deciding
<1>2. PICK r \in Evaluation : Set(p, r) /\ r.pc = "decide"
  BY Zenon, <1>1, LoudSteps
<1>3. ~Acting(p)' /\ \A q \in Evaluators : q /= p => eval'[q] = eval[q]
  BY Zenon, <1>2, SetOnly DEF Acting
<1>4. ASSUME NEW q \in Evaluators, Acting(q)'
      PROVE  q /= p /\ Acting(q) /\ Key(q)' = Key(q) /\ Key(q) \in Keys
  <2>1. q /= p /\ Acting(q) /\ Key(q)' = Key(q)
    BY Zenon, <1>3, <1>4 DEF Acting, Key, Action
  <2> QED  BY Zenon, <2>1, InHand DEF Acting
<1>5. Acting(p) /\ Key(p) \in Keys
  BY Zenon, InHand DEF Act, Acting
<1>6. /\ UNCHANGED <<clock, raced>> /\ seen' = [seen EXCEPT ![Key(p)] = eval[p].now]
      /\ ran' = [ran EXCEPT ![Key(p)] = eval[p].now]
  BY Zenon DEF Act, Mark
<1>7. seen \in [Keys -> Times] /\ ran \in [Keys -> Times]
  BY Zenon DEF ShapeInv, TypeOK
<1>8. /\ seen'[Key(p)] = ran'[Key(p)]
      /\ \A k \in Keys : k /= Key(p) => seen'[k] = seen[k] /\ ran'[k] = ran[k]
  BY Zenon, <1>5, <1>6, <1>7
<1>9. (\A k \in Keys : seen[k] = ran[k] \/ Gone(clock, ran[k]))'
  <2>1. ASSUME NEW k \in Keys, k /= Key(p)
        PROVE  seen'[k] = ran'[k] \/ Gone(clock, ran'[k])
    <3>1. seen[k] = ran[k] \/ Gone(clock, ran[k])
      BY Zenon DEF OnceInv
    <3>2. seen'[k] = seen[k] /\ ran'[k] = ran[k]
      BY Zenon, <1>8, <2>1
    <3> QED  BY Zenon, <3>1, <3>2
  <2> QED  BY Zenon, <1>6, <1>8, <2>1 DEF Gone
<1>10. ASSUME NEW q \in Evaluators, Acting(q)'
       PROVE  (Gone(clock, ran[Key(q)]) \/ Key(q) \in raced)'
  <2>1. q /= p /\ Acting(q) /\ Key(q)' = Key(q) /\ Key(q) \in Keys
    BY Zenon, <1>4, <1>10
  <2>2. CASE Key(q) = Key(p)
    <3>1. Key(q) \in raced
      BY Zenon, <1>5, <2>1, <2>2 DEF OnceInv
    <3> QED  BY Zenon, <1>6, <2>1, <3>1
  <2>3. CASE Key(q) /= Key(p)
    <3>1. Gone(clock, ran[Key(q)]) \/ Key(q) \in raced
      BY Zenon, <2>1 DEF OnceInv
    <3>2. ran'[Key(q)] = ran[Key(q)]
      BY Zenon, <1>8, <2>1, <2>3
    <3> QED  BY Zenon, <1>6, <2>1, <3>1, <3>2 DEF Gone
  <2> QED  BY Zenon, <2>2, <2>3
<1>11. (\A q, x \in Evaluators :
          Acting(q) /\ Acting(x) /\ q /= x /\ Key(q) = Key(x) => Key(q) \in raced)'
  BY Zenon, <1>4, <1>6 DEF OnceInv
<1> QED  BY Zenon, <1>9, <1>10, <1>11 DEF OnceInv

\* After a restart nothing has run and nobody acts.
LEMMA Restarted ==
  ASSUME Restart
  PROVE  /\ \A p \in Evaluators : ~Acting(p)'
         /\ \A k \in Keys : seen'[k] = Never /\ ran'[k] = Never
         /\ \A pl \in Cameras \X Actions : cool'[pl] = Never /\ autoRun'[pl] = Never
BY Zenon, Rest DEF Restart, Acting

\* Every step keeps the table of runs right.
LEMMA OnceStep == ShapeInv /\ OnceInv /\ [Next]_vars => OnceInv'
<1> SUFFICES ASSUME ShapeInv, OnceInv, [Next]_vars PROVE OnceInv'
  OBVIOUS
<1>1. CASE \/ \E e \in Events : Ingest(e)
           \/ \E o \in Operators : Operate(o)
           \/ UNCHANGED vars
  <2>1. UNCHANGED <<clock, seen, ran, raced, eval>>
    BY Zenon, <1>1 DEF Ingest, Operate, SetStatus, Propose, Save, OperatorLoads, OperatorKeeps,
       vars, guardianVars, historyVars
  <2> QED  BY Zenon, <2>1, OnceFrame
<1>2. CASE Restart
  BY Zenon, <1>2, Restarted DEF OnceInv
<1>3. ASSUME NEW p \in Evaluators, Evaluates(p)
      PROVE  OnceInv'
  BY Zenon, <1>3, QuietSteps, OnceQuiet
<1> QED  BY Zenon, <1>1, <1>2, <1>3, Kinds, OnceTick, OnceDecide, OnceAct

\* The table of runs is right in every reachable state.
LEMMA OnceInductive == Spec => []OnceInv
<1>1. Init => OnceInv
  <2> SUFFICES ASSUME Init PROVE OnceInv
    OBVIOUS
  <2>1. \A p \in Evaluators : ~Acting(p)
    BY Zenon, Rest DEF Init, Acting
  <2>2. \A k \in Keys : seen[k] = ran[k]
    BY Zenon DEF Init
  <2> QED  BY Zenon, <2>1, <2>2 DEF OnceInv
<1> QED  BY <1>1, OnceStep, GuardianShape, PTL DEF Spec

\* Within the memory and one boot an action is tried at most once for an event
\* (guardian_action_run_seen, mark_guardian_action_run_seen), except where two
\* evaluations passed the check before either had marked the key.
THEOREM TriedOnce == Spec => OncePerEvent
<1>1. OnceInv /\ [Next]_vars =>
        [\A p \in Evaluators : Acts(p) =>
            \/ ran[Key(p)] = Never \/ clock - ran[Key(p)] > Memory
            \/ Key(p) \in raced]_vars
  BY Zenon DEF OnceInv, Acts, Acting, Gone
<1> QED  BY <1>1, OnceInductive, PTL DEF Spec, OncePerEvent

-----------------------------------------------------------------------------
(* The cooldown of automatic runs.                                         *)

\* At time t an automatic run that began at time last, if any, lies a cooldown back.
Cooled(t, last) == last = Never \/ t - last >= Cooldown

\* The cooldown of a place is no older than its last automatic run, unless it was set back.
CoolInv ==
  /\ \A pl \in Cameras \X Actions : pl \in backdated \/ autoRun[pl] <= cool[pl]
  /\ Acting("worker") =>
       Cooled(eval["worker"].now, autoRun[Place("worker")]) \/ Place("worker") \in backdated

\* A step that leaves the cooldowns alone, and the worker if it acts.
LEMMA CoolFrame ==
  ASSUME CoolInv, UNCHANGED <<cool, autoRun, backdated>>, Acting("worker")' => UNCHANGED eval["worker"]
  PROVE  CoolInv'
<1>1. Acting("worker")' => /\ Acting("worker") /\ UNCHANGED eval["worker"].now
                           /\ UNCHANGED Place("worker")
  BY Zenon DEF Acting, Place, Action
<1> QED  BY Zenon, <1>1 DEF CoolInv, Cooled

\* The worker decides to act only outside the cooldown (guardian_action_in_cooldown).
LEMMA CoolDecide ==
  ASSUME ShapeInv, CoolInv, NEW p \in Evaluators, DecideToAct(p)
  PROVE  CoolInv'
<1>1. PICK r \in Evaluation :
        Set(p, r) /\ r.event = eval[p].event /\ r.next = eval[p].next /\ r.now = eval[p].now
  BY Zenon, LoudSteps
<1>2. eval'[p] = r /\ \A q \in Evaluators : q /= p => eval'[q] = eval[q]
  BY Zenon, <1>1, SetOnly
<1>3. UNCHANGED <<cool, autoRun, backdated>>
  BY Zenon DEF DecideToAct
<1>4. CASE p /= "worker"
  BY Zenon, <1>2, <1>3, <1>4, CoolFrame DEF Evaluators
<1>5. CASE p = "worker"
  <2> DEFINE pl == Place("worker")  t == eval["worker"].now
  <2>1. Place("worker")' = pl /\ eval'["worker"].now = t
    BY Zenon, <1>1, <1>2, <1>5, SameKey
  <2>2. pl \in Cameras \X Actions /\ ~(cool[pl] /= Never /\ t - cool[pl] < Cooldown)
    BY Zenon, <1>5, InHand DEF DecideToAct, action_in_cooldown
  <2>3. /\ cool[pl] \in Int /\ autoRun[pl] \in Int /\ autoRun[pl] >= Never /\ t \in Int
        /\ Cooldown \in Int /\ Never \in Int
    BY <1>5, <2>2, Numbers, GuardianAssumption DEF Never
  <2>4. autoRun[pl] <= cool[pl] => Cooled(t, autoRun[pl])
    <3> HIDE DEF pl, t
    <3> QED  BY ONLY <2>2, <2>3 DEF Cooled
  <2>5. Cooled(t, autoRun[pl]) \/ pl \in backdated
    BY Zenon, <2>2, <2>4 DEF CoolInv
  <2>6. (\A x \in Cameras \X Actions : x \in backdated \/ autoRun[x] <= cool[x])'
    BY Zenon, <1>3 DEF CoolInv
  <2>7. (Cooled(eval["worker"].now, autoRun[Place("worker")]) \/ Place("worker") \in backdated)'
    BY Zenon, <1>3, <2>1, <2>5 DEF Cooled
  <2> QED  BY Zenon, <2>6, <2>7 DEF CoolInv
<1> QED  BY Zenon, <1>4, <1>5

\* A run sets the cooldown to the time at which its evaluation began, back in time or not.
LEMMA CoolAct ==
  ASSUME ShapeInv, CoolInv, NEW p \in Evaluators, NEW status \in {"acted", "failed", "blocked"},
         Act(p, status)
  PROVE  CoolInv'
<1> DEFINE pl == Place(p)  t == eval[p].now
<1>1. ~DecideToAct(p)
  BY Zenon DEF Act, DecideToAct, Deciding
<1>2. PICK r \in Evaluation : Set(p, r) /\ r.pc = "decide"
  BY Zenon, <1>1, LoudSteps
<1>3. ~Acting(p)' /\ \A q \in Evaluators : q /= p => eval'[q] = eval[q]
  BY Zenon, <1>2, SetOnly DEF Acting
<1>4. /\ cool' = [cool EXCEPT ![pl] = t]
      /\ autoRun' = IF p = "worker" THEN [autoRun EXCEPT ![pl] = t] ELSE autoRun
      /\ backdated' = backdated \cup {x \in {pl} : cool[x] > t}
  BY Zenon DEF Act, Mark
<1>5. cool \in [Cameras \X Actions -> Times] /\ autoRun \in [Cameras \X Actions -> Times]
  BY Zenon DEF ShapeInv, TypeOK
<1>6. pl \in Cameras \X Actions
  BY Zenon, InHand DEF Act
<1>7. /\ cool[pl] \in Int /\ autoRun[pl] \in Int /\ t \in Int
  BY Zenon, <1>6, Numbers
<1> HIDE DEF pl, t
<1>8. /\ cool'[pl] = t /\ \A x \in Cameras \X Actions : x /= pl => cool'[x] = cool[x] /\ autoRun'[x] = autoRun[x]
      /\ autoRun'[pl] = t \/ autoRun'[pl] = autoRun[pl]
  BY Zenon, <1>4, <1>5, <1>6
<1>9. (\A x \in backdated : x \in backdated') /\ (cool[pl] > t => pl \in backdated')
  BY Zenon, <1>4
<1>10. pl \in backdated' \/ autoRun'[pl] <= cool'[pl]
  <2>1. pl \in backdated \/ autoRun[pl] <= cool[pl]
    BY Zenon, <1>6 DEF CoolInv
  <2>2. cool[pl] > t \/ cool[pl] <= t
    BY ONLY <1>7
  <2>3. t <= t /\ (autoRun[pl] <= cool[pl] /\ cool[pl] <= t => autoRun[pl] <= t)
    BY ONLY <1>7
  <2> QED  BY Zenon, <1>8, <1>9, <2>1, <2>2, <2>3
<1>11. (\A x \in Cameras \X Actions : x \in backdated \/ autoRun[x] <= cool[x])'
  <2>1. ASSUME NEW x \in Cameras \X Actions, x /= pl
        PROVE  x \in backdated' \/ autoRun'[x] <= cool'[x]
    <3>1. x \in backdated \/ autoRun[x] <= cool[x]
      BY Zenon DEF CoolInv
    <3>2. cool'[x] = cool[x] /\ autoRun'[x] = autoRun[x]
      BY Zenon, <1>8, <2>1
    <3> QED  BY Zenon, <1>9, <3>1, <3>2
  <2> QED  BY Zenon, <1>10, <2>1
<1>12. ASSUME Acting("worker")'
       PROVE  (Cooled(eval["worker"].now, autoRun[Place("worker")]) \/ Place("worker") \in backdated)'
  <2>1. p /= "worker" /\ "worker" \in Evaluators
    BY Zenon, <1>3, <1>12 DEF Evaluators
  <2>2. UNCHANGED eval["worker"]
    BY Zenon, <1>3, <2>1
  <2>3. /\ Acting("worker") /\ UNCHANGED eval["worker"].now /\ UNCHANGED Place("worker")
        /\ UNCHANGED autoRun
    BY Zenon, <1>4, <1>12, <2>1, <2>2 DEF Acting, Place, Action
  <2>4. Cooled(eval["worker"].now, autoRun[Place("worker")]) \/ Place("worker") \in backdated
    BY Zenon, <2>3 DEF CoolInv
  <2> QED  BY Zenon, <1>9, <2>3, <2>4 DEF Cooled
<1> QED  BY Zenon, <1>11, <1>12 DEF CoolInv

\* Every step keeps the invariant of the cooldowns.
LEMMA CoolStep == ShapeInv /\ CoolInv /\ [Next]_vars => CoolInv'
<1> SUFFICES ASSUME ShapeInv, CoolInv, [Next]_vars PROVE CoolInv'
  OBVIOUS
<1>1. CASE \/ \E e \in Events : Ingest(e)
           \/ \E o \in Operators : Operate(o)
           \/ Tick \/ UNCHANGED vars
  <2>1. UNCHANGED <<cool, autoRun, backdated, eval>>
    BY Zenon, <1>1 DEF Ingest, Operate, SetStatus, Propose, Save, OperatorLoads, OperatorKeeps,
       Tick, vars, guardianVars, historyVars
  <2> QED  BY Zenon, <2>1, CoolFrame
<1>2. CASE Restart
  <2>1. Never <= Never
    BY DEF Never
  <2>2. ~Acting("worker")'
    BY Zenon, <1>2, Restarted DEF Evaluators
  <2>3. \A pl \in Cameras \X Actions : autoRun'[pl] <= cool'[pl]
    BY Zenon, <1>2, <2>1, Restarted
  <2> QED  BY Zenon, <2>2, <2>3 DEF CoolInv
<1>3. ASSUME NEW p \in Evaluators, Evaluates(p)
      PROVE  CoolInv'
  <2>1. PICK r \in Evaluation : Quiet(p, r)
    BY Zenon, <1>3, QuietSteps
  <2>2. UNCHANGED <<cool, autoRun, backdated>>
    BY Zenon, <2>1 DEF Quiet
  <2>3. ~Acting(p)' /\ \A q \in Evaluators : q /= p => eval'[q] = eval[q]
    BY Zenon, <2>1, SetOnly DEF Quiet, Acting
  <2>4. Acting("worker")' => UNCHANGED eval["worker"]
    BY Zenon, <2>3 DEF Evaluators
  <2> QED  BY Zenon, <2>2, <2>4, CoolFrame
<1> QED  BY Zenon, <1>1, <1>2, <1>3, Kinds, CoolDecide, CoolAct

\* The invariant of the cooldowns holds in every reachable state.
LEMMA CoolInductive == Spec => []CoolInv
<1>1. Init => CoolInv
  <2> SUFFICES ASSUME Init PROVE CoolInv
    OBVIOUS
  <2>1. ~Acting("worker")
    BY Zenon, Rest DEF Init, Acting, Evaluators
  <2>2. \A pl \in Cameras \X Actions : autoRun[pl] = Never /\ cool[pl] = Never
    BY Zenon DEF Init
  <2>3. Never <= Never
    BY DEF Never
  <2> QED  BY Zenon, <2>1, <2>2, <2>3 DEF CoolInv
<1> QED  BY <1>1, CoolStep, GuardianShape, PTL DEF Spec

\* Two automatic runs of an action for a camera lie a cooldown apart
\* (guardian_action_in_cooldown, mark_guardian_action_cooldown), unless a slower
\* evaluation by an operator set the cooldown back.
THEOREM RunsKeepCooldown == Spec => CooldownHolds
<1>1. CoolInv /\ [Next]_vars =>
        [Acts("worker") =>
            LET pl == Place("worker") IN
            \/ autoRun[pl] = Never \/ eval["worker"].now - autoRun[pl] >= Cooldown
            \/ pl \in backdated]_vars
  BY Zenon DEF CoolInv, Acts, Acting, Cooled
<1> QED  BY <1>1, CoolInductive, PTL DEF Spec, CooldownHolds
=============================================================================
