------------------------- MODULE DetectionJobsProofs -------------------------
(***************************************************************************)
(* Proofs about the detection jobs: for any threads, cameras, profiles and *)
(* number of jobs, the accelerator has one worker or one starter, a job    *)
(* that has ended left no process and no lease of the scheduler behind,    *)
(* and a running job that has not expired has its source.                  *)
(***************************************************************************)
EXTENDS DetectionJobs, TLAPS

-----------------------------------------------------------------------------
(* The inductive invariant.                                                *)

\* A record of the table: the job runs, or it has neither a worker nor the
\* lease of the scheduler; and it runs with its source until it expires.
Sound(r) ==
  /\ r \in Job
  /\ r.status = "running" <=> r.ai
  /\ r.status = "running" <=> r.child /= "none"
  /\ r.status = "running" /\ ~r.lapsed => r.lease = "held"

\* What a step may make of a record: an ended job does not run again.
Evolved(q, r) == Sound(q) /\ (q.status = "running" => r.status = "running")

\* The table, with one job at most that runs, and none beside a starter that has
\* the lease of the scheduler.
TableOK ==
  /\ \A j \in DOMAIN jobs : Sound(jobs[j])
  /\ \A j, k \in DOMAIN jobs : Running(j) /\ Running(k) => j = k
  /\ \A t \in Thread : call[t].at = "spawn" => \A j \in DOMAIN jobs : ~Running(j)

\* The job whose worker a handoff has stopped does not run.
HandoffOK ==
  \A t \in Thread : call[t].at = "handoff" /\ call[t].job \in DOMAIN jobs => ~Running(call[t].job)

\* The part of TypeOK about the calls and the lock; a call is about a camera and a
\* profile.
CallsOK ==
  /\ call \in [Thread -> Call]
  /\ lifecycle \in Thread \cup {Nothing, "recorder"}
  /\ \A t \in Thread : call[t].at /= "idle" <=> lifecycle = t
  /\ renewing \in 0..MaxJobs /\ (renewing /= 0 <=> lifecycle = "recorder")
  /\ \A t \in Thread : call[t].at /= "idle" => call[t].camera \in Camera /\ call[t].profile \in Profile

JobsInv == TypeOK /\ CallsOK /\ TableOK /\ HandoffOK

-----------------------------------------------------------------------------
(* What becomes of one job.                                                *)

Ended == {"stopped", "expired", "completed", "failed"}

\* A worker whose exit was seen leaves a sound record of a job that has ended.
LEMMA ConfirmedOK ==
  ASSUME NEW r, Sound(r), NEW s \in Ended
  PROVE  Sound(Confirmed(r, s)) /\ Confirmed(r, s).status = s
BY Zenon DEF Sound, Job, Confirmed, Ended

\* A worker that nobody saw end keeps the job, and its lease, as they are.
LEMMA UnconfirmedOK ==
  ASSUME NEW r, Sound(r), r.status = "running", NEW q \in Unconfirmed(r)
  PROVE  Sound(q) /\ q.status = "running"
BY Zenon DEF Sound, Job, Unconfirmed

\* stop_detection_lease of a job that does not run.
LEMMA LeaseStoppedOK ==
  ASSUME NEW r, Sound(r), r.status \in Ended, NEW q \in LeaseStopped(r)
  PROVE  Sound(q) /\ q.status = r.status
BY Zenon DEF Sound, Job, LeaseStopped, Ended

\* An attempt to stop a running job.
LEMMA StopAttemptOK ==
  ASSUME NEW r, Sound(r), r.status = "running", NEW s \in Ended, NEW q \in StopAttempt(r, s)
  PROVE  Evolved(q, r)
<1>1. CASE q \in LeaseStopped(Confirmed(r, s))
  BY Zenon, <1>1, ConfirmedOK, LeaseStoppedOK DEF Evolved
<1>2. CASE q \in Unconfirmed(r)
  BY Zenon, <1>2, UnconfirmedOK DEF Evolved
<1> QED  BY Zenon, <1>1, <1>2 DEF StopAttempt

\* refresh_detection_job, whatever it finds.
LEMMA RefreshedOK ==
  ASSUME NEW r, Sound(r), NEW q \in Refreshed(r)
  PROVE  Evolved(q, r)
<1>1. CASE q = r
  BY Zenon, <1>1 DEF Evolved
<1>2. CASE r.status = "running" /\ \E s \in Ended : q \in StopAttempt(r, s)
  BY Zenon, <1>2, StopAttemptOK
<1>3. CASE r.status = "running" /\ q \in LeaseStopped(Confirmed(r, "completed"))
  <2>1. q \in StopAttempt(r, "completed") /\ "completed" \in Ended
    BY Zenon, <1>3 DEF StopAttempt, Ended
  <2> QED  BY Zenon, <1>3, <2>1, StopAttemptOK
<1>4. "expired" \in Ended /\ "failed" \in Ended
  BY Zenon DEF Ended
<1>5. CASE r.status /= "running"
  BY Zenon, <1>1, <1>5 DEF Refreshed
<1>6. CASE r.status = "running" /\ r.lapsed
  BY Zenon, <1>2, <1>4, <1>6 DEF Refreshed
<1>7. CASE r.status = "running" /\ ~r.lapsed /\ r.child = "exited"
  BY Zenon, <1>2, <1>3, <1>4, <1>7 DEF Refreshed
<1>8. CASE r.status = "running" /\ ~r.lapsed /\ r.child /= "exited"
  BY Zenon, <1>1, <1>2, <1>4, <1>8 DEF Refreshed
<1> QED  BY Zenon, <1>5, <1>6, <1>7, <1>8

\* stop_live_managed_detection_job.
LEMMA LiveEndedOK ==
  ASSUME NEW r, Sound(r), NEW q \in LiveEnded(r)
  PROVE  Evolved(q, r)
<1>1. CASE enabled
  BY Zenon, <1>1 DEF LiveEnded, Evolved, Sound, Job
<1>2. CASE ~enabled /\ r.status = "running"
  BY Zenon, <1>2, StopAttemptOK DEF LiveEnded, Ended
<1>3. CASE ~enabled /\ r.status /= "running"
  BY Zenon, <1>3 DEF LiveEnded, Evolved
<1> QED  BY Zenon, <1>1, <1>2, <1>3

\* A refresh, and the end of the live view after it.
LEMMA OutcomesOK ==
  ASSUME NEW r, Sound(r), NEW stops \in BOOLEAN, NEW q \in Outcomes(r, stops)
  PROVE  Evolved(q, r)
<1>1. CASE ~stops
  BY Zenon, <1>1, RefreshedOK DEF Outcomes
<1>2. CASE stops
  <2>1. PICK m \in Refreshed(r) : q \in LiveEnded(m)
    BY Zenon, <1>2 DEF Outcomes
  <2>2. Evolved(m, r)
    BY Zenon, <2>1, RefreshedOK
  <2>3. Evolved(q, m)
    BY Zenon, <2>1, <2>2, LiveEndedOK DEF Evolved
  <2> QED  BY Zenon, <2>2, <2>3 DEF Evolved
<1> QED  BY Zenon, <1>1, <1>2

\* A renewal by HarborLink, which only gives a lease it still has.
LEMMA RenewedOK ==
  ASSUME NEW r, Sound(r), NEW q \in Renewed(r)
  PROVE  Evolved(q, r)
BY Zenon DEF Renewed, Evolved, Sound, Job

-----------------------------------------------------------------------------
(* What becomes of the table.                                              *)

\* A table made from the present one by refreshing, ending and forgetting jobs.
Descends(js) ==
  DOMAIN js \subseteq DOMAIN jobs /\ \A j \in DOMAIN js : Evolved(js[j], jobs[j])

\* One pass over some of the jobs.
LEMMA TablesOK ==
  ASSUME TableOK, NEW J, J \subseteq DOMAIN jobs, NEW stops \in BOOLEAN, NEW js \in Tables(J, stops)
  PROVE  Descends(js) /\ DOMAIN js = DOMAIN jobs
<1>1. PICK ks : /\ \A j \in J : ks[j] \in Outcomes(jobs[j], stops)
                /\ js = [j \in DOMAIN jobs |-> IF j \in J THEN ks[j] ELSE jobs[j]]
  BY Zenon DEF Tables
<1>2. DOMAIN js = DOMAIN jobs
  BY Zenon, <1>1
<1>3. ASSUME NEW j \in DOMAIN jobs PROVE Evolved(js[j], jobs[j])
  <2>1. Sound(jobs[j])
    BY Zenon DEF TableOK
  <2>2. CASE j \in J
    BY Zenon, <1>1, <2>1, <2>2, OutcomesOK
  <2>3. CASE j \notin J
    BY Zenon, <1>1, <2>1, <2>3 DEF Evolved
  <2> QED  BY Zenon, <2>2, <2>3
<1> QED  BY Zenon, <1>2, <1>3 DEF Descends

\* A refresh of some of the jobs.
LEMMA RefreshedTablesOK ==
  ASSUME TableOK, NEW J, J \subseteq DOMAIN jobs, NEW js \in RefreshedTables(J)
  PROVE  Descends(js) /\ DOMAIN js = DOMAIN jobs
BY Zenon, TablesOK DEF RefreshedTables

\* prune_detection_job_history forgets a job that has ended.
LEMMA PrunedOK ==
  ASSUME NEW js, Descends(js), NEW ps \in Pruned(js)
  PROVE  Descends(ps)
<1>1. CASE ps = js
  BY Zenon, <1>1
<1>2. CASE \E k : ps = [j \in DOMAIN js \ {k} |-> js[j]]
  BY Zenon, <1>2 DEF Descends
<1> QED  BY Zenon, <1>1, <1>2 DEF Pruned

\* One job of the table changes.
LEMMA ChangedOK ==
  ASSUME NEW js, Descends(js), NEW j \in DOMAIN js, NEW r, Evolved(r, js[j])
  PROVE  Descends([js EXCEPT ![j] = r])
BY Zenon DEF Descends, Evolved

\* The table of now, as it is.
LEMMA SameTable == ASSUME TableOK PROVE Descends(jobs)
BY Zenon DEF TableOK, Descends, Evolved

\* Such a table is as good as the one before it, if no starter got the lease of
\* the scheduler and no handoff began.
LEMMA DescendsOK ==
  ASSUME TypeOK, TableOK, HandoffOK, Descends(jobs'),
         \A t \in Thread : call'[t].at \in {"spawn", "handoff"} =>
                              call'[t].at = call[t].at /\ call'[t].job = call[t].job
  PROVE  TableOK' /\ HandoffOK'
<1>1. \A j \in DOMAIN jobs' : /\ j \in DOMAIN jobs /\ Sound(jobs'[j])
                              /\ jobs'[j].status = "running" => Running(j)
  BY Zenon DEF Descends, Evolved, Running
<1>2. TableOK'
  BY Zenon, <1>1 DEF TableOK, Running
<1>3. HandoffOK'
  BY Zenon, <1>1 DEF HandoffOK, Running
<1> QED  BY Zenon, <1>2, <1>3

-----------------------------------------------------------------------------
(* The calls and the lifecycle lock.                                       *)

\* Two calls are never in progress at once.
LEMMA Alone ==
  ASSUME CallsOK, NEW t \in Thread, call[t].at /= "idle"
  PROVE  /\ lifecycle = t /\ renewing = 0
         /\ \A u \in Thread \ {t} : call[u].at = "idle"
BY Zenon, NothingAssumption DEF CallsOK

\* The value of a thread without a call.
LEMMA NoCallType == NoCall \in Call /\ NoCall.at = "idle"
BY HistoryAssumption DEF NoCall, Call

\* The call that goes back to the profile it replaces.
LEMMA RevertedCall ==
  ASSUME NEW c \in Call, c.previous /= Nothing
  PROVE  LET d == [c EXCEPT !.at = "begin", !.profile = c.previous, !.live = c.plive,
                            !.previous = Nothing]
         IN  d \in Call /\ d.at = "begin" /\ d.camera = c.camera /\ d.profile \in Profile
BY Zenon DEF Call

\* What the end of a step does to the calls: it finishes, fails or goes on.
LEMMA Advance ==
  ASSUME CallsOK, NEW t \in Thread, call[t].at /= "idle", UNCHANGED renewing,
         NEW at \in {"begin", "acquire", "spawn"}, Finish(t) \/ Fail(t) \/ Goto(t, at)
  PROVE  /\ CallsOK'
         /\ \A u \in Thread \ {t} : call'[u] = call[u] /\ call[u].at = "idle"
         /\ call'[t].at \in {"idle", "begin", at}
<1>1. /\ lifecycle = t /\ renewing = 0 /\ call \in [Thread -> Call]
      /\ call[t].camera \in Camera /\ call[t].profile \in Profile
      /\ \A u \in Thread \ {t} : call[u].at = "idle"
  BY Zenon, Alone DEF CallsOK
<1>2. NoCall \in Call /\ NoCall.at = "idle"
  BY Zenon, NoCallType
<1>3. /\ Nothing /= "recorder" /\ Nothing \notin Thread /\ "recorder" \notin Thread
      /\ renewing' = 0 /\ 0 \in 0..MaxJobs
  BY <1>1, NothingAssumption, HistoryAssumption
<1>4. CASE Finish(t)
  BY Zenon, <1>1, <1>2, <1>3, <1>4 DEF Finish, CallsOK
<1>5. ASSUME NEW c \in Call, c.at \in {"begin", at}, c.camera \in Camera, c.profile \in Profile,
             call' = [call EXCEPT ![t] = c], UNCHANGED lifecycle
      PROVE  /\ CallsOK'
             /\ \A u \in Thread \ {t} : call'[u] = call[u]
             /\ call'[t].at \in {"begin", at}
  BY Zenon, <1>1, <1>3, <1>5 DEF CallsOK
<1>6. CASE Fail(t)
  <2>1. CASE call[t].previous = Nothing
    BY Zenon, <1>1, <1>2, <1>3, <1>6, <2>1 DEF Fail, Finish, CallsOK
  <2>2. CASE call[t].previous /= Nothing
    <3> DEFINE c == [call[t] EXCEPT !.at = "begin", !.profile = call[t].previous,
                                    !.live = call[t].plive, !.previous = Nothing]
    <3>1. c \in Call /\ c.at = "begin" /\ c.camera \in Camera /\ c.profile \in Profile
      BY Zenon, <1>1, <2>2, RevertedCall
    <3>2. call' = [call EXCEPT ![t] = c] /\ UNCHANGED lifecycle
      BY Zenon, <1>6, <2>2 DEF Fail
    <3> QED  BY Zenon, <1>1, <1>5, <3>1, <3>2
  <2> QED  BY Zenon, <2>1, <2>2
<1>7. CASE Goto(t, at)
  <2> DEFINE c == [call[t] EXCEPT !.at = at]
  <2>1. c \in Call /\ c.at = at /\ c.camera \in Camera /\ c.profile \in Profile
    BY <1>1 DEF Call
  <2>2. call' = [call EXCEPT ![t] = c] /\ UNCHANGED lifecycle
    BY Zenon, <1>7 DEF Goto
  <2> QED  BY Zenon, <1>1, <1>5, <2>1, <2>2
<1> QED  BY Zenon, <1>4, <1>6, <1>7

-----------------------------------------------------------------------------
(* The steps.                                                              *)

\* A step that hands no lease out keeps the invariant if it makes the table from
\* the one before and leaves the calls in order.
LEMMA Kept ==
  ASSUME JobsInv, Descends(jobs'), UNCHANGED next_job, CallsOK',
         \A t \in Thread : call'[t].at \in {"spawn", "handoff"} =>
                              call'[t].at = call[t].at /\ call'[t].job = call[t].job
  PROVE  JobsInv'
<1>1. TableOK' /\ HandoffOK'
  BY Zenon, DescendsOK DEF JobsInv
<1>2. TypeOK'
  BY Zenon DEF JobsInv, TypeOK, CallsOK, Descends, Evolved, Sound
<1> QED  BY Zenon, <1>1, <1>2 DEF JobsInv

\* So does one that leaves the calls alone ...
LEMMA Quiet ==
  ASSUME JobsInv, Descends(jobs'), UNCHANGED <<next_job, lifecycle, call, renewing>>
  PROVE  JobsInv'
<1>1. CallsOK'
  BY Zenon DEF JobsInv, CallsOK
<1> QED  BY Zenon, <1>1, Kept

\* ... or that ends, or takes back to its beginning, a start.
LEMMA Advanced ==
  ASSUME JobsInv, Descends(jobs'), UNCHANGED <<next_job, renewing>>,
         NEW t \in Thread, call[t].at /= "idle",
         NEW at \in {"begin", "acquire"}, Finish(t) \/ Fail(t) \/ Goto(t, at)
  PROVE  JobsInv'
<1>1. CallsOK
  BY Zenon DEF JobsInv
<1>2. /\ CallsOK' /\ call'[t].at \in {"idle", "begin", at}
      /\ \A u \in Thread \ {t} : call'[u] = call[u]
  BY Zenon, <1>1, Advance
<1> QED  BY Zenon, <1>2, Kept

\* The monitor, a live view that ends, and the renewals and stops of one job.
LEMMA TableStep ==
  ASSUME JobsInv,
         \/ Monitor \/ \E c \in Camera : stop_live(c)
         \/ \E j \in JobId : handle_renew_detection_job(j) \/ handle_stop_detection_job(j)
  PROVE  JobsInv'
<1>1. TableOK
  BY Zenon DEF JobsInv
<1>2. CASE Monitor
  BY Zenon, <1>1, <1>2, RefreshedTablesOK, Quiet DEF Monitor
<1>3. ASSUME NEW c \in Camera, stop_live(c) PROVE JobsInv'
  <2>1. {j \in OfCamera(c) : jobs[j].live} \subseteq DOMAIN jobs
    BY Zenon DEF OfCamera
  <2> QED  BY Zenon, <1>1, <1>3, <2>1, TablesOK, Quiet DEF stop_live
<1>4. ASSUME NEW j \in JobId, handle_renew_detection_job(j) PROVE JobsInv'
  <2>1. PICK r \in Refreshed(jobs[j]) :
          jobs' \in {[jobs EXCEPT ![j] = s] : s \in IF r.status = "running" THEN Renewed(r) ELSE {r}}
    BY Zenon, <1>4 DEF handle_renew_detection_job
  <2>2. PICK s \in IF r.status = "running" THEN Renewed(r) ELSE {r} : jobs' = [jobs EXCEPT ![j] = s]
    BY Zenon, <2>1
  <2>3. j \in DOMAIN jobs /\ UNCHANGED <<next_job, lifecycle, call, renewing>>
    BY Zenon, <1>4 DEF handle_renew_detection_job
  <2>4. Evolved(r, jobs[j])
    BY Zenon, <1>1, <2>1, <2>3, RefreshedOK DEF TableOK
  <2>5. Evolved(s, r)
    BY Zenon, <2>2, <2>4, RenewedOK DEF Evolved
  <2>6. Descends(jobs')
    BY Zenon, <1>1, <2>2, <2>3, <2>4, <2>5, SameTable, ChangedOK DEF Evolved
  <2> QED  BY Zenon, <2>3, <2>6, Quiet
<1>5. ASSUME NEW j \in JobId, handle_stop_detection_job(j) PROVE JobsInv'
  <2>1. PICK r \in Refreshed(jobs[j]) : \E referenced \in Referenced(r) :
          jobs' \in {[jobs EXCEPT ![j] = s] :
                       s \in IF r.status = "running" /\ ~referenced THEN StopAttempt(r, "stopped")
                             ELSE {r}}
    BY Zenon, <1>5 DEF handle_stop_detection_job
  <2>2. PICK s : /\ s = r \/ (r.status = "running" /\ s \in StopAttempt(r, "stopped"))
                 /\ jobs' = [jobs EXCEPT ![j] = s]
    BY Zenon, <2>1
  <2>3. j \in DOMAIN jobs /\ UNCHANGED <<next_job, lifecycle, call, renewing>>
    BY Zenon, <1>5 DEF handle_stop_detection_job
  <2>4. Evolved(r, jobs[j])
    BY Zenon, <1>1, <2>1, <2>3, RefreshedOK DEF TableOK
  <2>5. Evolved(s, r)
    BY Zenon, <2>2, <2>4, StopAttemptOK DEF Evolved, Ended
  <2>6. Descends(jobs')
    BY Zenon, <1>1, <2>2, <2>3, <2>4, <2>5, SameTable, ChangedOK DEF Evolved
  <2> QED  BY Zenon, <2>3, <2>6, Quiet
<1> QED  BY Zenon, <1>2, <1>3, <1>4, <1>5

\* The renewal by the recording worker, and what happens to a worker process and
\* to the lease of its source by themselves.
LEMMA WorldStep ==
  ASSUME JobsInv,
         \/ RenewDone
         \/ \E j \in JobId : RenewDue(j) \/ ChildExits(j) \/ Lapse(j) \/ LeaseExpires(j)
  PROVE  JobsInv'
<1>1. CallsOK /\ TableOK /\ Descends(jobs)
  BY Zenon, SameTable DEF JobsInv
<1>2. ASSUME NEW j \in JobId, RenewDue(j) PROVE JobsInv'
  <2>1. UNCHANGED <<jobs, next_job, call>> /\ Free /\ renewing' = j /\ lifecycle' = "recorder"
    BY Zenon, <1>2 DEF RenewDue
  <2>2. Descends(jobs')
    BY Zenon, <1>1, <2>1 DEF Descends
  <2>3. CallsOK'
    BY <1>1, <2>1, NothingAssumption, HistoryAssumption DEF CallsOK, Free, JobId
  <2> QED  BY Zenon, <2>1, <2>2, <2>3, Kept
<1>3. CASE RenewDone
  <2>1. renewing /= 0 /\ renewing' = 0 /\ lifecycle' = Nothing /\ UNCHANGED <<next_job, call>>
    BY Zenon, <1>3 DEF RenewDone
  <2>2. CallsOK'
    BY <1>1, <2>1, NothingAssumption, HistoryAssumption DEF CallsOK
  <2>3. Descends(jobs')
    <3>1. CASE UNCHANGED jobs
      BY Zenon, <1>1, <3>1 DEF Descends
    <3>2. CASE /\ renewing \in DOMAIN jobs
               /\ \E r \in Renewed(jobs[renewing]) : jobs' = [jobs EXCEPT ![renewing] = r]
      <4>1. PICK r \in Renewed(jobs[renewing]) : jobs' = [jobs EXCEPT ![renewing] = r]
        BY Zenon, <3>2
      <4>2. Evolved(r, jobs[renewing])
        BY Zenon, <1>1, <3>2, RenewedOK DEF TableOK
      <4> QED  BY Zenon, <1>1, <3>2, <4>1, <4>2, ChangedOK
    <3> QED  BY Zenon, <1>3, <3>1, <3>2 DEF RenewDone
  <2> QED  BY Zenon, <2>1, <2>2, <2>3, Kept
<1>4. ASSUME NEW j \in JobId, ChildExits(j) \/ Lapse(j) \/ LeaseExpires(j) PROVE JobsInv'
  <2>1. j \in DOMAIN jobs /\ UNCHANGED <<next_job, lifecycle, call, renewing>>
    BY Zenon, <1>4 DEF ChildExits, Lapse, LeaseExpires
  <2>2. Sound(jobs[j])
    BY Zenon, <1>1, <2>1 DEF TableOK
  <2>3. PICK r : Evolved(r, jobs[j]) /\ jobs' = [jobs EXCEPT ![j] = r]
    <3>1. CASE ChildExits(j)
      <4> DEFINE r == [jobs[j] EXCEPT !.child = "exited"]
      <4>1. Evolved(r, jobs[j])
        BY Zenon, <2>2, <3>1 DEF ChildExits, Evolved, Sound, Job
      <4> QED  BY Zenon, <3>1, <4>1 DEF ChildExits
    <3>2. CASE Lapse(j)
      <4> DEFINE r == [jobs[j] EXCEPT !.lapsed = TRUE]
      <4>1. Evolved(r, jobs[j])
        BY Zenon, <2>2, <3>2 DEF Evolved, Sound, Job
      <4> QED  BY Zenon, <3>2, <4>1 DEF Lapse
    <3>3. CASE LeaseExpires(j)
      <4> DEFINE r == [jobs[j] EXCEPT !.lease = "gone"]
      <4>1. Evolved(r, jobs[j])
        BY Zenon, <2>2, <3>3 DEF LeaseExpires, Evolved, Sound, Job
      <4> QED  BY Zenon, <3>3, <4>1 DEF LeaseExpires
    <3> QED  BY Zenon, <1>4, <3>1, <3>2, <3>3
  <2> QED  BY Zenon, <1>1, <2>1, <2>3, ChangedOK, Quiet
<1> QED  BY Zenon, <1>2, <1>3, <1>4

\* A start begins.
LEMMA StartOK ==
  ASSUME JobsInv, Descends(jobs'), UNCHANGED <<next_job, renewing>>, Free,
         NEW t \in Thread, NEW c \in Call, c.at \in {"begin", "handoff"},
         c.camera \in Camera, c.profile \in Profile,
         c.at = "handoff" /\ c.job \in DOMAIN jobs' => jobs'[c.job].status /= "running",
         call' = [call EXCEPT ![t] = c], lifecycle' = t
  PROVE  JobsInv'
<1>1. TypeOK /\ CallsOK /\ TableOK
  BY Zenon DEF JobsInv
<1>2. \A u \in Thread : call[u].at = "idle"
  BY Zenon, <1>1, NothingAssumption DEF CallsOK, Free
<1>3. call'[t] = c /\ \A u \in Thread \ {t} : call'[u] = call[u]
  BY Zenon, <1>1 DEF CallsOK
<1>4. CallsOK'
  BY Zenon, <1>1, <1>2, <1>3, NothingAssumption DEF CallsOK, Free
<1>5. CASE c.at = "begin"
  BY Zenon, <1>2, <1>3, <1>4, <1>5, Kept
<1>6. CASE c.at = "handoff"
  <2>1. \A j \in DOMAIN jobs' : /\ j \in DOMAIN jobs /\ Sound(jobs'[j])
                                /\ jobs'[j].status = "running" => Running(j)
    BY Zenon DEF Descends, Evolved, Running
  <2>2. \A u \in Thread : call'[u].at /= "spawn"
    BY Zenon, <1>2, <1>3, <1>6
  <2>3. TableOK'
    BY Zenon, <1>1, <2>1, <2>2 DEF TableOK, Running
  <2>4. HandoffOK'
    BY Zenon, <1>2, <1>3, <1>6 DEF HandoffOK, Running
  <2>5. TypeOK'
    BY Zenon, <1>1, <1>4, <2>1 DEF TypeOK, CallsOK, Sound
  <2> QED  BY Zenon, <1>4, <2>3, <2>4, <2>5 DEF JobsInv
<1> QED  BY Zenon, <1>5, <1>6

\* handle_start_detection_job and ensure_live_managed_detection_job.
LEMMA RequestStep ==
  ASSUME JobsInv, NEW t \in Thread, NEW c \in Camera, NEW p \in Profile,
         handle_start_detection_job(t, c, p) \/ ensure_live(t, c, p)
  PROVE  JobsInv'
<1>1. TableOK /\ Descends(jobs) /\ NoCall \in Call
  BY Zenon, SameTable, NoCallType DEF JobsInv
<1>2. CASE handle_start_detection_job(t, c, p)
  <2> DEFINE n == [NoCall EXCEPT !.at = "begin", !.camera = c, !.profile = p]
  <2>1. n \in Call /\ n.at = "begin" /\ n.camera \in Camera /\ n.profile \in Profile
    BY Zenon, <1>1 DEF Call
  <2>2. /\ call' = [call EXCEPT ![t] = n] /\ lifecycle' = t /\ Free
        /\ UNCHANGED <<jobs, next_job, renewing>>
    BY Zenon, <1>2 DEF handle_start_detection_job
  <2>3. Descends(jobs')
    BY Zenon, <1>1, <2>2 DEF Descends
  <2> HIDE DEF n
  <2> QED  BY Zenon, <2>1, <2>2, <2>3, StartOK
<1>3. CASE ensure_live(t, c, p)
  <2>1. PICK js \in RefreshedTables(OfCamera(c)) :
       \/ /\ RunningOf(js, c) = {}
          /\ jobs' = js
          /\ call' = [call EXCEPT ![t] = [NoCall EXCEPT !.at = "begin", !.camera = c, !.profile = p,
                                                        !.live = TRUE]]
          /\ lifecycle' = t
       \/ \E j \in RunningOf(js, c) :
            /\ js[j].profile = p
            /\ \E r \in Renewed([js[j] EXCEPT !.live = TRUE]) : jobs' = [js EXCEPT ![j] = r]
            /\ UNCHANGED <<call, lifecycle>>
       \/ \E j \in RunningOf(js, c) : \E r \in HandoffStop(js[j]) :
            /\ js[j].profile /= p
            /\ jobs' = [js EXCEPT ![j] = r]
            /\ IF r.status = "running" THEN UNCHANGED <<call, lifecycle>>
               ELSE /\ call' = [call EXCEPT ![t] =
                                  [at |-> "handoff", camera |-> c, profile |-> p, live |-> TRUE,
                                   job |-> j, previous |-> js[j].profile, plive |-> js[j].live]]
                    /\ lifecycle' = t
    BY Zenon, <1>3 DEF ensure_live
  <2>2. UNCHANGED <<next_job, renewing>> /\ Free
    BY Zenon, <1>3 DEF ensure_live
  <2>3. Descends(js) /\ DOMAIN js = DOMAIN jobs
    BY Zenon, <1>1, RefreshedTablesOK DEF OfCamera
  <2>4. CASE jobs' = js /\ lifecycle' = t
             /\ call' = [call EXCEPT ![t] = [NoCall EXCEPT !.at = "begin", !.camera = c, !.profile = p,
                                                           !.live = TRUE]]
    <3> DEFINE n == [NoCall EXCEPT !.at = "begin", !.camera = c, !.profile = p, !.live = TRUE]
    <3>1. n \in Call /\ n.at = "begin" /\ n.camera \in Camera /\ n.profile \in Profile
      BY Zenon, <1>1 DEF Call
    <3>2. call' = [call EXCEPT ![t] = n]
      BY Zenon, <2>4
    <3> HIDE DEF n
    <3> QED  BY Zenon, <2>2, <2>3, <2>4, <3>1, <3>2, StartOK
  <2>5. ASSUME NEW j \in RunningOf(js, c), NEW r \in Renewed([js[j] EXCEPT !.live = TRUE]),
               jobs' = [js EXCEPT ![j] = r], UNCHANGED <<call, lifecycle>>
        PROVE  JobsInv'
    <3> DEFINE m == [js[j] EXCEPT !.live = TRUE]
    <3>1. j \in DOMAIN js /\ Sound(js[j])
      BY Zenon, <2>3 DEF RunningOf, Descends, Evolved
    <3>2. Evolved(m, js[j])
      BY Zenon, <3>1 DEF Evolved, Sound, Job
    <3>3. r \in Renewed(m)
      BY Zenon
    <3> HIDE DEF m
    <3>4. Evolved(r, js[j])
      BY Zenon, <3>2, <3>3, RenewedOK DEF Evolved
    <3> QED  BY Zenon, <2>2, <2>3, <2>5, <3>1, <3>4, ChangedOK, Quiet
  <2>6. ASSUME NEW j \in RunningOf(js, c), NEW r \in HandoffStop(js[j]), jobs' = [js EXCEPT ![j] = r],
               IF r.status = "running" THEN UNCHANGED <<call, lifecycle>>
               ELSE /\ call' = [call EXCEPT ![t] =
                                  [at |-> "handoff", camera |-> c, profile |-> p, live |-> TRUE,
                                   job |-> j, previous |-> js[j].profile, plive |-> js[j].live]]
                    /\ lifecycle' = t
        PROVE  JobsInv'
    <3>1. j \in DOMAIN js /\ Sound(js[j]) /\ js[j].status = "running"
      BY Zenon, <2>3 DEF RunningOf, Descends, Evolved
    <3>2. Evolved(r, js[j])
      <4>1. CASE r \in Unconfirmed(js[j])
        BY Zenon, <3>1, <4>1, UnconfirmedOK DEF Evolved
      <4>2. CASE r = [Confirmed(js[j], "stopped") EXCEPT !.live = FALSE]
        <5> DEFINE m == Confirmed(js[j], "stopped")
        <5>1. Sound(m) /\ m.status /= "running"
          BY Zenon, <3>1, ConfirmedOK DEF Ended
        <5>2. r = [m EXCEPT !.live = FALSE]
          BY Zenon, <4>2
        <5> HIDE DEF m
        <5> QED  BY Zenon, <5>1, <5>2 DEF Evolved, Sound, Job
      <4> QED  BY Zenon, <4>1, <4>2 DEF HandoffStop
    <3>3. Descends(jobs')
      BY Zenon, <2>3, <2>6, <3>1, <3>2, ChangedOK
    <3>4. CASE r.status = "running"
      BY Zenon, <2>2, <2>6, <3>3, <3>4, Quiet
    <3>5. CASE r.status /= "running"
      <4> DEFINE n == [at |-> "handoff", camera |-> c, profile |-> p, live |-> TRUE,
                       job |-> j, previous |-> js[j].profile, plive |-> js[j].live]
      <4>1. j \in 0..MaxJobs
        BY <2>3, <3>1, HistoryAssumption DEF JobsInv, TypeOK
      <4>2. n \in Call /\ n.at = "handoff" /\ n.job = j /\ n.camera = c /\ n.profile = p
        BY Zenon, <3>1, <4>1 DEF Sound, Job, Call
      <4>3. jobs'[j].status /= "running"
        BY Zenon, <2>6, <3>1, <3>5
      <4>4. call' = [call EXCEPT ![t] = n] /\ lifecycle' = t
        BY Zenon, <2>6, <3>5
      <4> HIDE DEF n
      <4> QED  BY Zenon, <2>2, <3>3, <4>2, <4>3, <4>4, StartOK
    <3> QED  BY Zenon, <3>4, <3>5
  <2> QED  BY Zenon, <2>1, <2>4, <2>5, <2>6
<1> QED  BY Zenon, <1>2, <1>3

\* The steps of start_detection_job and of the handoff.
LEMMA StartStep ==
  ASSUME JobsInv, NEW t \in Thread, CallStep(t)
  PROVE  JobsInv'
<1>1. TypeOK /\ CallsOK /\ TableOK /\ HandoffOK /\ Descends(jobs)
  BY Zenon, SameTable DEF JobsInv
<1>2. \A c : OfCamera(c) \subseteq DOMAIN jobs
  BY Zenon DEF OfCamera
<1>3. CASE Begin(t)
  <2>1. PICK js \in RefreshedTables(OfCamera(call[t].camera)) :
          IF RunningOf(js, call[t].camera) /= {}
          THEN jobs' = js /\ Reuse(t, js)
          ELSE jobs' \in Pruned(js) /\ Goto(t, "acquire")
    BY Zenon, <1>3 DEF Begin
  <2>2. call[t].at /= "idle" /\ UNCHANGED <<next_job, renewing>>
    BY Zenon, <1>3 DEF Begin
  <2>3. Descends(js)
    BY Zenon, <1>1, <1>2, RefreshedTablesOK
  <2>4. Descends(jobs')
    BY Zenon, <2>1, <2>3, PrunedOK
  <2>5. Finish(t) \/ Fail(t) \/ Goto(t, "acquire")
    BY Zenon, <2>1 DEF Reuse
  <2> QED  BY Zenon, <2>2, <2>4, <2>5, Advanced
<1>4. CASE Acquire(t)
  <2>1. YoloIsFree /\ Goto(t, "spawn") /\ call[t].at = "acquire" /\ UNCHANGED <<jobs, next_job, renewing>>
    BY Zenon, <1>4 DEF Acquire
  <2>2. /\ CallsOK' /\ call'[t].at \in {"idle", "begin", "spawn"}
        /\ \A u \in Thread \ {t} : call'[u] = call[u] /\ call[u].at = "idle"
    BY Zenon, <1>1, <2>1, Advance
  <2>3. \A j \in DOMAIN jobs : ~Running(j)
    BY Zenon, <1>1, <2>1 DEF YoloIsFree, TableOK, Sound, Running
  <2>4. TableOK'
    BY Zenon, <1>1, <2>1, <2>3 DEF TableOK, Running
  <2>5. HandoffOK'
    BY Zenon, <2>1, <2>3 DEF HandoffOK, Running
  <2>6. TypeOK'
    BY Zenon, <1>1, <2>1, <2>2 DEF TypeOK, CallsOK
  <2> QED  BY Zenon, <2>2, <2>4, <2>5, <2>6 DEF JobsInv
<1>5. CASE AcquireFails(t)
  <2>1. Fail(t) /\ call[t].at /= "idle" /\ UNCHANGED <<jobs, next_job, renewing>>
    BY Zenon, <1>5 DEF AcquireFails
  <2>2. Descends(jobs')
    BY Zenon, <1>1, <2>1 DEF Descends
  <2> QED  BY Zenon, <2>1, <2>2, Advanced
<1>6. CASE Spawn(t)
  <2>1. PICK js \in RefreshedTables(OfCamera(call[t].camera)) :
          IF RunningOf(js, call[t].camera) /= {}
          THEN jobs' = js /\ Reuse(t, js) /\ UNCHANGED next_job
          ELSE \E pruned \in Pruned(js) :
                 \/ /\ next_job < MaxJobs
                    /\ next_job' = next_job + 1
                    /\ jobs' = [j \in DOMAIN pruned \cup {next_job'} |->
                                  IF j = next_job' THEN NewJob(t) ELSE pruned[j]]
                    /\ Finish(t)
                 \/ jobs' = pruned /\ Fail(t) /\ UNCHANGED next_job
    BY Zenon, <1>6 DEF Spawn
  <2>2. call[t].at = "spawn" /\ UNCHANGED renewing
    BY Zenon, <1>6 DEF Spawn
  <2>3. Descends(js)
    BY Zenon, <1>1, <1>2, RefreshedTablesOK
  <2>4. CASE jobs' = js /\ Reuse(t, js) /\ UNCHANGED next_job
    <3>1. Finish(t) \/ Fail(t)
      BY Zenon, <2>4 DEF Reuse
    <3> QED  BY Zenon, <2>2, <2>3, <2>4, <3>1, Advanced
  <2>5. ASSUME NEW pruned \in Pruned(js), jobs' = pruned, Fail(t), UNCHANGED next_job
        PROVE  JobsInv'
    BY Zenon, <2>2, <2>3, <2>5, PrunedOK, Advanced
  <2>6. ASSUME NEW pruned \in Pruned(js), next_job < MaxJobs, next_job' = next_job + 1, Finish(t),
               jobs' = [j \in DOMAIN pruned \cup {next_job'} |->
                          IF j = next_job' THEN NewJob(t) ELSE pruned[j]]
        PROVE  JobsInv'
    <3>1. Descends(pruned)
      BY Zenon, <2>3, PrunedOK
    <3>2. \A j \in DOMAIN pruned : /\ Sound(pruned[j]) /\ pruned[j].status /= "running"
                                   /\ j \in 1..next_job
      BY Zenon, <1>1, <2>2, <3>1 DEF Descends, Evolved, TableOK, TypeOK, Running
    <3>3. /\ CallsOK' /\ \A u \in Thread : call'[u].at = "idle"
      <4>1. CallsOK' /\ \A u \in Thread \ {t} : call'[u] = call[u] /\ call[u].at = "idle"
        BY Zenon, <1>1, <2>2, <2>6, Advance
      <4>2. call'[t] = NoCall
        BY Zenon, <1>1, <2>6 DEF Finish, TypeOK
      <4> QED  BY Zenon, <4>1, <4>2, NoCallType
    <3>4. Sound(NewJob(t))
      <4>1. call[t].camera \in Camera /\ call[t].profile \in Profile /\ call[t].live \in BOOLEAN
        BY Zenon, <1>1, <2>2 DEF CallsOK, Call
      <4> QED  BY Zenon, <4>1 DEF Sound, NewJob, Job
    <3>5. /\ next_job' \in 1..MaxJobs /\ DOMAIN jobs' \subseteq 1..next_job'
          /\ \A j \in DOMAIN jobs' : Sound(jobs'[j]) /\ (jobs'[j].status = "running" => j = next_job')
      <4>1. next_job' \in 1..MaxJobs /\ 1..next_job \subseteq 1..next_job' /\ next_job' \notin 1..next_job
        BY <1>1, <2>6, HistoryAssumption DEF TypeOK
      <4>2. DOMAIN jobs' = DOMAIN pruned \cup {next_job'}
        BY Zenon, <2>6
      <4>3. jobs'[next_job'] = NewJob(t) /\ \A j \in DOMAIN pruned : jobs'[j] = pruned[j]
        BY Zenon, <2>6, <3>2, <4>1
      <4> HIDE <2>6
      <4> QED  BY <3>2, <3>4, <4>1, <4>2, <4>3
    <3>6. TableOK'
      BY Zenon, <3>3, <3>5 DEF TableOK, Running
    <3>7. HandoffOK'
      BY Zenon, <3>3 DEF HandoffOK
    <3>8. TypeOK'
      BY <3>3, <3>5 DEF TypeOK, CallsOK, Sound
    <3> QED  BY Zenon, <3>3, <3>6, <3>7, <3>8 DEF JobsInv
  <2> QED  BY Zenon, <2>1, <2>4, <2>5, <2>6
<1>7. CASE Handoff(t)
  <2>1. call[t].at = "handoff" /\ UNCHANGED <<next_job, renewing>>
    BY Zenon, <1>7 DEF Handoff
  <2>2. CASE UNCHANGED jobs /\ Fail(t)
    <3>1. Descends(jobs')
      BY Zenon, <1>1, <2>2 DEF Descends
    <3> QED  BY Zenon, <2>1, <2>2, <3>1, Advanced
  <2>3. CASE /\ jobs' = [j \in DOMAIN jobs |-> IF j = call[t].job THEN [jobs[j] EXCEPT !.lease = "gone"]
                                               ELSE jobs[j]]
             /\ Goto(t, "begin")
    <3>1. ASSUME NEW j \in DOMAIN jobs PROVE Evolved(jobs'[j], jobs[j])
      <4>1. Sound(jobs[j])
        BY Zenon, <1>1 DEF TableOK
      <4>2. CASE j = call[t].job
        <5>1. jobs[j].status /= "running" /\ jobs'[j] = [jobs[j] EXCEPT !.lease = "gone"]
          BY Zenon, <1>1, <2>1, <2>3, <4>2 DEF HandoffOK, Running
        <5> QED  BY Zenon, <4>1, <5>1 DEF Evolved, Sound, Job
      <4>3. CASE j /= call[t].job
        BY Zenon, <2>3, <4>1, <4>3 DEF Evolved
      <4> QED  BY Zenon, <4>2, <4>3
    <3>2. Descends(jobs')
      BY Zenon, <2>3, <3>1 DEF Descends
    <3> QED  BY Zenon, <2>1, <2>3, <3>2, Advanced
  <2> QED  BY Zenon, <1>7, <2>2, <2>3 DEF Handoff
<1> QED  BY Zenon, <1>3, <1>4, <1>5, <1>6, <1>7 DEF CallStep

-----------------------------------------------------------------------------
(* The theorems.                                                           *)

\* JobsInv is inductive: every handler, the monitor, the renewals and the world
\* keep it.
THEOREM JobsInvariant == Spec => []JobsInv
<1>1. Init => JobsInv
  <2> SUFFICES ASSUME Init PROVE JobsInv
    BY Zenon
  <2>1. DOMAIN jobs = {} /\ next_job = 0 /\ lifecycle = Nothing /\ renewing = 0
        /\ call = [t \in Thread |-> NoCall]
    BY Zenon DEF Init
  <2>2. TypeOK /\ CallsOK
    BY <2>1, NoCallType, NothingAssumption, HistoryAssumption DEF TypeOK, CallsOK
  <2>3. TableOK /\ HandoffOK
    BY Zenon, <2>1, NoCallType DEF TableOK, HandoffOK
  <2> QED  BY Zenon, <2>2, <2>3 DEF JobsInv
<1>2. JobsInv /\ [Next]_vars => JobsInv'
  <2> SUFFICES ASSUME JobsInv, [Next]_vars PROVE JobsInv'
    BY Zenon
  <2>1. CASE UNCHANGED vars
    BY Zenon, <2>1 DEF vars, JobsInv, TypeOK, CallsOK, TableOK, HandoffOK, Running
  <2>2. CASE Next
    BY Zenon, <2>2, TableStep, WorldStep, RequestStep, StartStep DEF Next
  <2> QED  BY Zenon, <2>1, <2>2
<1> QED  BY <1>1, <1>2, PTL DEF Spec

\* The variables of the detection jobs keep their types, and the lifecycle lock is
\* with the one call or renewal in progress.
THEOREM JobsTyped == Spec => []TypeOK
BY JobsInvariant, PTL DEF JobsInv

\* There is one worker process that may be running, or one starter about to spawn
\* one, whatever stops could not be confirmed (start_detection_job_locked,
\* stop_detection_worker).
THEOREM OneWorkerAtATime == Spec => []OneWorker
<1>1. JobsInv => OneWorker
  <2> SUFFICES ASSUME JobsInv PROVE OneWorker
    BY Zenon
  <2>1. \A j \in DOMAIN jobs : jobs[j].child /= "none" => Running(j)
    BY Zenon DEF JobsInv, TableOK, Sound, Running
  <2>2. \A t, u \in Thread : call[t].at = "spawn" /\ call[u].at = "spawn" => t = u
    BY Zenon DEF JobsInv, TypeOK
  <2> QED  BY Zenon, <2>1, <2>2 DEF JobsInv, TableOK, OneWorker
<1> QED  BY <1>1, JobsInvariant, PTL

\* A job that has ended left no process and no lease of the scheduler behind, so
\* prune_detection_job_history forgets neither.
THEOREM EndedJobsAreClean == Spec => []EndedIsClean
<1>1. JobsInv => EndedIsClean
  BY Zenon DEF JobsInv, TableOK, Sound, Running, EndedIsClean
<1> QED  BY <1>1, JobsInvariant, PTL

\* HarborLink is never told to drop the lease of a job that goes on
\* (refresh_detection_job, stop_detection_lease, the handoff between profiles).
THEOREM RunningJobsHaveSource == Spec => []RunningHasSource
<1>1. JobsInv => RunningHasSource
  BY Zenon DEF JobsInv, TableOK, Sound, Running, RunningHasSource
<1> QED  BY <1>1, JobsInvariant, PTL
=============================================================================
