---------------------------- MODULE DetectionJobs ----------------------------
(***************************************************************************)
(* The YOLO detection jobs of bin/agent_hub_admin_api.rs: the handlers that*)
(* start, renew and stop them, the live sessions that take them over, the  *)
(* monitor and the automatic renewal, around one child process per job.    *)
(*                                                                         *)
(* A step runs under the detection_jobs mutex and includes the calls of    *)
(* HarborLink that are made under it.  The lifecycle lock is held across   *)
(* steps by the handlers that start a job, and across the wait for the     *)
(* YOLO lease of the scheduler (AiResourceScheduler): it is free while no  *)
(* starter and no job has it.  Other workloads may also keep it busy, so   *)
(* the wait may always fail.                                               *)
(***************************************************************************)
EXTENDS Integers, FiniteSets

CONSTANTS
  Thread,      \* HTTP threads that serve detection and live requests
  Camera,
  Profile,
  Nothing,     \* no thread, no profile
  MaxHistory,  \* MAX_DETECTION_JOB_HISTORY
  MaxJobs      \* bound: job ids taken

ASSUME HistoryAssumption == MaxHistory \in Nat \ {0, 1} /\ MaxJobs \in Nat
ASSUME NothingAssumption ==
  Nothing \notin Thread \cup Profile \cup {"recorder"} /\ "recorder" \notin Thread

VARIABLES
  jobs,       \* the table, keyed by job id
  next_job,
  lifecycle,  \* who has detection_job_lifecycle_lock
  call,       \* per thread, the start it is making
  renewing,   \* the job whose lease the recording worker renews, or 0
  enabled     \* cat_auto_recording_enabled

vars == <<jobs, next_job, lifecycle, call, renewing, enabled>>

JobId == 1..MaxJobs

\* lease: whether HarborLink still has the job's lease; lapsed: expires_at has passed.
\* child: the worker process runs, has exited and was not waited for, or is gone.
Job == [camera : Camera, profile : Profile, live : BOOLEAN,
        status : {"running", "stopped", "expired", "completed", "failed"},
        child : {"alive", "exited", "none"}, ai : BOOLEAN,
        lapsed : BOOLEAN, lease : {"held", "gone"}]

\* previous: the profile to go back to if a handoff fails.
Call == [at : {"idle", "handoff", "begin", "acquire", "spawn"}, camera : Camera \cup {Nothing},
         profile : Profile \cup {Nothing}, live : BOOLEAN, job : 0..MaxJobs,
         previous : Profile \cup {Nothing}, plive : BOOLEAN]

NoCall == [at |-> "idle", camera |-> Nothing, profile |-> Nothing, live |-> FALSE, job |-> 0,
           previous |-> Nothing, plive |-> FALSE]

Init ==
  /\ jobs = [j \in {} |-> Nothing]
  /\ next_job = 0
  /\ lifecycle = Nothing
  /\ call = [t \in Thread |-> NoCall]
  /\ renewing = 0
  /\ enabled \in BOOLEAN

Running(j) == jobs[j].status = "running"

-----------------------------------------------------------------------------
(* Stopping the child process, and refresh_detection_job.                  *)

\* Its exit is confirmed: the lease of the scheduler is dropped.
Confirmed(r, status) == [r EXCEPT !.status = status, !.child = "none", !.ai = FALSE]

\* Mutant: the lease of the scheduler is dropped with the attempt.
UnconfirmedDropsLease(r) == {[r EXCEPT !.child = c, !.ai = FALSE] : c \in {r.child, "exited"}}

\* The worker was signalled or killed, but nobody saw it end: the job runs on.
Unconfirmed(r) == {[r EXCEPT !.child = c] : c \in {r.child, "exited"}}

\* stop_detection_lease, whose failure is only noted.
LeaseStopped(r) == {[r EXCEPT !.lease = l] : l \in {r.lease, "gone"}}

\* Mutant: the lease is stopped whatever became of the worker.
StopAttemptAlways(r, status) ==
  LeaseStopped(Confirmed(r, status)) \cup UNION {LeaseStopped(u) : u \in Unconfirmed(r)}

StopAttempt(r, status) == LeaseStopped(Confirmed(r, status)) \cup Unconfirmed(r)

\* Mutant: an expired job ends whatever became of the worker.
RefreshedAtOnce(r) ==
  CASE r.status /= "running" -> {r}
    [] r.status = "running" /\ r.lapsed -> {[r EXCEPT !.status = "expired"]}
    [] r.status = "running" /\ ~r.lapsed /\ r.child = "exited" -> LeaseStopped(Confirmed(r, "completed"))
    [] OTHER -> {r}

\* Mutant: expiry is not looked at, the worker still is.
RefreshedUnexpired(r) ==
  CASE r.status /= "running" -> {r}
    [] r.status = "running" /\ r.child = "exited" ->
         LeaseStopped(Confirmed(r, "completed")) \cup StopAttempt(r, "failed")
    [] OTHER -> {r} \cup StopAttempt(r, "failed")

\* What refresh_detection_job may make of a job: it has expired, or its worker
\* has exited, or cannot be inspected.
Refreshed(r) ==
  CASE r.status /= "running" -> {r}
    [] r.status = "running" /\ r.lapsed -> StopAttempt(r, "expired")
    [] r.status = "running" /\ ~r.lapsed /\ r.child = "exited" ->
         LeaseStopped(Confirmed(r, "completed")) \cup StopAttempt(r, "failed")
    [] OTHER -> {r} \cup StopAttempt(r, "failed")

\* stop_live_managed_detection_job: automatic recording keeps the job.
LiveEnded(r) ==
  IF enabled THEN {[r EXCEPT !.live = FALSE]}
  ELSE IF r.status = "running" THEN StopAttempt(r, "stopped") ELSE {r}

Outcomes(r, stops) == IF stops THEN UNION {LiveEnded(q) : q \in Refreshed(r)} ELSE Refreshed(r)

\* The tables in which each of the jobs J is one of its outcomes.
Tables(J, stops) ==
  {[j \in DOMAIN jobs |-> IF j \in J THEN ks[j] ELSE jobs[j]] :
     ks \in {ls \in [J -> UNION {Outcomes(jobs[j], stops) : j \in J}] :
                \A j \in J : ls[j] \in Outcomes(jobs[j], stops)}}

\* The tables that a refresh of the jobs J may lead to: only running jobs change.
RefreshedTables(J) == Tables({j \in J : Running(j)}, FALSE)

OfCamera(c) == {j \in DOMAIN jobs : jobs[j].camera = c}

RunningOf(js, c) == {j \in DOMAIN js : js[j].camera = c /\ js[j].status = "running"}

\* start_detection_job_monitor, which refreshes every job under one lock, and
\* the handlers that show a job.
Monitor ==
  /\ jobs' \in RefreshedTables(DOMAIN jobs)
  /\ UNCHANGED <<next_job, lifecycle, call, renewing, enabled>>

-----------------------------------------------------------------------------
(* start_detection_job_locked                                              *)

Free == lifecycle = Nothing

Finish(t) == call' = [call EXCEPT ![t] = NoCall] /\ lifecycle' = Nothing

\* Mutant: a start that goes back to the profile of before may do so again.
FailAndRetry(t) ==
  IF call[t].previous = Nothing THEN Finish(t)
  ELSE /\ call' = [call EXCEPT ![t] = [@ EXCEPT !.at = "begin", !.profile = call[t].previous,
                                                 !.live = call[t].plive]]
       /\ UNCHANGED lifecycle

\* A start that fails ends the call, or goes back to the profile of before.
Fail(t) ==
  IF call[t].previous = Nothing THEN Finish(t)
  ELSE /\ call' = [call EXCEPT ![t] = [@ EXCEPT !.at = "begin", !.profile = call[t].previous,
                                                 !.live = call[t].plive, !.previous = Nothing]]
       /\ UNCHANGED lifecycle

Goto(t, at) == call' = [call EXCEPT ![t].at = at] /\ UNCHANGED lifecycle

\* prune_detection_job_history, for a table that holds at most MaxHistory jobs;
\* which of the ended jobs is the oldest is left open.
Pruned(js) ==
  LET ended == {j \in DOMAIN js : js[j].status /= "running"} IN
  IF Cardinality(DOMAIN js) < MaxHistory \/ ended = {} THEN {js}
  ELSE {[j \in DOMAIN js \ {k} |-> js[j]] : k \in ended}

handle_start_detection_job(t, c, p) ==
  /\ call[t].at = "idle" /\ Free
  /\ call' = [call EXCEPT ![t] = [NoCall EXCEPT !.at = "begin", !.camera = c, !.profile = p]]
  /\ lifecycle' = t
  /\ UNCHANGED <<jobs, next_job, renewing, enabled>>

\* A running job of the camera is reused, or in conflict with the profile.
Reuse(t, js) ==
  LET c == call[t].camera IN
  IF \E j \in RunningOf(js, c) : js[j].profile = call[t].profile THEN Finish(t) ELSE Fail(t)

Begin(t) ==
  /\ call[t].at = "begin"
  /\ \E js \in RefreshedTables(OfCamera(call[t].camera)) :
       IF RunningOf(js, call[t].camera) /= {}
       THEN jobs' = js /\ Reuse(t, js)
       ELSE jobs' \in Pruned(js) /\ Goto(t, "acquire")
  /\ UNCHANGED <<next_job, renewing, enabled>>

\* acquire_ai_resource_lease(Yolo)
YoloIsFree == (\A t \in Thread : call[t].at /= "spawn") /\ \A j \in DOMAIN jobs : ~jobs[j].ai

Acquire(t) ==
  /\ call[t].at = "acquire"
  /\ YoloIsFree
  /\ Goto(t, "spawn")
  /\ UNCHANGED <<jobs, next_job, renewing, enabled>>

\* The queue is full, the wait timed out, or the resource is in quarantine.
AcquireFails(t) ==
  /\ call[t].at = "acquire"
  /\ Fail(t)
  /\ UNCHANGED <<jobs, next_job, renewing, enabled>>

NewJob(t) == [camera |-> call[t].camera, profile |-> call[t].profile, live |-> call[t].live,
              status |-> "running", child |-> "alive", ai |-> TRUE, lapsed |-> FALSE,
              lease |-> "held"]

\* With the YOLO lease: everything is looked at again, HarborLink gives a lease
\* and the worker is spawned; or one of these fails and what was taken is given
\* back.
Spawn(t) ==
  /\ call[t].at = "spawn"
  /\ \E js \in RefreshedTables(OfCamera(call[t].camera)) :
       IF RunningOf(js, call[t].camera) /= {}
       THEN jobs' = js /\ Reuse(t, js) /\ UNCHANGED next_job
       ELSE \E pruned \in Pruned(js) :
              \/ /\ next_job < MaxJobs
                 /\ next_job' = next_job + 1
                 /\ jobs' = [j \in DOMAIN pruned \cup {next_job'} |->
                               IF j = next_job' THEN NewJob(t) ELSE pruned[j]]
                 /\ Finish(t)
              \/ jobs' = pruned /\ Fail(t) /\ UNCHANGED next_job
  /\ UNCHANGED <<renewing, enabled>>

-----------------------------------------------------------------------------
(* Live sessions.                                                          *)

\* HarborLink renews a lease that it still has.
Renewed(r) == IF r.lease = "held" THEN {r, [r EXCEPT !.lapsed = FALSE]} ELSE {r}

\* The worker of the other profile is stopped for a handoff; the lease follows.
HandoffStop(r) == {[Confirmed(r, "stopped") EXCEPT !.live = FALSE]} \cup Unconfirmed(r)

\* ensure_live_managed_detection_job, from handle_camera_live_start and _renew.
ensure_live(t, c, p) ==
  /\ enabled /\ call[t].at = "idle" /\ Free
  /\ \E js \in RefreshedTables(OfCamera(c)) :
       \/ /\ RunningOf(js, c) = {}
          /\ jobs' = js
          /\ call' = [call EXCEPT ![t] = [NoCall EXCEPT !.at = "begin", !.camera = c, !.profile = p,
                                                        !.live = TRUE]]
          /\ lifecycle' = t
       \/ \E j \in RunningOf(js, c) :
            /\ js[j].profile = p
            /\ \E r \in Renewed([js[j] EXCEPT !.live = TRUE]) : jobs' = [js EXCEPT ![j] = r]
            /\ UNCHANGED <<call, lifecycle>>
       \/ \E j \in RunningOf(js, c) : \E r \in HandoffStop(js[j]) :
            /\ js[j].profile /= p
            /\ jobs' = [js EXCEPT ![j] = r]
            /\ IF r.status = "running" THEN UNCHANGED <<call, lifecycle>>
               ELSE /\ call' = [call EXCEPT ![t] =
                                  [at |-> "handoff", camera |-> c, profile |-> p, live |-> TRUE,
                                   job |-> j, previous |-> js[j].profile, plive |-> js[j].live]]
                    /\ lifecycle' = t
  /\ UNCHANGED <<next_job, renewing, enabled>>

\* The previous lease is stopped.  If that fails the previous profile is started again.
Handoff(t) ==
  /\ call[t].at = "handoff"
  /\ \/ /\ jobs' = [j \in DOMAIN jobs |-> IF j = call[t].job THEN [jobs[j] EXCEPT !.lease = "gone"]
                                          ELSE jobs[j]]
        /\ Goto(t, "begin")
     \/ UNCHANGED jobs /\ Fail(t)
  /\ UNCHANGED <<next_job, renewing, enabled>>

\* stop_live_managed_detection_job refreshes and ends the jobs of the live view.
stop_live(c) ==
  /\ jobs' \in Tables({j \in OfCamera(c) : jobs[j].live}, TRUE)
  /\ UNCHANGED <<next_job, lifecycle, call, renewing, enabled>>

-----------------------------------------------------------------------------
(* Renewing and stopping a job by its id.                                  *)

\* Under the lifecycle lock, which is given back at once.
handle_renew_detection_job(j) ==
  /\ Free /\ j \in DOMAIN jobs
  /\ \E r \in Refreshed(jobs[j]) :
       jobs' \in {[jobs EXCEPT ![j] = s] : s \in IF r.status = "running" THEN Renewed(r) ELSE {r}}
  /\ UNCHANGED <<next_job, lifecycle, call, renewing, enabled>>

\* detection_job_reference_conflict; a recording of before a restart is a reference, too.
Conflict(r) == r.live \/ enabled

Referenced(r) == IF Conflict(r) THEN {TRUE} ELSE BOOLEAN

handle_stop_detection_job(j) ==
  /\ j \in DOMAIN jobs
  /\ \E r \in Refreshed(jobs[j]) : \E referenced \in Referenced(r) :
       jobs' \in {[jobs EXCEPT ![j] = s] :
                    s \in IF r.status = "running" /\ ~referenced THEN StopAttempt(r, "stopped") ELSE {r}}
  /\ UNCHANGED <<next_job, lifecycle, call, renewing, enabled>>

\* renew_auto_recording_detection_leases: the job is looked at and updated under
\* the table's lock, HarborLink is called in between.
RenewDue(j) ==
  /\ enabled /\ Free /\ renewing = 0
  /\ j \in DOMAIN jobs /\ Running(j)
  /\ renewing' = j /\ lifecycle' = "recorder"
  /\ UNCHANGED <<jobs, next_job, call, enabled>>

RenewDone ==
  /\ renewing /= 0
  /\ \/ UNCHANGED jobs
     \/ /\ renewing \in DOMAIN jobs /\ Running(renewing)
        /\ \E r \in Renewed(jobs[renewing]) : jobs' = [jobs EXCEPT ![renewing] = r]
  /\ renewing' = 0 /\ lifecycle' = Nothing
  /\ UNCHANGED <<next_job, call, enabled>>

-----------------------------------------------------------------------------
(* The world.                                                              *)

ChildExits(j) ==
  /\ j \in DOMAIN jobs /\ jobs[j].child = "alive"
  /\ jobs' = [jobs EXCEPT ![j] = [@ EXCEPT !.child = "exited"]]
  /\ UNCHANGED <<next_job, lifecycle, call, renewing, enabled>>

Lapse(j) ==
  /\ j \in DOMAIN jobs /\ Running(j) /\ ~jobs[j].lapsed
  /\ jobs' = [jobs EXCEPT ![j] = [@ EXCEPT !.lapsed = TRUE]]
  /\ UNCHANGED <<next_job, lifecycle, call, renewing, enabled>>

LeaseExpires(j) ==
  /\ j \in DOMAIN jobs /\ jobs[j].lapsed /\ jobs[j].lease = "held"
  /\ jobs' = [jobs EXCEPT ![j] = [@ EXCEPT !.lease = "gone"]]
  /\ UNCHANGED <<next_job, lifecycle, call, renewing, enabled>>

CallStep(t) == Begin(t) \/ Acquire(t) \/ AcquireFails(t) \/ Spawn(t) \/ Handoff(t)

Next ==
  \/ \E t \in Thread :
       \/ CallStep(t)
       \/ \E c \in Camera, p \in Profile : handle_start_detection_job(t, c, p) \/ ensure_live(t, c, p)
  \/ Monitor \/ RenewDone
  \/ \E c \in Camera : stop_live(c)
  \/ \E j \in JobId : \/ handle_renew_detection_job(j) \/ handle_stop_detection_job(j)
                      \/ RenewDue(j) \/ ChildExits(j) \/ Lapse(j) \/ LeaseExpires(j)

Spec == Init /\ [][Next]_vars

\* The monitor finds that a job has expired and sees its worker end.
Expires(j) == Monitor /\ j \in DOMAIN jobs /\ Running(j) /\ jobs'[j].status = "expired"

\* The monitor runs for ever, and of the stops it tries on an expired job one is
\* confirmed at last; nothing is assumed of the inspections of other jobs.  The
\* calls of the handlers and of the recording worker return.
FairSpec ==
  /\ Spec
  /\ \A j \in JobId : WF_vars(Expires(j))
  /\ \A t \in Thread : WF_vars(CallStep(t))
  /\ WF_vars(RenewDone)

-----------------------------------------------------------------------------
(* Properties.                                                             *)

\* The variables have their types, and the lifecycle lock is with the one call
\* or renewal in progress.
TypeOK ==
  /\ DOMAIN jobs \subseteq 1..next_job /\ next_job \in 0..MaxJobs
  /\ \A j \in DOMAIN jobs : jobs[j] \in Job
  /\ call \in [Thread -> Call]
  /\ lifecycle \in Thread \cup {Nothing, "recorder"}
  /\ \A t \in Thread : call[t].at /= "idle" <=> lifecycle = t
  /\ renewing \in 0..MaxJobs /\ (renewing /= 0 <=> lifecycle = "recorder")

\* The YOLO worker has the accelerator for itself: there is one worker process
\* that may be running, or one starter about to spawn one, never two of these,
\* even if a worker could not be seen to end.
OneWorker ==
  /\ \A j, k \in DOMAIN jobs : jobs[j].child /= "none" /\ jobs[k].child /= "none" => j = k
  /\ \A t, u \in Thread : call[t].at = "spawn" /\ call[u].at = "spawn" => t = u
  /\ \A j \in DOMAIN jobs, t \in Thread : ~(jobs[j].child /= "none" /\ call[t].at = "spawn")

\* A job that has ended left nothing behind: so pruning one forgets no process.
EndedIsClean == \A j \in DOMAIN jobs : ~Running(j) => jobs[j].child = "none" /\ ~jobs[j].ai

\* A running job that has not expired has its source: HarborLink, which drops no
\* lease by itself before its expiry, is never told to drop the one of a job that
\* goes on.
RunningHasSource == \A j \in DOMAIN jobs : Running(j) /\ ~jobs[j].lapsed => jobs[j].lease = "held"

\* A job whose lease has lapsed is renewed or ends, and gives the accelerator back
\* (refresh_detection_job, start_detection_job_monitor); by OneWorker there is one at a
\* time.
LapsedJobsEnd ==
  LET lapsed == \E j \in DOMAIN jobs : Running(j) /\ jobs[j].lapsed IN lapsed ~> ~lapsed

\* A handler that took the lifecycle lock gives it back, whatever fails: the wait for
\* the accelerator, the handoff, or the restart of the profile of before
\* (start_detection_job, restore_previous_detection_profile_locked), and whatever the
\* monitor and the stops do to the job it was about.
CallsEnd == lifecycle \in Thread ~> lifecycle = Nothing
==============================================================================
