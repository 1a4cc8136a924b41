------------------------- MODULE KnowledgeIndexJobs -------------------------
(***************************************************************************)
(* The jobs of the knowledge index: an operator runs the index, which      *)
(* queues one job for each enabled root and starts a worker; polls and     *)
(* cancels jobs; and the service, when it boots, fails the jobs that its   *)
(* predecessor left behind.                                                *)
(*                                                                         *)
(* A run is named by its worker, a job by its run and root.  The index     *)
(* itself is one step (load_or_refresh) that succeeds or fails.            *)
(***************************************************************************)
EXTENDS AdminStateFile

CONSTANTS NRoots    \* bound: enabled source roots

ASSUME RootsAssumption == NRoots \in Nat \ {0}

Jobs == IndexWorkers \X (1 .. NRoots)
JobStatus == {"none", "queued", "running", "completed", "failed", "canceled"}
ActiveStatus == {"queued", "running"}

VARIABLES
    roots,      \* the number of enabled source roots
    mine,       \* the job at which a thread or worker is
    asked,      \* runs that were asked for
    unsaved     \* history: runs of which an operation failed that nobody repeats

jobVars == <<mine, asked, unsaved>>

SetJob(d, j, s) == [d EXCEPT !.jobs[j] = s]
ActiveJobs(d) == {j \in Jobs : d.jobs[j] \in ActiveStatus}
Next1(j) == <<j[1], j[2] + 1>>
Last(j) == j[2] = roots

-----------------------------------------------------------------------------
(* handle_run_knowledge_index *)

RunBegins(h, r) ==
    /\ at[h] = AtRest /\ r \in IndexWorkers \ asked
    /\ asked' = asked \cup {r}
    /\ mine' = [mine EXCEPT ![h] = <<r, 1>>]
    /\ Goto(h, "settings")
    /\ UNCHANGED <<doc, torn, base, guard, faults, lost, unsaved>>

RunReadsSettings(h) ==
    /\ Touch(h, "settings", "list", "idle")
    /\ UNCHANGED jobVars

\* Active jobs refuse the run; a list that cannot be read does not.
RunListsJobs(h) ==
    /\ Touch(h, "list", IF ActiveJobs(base[h]) = {} THEN "enqueue" ELSE "idle",
             "enqueue")
    /\ UNCHANGED jobVars

\* save_knowledge_index_job for each root; an error ends the request, and the jobs
\* stored before it have no worker.
RunEnqueues(h) ==
    LET j == mine[h] IN
    /\ Change(h, "enqueue", SetJob(base[h], j, "queued"),
              IF Last(j) THEN "spawn" ELSE "enqueue", "idle")
    /\ mine' = IF At(h, "enqueue", "save") /\ ~Errs(h) /\ ~Last(j)
               THEN [mine EXCEPT ![h] = Next1(j)] ELSE mine
    /\ unsaved' = IF Errs(h) /\ j[2] > 1 THEN unsaved \cup {j[1]} ELSE unsaved
    /\ UNCHANGED asked

\* spawn_knowledge_index_worker
RunSpawns(h) ==
    LET w == mine[h][1] IN
    /\ at[h] = <<"spawn", "load">>
    /\ \/ /\ at' = [at EXCEPT ![h] = AtRest, ![w] = <<"check_start", "load">>]
          /\ mine' = [mine EXCEPT ![w] = <<w, 1>>]
       \/ /\ Goto(h, "unspawned") /\ mine' = [mine EXCEPT ![h] = <<w, 1>>]
    /\ UNCHANGED <<doc, torn, base, guard, faults, lost, asked, unsaved>>

\* No worker: every job is saved as failed, errors ignored.
RunFailsUnspawned(h) ==
    LET j == mine[h]  after == IF Last(j) THEN "idle" ELSE "unspawned" IN
    /\ Change(h, "unspawned", SetJob(base[h], j, "failed"), after, after)
    /\ mine' = IF at'[h][2] = "load" /\ ~Last(j) THEN [mine EXCEPT ![h] = Next1(j)] ELSE mine
    /\ unsaved' = IF Errs(h) THEN unsaved \cup {j[1]} ELSE unsaved
    /\ UNCHANGED asked

\* handle_cancel_knowledge_index_job
CancelBegins(h, j) ==
    /\ at[h] = AtRest /\ doc.jobs[j] # "none"
    /\ mine' = [mine EXCEPT ![h] = j] /\ Goto(h, "cancel")
    /\ UNCHANGED <<doc, torn, base, guard, faults, lost, asked, unsaved>>

CancelsJob(h) ==
    LET j == mine[h] IN
    /\ Change(h, "cancel",
              IF base[h].jobs[j] \in ActiveStatus THEN SetJob(base[h], j, "canceled") ELSE base[h],
              "idle", "idle")
    /\ UNCHANGED jobVars

\* handle_knowledge_index_jobs, and every other request that only reads: the
\* document is saved again.
PollBegins(h) ==
    /\ at[h] = AtRest /\ Goto(h, "poll")
    /\ UNCHANGED <<doc, torn, base, guard, faults, lost, jobVars>>

Polls(h) == Touch(h, "poll", "idle", "idle") /\ UNCHANGED jobVars

-----------------------------------------------------------------------------
(* run_knowledge_index_job, for the jobs of a run one after another *)

AfterJob(w) == IF Last(mine[w]) THEN "idle" ELSE "check_start"
JobEnds(w) == mine' = IF at'[w] = <<AfterJob(w), "load">> /\ ~Last(mine[w])
                      THEN [mine EXCEPT ![w] = Next1(@)] ELSE mine

\* knowledge_index_job_cancel_requested; an unreadable list is no cancel.
Checks(w, step, next) ==
    /\ Touch(w, step, IF base[w].jobs[mine[w]] = "canceled" THEN "canceled" ELSE next, next)
    /\ UNCHANGED jobVars

\* Saves of the worker's own copy of the job, over whatever the file says.
Saves(w, step, status, next, error) ==
    /\ Change(w, step, SetJob(base[w], mine[w], status), next, error)
    /\ UNCHANGED jobVars

\* The last save of a job, its error ignored.
Concludes(w, step, status) ==
    /\ Change(w, step, SetJob(base[w], mine[w], status), AfterJob(w), AfterJob(w))
    /\ JobEnds(w)
    /\ unsaved' = IF Errs(w) THEN unsaved \cup {w} ELSE unsaved
    /\ UNCHANGED asked

\* A root that is missing, or load_or_refresh, which succeeds or fails.
Refreshes(w) ==
    /\ at[w] = <<"refresh", "load">>
    /\ Goto(w, "check_refreshed") \/ Goto(w, "failed")
    /\ UNCHANGED <<doc, torn, base, guard, faults, lost, jobVars>>

\* mark_knowledge_source_root_indexed changes the settings, not the jobs.
MarksRoot(w) ==
    \/ Touch(w, "mark", "mark_save", "completed") /\ UNCHANGED jobVars
    \/ Change(w, "mark_save", base[w], "completed", "completed") /\ UNCHANGED jobVars

IndexWorker(w) ==
    \/ Checks(w, "check_start", "running")
    \/ Saves(w, "running", "running", "check_refresh", "failed")
    \/ Checks(w, "check_refresh", "refresh")
    \/ Refreshes(w)
    \/ Checks(w, "check_refreshed", "warmup")
    \/ Saves(w, "warmup", "running", "check_warmup", "failed")
    \/ Checks(w, "check_warmup", "mark")
    \/ MarksRoot(w)
    \/ Concludes(w, "completed", "completed")
    \/ Concludes(w, "failed", "failed")
    \/ Concludes(w, "canceled", "canceled")

IndexThread(h) ==
    \/ \E r \in IndexWorkers : RunBegins(h, r)
    \/ RunReadsSettings(h) \/ RunListsJobs(h) \/ RunEnqueues(h) \/ RunSpawns(h)
    \/ RunFailsUnspawned(h)
    \/ \E j \in Jobs : CancelBegins(h, j)
    \/ CancelsJob(h) \/ PollBegins(h) \/ Polls(h)

\* Mutant: only running jobs are taken for stale.
ReconcileRunning(d) ==
    [d EXCEPT !.jobs = [j \in Jobs |-> IF @[j] = "running" THEN "failed" ELSE @[j]]]

\* reconcile_stale_knowledge_index_jobs, before any thread starts.
reconcile_stale_knowledge_index_jobs(d) ==
    [d EXCEPT !.jobs = [j \in Jobs |-> IF @[j] \in ActiveStatus THEN "failed" ELSE @[j]]]

-----------------------------------------------------------------------------
\* The runs that will still get to job j: its worker, or a thread that has yet to
\* start the worker or to save that it did not start.
Attended(j) ==
    \/ at[j[1]] # AtRest /\ mine[j[1]][2] <= j[2]
    \/ \E h \in Threads : /\ at[h][1] \in {"enqueue", "spawn", "unspawned"}
                          /\ mine[h][1] = j[1]
                          /\ at[h][1] = "unspawned" => mine[h][2] <= j[2]

\* A job that a file that parses shows as queued or running has a thread that will
\* bring it to an end, over crashes, failed spawns, cancels, failed checks and saves
\* that tore the file before (run_knowledge_index_job, handle_run_knowledge_index and
\* reconcile_stale_knowledge_index_jobs); except where a save undid another's, or the
\* operation failed that was the job's last.
ActiveHasWorker ==
    ~torn => \A j \in ActiveJobs(doc) : Attended(j) \/ lost \/ j[1] \in unsaved
=============================================================================
