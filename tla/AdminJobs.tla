------------------------------ MODULE AdminJobs ------------------------------
(***************************************************************************)
(* The admin service with its index jobs and its model downloads over the  *)
(* one admin state file.  "deployed" says which of the two are asked for.  *)
(***************************************************************************)
EXTENDS KnowledgeIndexJobs, ModelDownloads

CONSTANTS Deployments

VARIABLE deployed

vars == <<fileVars, jobVars, downloadVars, deployed, roots>>

Init ==
    /\ deployed \in Deployments
    /\ roots \in (IF deployed = "index" THEN 1 .. NRoots ELSE {1})
    /\ doc = [jobs |-> [j \in Jobs |-> "none"], download |-> "none"]
    /\ torn = FALSE
    /\ base = [p \in Procs |-> Nobody] /\ at = [p \in Procs |-> AtRest]
    /\ guard = Nobody /\ faults = 0 /\ lost = FALSE
    /\ mine = [p \in Procs |-> Nobody]
    /\ asked = {} /\ unsaved = {}
    /\ source \in (IF deployed = "url" THEN {"url"} ELSE {"snapshot"})
    /\ dest = [f \in Files |-> "absent"] /\ tmp = [f \in Files |-> Nobody]
    /\ inode = [w \in DownloadWorkers |-> "partial"] /\ manifest = FALSE
    /\ file = [w \in DownloadWorkers |-> 1] /\ cached = [w \in DownloadWorkers |-> FALSE]
    /\ outcome = [w \in DownloadWorkers |-> "none"]
    /\ creates = 0 /\ together = FALSE

\* The process dies, within a save or not, and boots again: threads are gone, the
\* document stays, jobs of the index are reconciled, and what workers had written is
\* what it is.  Reconciling saves too, and may be cut short.  A boot that meets a torn
\* file exits, and every later one does.
Restart ==
    /\ faults < MaxFaults /\ faults' = faults + 1
    /\ torn' \in {torn, TRUE}
    /\ doc' = IF torn' THEN doc ELSE reconcile_stale_knowledge_index_jobs(doc)
    /\ base' = [p \in Procs |-> Nobody]
    /\ at' = [p \in Procs |-> IF torn' THEN <<"down", "load">> ELSE AtRest]
    /\ guard' = Nobody
    /\ dest' = [f \in Files |-> Content(f)]
    /\ lost' = FALSE /\ unsaved' = {}
    /\ mine' = [p \in Procs |-> Nobody]
    /\ UNCHANGED <<asked, source, tmp, inode, manifest, file, cached,
                   outcome, creates, together, deployed, roots>>

Index ==
    /\ deployed = "index" /\ UNCHANGED <<downloadVars, deployed, roots>>
    /\ (\E h \in Threads : IndexThread(h)) \/ (\E w \in IndexWorkers : IndexWorker(w))

Download ==
    /\ deployed # "index" /\ UNCHANGED <<jobVars, deployed, roots>>
    /\ \/ \E h \in Threads : DownloadThread(h)
       \/ \E w \in DownloadWorkers : DownloadWorker(w)

\* Reads by other requests while downloads run.
Visit ==
    /\ deployed # "index" /\ UNCHANGED <<downloadVars, deployed, roots>>
    /\ \E h \in Threads : PollBegins(h) \/ Polls(h)

Next == Index \/ Download \/ Visit \/ Restart
Spec == Init /\ [][Next]_vars

-----------------------------------------------------------------------------
\* A guarded change of the downloads is made to the record as it stands: none of the
\* others' guarded changes gets lost (create_or_update_model_download_job,
\* cancel_model_download_job, save_model_download_job); except by requests that
\* save the whole document without the guard.
GuardKeepsRecord ==
    [][\A p \in Procs : (guard = p /\ at[p][2] = "save" /\ doc' # doc /\ ~lost)
            => base[p].download = doc.download]_vars
=============================================================================
