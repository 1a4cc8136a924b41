--------------------------- MODULE ModelDownloads ---------------------------
(***************************************************************************)
(* Model downloads: one record per model in the admin state, which a       *)
(* request to download queues (or returns, while it is active), a request  *)
(* to cancel marks, and a worker thread carries out.  The files: a         *)
(* snapshot of several files with a manifest written last, or one file     *)
(* from a URL.                                                             *)
(*                                                                         *)
(* A file on disk is absent, partial or whole, or is the temporary file    *)
(* that a worker is still writing, renamed under that worker's hands.      *)
(***************************************************************************)
EXTENDS AdminStateFile

CONSTANTS NFiles, MaxCreates

ASSUME FilesAssumption == NFiles \in Nat \ {0} /\ MaxCreates \in Nat

Files == 1 .. NFiles
DownloadStatus == {"none", "queued", "downloading", "completed", "failed", "canceled"}
Running == {"queued", "downloading"}

VARIABLES
    source,     \* "snapshot" or "url": what the model is downloaded from
    dest,       \* the file at each destination
    tmp,        \* the worker that made the temporary file of each destination
    inode,      \* what each worker has written of its temporary file
    manifest,   \* is there a snapshot_manifest.json
    file,       \* the file at which each worker is
    cached,     \* is it in the hub's cache (else it came by plain HTTP)
    outcome,    \* how each worker's transfer ended
    creates,    \* requests to download so far
    together    \* history: two workers were at the files at once

downloadVars == <<source, dest, tmp, inode, manifest, file, cached, outcome, creates, together>>
filesVars == <<dest, tmp, inode, manifest>>

SetDownload(d, s) == [d EXCEPT !.download = s]
IsCanceled(d) == d.download = "canceled"
Resting(w) == at[w] = AtRest

\* What a destination holds: a worker's temporary file counts for what is written.
Content(f) == IF dest[f] \in DownloadWorkers THEN inode[dest[f]] ELSE dest[f]

-----------------------------------------------------------------------------
(* Requests *)

CreateBegins(h) ==
    /\ at[h] = AtRest /\ creates < MaxCreates /\ creates' = creates + 1
    /\ Goto(h, "create_read")
    /\ UNCHANGED <<doc, torn, base, guard, faults, lost, source, filesVars, file, cached, outcome,
                   together>>

\* handle_create_model_download reads the catalog, then
\* create_or_update_model_download_job returns an active record as it is.
Creates(h) ==
    /\ \/ Read(h, "create_read", "create", "idle")
       \/ /\ At(h, "create", "resave") => base[h].download \notin Running
          /\ GuardedChange(h, "create", SetDownload(base[h], "queued"), "create_spawn", "idle")
       \/ /\ At(h, "create", "resave") /\ base[h].download \in Running
          /\ Stores(h, "create", "resave", base[h], "idle") \/ Fails(h, "create", {"resave"}, "idle")
          /\ guard' = Nobody
       \/ GuardedChange(h, "create_unspawned", SetDownload(base[h], "failed"), "idle", "idle")
    /\ UNCHANGED downloadVars

\* spawn_model_download_worker
CreateSpawns(h) ==
    /\ at[h] = <<"create_spawn", "load">>
    /\ \/ /\ Goto(h, "create_unspawned") /\ UNCHANGED <<file, outcome, together>>
       \/ \E w \in DownloadWorkers :
             /\ Resting(w)
             /\ at' = [at EXCEPT ![h] = AtRest, ![w] = <<"check_start", "load">>]
             /\ file' = [file EXCEPT ![w] = 1] /\ outcome' = [outcome EXCEPT ![w] = "none"]
             /\ together' = (together \/ \E v \in DownloadWorkers \ {w} : ~Resting(v))
    /\ UNCHANGED <<doc, torn, base, guard, faults, lost, source, filesVars, cached, creates>>

Canceled(d) == IF d.download \in Running THEN SetDownload(d, "canceled") ELSE d

\* Mutant: a cancel does not wait for the guard.
CancelsUnguarded(h) ==
    /\ Change(h, "dcancel", Canceled(base[h]), "idle", "idle")
    /\ UNCHANGED downloadVars

\* handle_cancel_model_download, cancel_model_download_job
CancelsDownload(h) ==
    /\ GuardedChange(h, "dcancel", Canceled(base[h]), "idle", "idle")
    /\ UNCHANGED downloadVars

CancelDownloadBegins(h) ==
    /\ at[h] = AtRest /\ doc.download # "none" /\ Goto(h, "dcancel")
    /\ UNCHANGED <<doc, torn, base, guard, faults, lost, downloadVars>>

-----------------------------------------------------------------------------
(* The worker's record: run_model_download_job *)

\* model_download_job_cancel_requested
Looks(w, step, yes, no) ==
    /\ Read(w, step, IF IsCanceled(doc) THEN yes ELSE no, no)
    /\ UNCHANGED <<source, filesVars, file, cached, creates, together>>

\* save_model_download_job: over whatever the record says.
Records(w, step, status, next, error) ==
    /\ GuardedChange(w, step, SetDownload(base[w], status), next, error)
    /\ UNCHANGED downloadVars

\* save_model_download_checkpoint: the record is read without the guard, and saved
\* as downloading under it, unless it had ended.
Checkpoints(w, step, saving, next) ==
    \/ /\ Read(w, step, IF doc.download \in Running THEN saving ELSE next, next)
       /\ UNCHANGED downloadVars
    \/ Records(w, saving, "downloading", next, next)

\* The transfer ends; the record is looked at once more.
Ends(w, how) == Goto(w, "check_end") /\ outcome' = [outcome EXCEPT ![w] = how]

Recording == [completed |-> "record_completed", failed |-> "record_failed",
              canceled |-> "record_canceled"]

WorkerRecords(w) ==
    \/ Looks(w, "check_start", "record_canceled", "start") /\ UNCHANGED outcome
    \/ Records(w, "start", "downloading",
               IF source = "url" THEN "url_begin" ELSE "check_snapshot", "record_failed")
    \/ Looks(w, "check_end", "record_canceled", Recording[outcome[w]]) /\ UNCHANGED outcome
    \/ \E s \in DOMAIN Recording : Records(w, Recording[s], s, "idle", "idle")

-----------------------------------------------------------------------------
(* The files: run_huggingface_snapshot_download *)

\* A cancel that is seen within the transfer ends it as canceled.
LooksWithin(w, step, next) ==
    /\ Looks(w, step, "check_end", next)
    /\ outcome' = IF ~torn /\ IsCanceled(doc) THEN [outcome EXCEPT ![w] = "canceled"] ELSE outcome

Quiet == UNCHANGED <<doc, torn, base, guard, faults, lost, source, creates, together>>

\* Mutant: a directory with a first file counts as a snapshot.
PresentByFile == manifest \/ dest[1] # "absent"

\* A snapshot is present when its manifest is.
SnapshotPresent == manifest

SnapshotBegins(w) ==
    /\ at[w] = <<"snapshot", "load">>
    /\ IF SnapshotPresent THEN Ends(w, "completed") ELSE Goto(w, "resolving") /\ UNCHANGED outcome
    /\ Quiet /\ UNCHANGED <<filesVars, file, cached>>

\* repo.info over the endpoints: one answers, or none does.
Resolves(w) ==
    /\ at[w] = <<"resolve", "load">>
    /\ (Goto(w, "check_file") /\ UNCHANGED outcome) \/ Ends(w, "failed")
    /\ Quiet /\ UNCHANGED <<filesVars, file, cached>>

\* download_with_progress puts the file into the cache; an error that allows it
\* falls back to plain HTTP; any other ends the transfer.
Fetches(w) ==
    /\ at[w] = <<"fetch", "load">>
    /\ \/ Goto(w, "fetching") /\ cached' = [cached EXCEPT ![w] = TRUE] /\ UNCHANGED outcome
       \/ Goto(w, "open") /\ cached' = [cached EXCEPT ![w] = FALSE] /\ UNCHANGED outcome
       \/ Ends(w, "failed") /\ UNCHANGED cached
    /\ Quiet /\ UNCHANGED <<filesVars, file>>

\* download_huggingface_file_via_plain_http: the temporary file is removed and made
\* anew ...
Opens(w) ==
    /\ at[w] = <<"open", "load">>
    /\ \/ /\ tmp' = [tmp EXCEPT ![file[w]] = w] /\ inode' = [inode EXCEPT ![w] = "partial"]
          /\ dest' = [f \in Files |-> IF dest[f] = w THEN inode[w] ELSE dest[f]]
          /\ Goto(w, "opened") /\ UNCHANGED outcome
       \/ Ends(w, "failed") /\ UNCHANGED <<tmp, inode, dest>>
    /\ Quiet /\ UNCHANGED <<manifest, file, cached>>

\* ... written to the end, or the stream breaks and another endpoint or none is left ...
Writes(w) ==
    /\ at[w] = <<"write", "load">>
    /\ \/ inode' = [inode EXCEPT ![w] = "whole"] /\ Goto(w, "rename") /\ UNCHANGED outcome
       \/ Goto(w, "open") /\ UNCHANGED <<inode, outcome>>
       \/ Ends(w, "failed") /\ UNCHANGED inode
    /\ Quiet /\ UNCHANGED <<dest, tmp, manifest, file, cached>>

\* ... and renamed, by its name: what another worker made under it is moved too.
Renames(w) ==
    LET f == file[w]  v == tmp[f] IN
    /\ at[w] = <<"rename", "load">>
    /\ IF v = Nobody THEN Ends(w, "failed") /\ UNCHANGED <<dest, tmp>>
       ELSE /\ dest' = [dest EXCEPT ![f] = IF v = w \/ Resting(v) THEN inode[v] ELSE v]
            /\ tmp' = [tmp EXCEPT ![f] = Nobody]
            /\ Goto(w, "check_fetched") /\ UNCHANGED outcome
    /\ Quiet /\ UNCHANGED <<inode, manifest, file, cached>>

\* A cached file is copied to its destination: truncated, then written.
Copies(w) ==
    LET f == file[w] IN
    /\ \/ /\ at[w] = <<"copy", "load">> /\ ~cached[w]
          /\ Goto(w, "fetched") /\ UNCHANGED <<dest, outcome>>
       \/ /\ at[w] = <<"copy", "load">> /\ cached[w]
          /\ dest' = [dest EXCEPT ![f] = "partial"]
          /\ (Goto(w, "copying") /\ UNCHANGED outcome) \/ Ends(w, "failed")
       \/ /\ at[w] = <<"copying", "load">>
          /\ dest' = [dest EXCEPT ![f] = "whole"] /\ Goto(w, "fetched") /\ UNCHANGED outcome
    /\ Quiet /\ UNCHANGED <<tmp, inode, manifest, file, cached>>

\* The next file, or the manifest after the last one.
NextFile(w) ==
    /\ at[w] = <<"file_done", "load">>
    /\ IF file[w] < NFiles
       THEN /\ file' = [file EXCEPT ![w] = @ + 1] /\ Goto(w, "check_file")
            /\ UNCHANGED <<manifest, outcome>>
       ELSE \/ manifest' = TRUE /\ Ends(w, "completed") /\ UNCHANGED file
            \/ Ends(w, "failed") /\ UNCHANGED <<manifest, file>>
    /\ Quiet /\ UNCHANGED <<dest, tmp, inode, cached>>

Snapshot(w) ==
    \/ LooksWithin(w, "check_snapshot", "snapshot")
    \/ SnapshotBegins(w)
    \/ Checkpoints(w, "resolving", "resolving_save", "resolve")
    \/ Resolves(w)
    \/ LooksWithin(w, "check_file", "fetch")
    \/ Fetches(w)
    \/ Checkpoints(w, "fetching", "fetching_save", "check_fetched")
    \/ Opens(w)
    \/ Checkpoints(w, "opened", "opened_save", IF source = "url" THEN "url_write" ELSE "write")
    \/ Writes(w) \/ Renames(w)
    \/ LooksWithin(w, "check_fetched", "copy")
    \/ Copies(w)
    \/ Checkpoints(w, "fetched", "fetched_save", "file_done")
    \/ NextFile(w)

\* run_model_download_transfer_with_progress for a URL: an existing target counts
\* as present; otherwise it is written in place.
Url(w) ==
    /\ \/ /\ at[w] = <<"url_begin", "load">>
          /\ IF dest[1] # "absent" THEN Ends(w, "completed") /\ UNCHANGED dest
             ELSE \/ dest' = [dest EXCEPT ![1] = "partial"] /\ Goto(w, "opened") /\ UNCHANGED outcome
                  \/ Ends(w, "failed") /\ UNCHANGED dest
       \/ /\ at[w] = <<"url_write", "load">>
          /\ \/ dest' = [dest EXCEPT ![1] = "whole"] /\ Ends(w, "completed")
             \/ Ends(w, "failed") /\ UNCHANGED dest
    /\ Quiet /\ UNCHANGED <<tmp, inode, manifest, file, cached>>

DownloadWorker(w) == WorkerRecords(w) \/ Snapshot(w) \/ Url(w)

DownloadThread(h) ==
    CreateBegins(h) \/ Creates(h) \/ CreateSpawns(h) \/ CancelDownloadBegins(h) \/ CancelsDownload(h)

-----------------------------------------------------------------------------
\* A snapshot that is called complete, by its manifest or by its record, has every
\* file whole (run_huggingface_snapshot_download), over crashes, broken streams,
\* fallbacks, cancels and retries; except where a canceled worker was still at work
\* when its successor started.
SnapshotIsWhole ==
    (source = "snapshot" /\ ~together /\ (manifest \/ doc.download = "completed"))
        => \A f \in Files : Content(f) = "whole"
=============================================================================
