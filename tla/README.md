# HarborBeacon: TLA+ models, model checks and proofs

HarborBeacon is the home agent of a NAS appliance: it watches cameras through
HarborLink, detects and records cat activity, judges the recordings with a local
model, serves an admin console, and answers turns that HarborGate delivers from
chat channels, some of which change the appliance and need an operator's
approval. This directory models the parts of it in which several threads,
processes, files and remote services meet, checks the models with TLC and proves
the central properties with TLAPS.

Every definition is translated from the Rust source. `PROJECT.json` maps each
one to its lines; comments in the modules name the functions. Definitions keep
the source's names where TLA+ allows it (`can_grant_new_request`,
`claim_artifact_discard`, `rotate_unlocked` is the exception: its three file
operations are `BeginAppend`, `Archive` and `Replace`).

## 1. The system's parts

The repository is one Rust crate of about 140,000 lines with its unit tests. The
largest parts are the admin service (`bin/agent_hub_admin_api.rs`), the task API
(`runtime/task_api.rs`), the knowledge index, the admin console store and the
model center. Most of these lines build and parse requests, records and texts;
the models cover the code in which state outlives a call or is shared.

| Part | Source | State here |
|---|---|---|
| AI resource scheduler | `runtime/ai_resource_scheduler.rs` | modelled, proved |
| Cat recording validation queue | `runtime/cat_recording_validation.rs`, worker in `bin/agent_hub_admin_api.rs` | modelled, proved |
| Validation store files | `runtime/cat_recording_validation.rs` | modelled, proved |
| Cat auto recording, reconciliation ledger | `bin/agent_hub_admin_api.rs`, `runtime/cat_recording_reconciliation.rs` | modelled, proved |
| Detection jobs, live takeover | `bin/agent_hub_admin_api.rs` | modelled, proved |
| HarborLink media client | `connectors/harborlink_media.rs` | the calls the above make |
| Home guardian rules and queue | `runtime/home_guardian.rs`, admin service | modelled but for trigger matching and the drafting of rules; proved |
| Local vision events | `runtime/vision_event.rs` | only what the home guardian takes from them |
| Admin console store | `runtime/admin_console.rs` | load, create and save of the document, for jobs, downloads and rules |
| Knowledge index jobs | admin service | modelled |
| Knowledge index files, embedding store, search | `runtime/{knowledge_index,lexical_index,knowledge}.rs` | modelled but for parsing and scoring; generations are proved |
| Model downloads | admin service, `runtime/admin_console.rs` | modelled; the rest of the model center is not |
| Task API, task sessions, approvals | `runtime/task_api.rs`, `runtime/task_session.rs`, `orchestrator/policy.rs` | turns, replay, gate and decisions of HarborOS actions, proved |
| The others | | not modelled, section 5 |

How the modelled parts interact:

- A **detection job** holds a YOLO lease of the **scheduler** and a source lease
  of HarborLink. Its samples drive **auto recording**.
- **Auto recording** asks HarborLink for event recordings and hands the artifact
  of each one that ended to the **validation queue**.
- The **validation queue** classifies artifacts under a lease of the scheduler
  and deletes rejected ones through HarborLink. It persists every transition in
  the **store files**.
- The **task API** shares one conversation file between its threads and with the
  decisions that operators make in the admin console.
- **Index jobs** and **model downloads** keep their records in the one document of
  the **admin console store**, as the **home guardian** keeps its rules. An index
  job refreshes the **index files** and then warms the **embedding store**, while
  searches read both.

The modules are composed by interface. `DetectionJobs` uses of the scheduler only
what `LeaseExclusive` promises (`YoloIsFree`). `CatRecordingValidation` takes a
persisted record as one step that may fail before or after it became durable,
which is what `ValidationStoreLog` shows of the files. `CatAutoRecording` ends
where an artifact is registered, and `Register` of the queue begins there.
`AdminJobs` joins the index jobs and the downloads over one `AdminStateFile`;
`EmbeddingStore` extends `KnowledgeIndexFiles` to the whole index of one root, which
is one step, `load_or_refresh`, for the jobs.

## 2. Modules

### AiResourceScheduler, LeaseBook

One step is one critical section of the scheduler's mutex. `acquire_ai_resource_lease`
is split by its outcome (`AcquireQuarantined`, `AcquireAtOnce`,
`AcquireQueueFull`, `AcquireQueued`), a waiter's turn of the wait loop by its
own (`WaitQuarantined`, `WaitGranted`, `WaitTimeout`, `WaitAgain`).
`release` and `quarantine` unlock before `notify_all`, so `Notify` is a step of
its own. `signalled` are the waiters that a notification reached since they
parked: only these, or one whose deadline passed, run again. The deadline may
pass at any time. Wait-time statistics are left out; event counters are kept.

`LeaseBook` is the promise: resources are granted to one owner, given back, or
fenced for ever. The mapping takes an owner's grant from `pc` and `work`.

### CatRecordingValidation, RecordingFate

`rec` is the latest record of each artifact, `job` what each worker (one per
process) has in hand. A store operation runs under the store's file lock and is
one step; the worker's slow work (classification, the DELETE) lies between two
steps. Deadlines are facts that end at any time: a live claim may lapse
(`ClaimLapses`), a retry fall due, a discard attempt lapse. A DELETE may be
served, refused, served with its answer lost, sent a second time by the client
(`send_harborlink`), or served after its caller gave up (`LateDelete`). `Persist` may
report an error with the line durable or not. An operator may delete any artifact
through the same client (`handle_delete_dvr_artifact`), and the record does not hear
of it; `purged` says which ones.

`RecordingFate` is the promise: a recording is judged once, only a rejected one
is condemned, the mark precedes the deletion and the deletion the tombstone; what
an operator purges is deleted whatever was thought of it.

### ValidationStoreLog

The main segment, its archives, the generation sidecar, the file lock and the
index that each process caches. A step is one file operation: partial write,
rest of the line, sync, publish an archive, replace the main file. Between any
two the call may fail, the process may crash or the machine lose power (lines
that were not synced are lost or kept in part). Modelling choices:

- the fingerprint has generation, length, torn tail and inode; an inode may be
  used again, which is why the generation is needed; the modification time is
  left out, so nothing rests on it;
- a rename is durable when its step is done, as the code syncs the directory; so is
  the first creation of the file, after which it does not (`secure_store_path.rs:212`);
- a sync that fails leaves a line that is visible and not durable;
- `set_len` and sync of the repair are one step;
- poisoning of the index mutex and damage by other programs are not modelled.

### CatAutoRecording

The recording worker's tick for one camera (cameras are independent), with the
entry in memory, the ledger on disk and HarborLink's recordings. A step is one
call of HarborLink or of a store. A call may be lost, or served with its answer
lost; a start may be served after its caller gave up, at any time; a ledger write
that reports an error may have been made; the process may crash and boot again. The
30 s after which a pending start is given up may pass while its start is still under
way: the status calls before it and the two sends of `send_harborlink` can take 44 s.
`overdue` says of which events they did.

### DetectionJobs

The jobs table, the lifecycle lock and the starts in progress. A step runs under
the `detection_jobs` mutex. A start crosses three of them, `Begin`, `Acquire`,
`Spawn`, and waits for the accelerator without the table lock. A stop may fail to
confirm the worker's exit (`Unconfirmed`). HarborLink is taken to keep a lease until
it expires or is stopped. `enabled` (automatic recording) does not change within a
behaviour. A restart of the service loses the table and is
not modelled. The second check for a reusable job, in `Spawn`, is
translated and never finds one: the lifecycle lock is held since the first.

### TaskApi

Each thread serves a turn or a decision in the order of the code, each load and
each save of the conversation file a step; a save is a truncation and a write, so
a concurrent load may read an empty or garbled file. Truncation and write may fail;
the errors of the saves that begin a task and that resolve its tickets are
ignored, and `dropped` are the tasks whose run or tickets were not saved that way.
`deployed` picks what runs, and carries the bounds: `harborbeacon_service` serves
every request on a thread of its own; `assistant_task_api` serves turns one at a time
beside the workers of `agent_hub_admin_api`, which serve decisions, over one file; a
crash takes the threads of one process. `overlapped` says whether a request ever came
in while another was served.

Only HarborOS actions are modelled: the task is the action, `Guarded` ones need
approval, `ReadOnly` ones are blocked by their autonomy. A turn may carry an approval
token. While a ticket of the task is pending the token must name it; otherwise any
token passes the gate, as a test has it (`src/runtime/task_api.rs:19848`), so the model
lets it pass. The token is part of the identity by which a redelivery is a replay or a
conflict. A write over text that another thread wrote meanwhile leaves that thread's
text behind it or not; that such a mixture parses is not modelled. Pruning and the
separate file of member surfaces are not modelled.

### HomeGuardian

One rule with its action plan. An event is stored and offered to the bounded
queue if the camera's evaluation interval is over; the worker takes it, checks
the cached rules against the fingerprint of the admin state, and evaluates the
rule action by action: cooldown, idempotency memory, call. Operators evaluate the
rule on their own threads against the newest event, enable and disable it, and
propose it again. A step is one critical section of an in-memory table, one read
or write of the file, or one call. The clock counts abstract units, and an
evaluation keeps the time at which it began, as the code does. A save of the file
changes its fingerprint: two saves of equal length within one millisecond are not
modelled. How a trigger matches an event is the constant `Matching`. A rule is active
or not; the other statuses are alike to the code. Load and save within one operation
of the store are one step here, since overlapping saves are the matter of
`AdminStateFile`.

### AdminStateFile, KnowledgeIndexJobs, ModelDownloads, AdminJobs

`AdminStateFile` has the operations of the admin console store: a read is a load;
a touch is a load and a save of what was loaded (`load_or_create_state` saves even
when nothing changed); a change is a touch and another save. The file guard makes
each load and each save atomic to the threads of the process and nothing more. A save
truncates the file and writes it in place: one that fails, or that a crash cuts short,
may leave a file that does not parse (`torn`), after which every load fails, and the
service does not boot, until a request that had loaded before saves. Changes of
downloads also hold the download guard throughout. Other processes that use the file
are not modelled.

`KnowledgeIndexJobs` follows `handle_run_knowledge_index` and its worker: refuse
while a job is active, enqueue a job per root, spawn, begin each job, refresh,
look for a cancel, record the end; cancels, polls, and the reconciliation at boot.
`ModelDownloads` has the record of one model, its workers, cancels and retries, and
the files: a snapshot fetched file by file through temporary files or the hub's
cache with its manifest last, or one file written in place. `tmp` and `inode` keep
apart the name of a temporary file and what a worker goes on writing into it after
another has renamed it. `AdminJobs` puts both over one document and adds the
restart.

### KnowledgeIndexFiles, EmbeddingStore

`KnowledgeIndexFiles` is `load_or_refresh`: compare signatures, keep or parse each
entry, write the payload of a new generation, move the manifest away and the new
one in place (or put the old one back), drop the old payload, commit the lexical
index and then its metadata. Beside it a search reads manifest, lexical index and
payload. A stamp counts seconds, so that two refreshes may share one. The text of a
file is its own or that of a sidecar. Of the first kind the signature is taken before
it is parsed, of a sidecar after its text was read. A parser, OCR or ASR may fail and leaves
an entry without text, or none where no ASR is available; a file that is gone before its
signature is taken fails the refresh. Every edit gives a new signature: two within a
millisecond that keep the size are not modelled.

`EmbeddingStore` is the warmup that follows: load the store if its files fit, probe
the model, embed the chunks that have no vector, and save, by truncating the vector
file to what the document says and appending, or by a new generation of vector file
and graph; documents are replaced like manifests. A row of a file is known by the
text and the model it was made from, so a row in the wrong place shows. Each source
file is one chunk. A crash stops worker and search; what was written stays.

## 3. Runs

| Run | Question | Bounds | States |
|---|---|---|---|
| `scheduler` | exclusion, fencing, no lost wakeup, counters, priority order, freed resources are taken, implements `LeaseBook` | 3 threads, capacity 2, 4 requests | 447,835 |
| `validation_queue` | deletion safety, tombstones, attempt bounds, verdicts, no rejected recording left behind, work ends, implements `RecordingFate` | 1 artifact, 2 workers, 2 attempts, 2 discards, 2 faults | 218,210 |
| `validation_store` | fresh indexes, acknowledged records survive, the store never wedges itself, segments stay within their limit | 2 processes, 2 keys, threshold 2, 5 writes, 2 faults, 2 inodes, symmetric | 223,985 |
| `auto_recording` | starts are durable, known recordings are kept until registered, given-up starts were overdue or are dead, artifacts are registered | 2 profiles, 2 events, unlimited faults and crashes | 331,724 |
| `detection_jobs` | one worker, ended jobs are clean, running jobs have a source, lapsed jobs end, every call gives the lifecycle lock back | 2 threads, 2 cameras, 2 profiles, 2 jobs, history 2 | 150,642 |
| `task_api` | the gate; at most one execution, and none with a rejection, while requests do not overlap | 5 deployments of 1 or 2 threads in 1 or 2 processes, 1 or 2 tasks, 2 deliveries per turn with or without a token, up to 2 decisions, 1 crash, 2 failing writes | 3,903,481 |
| `home_guardian` | the cached rule is the stored one, an action is tried once per event, automatic runs keep the cooldown | 2 events of a camera, worker, 1 desk, 1 operator, capacity 1, 3 points of time, 2 saves or 1 and a restart, symmetric | 2,312,039 |
| `admin_jobs` | an active job has somebody who will end it, guarded changes are not lost on each other, a complete snapshot is whole | 2 threads, 2 index runs over 2 roots or 2 download workers over 2 files, 1 fault, symmetric | 1,239,254 |
| `knowledge_index` | a manifest has its payload, a refresh indexes no older text than the file's, a search mixes no generations, vectors are those of their texts, a warmup leaves a store that serves | 2 files (one with a sidecar), 2 texts, 2 refreshes, 2 models, 2 disturbances | 1,359,295 |
| `auto_recording_lost_start`, `home_guardian_reenabled`, `task_api_overlap` | findings, section 6 | | |

Why the bounds are enough. Three threads give a holder and two waiters of one
cluster, and a waiter of the other; a fourth request lets a thread come back behind
those it passed. One artifact has all the races of two workers over it, since
records are independent but for the order in which they are claimed and swept. Two
processes, a threshold of two lines and five writes give two rotations, a reused
inode and a stale index of either process. Two events give one recording and the
one that follows or overwrites it. Two jobs are an old worker and its successor.
Two guardian events fill a queue of one and pass a cooldown of two units once. Two
index runs are a run and the one that must be refused; two download workers a
canceled one and its successor. Two refreshes are a generation and the one that
replaces it under a search; a warmup after each meets every state in which an
interrupted one leaves the store. The deployments of the task API (`Service`, `Split`,
`Faulty`, `Calm`, `Plain` of `MCTaskApi`) split what one instance cannot have all at once:
overlaps in one process, overlaps of two with a crash or with a failing write, and
requests one at a time with both, where a second failing write reaches the
redelivery. Larger instances were checked once and agree: recordings with three events (safety, 6.9 million states), detection with three
jobs, the task API with all three tasks and all disturbances one request at a time
(46.7 million states), the index files with three refreshes (3.1 million states).

Three MC modules restrict the state space beyond the constants. `Disturbed` of
`MCHomeGuardian` lets a restart take the place of a save. `Within` of
`MCAdminJobs` ends a behaviour of the index at the first lost update, after which
`ActiveHasWorker` claims nothing, and lets two processes work at a time; downloads have one
request in progress at a time. `Timely` of `MCEmbeddingStore` lets files, clock and
model change only at steps before the worker reads them (elsewhere a change has no
effect until the next such step) and starts the search beside the last refresh;
its `Disturbed` allows two edits, switches of model or faults in all.

Histories in the state. Some properties except the cases in which the code is known
to give no guarantee, and history variables say when these occurred: `raced`,
`backdated` and `skewed` (two evaluations that passed the check together, a cooldown
set back by a slower evaluation, a save between load and fingerprint), `lost`,
`unsaved` and `together` (a save that undid another's, a save that failed for good,
two download workers at work at once), `late` (the model changed amid a warmup),
`overdue` (a start still under way after 30 s), `overlapped` and `dropped` (requests
served beside another, and an ignored save that failed). Each of these is a weakness of
the code: a property that excepts it does not catch it, and its hazard says so in a
note. `purged` is none: an operator may delete what they like.

Deadlock is not checked where a bound of the model ends all behaviour (scheduler,
store, task API, home guardian, admin jobs, index).

A module's `TypeOK` is not among the runs' properties: it is proved, for every module
that has one.

Each property of a passing run has a mutant, an altered copy of a definition that
stands before it in its module, under which TLC finds the property violated.

### Fairness

- Scheduler: a waiter that was signalled runs, and a thread that unlocked gets to
  notify. Nobody is made to release a lease or to time out.
- Queue: workers keep stepping and clocks go on. Strong fairness of `Recover`
  says that a worker does not find the classifier unready for ever.
- Auto recording: the worker steps and HarborLink's recordings end; a tick comes
  again after each crash; the artifact query and the registration do not fail for
  ever. `RecordingsAreRegistered` needs all of these: each is retried without end.
- Detection: a start in progress and the renewal step on, and the monitor, which
  retries every job at each tick, at last confirms one of the stops it tries on a job
  that stays expired (`Expires`). Nothing is assumed of its inspections of other jobs.
  `LapsedJobsEnd` and `CallsEnd` need both.

The home guardian, the admin jobs and the index are checked for safety only.

## 4. Proofs

TLAPS proves the following for every value of the constants, under the named
assumptions of the modules (capacities and bounds are natural numbers, markers
such as `NoToken` are not members of the sets they mark; the artifacts and the
workers of the queue are finitely many). TLC also
finds each inductive invariant to hold on the instance of its run. A step proof has a lemma per action, over
lemmas on what the action's parts do to one record, job or entry.

**Scheduler** (`AiResourceSchedulerProofs`).
`LeaseExclusive` is not inductive: `release` only looks at lease ids. `LeaseInv`
adds that ids are positive, below the counter and distinct, that an owner's
resources carry its id, and that every holder entry is an owner's or fenced. From it:
`Exclusion`, `NoLeak`, `Quarantined`. `Wakeups` needs one more fact, that
conflicts between the four workloads are transitive: a grant notifies nobody, and
whoever it could unblock needs what it took. `PriorityOrder` also uses it: the
code skips waiters whose own resources are not free, and none is ever skipped.
`CountersAddUp` needs `LeaseInv` (a grant finds what it takes free, and a lease ends
over what it held) and that each queue is finite, which follows from how it grows; the
number of threads may be infinite.
`Refinement` shows that every step is a step of `LeaseBook` or none.

**Validation queue** (`CatRecordingValidationProofs`). `QueueInv` ties each record's
tokens to its status and disposition, and what each worker has in hand to what the
store made of it: a worker that deletes has a condemned record, and what is deleted is
condemned or purged. From it `TypeCorrect`,
`DeletionSafe`, `TombstonesTrue`. A list of the ways a step changes a
record (`RecordStep`), each with the worker behind it, gives `Verdicts`,
`DiscardAttempts`, `Leases` and `Refinement`. A list of the ways a step changes a
worker's job is added for the rest. `AttemptsAreBounded` has two invariants.
`TriesInv`: a worker whose claim is still the record's goes by the attempt count in
the store, so that `schedule_retry` never puts back a recording with no attempt left.
`CallsInv`: the calls made to delete a recording and the workers about to make one are
together no more than its counted discard attempts. `RejectedTaken` needs `TakenInv`: a list
of discards has no retained recording on it but the one just rejected, alone; its
claim cannot be refused, since no attempt was counted yet (`CallsInv`).

**Store files** (`ValidationStoreLogProofs`). The
lemmas say what an append, an archive and a replacement do to the view of the
files. `LogInv` says that an index of the current generation is current and that
there is none while a record is written; that no archive is newer than the
sidecar; and that what power loss would leave still shows each acknowledged
record. From it `FreshIndexes`, `AckedDurable`, `Readable`, `Bounded`.

**Auto recording** (`CatAutoRecordingProofs`). For any profiles and number of events.
`RecordingInv` has HarborLink's side (one recording at a time, none that was not asked
for, a start still on its way has not begun, and is overdue if its event timed out),
the entries in memory and on disk (a lease is of a recording that began), and what the worker has made sure
of at each of its places: at `starting` the ledger equals the entry, at `remove` a known
lease is over and its artifact registered. From it, as properties of steps,
`AskedIsDurable`, `LeasesAreKept`, `GivenUpStartsWereOverdue`.

**Detection jobs** (`DetectionJobsProofs`). `JobsInv`: a job runs exactly while it has a
worker and the accelerator; one job at most runs, and none beside a starter that
has the accelerator; the job of a handoff whose worker was stopped does not run; the
lifecycle lock is held by the one call that is not idle. From it `OneWorkerAtATime`,
`EndedJobsAreClean`, `RunningJobsHaveSource`, for any threads, cameras and jobs.

**Task API** (`TaskApiProofs`). `GateInv`: a thread behind the gate holds a
request that needs no approval, one to approve whose ticket was pending when
it was loaded, or a turn with a token. It does not depend on what the file holds, so it
stands against overlapping and failing saves and unreadable loads. From it `Gate`, for
any number of threads and processes. `SoloInv` is about requests that do not overlap: as
long as `overlapped` is false some thread is the only one that serves (`Solo`), and at each
place what it relies on (`At`) is so in the document on disk, and while it saves also in
the one it writes; a task that was executed or refused is closed in both, and only
guarded tasks have tickets. All this is asked of `Live` tasks only, those not in
`dropped`: a save that fails elsewhere leaves the last whole document, of which the
invariant still holds, or a file nobody can read, and nothing is executed from that.
When no thread serves, any other may be the next, which is how two processes come in.
From it `ServedOnce` and `RefusedNeverRuns`; `task_api_overlap` shows that the first
fails when requests overlap.

**Home guardian** (`HomeGuardianProofs`). Over one shape invariant (every evaluation
under way has what the steps before it read), an invariant per property. `KeptInv`: a
refresh between load and fingerprint still holds the stored rule, or `skewed` says that
a save came in between. `OnceInv`: the idempotency table is right about all runs
within its memory, and whoever acts was told that there was none, or is one of two
(`raced`). `CoolInv`: a cooldown is no older than the last automatic run, unless it was
`backdated`. From them `CachedRuleIsCurrent`, `TriedOnce`, `RunsKeepCooldown`, for any
plan, events, operators, interval, cooldown and memory.

**Index files** (`KnowledgeIndexProofs`). For any number of files, texts, models,
edits, refreshes and faults, over the whole specification of `EmbeddingStore`.
`IndexInv` has four parts beside the types. Entries bear no signature that a later
edit may give again, and an entry with the signature of a file without a sidecar has its
text, or none if a fault occurred. The manifest's generation, also while the manifest is moved away, has its payload, and
the generation in the making is younger. A search whose payload is still there
works on the current generation or on the one about to be dropped. The metadata of
the lexical index is no younger than its documents, and these are no younger than
any generation a search may still answer from; so equal stamps mean the same
generation or the same second. One lemma is for all steps that
leave the index files alone. From it `Backed` and `OneGeneration`.

Only model-checked: `VectorsAreTrue` and `WarmupServes` of the embedding store, the
safety of `AdminJobs`, and every liveness property (`FreedResourcesAreTaken`, `WorkEnds`,
`RecordingsAreRegistered`, `LapsedJobsEnd`, `CallsEnd`: fairness is beyond the prover).

## 5. What is not modelled

Parts without state of their own that outlives a call, or whose calls only pass data
on: the HTTP server with its routing and checks of roles and tokens (each request is
decided from its own data; pool and ingest limiter bound how many handlers run, and
the models let any number run); planner and skills (rules from a sentence to steps);
the orchestrator's runtime (a plan's steps in one sequential call); the privacy
gateway and the texts of timelines, answers and prompts (string processing); control
plane records and domain executors (data types); adapters, connectors, media tools,
the classifier, the supervisor and the model server (I/O and child processes);
readiness reports and smoke tools (offline). In the task API, the handlers of the
other domains (search, answers, messages, cameras) are such code, and they are the
largest part of it.

Parts that keep a file by load, change and save in place, as `TaskApi` models it for
the conversation file, and that would repeat it: the device registry, and the share
links, which are kept in the conversation file itself. The other sections of the
admin document are changed by the operations of `AdminStateFile`.

Left out of modelled parts:

- parsing and building of HTTP and JSON, the numbers of classifier, detector and
  ranking, file permissions, and time as a quantity except in `HomeGuardian`;
- restart of the service in `DetectionJobs`; pruning of the conversation file;
- in the index, the tool `rebuild_embedding_hnsw` and the copy of a store of the
  schema before; power loss (the code does not sync these files); a removal or a
  rename back that itself fails; the absolute limits of compaction; two workers on
  one root; and a search in another process that outlives a crash of the worker.

Accepted weaknesses that the models show and no property forbids, listed as hazards or
in their notes:

- after a fault between verdict and discard intent a rejected recording stays
  retained, and a discard interrupted in its last attempt stays pending;
- a record that is deferred again and again is claimed before younger ones;
- a recording that ended without an artifact is reconciled for ever;
- a start that takes longer than 30 s is given up while HarborLink records it;
- a task whose begun run or resolved tickets could not be saved is executed again at the
  next delivery or decision;
- any save of the admin document undoes what another thread saved since its load, and
  one that is cut short leaves a file with which the service neither serves nor boots;
- an entry without text of a failed parse is kept until its file changes, and the old text
  of a sidecar edited amid a refresh until the sidecar does;
- an index job whose last save fails stays active until the next boot;
- a canceled download that still writes beside its successor can leave a snapshot
  that is called complete and is not;
- a full evaluation queue drops an event that has taken its camera's interval;
- a change of embedding model amid a warmup is noticed by the length of the vectors
  only: with equal lengths those of both models are stored under the new name.

## 6. Where code and documents disagree

With a run, and quoted in `PROJECT.json`:

- `auto_recording_lost_start`: if the answer of a start and the next status are
  lost, a later event overwrites the pending start while HarborLink records it.
- `home_guardian_reenabled`: an operator's evaluation writes back the rule it read
  before its actions, and enables a rule that was disabled meanwhile.
- `task_api_overlap`: two overlapping deliveries of a turn are both executed.

Contained in the models, without a run:

- A switch of profile drops a pending start from memory only; the orphan cleanup
  then removes it from the ledger. A test says "pending start must be ignored by
  orphan cleanup" (`src/bin/agent_hub_admin_api.rs:27957`).
- A crash while the conversation file is saved leaves a file that cannot be read
  (`src/runtime/task_session.rs:1138`), while
  `docs/debian13-real-usage-plan.md:120` promises that a restart does not lose it.
- After an approval, the same turn delivered again is refused as a conflict
  (`src/runtime/task_api.rs:5768`), while
  `docs/harborgate-to-harborbeacon-walkthrough.md:221` promises the known response.

## 7. Where it could grow

What remains is text, numbers and I/O, as section 5 says. Within the
modelled parts, these would add most: proofs of `VectorsAreTrue` and `WarmupServes` of
`EmbeddingStore` and of the safety of `AdminJobs`; and auto recording, queue and
detection over one HarborLink, with the interfaces of section 1 as refinements instead
of assumptions.

Running: `tlc -config X.cfg M` for the pairs that `PROJECT.json` lists, `tlapm
M.tla` for the proof modules. Each run ends within five minutes; the proofs of the
queue take about eight minutes and those of any other module about three.
