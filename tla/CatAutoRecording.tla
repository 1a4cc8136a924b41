-------------------------- MODULE CatAutoRecording --------------------------
(***************************************************************************)
(* The automatic recording of cat activity on one camera: the worker of    *)
(* bin/agent_hub_admin_api.rs that starts, renews, stops and reconciles    *)
(* HarborLink's event recordings, its durable ledger                       *)
(* (runtime/cat_recording_reconciliation.rs) and HarborLink itself.        *)
(*                                                                         *)
(* The worker is one thread.  A step of the model is one call of HarborLink*)
(* or of a store with the code up to the next one; between two of them the *)
(* process may crash, and HarborLink's recordings go on: they expire, are  *)
(* finalized and leave an artifact, or none.  A call may be lost, or be    *)
(* served and its answer lost; a start may arrive after its caller gave up.*)
(*                                                                         *)
(* A lease is named by its event.  Whether a pending start has timed out   *)
(* is a fact about its event.  The timeout runs from the tick's clock, and *)
(* the calls that the tick makes before the start, and the start with its  *)
(* one retry, may together take longer: such a start is overdue, and it may*)
(* be served after it was given up.  HarborLink serves the start of an     *)
(* event once, its retry included.  Renewal deadlines are left to chance.  *)
(***************************************************************************)
EXTENDS Integers

CONSTANTS
  Profile,    \* stream profiles of the camera
  NoProfile,
  MaxEvents   \* bound: event ids taken

ASSUME ProfileAssumption == NoProfile \notin Profile
ASSUME EventAssumption   == MaxEvents \in Nat

Event == 1..MaxEvents

VARIABLES
  mem,         \* the camera's entry of cat_auto_recording
  disk,        \* and of the ledger
  task,        \* where the worker is, and its local variables
  next_event,
  registered,  \* events whose artifact was handed to validation
  aged,        \* events whose pending start has timed out
  overdue,     \* of these, the ones whose start was under way at that time or later
  link,        \* HarborLink: per event, the state of its recording
  streams,     \* HarborLink: per event, the profile it records
  artifact,    \* HarborLink: events that left an artifact
  current,     \* HarborLink: the event of the last recording started
  inflight     \* starts whose caller gave up on them

worker    == <<mem, disk, task, next_event, registered>>
harborlink == <<link, streams, artifact, current, inflight>>
vars      == <<worker, aged, overdue, harborlink>>

-----------------------------------------------------------------------------
(* CatRecordingReconciliationState; evidence and times are left out.       *)

State == [phase : {"pending_start", "active"}, event : 0..MaxEvents, leased : BOOLEAN,
          profile : Profile \cup {NoProfile}]

Default(p) == [phase |-> "active", event |-> 0, leased |-> FALSE, profile |-> p]

\* No entry.
NoState == [phase |-> "none", event |-> 0, leased |-> FALSE, profile |-> NoProfile]

Place == {"down", "idle", "reconcile", "process", "stop", "register", "remove", "transition",
          "renew", "current", "start", "starting", "started", "orphans"}

\* A sample that is missing or too old, was seen before, shows a cat for long
\* enough to start, shows none for long enough to stop, or neither.
Sample == {"none", "seen", "present", "absent", "other"}

\* why: on whose behalf a recording is stopped and its artifacts registered.
Task == [at : Place, after : Place, failed : BOOLEAN, profile : Profile \cup {NoProfile},
         why : {"reconcile", "switch", "stop", "orphan"}, enabled : BOOLEAN]

Resting(at, enabled) == [at |-> at, after |-> "process", failed |-> FALSE, profile |-> NoProfile,
                         why |-> "reconcile", enabled |-> enabled]

Init ==
  /\ mem = NoState /\ disk = NoState
  /\ task = Resting("down", FALSE)
  /\ next_event = 0
  /\ registered = {} /\ aged = {} /\ overdue = {}
  /\ link = [e \in Event |-> "absent"]
  /\ streams = [e \in Event |-> NoProfile]
  /\ artifact = {} /\ current = 0 /\ inflight = {}

Goto(at) == task' = [task EXCEPT !.at = at]

\* The ledger replaces its file atomically; after an error it may have done so.
Save(s, ok) == disk' = s \/ (~ok /\ disk' = disk)

\* The end of a tick, or of the handler that fails.
Sleep == task' = Resting("idle", task.enabled)

-----------------------------------------------------------------------------
(* HarborLink (external), as its client sees it.                           *)

Recording == {"running", "finalizing"}

\* What a status call may answer about event e: the lease, not found, an error.
Answers(e) ==
  {"error"} \cup (IF e = 0 \/ link[e] \in {"absent", "done"} THEN {"not_found"} ELSE {})
            \cup (IF e = 0 \/ link[e] = "absent" THEN {} ELSE {"lease"})

\* A recording takes the camera; one that was running is finalized.
Begins(e, p) ==
  /\ link' = [f \in Event |-> IF f = e THEN "running"
                              ELSE IF link[f] = "running" THEN "finalizing" ELSE link[f]]
  /\ streams' = [streams EXCEPT ![e] = p]
  /\ current' = e

Ends(e) ==
  /\ link' = [link EXCEPT ![e] = "done"]
  /\ IF link[e] = "done" THEN UNCHANGED artifact ELSE artifact' \in {artifact, artifact \cup {e}}

\* The lease's time to live is over.
Expire(e) ==
  /\ link[e] = "running"
  /\ link' = [link EXCEPT ![e] = "finalizing"]
  /\ UNCHANGED <<worker, aged, overdue, streams, artifact, current, inflight>>

Finalize(e) ==
  /\ link[e] = "finalizing"
  /\ Ends(e)
  /\ UNCHANGED <<worker, aged, overdue, streams, current, inflight>>

LateStart(e) ==
  /\ e \in inflight
  /\ inflight' = inflight \ {e}
  /\ Begins(e, streams[e])
  /\ UNCHANGED <<worker, aged, overdue, artifact>>

\* Only the pending start in memory is ever asked for its age; one that times out
\* while the process is down does so after the next boot.
Age(e) ==
  /\ e \in 1..next_event /\ e \notin aged
  /\ mem.phase = "pending_start" /\ mem.event = e
  /\ aged' = aged \cup {e}
  /\ overdue' = overdue \cup ({e} \cap inflight)
  /\ UNCHANGED <<worker, harborlink>>

-----------------------------------------------------------------------------
(* reconcile_cat_recording                                                 *)

\* Back to the caller: the tick, which notes a failure, or the handler whose
\* call of HarborLink failed and which is over.
Return(ok) ==
  IF task.after = "process"
  THEN task' = [task EXCEPT !.at = "process", !.failed = ~ok]
  ELSE Sleep

Tick ==
  /\ task.at = "idle"
  /\ task' = [task EXCEPT !.at = "reconcile", !.after = "process", !.failed = FALSE]
  /\ UNCHANGED <<mem, disk, next_event, registered, aged, overdue, harborlink>>

\* No entry, or no event in it.
ReconcileNothing ==
  /\ task.at = "reconcile" /\ mem.event = 0
  /\ Return(TRUE)
  /\ UNCHANGED <<mem, disk, next_event, registered, aged, overdue, harborlink>>

\* The status of the lease, or of the camera's current recording while there is none.
ReconcileTarget == IF mem.leased THEN mem.event ELSE current

ReconcileFails ==
  /\ task.at = "reconcile" /\ mem.event /= 0
  /\ Return(FALSE)
  /\ UNCHANGED <<mem, disk, next_event, registered, aged, overdue, harborlink>>

\* The recording goes on: it is, or is again, an active one.
Recover ==
  LET recovered == [phase |-> "active", event |-> mem.event, leased |-> TRUE,
                    profile |-> streams[mem.event]] IN
  /\ task.at = "reconcile" /\ mem.event /= 0 /\ ReconcileTarget = mem.event
  /\ link[mem.event] \in Recording
  /\ \E ok \in BOOLEAN :
       /\ Save(recovered, ok)
       /\ mem' = IF ok THEN recovered ELSE mem
       /\ Return(ok)
  /\ UNCHANGED <<next_event, registered, aged, overdue, harborlink>>

\* Mutant: only the artifacts of pending starts are looked for.
FindArtifactOfPending ==
  /\ task.at = "reconcile" /\ mem.event \in artifact /\ mem.phase = "pending_start"
  /\ task' = [task EXCEPT !.at = "register", !.why = "reconcile"]
  /\ UNCHANGED <<mem, disk, next_event, registered, aged, overdue, harborlink>>

\* It does not, and the lease's status or the timeline shows its artifact.
FindArtifact ==
  /\ task.at = "reconcile" /\ mem.event \in artifact
  /\ task' = [task EXCEPT !.at = "register", !.why = "reconcile"]
  /\ UNCHANGED <<mem, disk, next_event, registered, aged, overdue, harborlink>>

\* Mutant: a pending start is given up as soon as HarborLink does not know it.
PendingStartUnknown == mem.phase = "pending_start"

PendingStartExpired == mem.phase = "pending_start" /\ mem.event \in aged

\* There is no such lease, no artifact, and the start has timed out.
ForgetPendingStart ==
  /\ task.at = "reconcile" /\ mem.event /= 0
  /\ "not_found" \in Answers(ReconcileTarget)
  /\ mem.event \notin artifact
  /\ PendingStartExpired
  /\ task' = [task EXCEPT !.at = "remove", !.why = "reconcile"]
  /\ UNCHANGED <<mem, disk, next_event, registered, aged, overdue, harborlink>>

\* Mutant: the entry goes whether or not the artifact could be registered.
RegisterAndGo ==
  /\ task.at = "register"
  /\ registered' \in {registered, registered \cup ({mem.event} \cap artifact)}
  /\ Goto("remove")
  /\ UNCHANGED <<mem, disk, next_event, aged, overdue, harborlink>>

\* register_cat_recording_validation_artifacts; an error ends the handler and
\* leaves its entry where it is.
Register ==
  /\ task.at = "register"
  /\ \/ /\ registered' = registered \cup ({mem.event} \cap artifact)
        /\ Goto("remove")
     \/ /\ UNCHANGED registered
        /\ IF task.why = "reconcile" THEN Return(FALSE) ELSE Sleep
  /\ UNCHANGED <<mem, disk, next_event, aged, overdue, harborlink>>

\* The ledger's entry goes first, then the one in memory.
Remove ==
  /\ task.at = "remove"
  /\ \E ok \in BOOLEAN :
       /\ Save(NoState, ok)
       /\ mem' = CASE ~ok -> mem
                   [] ok /\ task.why \in {"reconcile", "orphan"} -> NoState
                   [] ok /\ task.why = "stop" -> Default(NoProfile)
                   [] ok /\ task.why = "switch" -> Default(task.profile)
       /\ CASE task.why = "reconcile" -> Return(ok)
            [] task.why = "switch" /\ ok -> Goto("transition")
            [] OTHER -> Sleep
  /\ UNCHANGED <<next_event, registered, aged, overdue, harborlink>>

-----------------------------------------------------------------------------
(* process_cat_detection_result                                            *)

\* A worker that is disabled only reconciles; a camera without a running
\* detection job is left to stop_orphaned_cat_recordings.
NoDetection ==
  /\ task.at = "process"
  /\ IF task.enabled THEN Goto("orphans") ELSE Sleep
  /\ UNCHANGED <<mem, disk, next_event, registered, aged, overdue, harborlink>>

\* A result of the detection job on profile p; what it shows is looked at in
\* Transition and SaveEvidence.  A recording of another profile
\* is stopped; an entry of another profile without a lease is dropped.
Detect(p) ==
  LET switched == mem.profile \notin {NoProfile, p} IN
  /\ task.at = "process" /\ task.enabled
  /\ mem' = CASE switched /\ mem.leased -> mem
              [] (switched /\ ~mem.leased) \/ mem = NoState -> Default(p)
              [] OTHER -> [mem EXCEPT !.profile = p]
  /\ task' = [task EXCEPT !.at = IF switched /\ mem.leased THEN "stop" ELSE "transition",
                          !.why = "switch", !.profile = p]
  /\ UNCHANGED <<disk, next_event, registered, aged, overdue, harborlink>>

\* stop_event_recording.  Any failure is reconciled at once, and is the end of
\* the handler.
Stop ==
  /\ task.at = "stop"
  /\ \/ Ends(mem.event) /\ Goto("register")
     \/ /\ Ends(mem.event) \/ UNCHANGED <<link, artifact>>
        /\ task' = [task EXCEPT !.at = "reconcile", !.after = "idle"]
  /\ UNCHANGED <<mem, disk, next_event, registered, aged, overdue, streams, current, inflight>>

\* cat_auto_recording_transition, for a sample that is new; one seen before
\* holds, and none at all does not even renew.
Transition ==
  /\ task.at = "transition"
  /\ \E sample \in Sample :
       \/ sample = "present" /\ ~mem.leased /\ Goto("current")
       \/ sample = "absent" /\ mem.leased /\ task' = [task EXCEPT !.at = "stop", !.why = "stop"]
       \/ sample \in {"seen", "other"} /\ mem.leased /\ Goto("renew")
       \/ sample = "none" /\ Sleep
       \/ sample \in {"seen", "other", "absent"} /\ ~mem.leased /\ Sleep
  /\ UNCHANGED <<mem, disk, next_event, registered, aged, overdue, harborlink>>

\* New evidence ("present" or "other") is saved with the entry, and then the lease
\* may be renewed.
SaveEvidence ==
  /\ task.at = "transition" /\ mem.leased
  /\ \E ok \in BOOLEAN : Save(mem, ok) /\ IF ok THEN Goto("renew") ELSE Sleep
  /\ UNCHANGED <<mem, next_event, registered, aged, overdue, harborlink>>

\* renew_event_recording, if it is due; a failure is reconciled at once.
Renew ==
  /\ task.at = "renew"
  /\ \/ UNCHANGED disk /\ Sleep
     \/ /\ link[mem.event] = "running"
        /\ \E ok \in BOOLEAN : Save(mem, ok)
        /\ Sleep
     \/ UNCHANGED disk /\ task' = [task EXCEPT !.at = "reconcile", !.after = "idle"]
  /\ UNCHANGED <<mem, next_event, registered, aged, overdue, harborlink>>

\* The camera's current recording, before a new one is started: one of ours on
\* this profile is taken over, ...
Adopted(e) == [phase |-> "active", event |-> e, leased |-> TRUE, profile |-> streams[e]]

Adopt ==
  /\ task.at = "current" /\ "lease" \in Answers(current)
  /\ link[current] = "running" /\ streams[current] = task.profile
  /\ mem' = Adopted(current)
  /\ \E ok \in BOOLEAN : Save(Adopted(current), ok)
  /\ Sleep
  /\ UNCHANGED <<next_event, registered, aged, overdue, harborlink>>

\* ... any other is stopped and its artifact registered, ...
StopCurrent ==
  /\ task.at = "current" /\ "lease" \in Answers(current)
  /\ ~(link[current] = "running" /\ streams[current] = task.profile)
  /\ \/ /\ Ends(current)
        /\ \/ registered' = registered \cup ({current} \cap artifact') /\ Goto("start")
           \/ UNCHANGED registered /\ Sleep
     \/ UNCHANGED <<link, artifact, registered>> /\ Sleep
  /\ UNCHANGED <<mem, disk, next_event, aged, overdue, streams, current, inflight>>

\* ... and if there is none, or the call fails, there is nothing to stop.
NoCurrent ==
  /\ task.at = "current"
  /\ Goto("start")
  /\ UNCHANGED <<mem, disk, next_event, registered, aged, overdue, harborlink>>

\* start_event_recording: the new event is in the ledger before HarborLink is
\* asked to record it.
Pending(e, p) == [phase |-> "pending_start", event |-> e, leased |-> FALSE, profile |-> p]

\* Mutant: the ledger is written after the start.
StartUnsaved ==
  /\ task.at = "start" /\ next_event < MaxEvents
  /\ next_event' = next_event + 1
  /\ mem' = Pending(next_event', task.profile)
  /\ Goto("starting")
  /\ UNCHANGED <<disk, registered, aged, overdue, harborlink>>

Start ==
  /\ task.at = "start" /\ next_event < MaxEvents
  /\ next_event' = next_event + 1
  /\ mem' = Pending(next_event', task.profile)
  /\ \E ok \in BOOLEAN : Save(mem', ok) /\ IF ok THEN Goto("starting") ELSE Sleep
  /\ UNCHANGED <<registered, aged, overdue, harborlink>>

\* The bound on event ids.
StartIsOver ==
  /\ task.at = "start" /\ next_event = MaxEvents
  /\ Sleep
  /\ UNCHANGED <<mem, disk, next_event, registered, aged, overdue, harborlink>>

\* The request is served, or is not, or arrives later.
Starting ==
  /\ task.at = "starting"
  /\ \/ Begins(mem.event, task.profile) /\ UNCHANGED <<inflight, overdue>> /\ Goto("started")
     \/ /\ \/ Begins(mem.event, task.profile) /\ UNCHANGED <<inflight, overdue>>
           \/ /\ inflight' = inflight \cup {mem.event}
              /\ overdue' = overdue \cup ({mem.event} \cap aged)
              /\ streams' = [streams EXCEPT ![mem.event] = task.profile]
              /\ UNCHANGED <<link, current>>
           \/ UNCHANGED <<link, streams, current, inflight, overdue>>
        /\ Sleep
  /\ UNCHANGED <<mem, disk, next_event, registered, aged, artifact>>

Started ==
  /\ task.at = "started"
  /\ mem' = Adopted(mem.event)
  /\ \E ok \in BOOLEAN : Save(mem', ok)
  /\ Sleep
  /\ UNCHANGED <<next_event, registered, aged, overdue, harborlink>>

-----------------------------------------------------------------------------
(* stop_orphaned_cat_recordings                                            *)

KeptByCleanup == mem = NoState \/ task.failed \/ mem.phase = "pending_start"

StopOrphaned ==
  /\ task.at = "orphans"
  /\ IF KeptByCleanup THEN Sleep
     ELSE task' = [task EXCEPT !.at = IF mem.leased THEN "stop" ELSE "remove", !.why = "orphan"]
  /\ UNCHANGED <<mem, disk, next_event, registered, aged, overdue, harborlink>>

-----------------------------------------------------------------------------
(* The process.                                                            *)

\* start_cat_auto_recording_worker; the ledger was loaded when the API was built.
Boot ==
  /\ task.at = "down"
  /\ mem' = disk
  /\ \E enabled \in BOOLEAN : task' = Resting("idle", enabled)
  /\ UNCHANGED <<disk, next_event, registered, aged, overdue, harborlink>>

Crash ==
  /\ task.at /= "down"
  /\ mem' = NoState
  /\ task' = Resting("down", FALSE)
  /\ UNCHANGED <<disk, next_event, registered, aged, overdue, harborlink>>

Reconciled == Recover \/ FindArtifact \/ ForgetPendingStart

WorkerStep ==
  \/ Tick \/ ReconcileNothing \/ ReconcileFails \/ Reconciled \/ Register \/ Remove
  \/ NoDetection \/ (\E p \in Profile : Detect(p))
  \/ Stop \/ Transition \/ SaveEvidence \/ Renew
  \/ Adopt \/ StopCurrent \/ NoCurrent \/ Start \/ StartIsOver \/ Starting \/ Started
  \/ StopOrphaned \/ Boot

LinkStep(e) == Expire(e) \/ Finalize(e) \/ LateStart(e)

Next == WorkerStep \/ Crash \/ \E e \in Event : LinkStep(e) \/ Age(e)

Spec == Init /\ [][Next]_vars

\* The worker ticks, HarborLink goes on with its recordings, and neither it nor
\* the stores fail or the process crashes every time.
FairSpec ==
  /\ Spec
  /\ WF_vars(WorkerStep)
  /\ SF_vars(Tick)
  /\ SF_vars(FindArtifact)
  /\ SF_vars(Register /\ task'.at = "remove")
  /\ \A e \in Event : WF_vars(LinkStep(e))

-----------------------------------------------------------------------------
(* Properties.                                                             *)

\* Entries and tasks keep their shape; only a pending start waits for a lease,
\* and HarborLink has a recording for every lease.
TypeOK ==
  /\ mem \in State \cup {NoState} /\ disk \in State \cup {NoState}
  /\ task \in Task
  /\ next_event \in 0..MaxEvents /\ current \in 0..next_event
  /\ registered \subseteq artifact /\ artifact \subseteq {e \in Event : link[e] = "done"}
  /\ aged \subseteq 1..next_event /\ overdue \subseteq aged /\ inflight \subseteq 1..next_event
  /\ link \in [Event -> {"absent", "done"} \cup Recording]
  /\ streams \in [Event -> Profile \cup {NoProfile}]
  /\ \A s \in {mem, disk} : /\ s.phase = "pending_start" => ~s.leased /\ s.event /= 0
                            /\ s.leased => s.event /= 0 /\ link[s.event] /= "absent"

\* HarborLink is asked to record an event only when the ledger has it, so that a
\* crash, a failed call or a lost answer leaves the event to be reconciled.
StartIsDurable ==
  [][\A e \in Event : link[e] = "absent" /\ link'[e] = "running" /\ e \notin inflight
       => disk.event = e]_vars

\* The ledger has a lease that the worker knows of.  (A write of the ledger that
\* reports an error may have been made; the worker then goes on without it.)
Known(e) == disk.leased /\ disk.event = e /\ mem.leased /\ mem.event = e

\* A recording with a known lease leaves the ledger only when it is over and its
\* artifact, if it left one, has been handed to validation: whatever failed,
\* crashed or was retried on the way.
ActiveIsKept ==
  [][\A e \in Event : Known(e) /\ disk'.event /= e =>
       /\ link[e] = "done"
       /\ e \in artifact => e \in registered]_vars

\* When the worker gives up a pending start, HarborLink is not recording it and
\* will not begin to, unless the start itself was overdue: still under way when
\* the 30 s that the worker waits for it had passed (reconcile_cat_recording,
\* CAT_RECORDING_PENDING_START_TIMEOUT_MS).
GivenUpIsOverdue ==
  [][task.at = "remove" /\ task.why = "reconcile" /\ mem /= NoState /\ mem' = NoState
     /\ task'.at /= "down" /\ mem.event \notin registered
     /\ (link[mem.event] = "running" \/ mem.event \in inflight)
       => mem.event \in overdue]_vars

\* The artifact of a recording with a known lease is eventually handed to
\* validation.
RecordingsAreRegistered ==
  \A e \in Event : (Known(e) /\ e \in artifact) ~> e \in registered

\* What the test lost_start_response_recovers_same_event_as_active_recording says
\* of a start whose answer was lost: the event stays in the ledger until it is
\* active or its artifact has been handed to validation.
LostStartIsRecovered ==
  [][disk.phase = "pending_start" /\ link[disk.event] \in Recording
       => disk'.event = disk.event]_vars
=============================================================================
