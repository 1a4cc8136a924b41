----------------------- MODULE CatAutoRecordingProofs -----------------------
(***************************************************************************)
(* Proofs about the automatic recording, for any profiles and any number   *)
(* of events: HarborLink is asked to record only what the ledger has, a    *)
(* recording with a known lease stays in the ledger until it is over and   *)
(* registered, and a pending start that is given up although HarborLink    *)
(* records it, or may yet, was overdue.                                    *)
(***************************************************************************)
EXTENDS CatAutoRecording, TLAPS

LinkStates == {"absent", "done"} \cup Recording
Profiles == Profile \cup {NoProfile}

\* An entry, in memory or in the ledger, with HarborLink's recordings l.
EntryOK(s, l) ==
  /\ s \in State \cup {NoState}
  /\ s.phase = "pending_start" => ~s.leased /\ s.event /= 0
  /\ s.leased => s.event /= 0 /\ l[s.event] /= "absent"

\* HarborLink: it records one event at a time, none that was not asked for, and a start that
\* is still on its way has not begun and, once it has timed out, is overdue.
LinkInv ==
  /\ next_event \in 0..MaxEvents /\ current \in 0..next_event
  /\ registered \subseteq artifact /\ artifact \subseteq {e \in Event : link[e] = "done"}
  /\ aged \subseteq 1..next_event /\ overdue \subseteq aged /\ inflight \subseteq 1..next_event
  /\ link \in [Event -> LinkStates] /\ streams \in [Event -> Profiles]
  /\ \A e \in Event : link[e] = "running" => e = current
  /\ \A e \in Event : e > next_event => link[e] = "absent"
  /\ \A e \in inflight : link[e] = "absent"
  /\ \A e \in aged : e \in inflight => e \in overdue

\* What the worker has made sure of where it is.
PlaceInv ==
  /\ task.at \in {"stop", "renew"} => mem.leased
  /\ task.at = "stop" => task.why /= "reconcile"
  /\ task.at \in {"current", "start"} => ~mem.leased
  /\ task.at = "starting" => /\ mem.phase = "pending_start" /\ mem.event = next_event
                             /\ link[mem.event] = "absent" /\ mem.event \notin inflight
                             /\ disk = mem
  /\ task.at = "started" => mem.phase = "pending_start" /\ link[mem.event] /= "absent"
  /\ task.at = "register" => /\ mem.event /= 0 /\ link[mem.event] = "done"
                             /\ task.why = "reconcile" => mem.event \in artifact
  /\ task.at = "remove" =>
       /\ mem.leased => /\ link[mem.event] = "done"
                        /\ mem.event \in artifact => mem.event \in registered
       /\ task.why = "reconcile" => \/ mem.event \in registered
                                    \/ /\ mem.event \in aged
                                       /\ link[mem.event] /= "running" \/ mem.event \in overdue

RecordingInv ==
  /\ LinkInv /\ EntryOK(mem, link) /\ EntryOK(disk, link) /\ task \in Task /\ PlaceInv

-----------------------------------------------------------------------------
(* Values.                                                                 *)

\* The kinds of entry.
LEMMA Entries ==
  /\ NoState.phase = "none" /\ NoState.event = 0 /\ NoState.leased = FALSE /\ NoState \notin State
  /\ \A p \in Profiles : /\ Default(p) \in State /\ Default(p).phase = "active"
                         /\ Default(p).event = 0 /\ Default(p).leased = FALSE
  /\ \A e \in Event, p \in Profiles :
       /\ Pending(e, p) \in State /\ Pending(e, p).phase = "pending_start"
       /\ Pending(e, p).event = e /\ Pending(e, p).leased = FALSE
BY EventAssumption DEF NoState, State, Default, Pending, Profiles, Event

\* An entry with a lease.
Held(e, p) == [phase |-> "active", event |-> e, leased |-> TRUE, profile |-> p]

\* It has the lease of its event.
LEMMA HeldEntry ==
  ASSUME NEW e \in Event, NEW p \in Profiles
  PROVE  /\ Held(e, p) \in State /\ Held(e, p).phase = "active"
         /\ Held(e, p).event = e /\ Held(e, p).leased = TRUE
BY EventAssumption DEF State, Held, Profiles, Event

\* An entry of which only the profile changes.
LEMMA Reprofiled ==
  ASSUME NEW s \in State, NEW p \in Profiles
  PROVE  LET n == [s EXCEPT !.profile = p] IN
         n \in State /\ n.phase = s.phase /\ n.event = s.event /\ n.leased = s.leased
BY DEF State, Profiles

\* The event of an entry, if it has one.
LEMMA EventOf ==
  ASSUME NEW s \in State \cup {NoState}
  PROVE  /\ s.event /= 0 => s.event \in Event /\ s \in State
         /\ s.leased \in BOOLEAN /\ s.profile \in Profiles /\ s.event \in 0..MaxEvents
<1>1. CASE s \in State
  BY <1>1, EventAssumption DEF State, Event, Profiles
<1>2. CASE s = NoState
  BY <1>2, EventAssumption DEF NoState, Profiles
<1> QED  BY Zenon, <1>1, <1>2

\* Entries that are sound whatever HarborLink does.
LEMMA PlainEntries ==
  ASSUME NEW l
  PROVE  /\ EntryOK(NoState, l)
         /\ \A p \in Profiles : EntryOK(Default(p), l)
         /\ \A e \in Event, p \in Profiles : EntryOK(Pending(e, p), l)
         /\ \A e \in Event, p \in Profiles : l[e] /= "absent" => EntryOK(Held(e, p), l)
<1>1. \A e \in Event : e /= 0
  BY DEF Event
<1>2. EntryOK(NoState, l) /\ \A p \in Profiles : EntryOK(Default(p), l)
  BY Zenon, Entries DEF EntryOK
<1>3. \A e \in Event, p \in Profiles : EntryOK(Pending(e, p), l)
  BY Zenon, <1>1, Entries DEF EntryOK
<1>4. \A e \in Event, p \in Profiles : l[e] /= "absent" => EntryOK(Held(e, p), l)
  BY Zenon, <1>1, HeldEntry DEF EntryOK
<1> QED  BY Zenon, <1>2, <1>3, <1>4

\* Where the worker goes.
LEMMA Places ==
  /\ "idle" \in Place /\ "reconcile" \in Place /\ "stop" \in Place /\ "register" \in Place
  /\ "remove" \in Place /\ "transition" \in Place /\ "renew" \in Place /\ "current" \in Place
  /\ "start" \in Place /\ "starting" \in Place /\ "started" \in Place /\ "orphans" \in Place
BY DEF Place

\* The worker's task as it moves on.
LEMMA TaskAt ==
  ASSUME NEW t \in Task, NEW c \in Place
  PROVE  LET n == [t EXCEPT !.at = c] IN n \in Task /\ n.at = c /\ n.why = t.why
BY DEF Task

\* A call failed: reconcile, and then rest.
LEMMA TaskAfter ==
  ASSUME NEW t \in Task
  PROVE  LET n == [t EXCEPT !.at = "reconcile", !.after = "idle"] IN n \in Task /\ n.at = "reconcile"
BY DEF Task, Place

\* The tick begins with a reconciliation.
LEMMA TaskTick ==
  ASSUME NEW t \in Task
  PROVE  LET n == [t EXCEPT !.at = "reconcile", !.after = "process", !.failed = FALSE] IN
         n \in Task /\ n.at = "reconcile"
BY DEF Task, Place

\* Back in the tick, with a failure or without.
LEMMA TaskFailed ==
  ASSUME NEW t \in Task, NEW f \in BOOLEAN
  PROVE  LET n == [t EXCEPT !.at = "process", !.failed = f] IN n \in Task /\ n.at = "process"
BY DEF Task, Place

Onto(t, c, w) == [t EXCEPT !.at = c, !.why = w]

\* The worker goes on to stop, register or remove on behalf of someone.
LEMMA TaskWhy ==
  ASSUME NEW t \in Task
  PROVE  /\ Onto(t, "register", "reconcile") \in Task /\ Onto(t, "register", "reconcile").at = "register" /\ Onto(t, "register", "reconcile").why = "reconcile"
         /\ Onto(t, "remove", "reconcile") \in Task /\ Onto(t, "remove", "reconcile").at = "remove" /\ Onto(t, "remove", "reconcile").why = "reconcile"
         /\ Onto(t, "stop", "stop") \in Task /\ Onto(t, "stop", "stop").at = "stop" /\ Onto(t, "stop", "stop").why = "stop"
         /\ Onto(t, "stop", "orphan") \in Task /\ Onto(t, "stop", "orphan").at = "stop" /\ Onto(t, "stop", "orphan").why = "orphan"
         /\ Onto(t, "remove", "orphan") \in Task /\ Onto(t, "remove", "orphan").at = "remove" /\ Onto(t, "remove", "orphan").why = "orphan"
BY DEF Task, Onto, Place

Detected(t, c, p) == [t EXCEPT !.at = c, !.why = "switch", !.profile = p]

\* A result of the detection job is at hand.
LEMMA TaskDetected ==
  ASSUME NEW t \in Task, NEW c \in Place, NEW p \in Profile
  PROVE  LET n == Detected(t, c, p) IN n \in Task /\ n.at = c /\ n.why = "switch"
BY DEF Task, Detected

\* The worker rests, or is down.
LEMMA TaskRests ==
  ASSUME NEW c \in {"idle", "down"}, NEW b \in BOOLEAN
  PROVE  Resting(c, b) \in Task /\ Resting(c, b).at = c
BY DEF Resting, Task, Place

\* What the task remembers.
LEMMA TaskParts ==
  ASSUME NEW t \in Task
  PROVE  t.enabled \in BOOLEAN /\ t.profile \in Profiles
BY DEF Task, Profiles

\* What the helpers of the worker's steps do to its task.
LEMMA TaskSteps ==
  ASSUME task \in Task
  PROVE  /\ Sleep => task' \in Task /\ task'.at = "idle"
         /\ \A ok \in BOOLEAN : Return(ok) => task' \in Task /\ task'.at \in {"process", "idle"}
         /\ \A c \in Place : Goto(c) => task' \in Task /\ task'.at = c /\ task'.why = task.why
<1>1. ASSUME Sleep
      PROVE  task' \in Task /\ task'.at = "idle"
  BY Zenon, <1>1, TaskRests, TaskParts DEF Sleep
<1>2. ASSUME NEW ok \in BOOLEAN, Return(ok)
      PROVE  task' \in Task /\ task'.at \in {"process", "idle"}
  <2>1. CASE Sleep
    BY Zenon, <1>1, <2>1
  <2>2. CASE task' = [task EXCEPT !.at = "process", !.failed = ~ok]
    <3>1. (~ok) \in BOOLEAN
      OBVIOUS
    <3> QED  BY Zenon, <2>2, <3>1, TaskFailed
  <2> QED  BY Zenon, <1>2, <2>1, <2>2 DEF Return
<1>3. ASSUME NEW c \in Place, Goto(c)
      PROVE  task' \in Task /\ task'.at = c /\ task'.why = task.why
  BY Zenon, <1>3, TaskAt DEF Goto
<1> QED  BY Zenon, <1>1, <1>2, <1>3

-----------------------------------------------------------------------------
(* HarborLink.                                                             *)

\* No recording is forgotten, and one that is over stays over, with what it left.
Onward ==
  \A e \in Event : /\ link[e] /= "absent" => link'[e] /= "absent"
                   /\ link[e] = "done" => link'[e] = "done" /\ (e \in artifact' => e \in artifact)

\* So an entry stays sound.
LEMMA EntryOnward ==
  ASSUME NEW s, EntryOK(s, link), Onward
  PROVE  EntryOK(s, link')
BY Zenon, EventOf DEF EntryOK, Onward

\* The events of HarborLink's sets are events.
LEMMA LinkEvents ==
  ASSUME LinkInv
  PROVE  /\ 1..next_event \subseteq Event /\ inflight \subseteq Event /\ aged \subseteq Event
         /\ artifact \subseteq Event /\ registered \subseteq Event
         /\ current /= 0 => current \in Event
         /\ next_event \in Int /\ MaxEvents \in Int
<1>1. /\ next_event \in 0..MaxEvents /\ current \in 0..next_event /\ MaxEvents \in Nat
      /\ inflight \subseteq 1..next_event /\ aged \subseteq 1..next_event
      /\ artifact \subseteq Event /\ registered \subseteq artifact
  BY EventAssumption DEF LinkInv
<1> QED  BY <1>1 DEF Event

\* Nothing changes at HarborLink.
LEMMA LinkSame ==
  ASSUME LinkInv, UNCHANGED <<next_event, registered, aged, overdue, harborlink>>
  PROVE  LinkInv' /\ Onward
<1>1. UNCHANGED <<next_event, registered, aged, overdue, link, streams, artifact, current, inflight>>
  BY Zenon DEF harborlink
<1> QED  BY Zenon, <1>1 DEF LinkInv, Onward

\* A recording is finalized or stopped.
LEMMA LinkEnds ==
  ASSUME LinkInv, NEW e \in Event, link[e] /= "absent", Ends(e),
         UNCHANGED <<next_event, aged, overdue, streams, current, inflight>>,
         registered' = registered \/ registered' = registered \cup ({e} \cap artifact')
  PROVE  LinkInv' /\ Onward /\ link'[e] = "done"
<1>1. link \in [Event -> LinkStates] /\ link' = [link EXCEPT ![e] = "done"]
  BY Zenon DEF LinkInv, Ends
<1>2. link'[e] = "done" /\ \A f \in Event : f /= e => link'[f] = link[f]
  BY Zenon, <1>1
<1>3. link' \in [Event -> LinkStates]
  BY Zenon, <1>1 DEF LinkStates
<1>4. /\ artifact \subseteq artifact' /\ \A f \in artifact' : f \in artifact \/ f = e
      /\ link[e] = "done" => artifact' = artifact
  <2>1. artifact' = artifact \/ (link[e] /= "done" /\ artifact' = artifact \cup {e})
    BY DEF Ends
  <2> QED  BY Zenon, <2>1
<1>5. Onward
  BY Zenon, <1>2, <1>4 DEF Onward
<1>6. registered' \subseteq artifact' /\ artifact' \subseteq {f \in Event : link'[f] = "done"}
  <2>1. artifact \subseteq {f \in Event : link[f] = "done"} /\ registered \subseteq artifact
    BY Zenon DEF LinkInv
  <2>2. ASSUME NEW f \in artifact'
        PROVE  f \in Event /\ link'[f] = "done"
    BY Zenon, <1>2, <1>4, <2>1
  <2>3. registered' \subseteq artifact'
    BY Zenon, <1>4, <2>1
  <2> QED  BY Zenon, <2>2, <2>3
<1>7. \A f \in Event : link'[f] = "running" => f = current
  BY Zenon, <1>2 DEF LinkInv
<1>8. \A f \in Event : f > next_event => link'[f] = "absent"
  BY Zenon, <1>2 DEF LinkInv
<1>9. \A f \in inflight : link'[f] = "absent"
  BY Zenon, <1>2, LinkEvents DEF LinkInv
<1> QED  BY Zenon, <1>2, <1>3, <1>5, <1>6, <1>7, <1>8, <1>9 DEF LinkInv

\* A recording begins that had not: the one that was running is finalized.
LEMMA LinkBegins ==
  ASSUME LinkInv, NEW e \in 1..next_event, link[e] = "absent", NEW p \in Profiles, Begins(e, p),
         inflight' = inflight \ {e}, UNCHANGED <<next_event, aged, overdue, registered, artifact>>
  PROVE  LinkInv' /\ Onward /\ link'[e] /= "absent"
         /\ \A f \in Event : f /= e => link'[f] = link[f] \/ link'[f] = "finalizing"
<1>1. e \in Event /\ link \in [Event -> LinkStates] /\ streams \in [Event -> Profiles]
  BY Zenon, LinkEvents DEF LinkInv
<1>2. \A f \in Event : link'[f] = IF f = e THEN "running"
                                  ELSE IF link[f] = "running" THEN "finalizing" ELSE link[f]
  BY Zenon DEF Begins
<1>3. /\ link'[e] = "running"
      /\ \A f \in Event : f /= e => /\ link'[f] /= "running" /\ (link[f] /= "absent" => link'[f] /= "absent")
                                    /\ (link[f] \in {"absent", "done"} => link'[f] = link[f])
                                    /\ (link'[f] = link[f] \/ link'[f] = "finalizing")
  BY <1>1, <1>2
<1>4. link' \in [Event -> LinkStates] /\ streams' \in [Event -> Profiles]
  <2>1. \A f \in Event : (IF f = e THEN "running"
                          ELSE IF link[f] = "running" THEN "finalizing" ELSE link[f]) \in LinkStates
    BY <1>1 DEF LinkStates, Recording
  <2> QED  BY Zenon, <1>1, <2>1 DEF Begins
<1>5. Onward
  BY Zenon, <1>3 DEF Onward
<1>6. current' = e /\ e \in 0..next_event
  BY LinkEvents DEF Begins
<1>7. \A f \in artifact : f \in Event /\ link'[f] = "done"
  <2>1. \A f \in artifact : f \in Event /\ link[f] = "done"
    BY Zenon DEF LinkInv
  <2>2. "done" /= "absent"
    OBVIOUS
  <2> QED  BY Zenon, <1>5, <2>1 DEF Onward
<1>8. \A f \in Event : link'[f] = "running" => f = e
  BY Zenon, <1>3
<1>9. \A f \in Event : f > next_event => link'[f] = "absent"
  <2>1. ASSUME NEW f \in Event, f > next_event
        PROVE  f /= e /\ link[f] = "absent"
    <3>1. f /= e
      BY <2>1, LinkEvents
    <3> QED  BY Zenon, <2>1, <3>1 DEF LinkInv
  <2> QED  BY Zenon, <1>3, <2>1
<1>10. \A f \in inflight' : link'[f] = "absent"
  <2>1. ASSUME NEW f \in inflight, f /= e
        PROVE  f \in Event /\ link[f] = "absent"
    BY Zenon, <2>1, LinkEvents DEF LinkInv
  <2> QED  BY Zenon, <1>3, <2>1
<1>11. inflight' \subseteq 1..next_event /\ \A f \in aged : f \in inflight' => f \in overdue
  BY Zenon DEF LinkInv
<1> QED  BY Zenon, <1>3, <1>4, <1>5, <1>6, <1>7, <1>8, <1>9, <1>10, <1>11 DEF LinkInv

-----------------------------------------------------------------------------
(* The inductive invariant.                                                *)

\* Where nothing needs to have been made sure of.
LEMMA Anywhere ==
  ASSUME task'.at \in {"down", "idle", "reconcile", "process", "transition", "orphans"}
  PROVE  PlaceInv'
BY DEF PlaceInv

\* A step that leaves HarborLink, its registrations and the event ids alone.
LEMMA Local ==
  ASSUME RecordingInv, UNCHANGED <<next_event, registered, aged, overdue, harborlink>>,
         EntryOK(mem', link), disk' = disk \/ EntryOK(disk', link), task' \in Task, PlaceInv'
  PROVE  RecordingInv'
<1>1. LinkInv' /\ link' = link
  BY Zenon, LinkSame DEF RecordingInv, harborlink
<1> QED  BY Zenon, <1>1 DEF RecordingInv

\* A write of the ledger.
LEMMA Saved ==
  ASSUME NEW s, NEW ok, Save(s, ok)
  PROVE  disk' = disk \/ disk' = s
BY Zenon DEF Save

\* The calls of the tick: reconcile_cat_recording.
LEMMA InvReconcile ==
  ASSUME RecordingInv,
         Tick \/ ReconcileNothing \/ ReconcileFails \/ Recover \/ FindArtifact \/ ForgetPendingStart
  PROVE  RecordingInv'
<1>1. LinkInv /\ EntryOK(mem, link) /\ task \in Task
  BY Zenon DEF RecordingInv
<1>2. mem \in State \cup {NoState} /\ mem.event \in 0..MaxEvents
  BY Zenon, <1>1, EventOf DEF EntryOK
<1>3. CASE Tick
  <2>1. task' \in Task /\ task'.at = "reconcile" /\ UNCHANGED <<mem, disk, next_event, registered, aged, overdue, harborlink>>
    BY Zenon, <1>1, <1>3, TaskTick DEF Tick
  <2> QED  BY Zenon, <1>1, <2>1, Anywhere, Local
<1>4. CASE ReconcileNothing \/ ReconcileFails
  <2>1. task' \in Task /\ task'.at \in {"process", "idle"}
    BY Zenon, <1>1, <1>4, TaskSteps DEF ReconcileNothing, ReconcileFails
  <2>2. UNCHANGED <<mem, disk, next_event, registered, aged, overdue, harborlink>>
    BY Zenon, <1>4 DEF ReconcileNothing, ReconcileFails
  <2>3. PlaceInv'
    BY Zenon, <2>1, Anywhere
  <2> QED  BY Zenon, <1>1, <2>1, <2>2, <2>3, Local
<1>5. CASE Recover
  <2> DEFINE h == Held(mem.event, streams[mem.event])
  <2>1. mem.event \in Event /\ streams[mem.event] \in Profiles /\ link[mem.event] /= "absent"
    <3>1. mem.event \in Event
      BY Zenon, <1>2, <1>5, EventOf DEF Recover
    <3> QED  BY <1>1, <1>5, <3>1 DEF Recover, Recording, LinkInv
  <2>2. EntryOK(h, link)
    BY Zenon, <2>1, PlainEntries
  <2>3. PICK ok \in BOOLEAN : Save(h, ok) /\ mem' \in {h, mem} /\ Return(ok)
    BY Zenon, <1>5 DEF Recover, Held
  <2>4. task' \in Task /\ task'.at \in {"process", "idle"}
    BY Zenon, <1>1, <2>3, TaskSteps
  <2>5. PlaceInv'
    BY Zenon, <2>4, Anywhere
  <2>6. EntryOK(mem', link) /\ (disk' = disk \/ EntryOK(disk', link))
    BY Zenon, <1>1, <2>2, <2>3, Saved
  <2>7. UNCHANGED <<next_event, registered, aged, overdue, harborlink>>
    BY Zenon, <1>5 DEF Recover
  <2> QED  BY Zenon, <2>4, <2>5, <2>6, <2>7, Local
<1>6. CASE FindArtifact
  <2>1. task' \in Task /\ task'.at = "register" /\ task'.why = "reconcile"
    <3>1. task' = Onto(task, "register", "reconcile")
      BY Zenon, <1>6 DEF FindArtifact, Onto
    <3> QED  BY Zenon, <1>1, <3>1, TaskWhy
  <2>2. UNCHANGED <<mem, disk, next_event, registered, aged, overdue, harborlink>>
    BY Zenon, <1>6 DEF FindArtifact
  <2>3. mem.event \in artifact /\ mem.event \in Event /\ link[mem.event] = "done"
    BY Zenon, <1>1, <1>6 DEF FindArtifact, LinkInv
  <2>4. mem.event /= 0
    BY <2>3 DEF Event
  <2>5. PlaceInv'
    BY <2>1, <2>2, <2>3, <2>4 DEF PlaceInv, harborlink
  <2> QED  BY Zenon, <1>1, <2>1, <2>2, <2>5, Local
<1>7. CASE ForgetPendingStart
  <2>1. task' \in Task /\ task'.at = "remove" /\ task'.why = "reconcile"
    <3>1. task' = Onto(task, "remove", "reconcile")
      BY Zenon, <1>7 DEF ForgetPendingStart, Onto
    <3> QED  BY Zenon, <1>1, <3>1, TaskWhy
  <2>2. UNCHANGED <<mem, disk, next_event, registered, aged, overdue, harborlink>>
    BY Zenon, <1>7 DEF ForgetPendingStart
  <2>3. mem.event \in aged /\ ~mem.leased /\ mem.event \in Event /\ mem.event /= 0
    <3>1. mem.event \in aged /\ ~mem.leased /\ mem.event \in Event
      BY Zenon, <1>1, <1>7, LinkEvents DEF ForgetPendingStart, PendingStartExpired, EntryOK
    <3> QED  BY Zenon, <1>7, <3>1 DEF ForgetPendingStart
  <2>4. current = 0 \/ link[current] /= "running"
    <3>1. "not_found" \in Answers(current)
      BY Zenon, <1>7, <2>3 DEF ForgetPendingStart, ReconcileTarget
    <3> QED  BY <3>1 DEF Answers
  <2>5. link[mem.event] /= "running"
    <3>1. link[mem.event] = "running" => mem.event = current
      BY Zenon, <1>1, <2>3 DEF LinkInv
    <3> QED  BY Zenon, <2>3, <2>4, <3>1
  <2>6. PlaceInv'
    BY <2>1, <2>2, <2>3, <2>5 DEF PlaceInv, harborlink
  <2> QED  BY Zenon, <1>1, <2>1, <2>2, <2>6, Local
<1> QED  BY Zenon, <1>3, <1>4, <1>5, <1>6, <1>7

\* The artifacts are handed over, the ledger's entry and the one in memory go.
LEMMA InvRemove ==
  ASSUME RecordingInv, Register \/ Remove
  PROVE  RecordingInv'
<1>1. LinkInv /\ EntryOK(mem, link) /\ task \in Task
  BY Zenon DEF RecordingInv
<1>2. CASE Register
  <2>1. UNCHANGED <<mem, disk, next_event, aged, overdue, harborlink>> /\ task.at = "register"
    BY Zenon, <1>2 DEF Register
  <2>2. mem.event /= 0 /\ link[mem.event] = "done" /\ (task.why = "reconcile" => mem.event \in artifact)
    BY Zenon, <2>1 DEF RecordingInv, PlaceInv
  <2>3. \/ /\ registered' = registered \cup ({mem.event} \cap artifact)
           /\ task' \in Task /\ task'.at = "remove" /\ task'.why = task.why
        \/ registered' = registered /\ task' \in Task /\ task'.at \in {"process", "idle"}
    <3>1. \/ registered' = registered \cup ({mem.event} \cap artifact) /\ Goto("remove")
          \/ registered' = registered /\ (Return(FALSE) \/ Sleep)
      BY Zenon, <1>2 DEF Register
    <3> QED  BY Zenon, <1>1, <3>1, TaskSteps, Places
  <2>4. registered' \subseteq artifact
    BY Zenon, <1>1, <2>3 DEF LinkInv
  <2>5. LinkInv'
    BY Zenon, <1>1, <2>1, <2>4 DEF LinkInv, harborlink
  <2>6. PlaceInv'
    <3>1. CASE task'.at = "remove"
      <4>1. /\ registered' = registered \cup ({mem.event} \cap artifact) /\ task'.why = task.why
            /\ UNCHANGED <<mem, link, artifact>>
        BY <2>1, <2>3, <3>1 DEF harborlink
      <4>2. mem.event \in artifact => mem.event \in registered'
        BY Zenon, <4>1
      <4>3. task'.why = "reconcile" => mem.event \in registered'
        BY Zenon, <2>2, <4>1, <4>2
      <4> QED  BY <2>2, <3>1, <4>1, <4>2, <4>3 DEF PlaceInv
    <3>2. CASE task'.at \in {"process", "idle"}
      BY Zenon, <3>2, Anywhere
    <3> QED  BY Zenon, <2>3, <3>1, <3>2
  <2> QED  BY Zenon, <1>1, <2>1, <2>3, <2>5, <2>6 DEF RecordingInv, harborlink
<1>3. CASE Remove
  <2>1. PICK ok \in BOOLEAN :
          /\ Save(NoState, ok)
          /\ mem' \in {mem, NoState, Default(NoProfile), Default(task.profile)}
          /\ Return(ok) \/ Goto("transition") \/ Sleep
    <3>1. task.why \in {"reconcile", "switch", "stop", "orphan"}
      BY <1>1 DEF Task
    <3>2. PICK ok \in BOOLEAN :
             /\ Save(NoState, ok)
             /\ mem' = CASE ~ok -> mem
                   [] ok /\ task.why \in {"reconcile", "orphan"} -> NoState
                   [] ok /\ task.why = "stop" -> Default(NoProfile)
                   [] ok /\ task.why = "switch" -> Default(task.profile)
             /\ CASE task.why = "reconcile" -> Return(ok)
                  [] task.why = "switch" /\ ok -> Goto("transition")
                  [] OTHER -> Sleep
      BY Zenon, <1>3 DEF Remove
    <3>3. mem' \in {mem, NoState, Default(NoProfile), Default(task.profile)}
      BY <3>1, <3>2
    <3>4. Return(ok) \/ Goto("transition") \/ Sleep
      BY Zenon, <3>2
    <3> QED  BY Zenon, <3>2, <3>3, <3>4
  <2>2. task' \in Task /\ task'.at \in {"process", "idle", "transition"}
    BY Zenon, <1>1, <2>1, TaskSteps, Places
  <2>3. PlaceInv'
    BY Zenon, <2>2, Anywhere
  <2>4. NoProfile \in Profiles /\ task.profile \in Profiles
    BY <1>1, TaskParts DEF Profiles
  <2>5. EntryOK(mem', link)
    BY Zenon, <1>1, <2>1, <2>4, PlainEntries
  <2>6. disk' = disk \/ EntryOK(disk', link)
    BY Zenon, <2>1, Saved, PlainEntries
  <2>7. UNCHANGED <<next_event, registered, aged, overdue, harborlink>>
    BY Zenon, <1>3 DEF Remove
  <2> QED  BY Zenon, <2>2, <2>3, <2>5, <2>6, <2>7, Local
<1> QED  BY Zenon, <1>2, <1>3

\* process_cat_detection_result, up to the calls of HarborLink.
LEMMA InvProcess ==
  ASSUME RecordingInv,
         \/ NoDetection \/ Transition \/ SaveEvidence \/ Renew \/ StopOrphaned
         \/ \E p \in Profile : Detect(p)
  PROVE  RecordingInv'
<1>1. LinkInv /\ EntryOK(mem, link) /\ task \in Task
  BY Zenon DEF RecordingInv
<1>2. mem \in State \cup {NoState}
  BY Zenon, <1>1 DEF EntryOK
<1>3. CASE NoDetection
  <2>1. task' \in Task /\ task'.at \in {"orphans", "idle"}
    BY Zenon, <1>1, <1>3, TaskSteps, Places DEF NoDetection
  <2>2. PlaceInv' /\ UNCHANGED <<mem, disk, next_event, registered, aged, overdue, harborlink>>
    BY Zenon, <1>3, <2>1, Anywhere DEF NoDetection
  <2> QED  BY Zenon, <1>1, <2>1, <2>2, Local
<1>4. ASSUME NEW p \in Profile, Detect(p)
      PROVE  RecordingInv'
  <2>1. /\ UNCHANGED <<disk, next_event, registered, aged, overdue, harborlink>> /\ p \in Profiles
        /\ mem \notin State => mem = NoState
    BY Zenon, <1>2, <1>4 DEF Detect, Profiles
  <2>2. \/ mem' = mem /\ mem.leased /\ task' = Detected(task, "stop", p)
        \/ mem' = Default(p) /\ task' = Detected(task, "transition", p)
        \/ /\ mem \in State /\ mem' = [mem EXCEPT !.profile = p]
           /\ task' = Detected(task, "transition", p)
    <3> DEFINE switched == mem.profile \notin {NoProfile, p}
    <3>1. /\ mem' = CASE switched /\ mem.leased -> mem
                      [] (switched /\ ~mem.leased) \/ mem = NoState -> Default(p)
                      [] OTHER -> [mem EXCEPT !.profile = p]
          /\ task' = [task EXCEPT !.at = IF switched /\ mem.leased THEN "stop" ELSE "transition",
                          !.why = "switch", !.profile = p]
      BY Zenon, <1>4 DEF Detect
    <3>2. NoState.profile = NoProfile /\ ~NoState.leased
      BY DEF NoState
    <3> HIDE DEF switched
    <3>3. CASE switched /\ mem.leased
      <4>1. mem /= NoState
        BY Zenon, <3>2, <3>3
      <4>2. mem' = mem
        BY Zenon, <3>1, <3>3, <4>1
      <4>3. task' = Detected(task, "stop", p)
        BY Zenon, <3>1, <3>3 DEF Detected
      <4> QED  BY Zenon, <3>3, <4>2, <4>3
    <3>4. CASE ~(switched /\ mem.leased) /\ ((switched /\ ~mem.leased) \/ mem = NoState)
      <4>1. mem' = Default(p)
        BY Zenon, <3>1, <3>4
      <4>2. task' = Detected(task, "transition", p)
        BY Zenon, <3>1, <3>4 DEF Detected
      <4> QED  BY Zenon, <4>1, <4>2
    <3>5. CASE ~(switched /\ mem.leased) /\ ~((switched /\ ~mem.leased) \/ mem = NoState)
      <4>1. mem' = [mem EXCEPT !.profile = p]
        BY Zenon, <3>1, <3>5
      <4>2. task' = Detected(task, "transition", p)
        BY Zenon, <3>1, <3>5 DEF Detected
      <4> QED  BY Zenon, <2>1, <3>5, <4>1, <4>2
    <3> QED  BY Zenon, <3>3, <3>4, <3>5
  <2>3. /\ Detected(task, "stop", p) \in Task /\ Detected(task, "stop", p).at = "stop"
        /\ Detected(task, "stop", p).why = "switch"
        /\ Detected(task, "transition", p) \in Task
        /\ Detected(task, "transition", p).at = "transition"
    BY <1>1, TaskDetected, Places
  <2>4. PlaceInv' /\ task' \in Task
    <3>1. CASE mem' = mem /\ mem.leased /\ task' = Detected(task, "stop", p)
      BY <2>3, <3>1 DEF PlaceInv
    <3>2. CASE task' = Detected(task, "transition", p)
      BY Zenon, <2>3, <3>2, Anywhere
    <3> QED  BY Zenon, <2>2, <3>1, <3>2
  <2>5. EntryOK(mem', link)
    <3>1. CASE mem' = mem \/ mem' = Default(p)
      BY Zenon, <1>1, <2>1, <3>1, PlainEntries
    <3>2. CASE mem \in State /\ mem' = [mem EXCEPT !.profile = p]
      <4>1. mem' \in State /\ mem'.phase = mem.phase /\ mem'.event = mem.event /\ mem'.leased = mem.leased
        BY Zenon, <2>1, <3>2, Reprofiled
      <4> QED  BY Zenon, <1>1, <4>1 DEF EntryOK
    <3> QED  BY Zenon, <2>2, <3>1, <3>2
  <2> QED  BY Zenon, <2>1, <2>4, <2>5, Local
<1>5. CASE Transition
  <2>1. UNCHANGED <<mem, disk, next_event, registered, aged, overdue, harborlink>>
    BY Zenon, <1>5 DEF Transition
  <2>2. \/ Goto("current") /\ ~mem.leased
        \/ task' = Onto(task, "stop", "stop") /\ mem.leased
        \/ Goto("renew") /\ mem.leased
        \/ Sleep
    BY Zenon, <1>5 DEF Transition, Onto
  <2>3. /\ task' \in Task
        /\ \/ task'.at = "current" /\ ~mem.leased
           \/ task'.at = "stop" /\ task'.why = "stop" /\ mem.leased
           \/ task'.at = "renew" /\ mem.leased
           \/ task'.at = "idle"
    <3>1. CASE task' = Onto(task, "stop", "stop") /\ mem.leased
      BY Zenon, <1>1, <3>1, TaskWhy
    <3>2. CASE Goto("current") /\ ~mem.leased
      BY Zenon, <1>1, <3>2, TaskSteps, Places
    <3>3. CASE Goto("renew") /\ mem.leased
      BY Zenon, <1>1, <3>3, TaskSteps, Places
    <3>4. CASE Sleep
      BY Zenon, <1>1, <3>4, TaskSteps
    <3> QED  BY Zenon, <2>2, <3>1, <3>2, <3>3, <3>4
  <2>4. PlaceInv'
    BY <2>1, <2>3 DEF PlaceInv
  <2> QED  BY Zenon, <1>1, <2>1, <2>3, <2>4, Local
<1>6. CASE SaveEvidence \/ Renew
  <2>1. UNCHANGED <<mem, next_event, registered, aged, overdue, harborlink>> /\ mem.leased
    BY Zenon, <1>6 DEF SaveEvidence, Renew, RecordingInv, PlaceInv
  <2>2. disk' = disk \/ disk' = mem
    BY Zenon, <1>6 DEF SaveEvidence, Renew, Save
  <2>3. \/ Goto("renew") \/ Sleep
        \/ task' = [task EXCEPT !.at = "reconcile", !.after = "idle"]
    BY Zenon, <1>6 DEF SaveEvidence, Renew
  <2>4. task' \in Task /\ task'.at \in {"renew", "idle", "reconcile"}
    <3>1. CASE Goto("renew") \/ Sleep
      BY Zenon, <1>1, <3>1, TaskSteps, Places
    <3>2. CASE task' = [task EXCEPT !.at = "reconcile", !.after = "idle"]
      BY Zenon, <1>1, <3>2, TaskAfter
    <3> QED  BY Zenon, <2>3, <3>1, <3>2
  <2>5. PlaceInv'
    BY <2>1, <2>4 DEF PlaceInv
  <2> QED  BY Zenon, <1>1, <2>1, <2>2, <2>4, <2>5, Local
<1>7. CASE StopOrphaned
  <2>1. UNCHANGED <<mem, disk, next_event, registered, aged, overdue, harborlink>>
    BY Zenon, <1>7 DEF StopOrphaned
  <2>2. \/ Sleep
        \/ mem.leased /\ task' = Onto(task, "stop", "orphan")
        \/ ~mem.leased /\ task' = Onto(task, "remove", "orphan")
    BY Zenon, <1>7 DEF StopOrphaned, Onto
  <2>3. /\ task' \in Task
        /\ \/ task'.at = "idle"
           \/ task'.at = "stop" /\ task'.why = "orphan" /\ mem.leased
           \/ task'.at = "remove" /\ task'.why = "orphan" /\ ~mem.leased
    <3>1. CASE Sleep
      BY Zenon, <1>1, <3>1, TaskSteps
    <3>2. CASE mem.leased /\ task' = Onto(task, "stop", "orphan")
      BY Zenon, <1>1, <3>2, TaskWhy
    <3>3. CASE ~mem.leased /\ task' = Onto(task, "remove", "orphan")
      BY Zenon, <1>1, <3>3, TaskWhy
    <3> QED  BY Zenon, <2>2, <3>1, <3>2, <3>3
  <2>4. PlaceInv'
    BY <2>1, <2>3 DEF PlaceInv
  <2> QED  BY Zenon, <1>1, <2>1, <2>3, <2>4, Local
<1> QED  BY Zenon, <1>3, <1>4, <1>5, <1>6, <1>7

\* A step at HarborLink that the worker takes no note of in its entries.
LEMMA Outward ==
  ASSUME RecordingInv, LinkInv', Onward, UNCHANGED <<mem, disk>>, task' \in Task, PlaceInv'
  PROVE  RecordingInv'
<1>1. EntryOK(mem, link') /\ EntryOK(disk, link')
  BY Zenon, EntryOnward DEF RecordingInv
<1> QED  BY Zenon, <1>1 DEF RecordingInv

\* start_event_recording: the entry is made before the call.
LEMMA InvStart ==
  ASSUME RecordingInv, Adopt \/ NoCurrent \/ Start \/ StartIsOver \/ Started
  PROVE  RecordingInv'
<1>1. LinkInv /\ EntryOK(mem, link) /\ EntryOK(disk, link) /\ task \in Task
  BY Zenon DEF RecordingInv
<1>2. streams \in [Event -> Profiles]
  BY Zenon, <1>1 DEF LinkInv
<1>3. ASSUME NEW e \in Event, link[e] /= "absent", mem' = Adopted(e),
             \E ok \in BOOLEAN : Save(Adopted(e), ok), Sleep,
             UNCHANGED <<next_event, registered, aged, overdue, harborlink>>
      PROVE  RecordingInv'
  <2>1. Adopted(e) = Held(e, streams[e])
    BY Zenon DEF Adopted, Held
  <2>2. streams[e] \in Profiles
    BY Zenon, <1>2
  <2>3. EntryOK(Adopted(e), link)
    BY Zenon, <1>3, <2>1, <2>2, PlainEntries
  <2>4. task' \in Task /\ task'.at = "idle"
    BY Zenon, <1>1, <1>3, TaskSteps
  <2>5. PlaceInv'
    BY Zenon, <2>4, Anywhere
  <2>6. disk' = disk \/ disk' = Adopted(e)
    BY Zenon, <1>3, Saved
  <2> QED  BY Zenon, <1>3, <2>3, <2>4, <2>5, <2>6, Local
<1>4. CASE Adopt
  <2>1. current \in Event /\ link[current] /= "absent"
    <3>1. current /= 0 /\ link[current] /= "absent"
      BY <1>4 DEF Adopt, Answers
    <3> QED  BY Zenon, <1>1, <3>1, LinkEvents
  <2> QED  BY Zenon, <1>3, <1>4, <2>1 DEF Adopt
<1>5. CASE Started
  <2>1. mem.phase = "pending_start" /\ link[mem.event] /= "absent"
    BY Zenon, <1>5 DEF Started, RecordingInv, PlaceInv
  <2>2. mem.event \in Event
    BY Zenon, <1>1, <2>1, EventOf DEF EntryOK
  <2> QED  BY Zenon, <1>3, <1>5, <2>1, <2>2 DEF Started
<1>6. CASE NoCurrent
  <2>1. task' \in Task /\ task'.at = "start"
    BY Zenon, <1>1, <1>6, TaskSteps, Places DEF NoCurrent
  <2>2. UNCHANGED <<mem, disk, next_event, registered, aged, overdue, harborlink>> /\ ~mem.leased
    BY Zenon, <1>6 DEF NoCurrent, RecordingInv, PlaceInv
  <2>3. PlaceInv'
    BY <2>1, <2>2 DEF PlaceInv
  <2> QED  BY Zenon, <1>1, <2>1, <2>2, <2>3, Local
<1>7. CASE StartIsOver
  <2>1. task' \in Task /\ task'.at = "idle" /\ UNCHANGED <<mem, disk, next_event, registered, aged, overdue, harborlink>>
    BY Zenon, <1>1, <1>7, TaskSteps DEF StartIsOver
  <2>2. PlaceInv'
    BY Zenon, <2>1, Anywhere
  <2> QED  BY Zenon, <1>1, <2>1, <2>2, Local
<1>8. CASE Start
  <2> DEFINE n == next_event + 1  q == Pending(n, task.profile)
  <2>1. /\ next_event' = n /\ mem' = q /\ n \in Event /\ n \in 0..MaxEvents /\ n > next_event
        /\ n \notin 1..next_event /\ 1..next_event \subseteq 1..n /\ 0..next_event \subseteq 0..n
        /\ \A e \in Event : e > n => e > next_event
    <3>1. next_event \in 0..MaxEvents /\ next_event < MaxEvents /\ MaxEvents \in Nat
      BY <1>1, <1>8, EventAssumption DEF Start, LinkInv
    <3> QED  BY <1>8, <3>1 DEF Start, Event
  <2>2. EntryOK(q, link) /\ q.phase = "pending_start" /\ q.event = n
    <3>1. task.profile \in Profiles
      BY Zenon, <1>1, TaskParts
    <3> QED  BY Zenon, <2>1, <3>1, PlainEntries, Entries
  <2>3. UNCHANGED <<registered, aged, overdue, link, streams, artifact, current, inflight>>
    BY Zenon, <1>8 DEF Start, harborlink
  <2>4. link[n] = "absent" /\ n \notin inflight
    BY Zenon, <1>1, <2>1 DEF LinkInv
  <2>5. LinkInv'
    BY Zenon, <1>1, <2>1, <2>3 DEF LinkInv
  <2>6. \/ disk' = q /\ Goto("starting")
        \/ (disk' = q \/ disk' = disk) /\ Sleep
    BY Zenon, <1>8 DEF Start, Save
  <2> HIDE DEF q, n
  <2>7. task' \in Task /\ ((task'.at = "starting" /\ disk' = q) \/ task'.at = "idle")
    BY Zenon, <1>1, <2>6, TaskSteps, Places
  <2>8. PlaceInv'
    <3>1. CASE task'.at = "starting" /\ disk' = q
      BY <2>1, <2>2, <2>3, <2>4, <3>1 DEF PlaceInv
    <3>2. CASE task'.at = "idle"
      BY Zenon, <3>2, Anywhere
    <3> QED  BY Zenon, <2>7, <3>1, <3>2
  <2>9. EntryOK(mem', link') /\ EntryOK(disk', link')
    BY Zenon, <1>1, <2>1, <2>2, <2>3, <2>6
  <2> QED  BY Zenon, <2>5, <2>7, <2>8, <2>9 DEF RecordingInv
<1> QED  BY Zenon, <1>4, <1>5, <1>6, <1>7, <1>8

\* The calls of HarborLink that start and stop recordings.
LEMMA InvCalls ==
  ASSUME RecordingInv, Starting \/ Stop \/ StopCurrent
  PROVE  RecordingInv'
<1>1. LinkInv /\ EntryOK(mem, link) /\ EntryOK(disk, link) /\ task \in Task
  BY Zenon DEF RecordingInv
<1>2. CASE Starting
  <2>1. /\ mem.phase = "pending_start" /\ mem.event = next_event /\ link[mem.event] = "absent"
        /\ mem.event \notin inflight
    BY Zenon, <1>2 DEF Starting, RecordingInv, PlaceInv
  <2>2. mem.event \in Event /\ mem.event \in 1..next_event
    <3>1. mem.event \in Event
      BY Zenon, <1>1, <2>1, EventOf DEF EntryOK
    <3> QED  BY <2>1, <3>1 DEF Event
  <2>3. task.profile \in Profiles
    BY Zenon, <1>1, TaskParts
  <2>4. UNCHANGED <<mem, disk, next_event, registered, aged, artifact>>
    BY Zenon, <1>2 DEF Starting
  <2>5. CASE Begins(mem.event, task.profile) /\ UNCHANGED <<inflight, overdue>> /\ (Goto("started") \/ Sleep)
    <3>1. inflight' = inflight \ {mem.event}
      BY Zenon, <2>1, <2>5
    <3>2. LinkInv' /\ Onward /\ link'[mem.event] /= "absent"
      BY Zenon, <1>1, <2>1, <2>2, <2>3, <2>4, <2>5, <3>1, LinkBegins
    <3>3. task' \in Task /\ task'.at \in {"started", "idle"}
      BY Zenon, <1>1, <2>5, TaskSteps, Places
    <3>4. PlaceInv'
      BY <2>1, <2>4, <3>2, <3>3 DEF PlaceInv
    <3> QED  BY Zenon, <2>4, <3>2, <3>3, <3>4, Outward
  <2>6. CASE /\ inflight' = inflight \cup {mem.event}
             /\ overdue' = overdue \cup ({mem.event} \cap aged)
             /\ streams' = [streams EXCEPT ![mem.event] = task.profile]
             /\ UNCHANGED <<link, current>> /\ Sleep
    <3>1. LinkInv'
      <4>1. streams' \in [Event -> Profiles]
        BY Zenon, <1>1, <2>3, <2>6 DEF LinkInv
      <4>2. inflight' \subseteq 1..next_event
        BY Zenon, <1>1, <2>2, <2>6 DEF LinkInv
      <4>3. \A e \in inflight' : link[e] = "absent"
        BY Zenon, <1>1, <2>1, <2>6 DEF LinkInv
      <4>4. overdue' \subseteq aged /\ \A e \in aged : e \in inflight' => e \in overdue'
        BY Zenon, <1>1, <2>6 DEF LinkInv
      <4> QED  BY Zenon, <1>1, <2>4, <2>6, <4>1, <4>2, <4>3, <4>4 DEF LinkInv
    <3>2. Onward
      BY Zenon, <2>4, <2>6 DEF Onward
    <3>3. task' \in Task /\ task'.at = "idle"
      BY Zenon, <1>1, <2>6, TaskSteps
    <3>4. PlaceInv'
      BY Zenon, <3>3, Anywhere
    <3> QED  BY Zenon, <2>4, <3>1, <3>2, <3>3, <3>4, Outward
  <2>7. CASE UNCHANGED <<link, streams, current, inflight, overdue>> /\ Sleep
    <3>1. LinkInv' /\ Onward
      BY Zenon, <1>1, <2>4, <2>7, LinkSame DEF harborlink
    <3>2. task' \in Task /\ task'.at = "idle"
      BY Zenon, <1>1, <2>7, TaskSteps
    <3>3. PlaceInv'
      BY Zenon, <3>2, Anywhere
    <3> QED  BY Zenon, <2>4, <3>1, <3>2, <3>3, Outward
  <2> QED  BY Zenon, <1>2, <2>5, <2>6, <2>7 DEF Starting
<1>3. CASE Stop
  <2>1. mem.leased /\ task.why /= "reconcile"
    BY Zenon, <1>3 DEF Stop, RecordingInv, PlaceInv
  <2>2. mem.event \in Event /\ mem.event /= 0 /\ link[mem.event] /= "absent"
    BY Zenon, <1>1, <2>1, EventOf DEF EntryOK
  <2>3. UNCHANGED <<mem, disk, next_event, registered, aged, overdue, streams, current, inflight>>
    BY Zenon, <1>3 DEF Stop
  <2>4. Ends(mem.event) => LinkInv' /\ Onward /\ link'[mem.event] = "done"
    BY Zenon, <1>1, <2>2, <2>3, LinkEnds
  <2>5. UNCHANGED <<link, artifact>> => LinkInv' /\ Onward
    BY Zenon, <1>1, <2>3, LinkSame DEF harborlink
  <2>6. \/ Ends(mem.event) /\ Goto("register")
        \/ /\ Ends(mem.event) \/ UNCHANGED <<link, artifact>>
           /\ task' = [task EXCEPT !.at = "reconcile", !.after = "idle"]
    BY Zenon, <1>3 DEF Stop
  <2>7. CASE Ends(mem.event) /\ Goto("register")
    <3>1. task' \in Task /\ task'.at = "register" /\ task'.why = task.why
      BY Zenon, <1>1, <2>7, TaskSteps, Places
    <3>2. LinkInv' /\ Onward /\ link'[mem.event] = "done"
      BY Zenon, <2>4, <2>7
    <3>3. PlaceInv'
      BY <2>1, <2>2, <2>3, <3>1, <3>2 DEF PlaceInv
    <3> QED  BY Zenon, <2>3, <3>1, <3>2, <3>3, Outward
  <2>8. CASE /\ Ends(mem.event) \/ UNCHANGED <<link, artifact>>
             /\ task' = [task EXCEPT !.at = "reconcile", !.after = "idle"]
    <3>1. task' \in Task /\ task'.at = "reconcile"
      BY Zenon, <1>1, <2>8, TaskAfter
    <3>2. LinkInv' /\ Onward
      BY Zenon, <2>4, <2>5, <2>8
    <3>3. PlaceInv'
      BY Zenon, <3>1, Anywhere
    <3> QED  BY Zenon, <2>3, <3>1, <3>2, <3>3, Outward
  <2> QED  BY Zenon, <2>6, <2>7, <2>8
<1>4. CASE StopCurrent
  <2>1. current \in Event /\ link[current] /= "absent"
    <3>1. current /= 0 /\ link[current] /= "absent"
      BY <1>4 DEF StopCurrent, Answers
    <3> QED  BY Zenon, <1>1, <3>1, LinkEvents
  <2>2. UNCHANGED <<mem, disk, next_event, aged, overdue, streams, current, inflight>> /\ ~mem.leased
    BY Zenon, <1>4 DEF StopCurrent, RecordingInv, PlaceInv
  <2>3. /\ \/ /\ Ends(current)
              /\ registered' = registered \/ registered' = registered \cup ({current} \cap artifact')
           \/ UNCHANGED <<link, artifact, registered>>
        /\ Goto("start") \/ Sleep
    BY Zenon, <1>4 DEF StopCurrent
  <2>4. LinkInv' /\ Onward
    <3>1. CASE /\ Ends(current)
               /\ registered' = registered \/ registered' = registered \cup ({current} \cap artifact')
      BY Zenon, <1>1, <2>1, <2>2, <3>1, LinkEnds
    <3>2. CASE UNCHANGED <<link, artifact, registered>>
      BY Zenon, <1>1, <2>2, <3>2, LinkSame DEF harborlink
    <3> QED  BY Zenon, <2>3, <3>1, <3>2
  <2>5. task' \in Task /\ task'.at \in {"start", "idle"}
    BY Zenon, <1>1, <2>3, TaskSteps, Places
  <2>6. PlaceInv'
    BY <2>2, <2>5 DEF PlaceInv
  <2> QED  BY Zenon, <2>2, <2>4, <2>5, <2>6, Outward
<1> QED  BY Zenon, <1>2, <1>3, <1>4

\* The process ends and begins.
LEMMA InvProcessLife ==
  ASSUME RecordingInv, Boot \/ Crash
  PROVE  RecordingInv'
<1>1. task' \in Task /\ task'.at \in {"idle", "down"}
  BY Zenon, TaskRests DEF Boot, Crash
<1>2. PlaceInv'
  BY Zenon, <1>1, Anywhere
<1>3. EntryOK(mem', link) /\ UNCHANGED <<disk, next_event, registered, aged, overdue, harborlink>>
  BY Zenon, PlainEntries DEF Boot, Crash, RecordingInv
<1> QED  BY Zenon, <1>1, <1>2, <1>3, Local

\* HarborLink goes on while the worker is where it is.
LEMMA PlaceOnward ==
  ASSUME RecordingInv, Onward, UNCHANGED <<mem, disk, task, next_event, registered>>,
         aged \subseteq aged', overdue \subseteq overdue', artifact \subseteq artifact',
         \A e \in Event : link[e] = "absent" /\ e \notin inflight => link'[e] = "absent" /\ e \notin inflight',
         \A e \in aged : link[e] /= "running" => link'[e] /= "running" \/ e \in overdue
  PROVE  PlaceInv'
<1>1. PlaceInv /\ EntryOK(mem, link) /\ mem \in State \cup {NoState}
  BY Zenon DEF RecordingInv, EntryOK
<1>2. CASE task.at = "starting"
  <2>1. /\ mem.phase = "pending_start" /\ mem.event = next_event /\ link[mem.event] = "absent"
        /\ mem.event \notin inflight /\ disk = mem
    BY Zenon, <1>1, <1>2 DEF PlaceInv
  <2>2. mem.event \in Event
    BY Zenon, <1>1, <2>1, EventOf DEF EntryOK
  <2>3. link'[mem.event] = "absent" /\ mem.event \notin inflight'
    BY Zenon, <2>1, <2>2
  <2> QED  BY <1>2, <2>1, <2>3 DEF PlaceInv
<1>3. CASE task.at = "started"
  <2>1. mem.phase = "pending_start" /\ link[mem.event] /= "absent"
    BY Zenon, <1>1, <1>3 DEF PlaceInv
  <2>2. mem.event \in Event
    BY Zenon, <1>1, <2>1, EventOf DEF EntryOK
  <2>3. link'[mem.event] /= "absent"
    BY Zenon, <2>1, <2>2 DEF Onward
  <2> QED  BY <1>3, <2>1, <2>3 DEF PlaceInv
<1>4. CASE task.at = "register"
  <2>1. /\ mem.event /= 0 /\ link[mem.event] = "done"
        /\ task.why = "reconcile" => mem.event \in artifact
    BY Zenon, <1>1, <1>4 DEF PlaceInv
  <2>2. mem.event \in Event
    BY Zenon, <1>1, <2>1, EventOf
  <2>3. link'[mem.event] = "done" /\ (task.why = "reconcile" => mem.event \in artifact')
    BY Zenon, <2>1, <2>2 DEF Onward
  <2> QED  BY <1>4, <2>1, <2>3 DEF PlaceInv
<1>5. CASE task.at = "remove"
  <2>1. mem.leased => link'[mem.event] = "done" /\ (mem.event \in artifact' => mem.event \in registered)
    <3> HAVE mem.leased
    <3>1. mem.event \in Event
      BY Zenon, <1>1, EventOf DEF EntryOK
    <3>2. link[mem.event] = "done" /\ (mem.event \in artifact => mem.event \in registered)
      BY Zenon, <1>1, <1>5 DEF PlaceInv
    <3> QED  BY Zenon, <3>1, <3>2 DEF Onward
  <2>2. task.why = "reconcile" => \/ mem.event \in registered
                                  \/ /\ mem.event \in aged'
                                     /\ link'[mem.event] /= "running" \/ mem.event \in overdue'
    BY Zenon, <1>1, <1>5 DEF PlaceInv
  <2> QED  BY <1>5, <2>1, <2>2 DEF PlaceInv
<1>6. CASE task.at \notin {"starting", "started", "register", "remove"}
  BY <1>1, <1>6 DEF PlaceInv
<1> QED  BY Zenon, <1>2, <1>3, <1>4, <1>5, <1>6

\* Recordings expire, are finalized, and begin late; pending starts time out.
LEMMA InvLink ==
  ASSUME RecordingInv, NEW e \in Event, LinkStep(e) \/ Age(e)
  PROVE  RecordingInv'
<1>1. LinkInv /\ task \in Task /\ link \in [Event -> LinkStates]
  BY Zenon DEF RecordingInv, LinkInv
<1>2. ASSUME LinkInv', Onward, UNCHANGED worker,
             aged \subseteq aged', overdue \subseteq overdue', artifact \subseteq artifact',
             \A f \in Event : link[f] = "absent" /\ f \notin inflight => link'[f] = "absent" /\ f \notin inflight',
             \A f \in aged : link[f] /= "running" => link'[f] /= "running" \/ f \in overdue
      PROVE  RecordingInv'
  <2>1. UNCHANGED <<mem, disk, task, next_event, registered>>
    BY Zenon, <1>2 DEF worker
  <2>2. PlaceInv'
    BY Zenon, <1>2, <2>1, PlaceOnward
  <2> QED  BY Zenon, <1>1, <1>2, <2>1, <2>2, Outward
<1>3. CASE Expire(e)
  <2>1. /\ link[e] = "running" /\ link' = [link EXCEPT ![e] = "finalizing"]
        /\ UNCHANGED <<worker, aged, overdue, streams, artifact, current, inflight>>
    BY Zenon, <1>3 DEF Expire
  <2>2. link'[e] = "finalizing" /\ \A f \in Event : f /= e => link'[f] = link[f]
    BY Zenon, <1>1, <2>1
  <2>3. link' \in [Event -> LinkStates]
    <3>1. "finalizing" \in LinkStates
      BY DEF LinkStates, Recording
    <3> QED  BY Zenon, <1>1, <2>1, <3>1
  <2>4. "finalizing" /= "absent" /\ "finalizing" /= "running" /\ link[e] /= "absent" /\ link[e] /= "done"
    BY <2>1
  <2>5. Onward
    BY Zenon, <2>1, <2>2, <2>4 DEF Onward
  <2>6. \A f \in artifact : f \in Event /\ link'[f] = "done"
    BY Zenon, <1>1, <2>2, <2>4 DEF LinkInv
  <2>7. \A f \in Event : link'[f] = "running" => f = current
    BY Zenon, <1>1, <2>2, <2>4 DEF LinkInv
  <2>8. \A f \in Event : f > next_event => link'[f] = "absent"
    BY Zenon, <1>1, <2>2, <2>4 DEF LinkInv
  <2>9. \A f \in inflight : link'[f] = "absent"
    BY Zenon, <1>1, <2>2, <2>4, LinkEvents DEF LinkInv
  <2>10. LinkInv'
    BY Zenon, <1>1, <2>1, <2>3, <2>6, <2>7, <2>8, <2>9 DEF LinkInv, worker
  <2>11. \A f \in aged : link[f] /= "running" => link'[f] /= "running"
    BY Zenon, <1>1, <2>2, <2>4, LinkEvents
  <2>12. \A f \in Event : link[f] = "absent" => link'[f] = "absent"
    BY Zenon, <2>2, <2>4
  <2> QED  BY Zenon, <1>2, <2>1, <2>5, <2>10, <2>11, <2>12
<1>4. CASE Finalize(e)
  <2>1. /\ link[e] = "finalizing" /\ Ends(e) /\ link[e] /= "absent"
        /\ UNCHANGED <<worker, aged, overdue, streams, current, inflight>>
    BY <1>4 DEF Finalize
  <2>2. LinkInv' /\ Onward /\ link'[e] = "done"
    BY Zenon, <1>1, <2>1, LinkEnds DEF worker
  <2>3. \A f \in Event : f /= e => link'[f] = link[f]
    BY Zenon, <1>1, <2>1 DEF Ends
  <2>4. artifact \subseteq artifact'
    <3>1. artifact' = artifact \/ artifact' = artifact \cup {e}
      BY <2>1 DEF Ends
    <3> QED  BY Zenon, <3>1
  <2>5. \A f \in Event : link[f] = "absent" => link'[f] = "absent"
    BY Zenon, <2>1, <2>3
  <2>6. \A f \in aged : link[f] /= "running" => link'[f] /= "running"
    BY Zenon, <1>1, <2>2, <2>3, LinkEvents
  <2> QED  BY Zenon, <1>2, <2>1, <2>2, <2>4, <2>5, <2>6
<1>5. CASE LateStart(e)
  <2>1. /\ e \in inflight /\ inflight' = inflight \ {e} /\ Begins(e, streams[e])
        /\ UNCHANGED <<worker, aged, overdue, artifact>>
    BY Zenon, <1>5 DEF LateStart
  <2>2. e \in 1..next_event /\ link[e] = "absent" /\ streams[e] \in Profiles /\ (e \in aged => e \in overdue)
    BY Zenon, <1>1, <2>1 DEF LinkInv
  <2>3. /\ LinkInv' /\ Onward
        /\ \A f \in Event : f /= e => link'[f] = link[f] \/ link'[f] = "finalizing"
    BY Zenon, <1>1, <2>1, <2>2, LinkBegins DEF worker
  <2>4. \A f \in Event : link[f] = "absent" /\ f \notin inflight => link'[f] = "absent" /\ f \notin inflight'
    <3> TAKE f \in Event
    <3>1. link'[f] = IF f = e THEN "running"
                     ELSE IF link[f] = "running" THEN "finalizing" ELSE link[f]
      BY Zenon, <2>1 DEF Begins
    <3> QED  BY <2>1, <3>1
  <2>5. \A f \in aged : link[f] /= "running" => link'[f] /= "running" \/ f \in overdue
    <3>1. \A f \in aged : f \in Event /\ (f = e => f \in overdue)
      BY Zenon, <1>1, <2>2, LinkEvents
    <3>2. "finalizing" /= "running"
      OBVIOUS
    <3> QED  BY Zenon, <2>3, <3>1, <3>2
  <2> QED  BY Zenon, <1>2, <2>1, <2>3, <2>4, <2>5
<1>6. CASE Age(e)
  <2>1. /\ e \in 1..next_event /\ aged' = aged \cup {e} /\ UNCHANGED worker
        /\ overdue' = overdue \cup ({e} \cap inflight)
    BY Zenon, <1>6 DEF Age
  <2>2. UNCHANGED <<link, streams, artifact, current, inflight>>
    BY Zenon, <1>6 DEF Age, harborlink
  <2>3. /\ aged' \subseteq 1..next_event /\ overdue' \subseteq aged'
        /\ \A f \in aged' : f \in inflight => f \in overdue'
    BY Zenon, <1>1, <2>1 DEF LinkInv
  <2>4. LinkInv'
    BY Zenon, <1>1, <2>1, <2>2, <2>3 DEF LinkInv, worker
  <2>5. Onward
    BY Zenon, <2>2 DEF Onward
  <2> QED  BY Zenon, <1>2, <2>1, <2>2, <2>4, <2>5
<1> QED  BY Zenon, <1>3, <1>4, <1>5, <1>6 DEF LinkStep

\* At the start nothing has been recorded.
LEMMA InvInit == Init => RecordingInv
<1> SUFFICES ASSUME Init PROVE RecordingInv
  OBVIOUS
<1>1. task \in Task /\ task.at = "down"
  BY Zenon, TaskRests DEF Init
<1>2. PlaceInv
  BY <1>1 DEF PlaceInv
<1>3. EntryOK(mem, link) /\ EntryOK(disk, link)
  BY Zenon, PlainEntries DEF Init
<1>4. next_event = 0 /\ current = 0 /\ 0 \in 0..MaxEvents /\ 0 \in 0..0
  BY EventAssumption DEF Init
<1>5. link \in [Event -> LinkStates] /\ streams \in [Event -> Profiles]
  BY Zenon DEF Init, LinkStates, Profiles
<1>6. \A e \in Event : link[e] = "absent"
  BY Zenon DEF Init
<1>7. registered = {} /\ aged = {} /\ overdue = {} /\ artifact = {} /\ inflight = {}
  BY Zenon DEF Init
<1>8. LinkInv
  BY <1>4, <1>5, <1>6, <1>7 DEF LinkInv
<1> QED  BY Zenon, <1>1, <1>2, <1>3, <1>8 DEF RecordingInv

\* Every step of the worker, of HarborLink and of time keeps the invariant.
LEMMA InvStep == RecordingInv /\ [Next]_vars => RecordingInv'
<1> SUFFICES ASSUME RecordingInv, [Next]_vars PROVE RecordingInv'
  OBVIOUS
<1>1. CASE WorkerStep
  BY Zenon, <1>1, InvReconcile, InvRemove, InvProcess, InvStart, InvCalls, InvProcessLife
  DEF WorkerStep, Reconciled
<1>2. CASE Crash
  BY Zenon, <1>2, InvProcessLife
<1>3. CASE UNCHANGED vars
  BY Zenon, <1>3 DEF vars, worker, harborlink, RecordingInv, LinkInv, PlaceInv
<1> QED  BY Zenon, <1>1, <1>2, <1>3, InvLink DEF Next

\* The worker's entries, the ledger and HarborLink's recordings fit together in every
\* reachable state, whatever crashed, failed, expired or came late on the way.
THEOREM RecordingInvariant == Spec => []RecordingInv
BY InvInit, InvStep, PTL DEF Spec

\* Entries and tasks keep their shape, only a pending start waits for a lease, and
\* HarborLink has a recording for every lease (CatRecordingReconciliationState).
THEOREM RecordingTyped == Spec => []TypeOK
<1>1. RecordingInv => TypeOK
  BY Zenon DEF RecordingInv, LinkInv, EntryOK, LinkStates, Profiles, TypeOK
<1> QED  BY <1>1, RecordingInvariant, PTL

\* HarborLink is asked to record an event only when the ledger has it
\* (start_event_recording saves the pending start before the call).
THEOREM AskedIsDurable == Spec => StartIsDurable
<1>1. ASSUME RecordingInv, Next, NEW e \in Event, link[e] = "absent", link'[e] = "running",
             e \notin inflight
      PROVE  disk.event = e
  <2>1. link \in [Event -> LinkStates]
    BY Zenon, <1>1 DEF RecordingInv, LinkInv
  <2>2. link' /= link
    BY <1>1
  <2>3. ASSUME NEW f, Ends(f) \/ Expire(f)
        PROVE  FALSE
    <3>1. link' = [link EXCEPT ![f] = "done"] \/ link' = [link EXCEPT ![f] = "finalizing"]
      BY Zenon, <2>3 DEF Ends, Expire
    <3> QED  BY <1>1, <2>1, <3>1
  <2>4. ASSUME NEW f, NEW p, Begins(f, p)
        PROVE  f = e
    <3>1. link'[e] = IF e = f THEN "running"
                     ELSE IF link[e] = "running" THEN "finalizing" ELSE link[e]
      BY Zenon, <2>4 DEF Begins
    <3> QED  BY <1>1, <3>1
  <2>5. CASE Starting
    <3>1. disk = mem
      BY Zenon, <1>1, <2>5 DEF Starting, RecordingInv, PlaceInv
    <3>2. Begins(mem.event, task.profile)
      BY Zenon, <2>2, <2>5 DEF Starting
    <3> QED  BY Zenon, <2>4, <3>1, <3>2
  <2>6. CASE Stop \/ StopCurrent \/ \E f \in Event : Finalize(f) \/ Expire(f)
    <3>1. \E f : Ends(f) \/ Expire(f)
      BY Zenon, <2>2, <2>6 DEF Stop, StopCurrent, Finalize
    <3> QED  BY Zenon, <2>3, <3>1
  <2>7. CASE \E f \in Event : LateStart(f)
    BY Zenon, <1>1, <2>4, <2>7 DEF LateStart
  <2>8. CASE \E f \in Event : Age(f)
    BY Zenon, <2>2, <2>8 DEF Age, harborlink
  <2>9. CASE WorkerStep /\ ~Starting /\ ~Stop /\ ~StopCurrent
    <3>1. UNCHANGED harborlink
      BY Zenon, <2>9 DEF WorkerStep, Reconciled, Tick, ReconcileNothing, ReconcileFails, Recover,
         FindArtifact, ForgetPendingStart, Register, Remove, NoDetection, Detect, Transition,
         SaveEvidence, Renew, Adopt, NoCurrent, Start, StartIsOver, Started, StopOrphaned, Boot
    <3> QED  BY Zenon, <2>2, <3>1 DEF harborlink
  <2>10. CASE Crash
    BY Zenon, <2>2, <2>10 DEF Crash, harborlink
  <2> QED  BY Zenon, <1>1, <2>5, <2>6, <2>7, <2>8, <2>9, <2>10 DEF Next, LinkStep
<1>2. RecordingInv /\ [Next]_vars =>
        [\A e \in Event : link[e] = "absent" /\ link'[e] = "running" /\ e \notin inflight
           => disk.event = e]_vars
  BY Zenon, <1>1
<1> QED  BY <1>2, RecordingInvariant, PTL DEF Spec, StartIsDurable

\* A recording with a known lease leaves the ledger only when it is over and its artifact,
\* if any, has been handed to validation (register_cat_recording_validation_artifacts
\* before the removal), whatever failed, crashed or was retried on the way.
THEOREM LeasesAreKept == Spec => ActiveIsKept
<1>1. ASSUME RecordingInv, Next, NEW e \in Event, Known(e), disk'.event /= e
      PROVE  link[e] = "done" /\ (e \in artifact => e \in registered)
  <2>1. mem.leased /\ mem.event = e /\ disk.event = e
    BY Zenon, <1>1 DEF Known
  <2>2. disk' /= disk /\ disk' /= mem
    BY Zenon, <1>1, <2>1
  <2>3. CASE Remove
    BY Zenon, <1>1, <2>1, <2>3 DEF Remove, RecordingInv, PlaceInv
  <2>4. ~Recover
    <3> SUFFICES ASSUME Recover PROVE FALSE
      OBVIOUS
    <3>1. disk' = Held(mem.event, streams[mem.event])
      BY Zenon, <2>2 DEF Recover, Save, Held
    <3> QED  BY <1>1, <2>1, <3>1 DEF Held
  <2>5. ~SaveEvidence /\ ~Renew
    BY Zenon, <2>2 DEF SaveEvidence, Renew, Save
  <2>6. ~Adopt /\ ~Start
    BY Zenon, <1>1, <2>1 DEF Adopt, Start, RecordingInv, PlaceInv
  <2>7. ~Started
    BY Zenon, <1>1, <2>1 DEF Started, RecordingInv, PlaceInv, EntryOK
  <2>8. CASE WorkerStep /\ ~Remove
    BY Zenon, <2>2, <2>4, <2>5, <2>6, <2>7, <2>8
    DEF WorkerStep, Reconciled, Tick, ReconcileNothing, ReconcileFails, FindArtifact,
        ForgetPendingStart, Register, NoDetection, Detect, Stop, Transition, StopCurrent,
        NoCurrent, StartIsOver, Starting, StopOrphaned, Boot
  <2>9. CASE Crash \/ \E f \in Event : LinkStep(f) \/ Age(f)
    BY Zenon, <2>2, <2>9 DEF Crash, LinkStep, Expire, Finalize, LateStart, Age, worker
  <2> QED  BY Zenon, <1>1, <2>3, <2>8, <2>9 DEF Next
<1>2. RecordingInv /\ [Next]_vars =>
        [\A e \in Event : Known(e) /\ disk'.event /= e =>
           /\ link[e] = "done"
           /\ e \in artifact => e \in registered]_vars
  BY Zenon, <1>1
<1> QED  BY <1>2, RecordingInvariant, PTL DEF Spec, ActiveIsKept

\* A pending start that is given up although HarborLink records it, or may yet, was still
\* under way when its 30 s were over (reconcile_cat_recording: not found, no artifact,
\* timed out).
THEOREM GivenUpStartsWereOverdue == Spec => GivenUpIsOverdue
<1>1. RecordingInv /\ [Next]_vars =>
        [task.at = "remove" /\ task.why = "reconcile" /\ mem /= NoState /\ mem' = NoState
         /\ task'.at /= "down" /\ mem.event \notin registered
         /\ (link[mem.event] = "running" \/ mem.event \in inflight)
           => mem.event \in overdue]_vars
  BY Zenon DEF RecordingInv, PlaceInv, LinkInv
<1> QED  BY <1>1, RecordingInvariant, PTL DEF Spec, GivenUpIsOverdue
=============================================================================
