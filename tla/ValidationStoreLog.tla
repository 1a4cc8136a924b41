------------------------- MODULE ValidationStoreLog -------------------------
(***************************************************************************)
(* The files behind CatRecordingValidationStore: an append-only main       *)
(* segment, immutable archives named by a generation, the generation's     *)
(* sidecar file, and the index every process keeps of them.                *)
(*                                                                         *)
(* An operation holds the store's lock from with_locked_index to its end.  *)
(* It repairs a torn tail, refreshes the index if the files' fingerprint   *)
(* is not the index's, and appends any number of records.  A file          *)
(* operation is a step, and between two of them the call may fail, the     *)
(* process may crash or the machine may lose its power.                    *)
(*                                                                         *)
(* A segment is a sequence of lines, a line a key and a value; the length  *)
(* of a segment is counted in lines.  A rename is durable when its step is *)
(* done (the directory is synced); a line is durable after sync_data.      *)
(***************************************************************************)
EXTENDS Integers, Sequences, FiniteSets

CONSTANTS
  Process,
  Key,        \* artifact ids
  Inode,      \* file identities of main segments; a free one may come back
  Threshold,  \* compaction_threshold_bytes, in lines
  MaxWrites,  \* bound: records handed to append_unlocked
  MaxFaults   \* bound: failed calls, crashes and power losses

ASSUME ThresholdAssumption == Threshold \in Nat \ {0}
ASSUME BoundAssumption     == MaxWrites \in Nat /\ MaxFaults \in Nat
ASSUME InodeAssumption     == 0 \notin Inode

VARIABLES
  generation,  \* the sidecar; 0 when there is none
  archives,    \* per generation, the segment archived under it
  main,        \* the whole lines of the main segment
  torn,        \* the main segment ends in part of a line
  inode,       \* its identity; 0 when there is no file
  synced,      \* how many of its lines are durable
  lock,        \* the process that holds the lock, if any
  pc, line,    \* per process: its place in an operation and the record in hand
  index,       \* per process: its ValidationStoreIndex
  acked,       \* auxiliary: per key, the value last written with success
  unacked,     \* auxiliary: and the values handed to append_unlocked since
  writes, faults

files == <<generation, archives, main, torn, inode, synced>>
vars  == <<files, lock, pc, line, index, acked, unacked, writes, faults>>

\* A value is the number of the write; 0 is no record.
Value == 0..MaxWrites
Line  == [key : Key, val : Value]

NoRecords == [k \in Key |-> 0]
NoLine    == [key |-> 0, val |-> 0]

Place == {"idle", "locked", "repaired", "ready", "append", "writing", "syncing",
          "archive", "replace", "appended"}

\* store_fingerprint.  Two segments may have the same modification time.
Fingerprint == <<generation, Len(main), torn, inode>>

Index == [initialized : BOOLEAN, latest : [Key -> Value],
          fingerprint : Nat \X Nat \X BOOLEAN \X (Inode \cup {0})]

Unread == [initialized |-> FALSE, latest |-> NoRecords, fingerprint |-> <<0, 0, FALSE, 0>>]

Init ==
  /\ generation = 0 /\ archives = << >> /\ main = << >> /\ torn = FALSE
  /\ inode = 0 /\ synced = 0
  /\ lock  = {}
  /\ pc    = [p \in Process |-> "idle"]
  /\ line  = [p \in Process |-> NoLine]
  /\ index = [p \in Process |-> Unread]
  /\ acked = NoRecords
  /\ unacked = [k \in Key |-> {}]
  /\ writes = 0 /\ faults = 0

-----------------------------------------------------------------------------
(* Reading.                                                                *)

Of(k, s) == {i \in DOMAIN s : s[i].key = k}

Newest(S) == CHOOSE i \in S : \A j \in S : j <= i

\* The value a segment ends up with for a key it has.
LastOf(k, s) == s[Newest(Of(k, s))].val

ArchivesOf(k, ar) == {g \in DOMAIN ar : Of(k, ar[g]) /= {}}

Archived(k, ar) ==
  IF ArchivesOf(k, ar) = {} THEN 0 ELSE LastOf(k, ar[Newest(ArchivesOf(k, ar))])

\* Archives by generation, then the main segment, later lines over earlier ones.
View(ar, s) == [k \in Key |-> IF Of(k, s) = {} THEN Archived(k, ar) ELSE LastOf(k, s)]

\* What scan_latest_unlocked finds.
Latest == View(archives, main)

\* read_generation and apply_strict_archive_records refuse the files.
Unreadable ==
  \E g \in DOMAIN archives : generation < g \/ archives[g] = << >>

-----------------------------------------------------------------------------
(* with_locked_index                                                       *)

Goto(p, at) == pc' = [pc EXCEPT ![p] = at]

\* The end of an operation, whatever its result.
Leave(p) ==
  /\ lock' = lock \ {p}
  /\ Goto(p, "idle")
  /\ line' = [line EXCEPT ![p] = NoLine]

Lock(p) ==
  /\ pc[p] = "idle" /\ lock = {}
  /\ lock' = {p}
  /\ Goto(p, "locked")
  /\ UNCHANGED <<files, line, index, acked, unacked, writes, faults>>

repair_truncated_tail(p) ==
  /\ pc[p] = "locked"
  /\ torn' = FALSE
  /\ synced' = IF torn THEN Len(main) ELSE synced
  /\ index' = IF torn
              THEN [index EXCEPT ![p] = [initialized |-> FALSE, latest |-> @.latest,
                                         fingerprint |-> @.fingerprint]]
              ELSE index
  /\ Goto(p, "repaired")
  /\ UNCHANGED <<generation, archives, main, inode, lock, line, acked, unacked, writes, faults>>

\* Mutant: the generation is not part of the fingerprint.
SameMain(p) == index[p].initialized /\ Tail(index[p].fingerprint) = Tail(Fingerprint)

IndexIsCurrent(p) == index[p].initialized /\ index[p].fingerprint = Fingerprint

refresh_index_if_needed(p) ==
  /\ pc[p] = "repaired"
  /\ IF ~IndexIsCurrent(p) /\ Unreadable
     THEN Leave(p) /\ UNCHANGED index
     ELSE /\ Goto(p, "ready")
          /\ index' = [index EXCEPT ![p] =
               IF IndexIsCurrent(p) THEN @
               ELSE [initialized |-> TRUE, latest |-> Latest, fingerprint |-> Fingerprint]]
          /\ UNCHANGED <<lock, line>>
  /\ UNCHANGED <<files, acked, unacked, writes, faults>>

Unlock(p) ==
  /\ pc[p] = "ready"
  /\ Leave(p)
  /\ UNCHANGED <<files, index, acked, unacked, writes, faults>>

-----------------------------------------------------------------------------
(* append_unlocked                                                         *)

\* Mutant: the segment is rotated only once it has passed the threshold.
FullAfterwards == Len(main) > Threshold

Full == Len(main) > 0 /\ Len(main) + 1 > Threshold

\* Mutant: a write does not take a generation of its own.
keep_generation == UNCHANGED generation

advance_generation == generation' = generation + 1

BeginAppend(p, k) ==
  /\ pc[p] = "ready" /\ writes < MaxWrites
  /\ advance_generation
  /\ line' = [line EXCEPT ![p] = [key |-> k, val |-> writes + 1]]
  /\ unacked' = [unacked EXCEPT ![k] = @ \cup {writes + 1}]
  /\ writes' = writes + 1
  /\ Goto(p, IF Full THEN "archive" ELSE "append")
  /\ UNCHANGED <<archives, main, torn, inode, synced, lock, index, acked, faults>>

\* Part of the line is in the file; a file that was missing is created first.
WritePart(p) ==
  /\ pc[p] = "append"
  /\ torn' = TRUE
  /\ inode' \in IF inode = 0 THEN Inode ELSE {inode}
  /\ Goto(p, "writing")
  /\ UNCHANGED <<generation, archives, main, synced, lock, line, index, acked, unacked,
                 writes, faults>>

WriteRest(p) ==
  /\ pc[p] = "writing"
  /\ torn' = FALSE
  /\ main' = Append(main, line[p])
  /\ Goto(p, "syncing")
  /\ UNCHANGED <<generation, archives, inode, synced, lock, line, index, acked, unacked,
                 writes, faults>>

\* Mutant: the line stays in the page cache.
SkipSync(p) ==
  /\ pc[p] = "syncing"
  /\ Goto(p, "appended")
  /\ UNCHANGED <<files, lock, line, index, acked, unacked, writes, faults>>

Sync(p) ==
  /\ pc[p] = "syncing"
  /\ synced' = Len(main)
  /\ Goto(p, "appended")
  /\ UNCHANGED <<generation, archives, main, torn, inode, lock, line, index, acked, unacked,
                 writes, faults>>

\* rotate_unlocked: the main segment is copied into an archive that must not
\* exist, ...
Archive(p) ==
  /\ pc[p] = "archive"
  /\ IF generation \in DOMAIN archives
     THEN Leave(p) /\ UNCHANGED archives
     ELSE /\ archives' = [g \in DOMAIN archives \cup {generation} |->
                            IF g = generation THEN main ELSE archives[g]]
          /\ Goto(p, "replace")
          /\ UNCHANGED <<lock, line>>
  /\ UNCHANGED <<generation, main, torn, inode, synced, index, acked, unacked,
                 writes, faults>>

\* ... and then replaced by a segment with the new line only.
Replace(p) ==
  /\ pc[p] = "replace"
  /\ main' = <<line[p]>>
  /\ inode' \in Inode \ {inode}
  /\ synced' = 1
  /\ Goto(p, "appended")
  /\ UNCHANGED <<generation, archives, torn, lock, line, index, acked, unacked, writes, faults>>

\* persist_index_record, after a successful append.
persist_index_record(p) ==
  LET k == line[p].key IN
  /\ pc[p] = "appended"
  /\ index' = [index EXCEPT ![p] =
       [initialized |-> @.initialized, latest |-> [@.latest EXCEPT ![k] = line[p].val],
        fingerprint |-> Fingerprint]]
  /\ acked' = [acked EXCEPT ![k] = line[p].val]
  /\ unacked' = [unacked EXCEPT ![k] = {}]
  /\ Goto(p, "ready")
  /\ line' = [line EXCEPT ![p] = NoLine]
  /\ UNCHANGED <<files, lock, writes, faults>>

-----------------------------------------------------------------------------
(* Faults.                                                                 *)

Fault == faults < MaxFaults /\ faults' = faults + 1

\* A call fails; the operation unlocks and returns the error.
Fail(p) ==
  /\ pc[p] /= "idle"
  /\ Fault
  /\ Leave(p)
  /\ UNCHANGED <<files, index, acked, unacked, writes>>

\* The process dies; its lock goes with it.
Crash(p) ==
  /\ Fault
  /\ Leave(p)
  /\ index' = [index EXCEPT ![p] = Unread]
  /\ UNCHANGED <<files, acked, unacked, writes>>

\* Lines that were not synced may be gone, in part or as a whole.
PowerLoss ==
  /\ Fault
  /\ \E n \in synced..Len(main) :
       /\ main'   = SubSeq(main, 1, n)
       /\ torn'   \in IF n < Len(main) \/ torn THEN BOOLEAN ELSE {FALSE}
       /\ synced' = n
  /\ lock'  = {}
  /\ pc'    = [p \in Process |-> "idle"]
  /\ line'  = [p \in Process |-> NoLine]
  /\ index' = [p \in Process |-> Unread]
  /\ UNCHANGED <<generation, archives, inode, acked, unacked, writes>>

Next ==
  \/ \E p \in Process :
       \/ Lock(p) \/ repair_truncated_tail(p) \/ refresh_index_if_needed(p) \/ Unlock(p)
       \/ \E k \in Key : BeginAppend(p, k)
       \/ WritePart(p) \/ WriteRest(p) \/ Sync(p) \/ Archive(p) \/ Replace(p)
       \/ persist_index_record(p)
       \/ Fail(p) \/ Crash(p)
  \/ PowerLoss

Spec == Init /\ [][Next]_vars

-----------------------------------------------------------------------------
(* Properties.                                                             *)

\* Every variable stays in its domain; the lock is held by the one process that
\* is inside an operation.
TypeOK ==
  /\ generation \in Nat /\ torn \in BOOLEAN /\ inode \in Inode \cup {0}
  /\ main \in Seq(Line) /\ synced \in 0..Len(main)
  /\ DOMAIN archives \subseteq Nat
  /\ \A g \in DOMAIN archives : archives[g] \in Seq(Line)
  /\ pc \in [Process -> Place] /\ line \in [Process -> Line \cup {NoLine}]
  /\ lock = {p \in Process : pc[p] /= "idle"}
  /\ \A p, q \in lock : p = q
  /\ index \in [Process -> Index]
  /\ acked \in [Key -> Value] /\ unacked \in [Key -> SUBSET Value]
  /\ writes \in 0..MaxWrites /\ faults \in 0..MaxFaults

\* What an operation reads and writes is current: whatever other processes,
\* failed calls and repairs did to the files since this process read them, its
\* index is what a scan would find.
IndexIsFresh ==
  \A p \in Process : pc[p] = "ready" => index[p].initialized /\ index[p].latest = Latest

\* A record whose write succeeded is never lost and never goes back: what a scan
\* finds is that record, or a later one whose writer did not learn of its fate.
AckedSurvives == \A k \in Key : Latest[k] \in {acked[k]} \cup unacked[k]

\* No fault leaves files behind that the store itself refuses to read, or an
\* archive in the way of the next rotation.
NeverWedged ==
  /\ ~Unreadable
  /\ \A p \in Process : pc[p] = "archive" => generation \notin DOMAIN archives

\* The main segment never outgrows the threshold that starts a rotation.
SegmentBounded == Len(main) <= Threshold
=============================================================================
