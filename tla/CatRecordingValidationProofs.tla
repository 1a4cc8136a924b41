-------------------- MODULE CatRecordingValidationProofs --------------------
(***************************************************************************)
(* Proofs about the validation queue, for any artifacts, workers, tokens   *)
(* and bounds: the inductive invariant behind its safety properties, what  *)
(* a step may do to a record and to a job, the bounds on attempts and      *)
(* DELETE calls, that no rejected recording is left behind, and that the   *)
(* queue implements the fate of recordings.                                *)
(***************************************************************************)
EXTENDS CatRecordingValidation, FiniteSetTheorems, TLAPS

-----------------------------------------------------------------------------
(* The invariant, record by record and job by job.                         *)

\* A record is well formed: its claim and its discard attempt go with its status
\* and its disposition, and only a rejected recording is ever condemned.
RecordOK(r) ==
  /\ r \in Record
  /\ r.published <=> r.status = "accepted"
  /\ r.token /= NoToken <=> r.status = "processing"
  /\ r.dtoken /= NoToken <=> r.disposition = "discard_pending"
  /\ r.live => r.status = "processing"
  /\ r.dlive => r.disposition = "discard_pending"
  /\ r.disposition /= "retained" => Enforce /\ r.status = "rejected"
  /\ r.discards <= MaxDiscardAttempts

Condemned(r) == Enforce /\ r.status = "rejected" /\ r.disposition /= "retained"

Discarding == {"deleting", "confirmed", "unconfirmed", "unmarked"}

\* What a worker has in hand is what the store made of it.
JobOK(w) ==
  /\ job[w] \in Job
  /\ job[w].at = "evaluating" => job[w].art \in Artifact /\ job[w].token \in Token
  /\ job[w].at \in Discarding => /\ job[w].art \in Artifact /\ job[w].token \in Token
                                 /\ Condemned(rec[job[w].art])
  /\ job[w].at = "confirmed" => job[w].art \in deleted

QueueInv ==
  /\ rec \in [Artifact -> Record]
  /\ job \in [Worker -> Job]
  /\ deleted \subseteq Artifact /\ inflight \subseteq Artifact /\ lost \subseteq Artifact
  /\ calls \in [Artifact -> Nat] /\ purged \subseteq Artifact
  /\ faults \in 0..MaxFaults
  /\ \A a \in Artifact : RecordOK(rec[a])
  /\ \A w \in Worker : JobOK(w)
  /\ \A a \in (deleted \cup inflight) \ purged : Condemned(rec[a])
  /\ \A a \in Artifact : rec[a].disposition = "discarded" => a \in deleted

-----------------------------------------------------------------------------
(* What the store does to one record.                                      *)

\* A token that SomeTokenIsFree promises is a token nobody holds.
LEMMA FreshToken == SomeTokenIsFree => NewToken \in Token /\ NewToken \notin Held
BY Zenon DEF SomeTokenIsFree, NewToken

\* A record that is registered is well formed.
LEMMA NewRecordOK ==
  ASSUME NEW n \in Nat, NEW status \in {"unregistered", "pending_validation"}
  PROVE  NewRecord(status, n) \in Record /\ RecordOK(NewRecord(status, n))
<1>1. 0 \in 0..AttemptCap /\ 0 <= MaxDiscardAttempts
  BY NumberAssumption
<1>2. NewRecord(status, n) \in Record
  BY Zenon, <1>1 DEF NewRecord, Record, Status, Disposition
<1> QED  BY Zenon, <1>1, <1>2 DEF RecordOK, NewRecord

\* Every way the store changes a record keeps it well formed, given what the
\* operation checked, and never takes back the decision to discard it.
LEMMA RecoveredOK ==
  ASSUME NEW r, RecordOK(r), r.status = "processing"
  PROVE  RecordOK(Recovered(r)) /\ ~Condemned(r)
BY Zenon, TokenAssumption DEF RecordOK, Record, Recovered, clear_processing_claim, Status, Condemned

\* claim_next_pending turns a pending record into one with a live claim.
LEMMA ClaimedOK ==
  ASSUME NEW r, RecordOK(r), r.status = "pending_validation", SomeTokenIsFree
  PROVE  RecordOK(Claimed(r)) /\ ~Condemned(r)
<1> DEFINE n == IF r.attempts < AttemptCap THEN r.attempts + 1 ELSE r.attempts
           q == [r EXCEPT !.status = "processing", !.published = FALSE, !.due = TRUE,
                          !.attempts = n, !.token = NewToken, !.live = TRUE]
<1>1. Claimed(r) = q
  BY Zenon DEF Claimed, RecordOK, Record
<1>2. n \in 0..AttemptCap
  BY NumberAssumption DEF RecordOK, Record
<1>3. NewToken \in Token /\ NewToken /= NoToken
  BY Zenon, FreshToken, TokenAssumption
<1> HIDE DEF n
<1>4. q \in Record
  BY Zenon, <1>2, <1>3 DEF RecordOK, Record, Status
<1>5. RecordOK(q)
  BY Zenon, <1>3, <1>4 DEF RecordOK, Record
<1> QED  BY Zenon, <1>1, <1>5 DEF Condemned

\* complete publishes exactly the accepted ones and clears the claim.
LEMMA ConcludedOK ==
  ASSUME NEW r, RecordOK(r), r.status = "processing", NEW v \in Final
  PROVE  RecordOK(Concluded(r, v)) /\ ~Condemned(r)
BY Zenon, TokenAssumption DEF RecordOK, Record, Concluded, clear_processing_claim, Status, Final, Condemned

\* schedule_retry puts the record back without a claim.
LEMMA PostponedOK ==
  ASSUME NEW r, RecordOK(r), r.status = "processing"
  PROVE  RecordOK(Postponed(r)) /\ ~Condemned(r)
BY Zenon, TokenAssumption DEF RecordOK, Record, Postponed, clear_processing_claim, Status, Condemned

\* defer_resource_contention gives the attempt back, never below zero.
LEMMA DeferredOK ==
  ASSUME NEW r, RecordOK(r), r.status = "processing"
  PROVE  RecordOK(Deferred(r)) /\ ~Condemned(r)
<1> DEFINE n == IF r.attempts > 0 THEN r.attempts - 1 ELSE 0
           q == [r EXCEPT !.attempts = n]
<1>1. Deferred(r) = Postponed(q)
  BY Zenon DEF Deferred, RecordOK, Record
<1>2. n \in 0..AttemptCap
  BY NumberAssumption DEF RecordOK, Record
<1> HIDE DEF n
<1>3. RecordOK(q) /\ q.status = "processing"
  BY Zenon, <1>2 DEF RecordOK, Record
<1> HIDE DEF q
<1> QED  BY Zenon, <1>1, <1>3, PostponedOK DEF Condemned

\* claim_artifact_discard condemns a rejected record, within its attempts.
LEMMA DiscardClaimedOK ==
  ASSUME NEW r, RecordOK(r), is_physical_discard_eligible(r),
         r.discards < MaxDiscardAttempts, SomeTokenIsFree
  PROVE  RecordOK(DiscardClaimed(r)) /\ Condemned(DiscardClaimed(r))
<1> DEFINE n == r.discards + 1
           q == [r EXCEPT !.disposition = "discard_pending", !.discards = n,
                          !.dtoken = NewToken, !.dlive = TRUE]
<1>1. DiscardClaimed(r) = q
  BY Zenon DEF DiscardClaimed, RecordOK, Record
<1>2. n \in Nat /\ n <= MaxDiscardAttempts
  BY NumberAssumption DEF RecordOK, Record
<1>3. NewToken \in Token /\ NewToken /= NoToken
  BY Zenon, FreshToken, TokenAssumption
<1> HIDE DEF n
<1>4. q \in Record
  BY Zenon, <1>2, <1>3 DEF RecordOK, Record, Disposition
<1>5. RecordOK(q) /\ Condemned(q)
  BY Zenon, <1>2, <1>3, <1>4 DEF RecordOK, Record, is_physical_discard_eligible, Condemned
<1> QED  BY Zenon, <1>1, <1>5

\* mark_artifact_discarded ends the attempt with a tombstone.
LEMMA DiscardedOK ==
  ASSUME NEW r, RecordOK(r), r.disposition = "discard_pending"
  PROVE  RecordOK(Discarded(r)) /\ Condemned(Discarded(r))
BY Zenon, TokenAssumption DEF RecordOK, Record, Discarded, Disposition, Condemned

\* mark_artifact_discard_failed ends the attempt and keeps the intent.
LEMMA DiscardFailedOK ==
  ASSUME NEW r, RecordOK(r), r.disposition = "discard_pending"
  PROVE  RecordOK(DiscardFailed(r)) /\ Condemned(DiscardFailed(r))
BY Zenon, TokenAssumption DEF RecordOK, Record, DiscardFailed, Disposition, Condemned

\* A deadline that passes leaves the rest of the record alone.
LEMMA LapsedOK ==
  ASSUME NEW r, RecordOK(r)
  PROVE  /\ RecordOK([r EXCEPT !.live = FALSE]) /\ (Condemned(r) => Condemned([r EXCEPT !.live = FALSE]))
         /\ RecordOK([r EXCEPT !.due = TRUE]) /\ (Condemned(r) => Condemned([r EXCEPT !.due = TRUE]))
         /\ RecordOK([r EXCEPT !.dlive = FALSE]) /\ (Condemned(r) => Condemned([r EXCEPT !.dlive = FALSE]))
BY Zenon DEF RecordOK, Record, Condemned

-----------------------------------------------------------------------------
(* What a step does to all the records.                                    *)

\* The records are well formed after the step, no discard decision is taken back
\* and a new tombstone is for a file that is gone.
RecordsKept ==
  /\ rec' \in [Artifact -> Record]
  /\ \A a \in Artifact :
       /\ RecordOK(rec'[a])
       /\ Condemned(rec[a]) => Condemned(rec'[a])
       /\ rec'[a].disposition = "discarded" => rec[a].disposition = "discarded" \/ a \in deleted

\* Leaving the records alone keeps them.
LEMMA SameRecords == QueueInv /\ UNCHANGED rec => RecordsKept
BY Zenon DEF QueueInv, RecordsKept

\* So does writing one well-formed record that keeps the discard decision.
LEMMA OneRecord ==
  ASSUME QueueInv, NEW a \in Artifact, NEW r, NEW ok \in BOOLEAN,
         RecordOK(r), Condemned(rec[a]) => Condemned(r),
         r.disposition = "discarded" => rec[a].disposition = "discarded" \/ a \in deleted,
         Persist(a, r, ok)
  PROVE  RecordsKept /\ faults' \in 0..MaxFaults
<1>1. r \in Record
  BY Zenon DEF RecordOK
<1>2. faults' \in 0..MaxFaults
  BY NumberAssumption DEF Persist, Fault, QueueInv
<1>3. CASE rec' = rec
  BY Zenon, <1>2, <1>3, SameRecords
<1>4. CASE rec' = [rec EXCEPT ![a] = r]
  BY Zenon, <1>1, <1>2, <1>4 DEF QueueInv, RecordsKept
<1> QED  BY Zenon, <1>3, <1>4 DEF Persist

\* Registering an artifact it does not know.
LEMMA RegisterKeeps ==
  ASSUME QueueInv, NEW a \in Artifact, Register(a)
  PROVE  RecordsKept /\ faults' \in 0..MaxFaults
<1>1. IsFiniteSet(Registered)
  BY Zenon, FiniteAssumption, FS_Subset DEF Registered
<1>2. Cardinality(Registered) + 1 \in Nat
  BY <1>1, FS_CardinalityType
<1> DEFINE r == NewRecord("pending_validation", Cardinality(Registered) + 1)
<1>3. RecordOK(r)
  BY Zenon, <1>2, NewRecordOK
<1>4. ~Condemned(rec[a]) /\ r.disposition = "retained"
  BY Zenon DEF Register, Registered, Condemned, NewRecord
<1> HIDE DEF r
<1>5. PICK ok \in BOOLEAN : Persist(a, r, ok)
  BY Zenon DEF Register, r
<1> QED  BY Zenon, <1>3, <1>4, <1>5, OneRecord

\* Recovering any of the lapsed claims.
LEMMA RecoverKeeps ==
  ASSUME QueueInv, NEW ok \in BOOLEAN, recover_expired_claims(ok)
  PROVE  RecordsKept /\ faults' \in 0..MaxFaults /\ lost' \subseteq Artifact
<1>1. PICK S \in SUBSET Expired :
        /\ rec' = [a \in Artifact |-> IF a \in S THEN Recovered(rec[a]) ELSE rec[a]]
        /\ lost' = lost \cup S
        /\ \/ ok /\ S = Expired /\ UNCHANGED faults
           \/ ~ok /\ Fault
  BY Zenon DEF recover_expired_claims
<1>2. \A a \in S : a \in Artifact /\ RecordOK(rec[a]) /\ rec[a].status = "processing"
  BY Zenon DEF Expired, QueueInv
<1>3. \A a \in S : RecordOK(Recovered(rec[a])) /\ ~Condemned(rec[a])
                   /\ Recovered(rec[a]).disposition = rec[a].disposition
  <2> TAKE a \in S
  <2>1. RecordOK(rec[a]) /\ rec[a].status = "processing"
    BY Zenon, <1>2
  <2>2. RecordOK(Recovered(rec[a])) /\ ~Condemned(rec[a])
    BY Zenon, <2>1, RecoveredOK
  <2>3. Recovered(rec[a]).disposition = rec[a].disposition
    BY Zenon, <2>1 DEF Recovered, clear_processing_claim, RecordOK, Record
  <2> QED  BY Zenon, <2>2, <2>3
<1>4. \A a \in S : Recovered(rec[a]) \in Record
  BY Zenon, <1>3 DEF RecordOK
<1>5. RecordsKept
  BY Zenon, <1>1, <1>3, <1>4 DEF RecordsKept, QueueInv
<1>6. faults' \in 0..MaxFaults
  BY <1>1, NumberAssumption DEF Fault, QueueInv
<1> QED  BY Zenon, <1>1, <1>2, <1>5, <1>6 DEF QueueInv

\* A checked update whose result is well formed when the check holds.
LEMMA CheckedUpdate ==
  ASSUME QueueInv, NEW a \in Artifact, NEW r, NEW ok \in BOOLEAN, NEW check \in BOOLEAN,
         check => /\ RecordOK(r)
                  /\ Condemned(rec[a]) => Condemned(r)
                  /\ r.disposition = "discarded" => rec[a].disposition = "discarded" \/ a \in deleted,
         UpdateChecked(a, check, r, ok)
  PROVE  RecordsKept /\ faults' \in 0..MaxFaults
<1>1. CASE check /\ Persist(a, r, ok)
  BY Zenon, <1>1, OneRecord
<1>2. CASE UNCHANGED <<rec, faults>>
  BY Zenon, <1>2, SameRecords DEF QueueInv
<1> QED  BY Zenon, <1>1, <1>2 DEF UpdateChecked

-----------------------------------------------------------------------------
(* What a step of a worker does to its job.                                *)

\* An idle job is a job.
LEMMA IdleJob == \A at \in Place : Idle(at) \in Job
BY NumberAssumption DEF Idle, Job

\* Once the records are kept, a job that was in order and has not changed still is.
LEMMA OtherJobs ==
  ASSUME QueueInv, RecordsKept, deleted \subseteq deleted', NEW w \in Worker, job'[w] = job[w]
  PROVE  JobOK(w)'
BY Zenon DEF QueueInv, RecordsKept, JobOK

\* A step of worker w that keeps the records and leaves it a job in order keeps
\* the invariant.
LEMMA WorkerKeeps ==
  ASSUME QueueInv, RecordsKept, faults' \in 0..MaxFaults, lost' \subseteq Artifact,
         deleted \subseteq deleted', deleted' \subseteq Artifact, inflight' \subseteq Artifact,
         \A a \in (deleted' \cup inflight') \ (deleted \cup inflight) : Condemned(rec[a]),
         calls' \in [Artifact -> Nat], UNCHANGED purged,
         NEW w \in Worker, NEW j, job' = [job EXCEPT ![w] = j], j \in Job, JobOK(w)'
  PROVE  QueueInv'
<1>1. job' \in [Worker -> Job]
  BY Zenon DEF QueueInv
<1>2. ASSUME NEW v \in Worker PROVE JobOK(v)'
  <2>1. CASE v = w
    BY Zenon, <2>1
  <2>2. CASE v /= w
    BY Zenon, <2>2, OtherJobs DEF QueueInv
  <2> QED  BY Zenon, <2>1, <2>2
<1>3. \A a \in (deleted' \cup inflight') \ purged' : Condemned(rec'[a])
  BY Zenon DEF QueueInv, RecordsKept
<1>4. \A a \in Artifact : rec'[a].disposition = "discarded" => a \in deleted'
  BY Zenon DEF QueueInv, RecordsKept
<1>5. rec' \in [Artifact -> Record] /\ \A a \in Artifact : RecordOK(rec'[a])
  BY Zenon DEF RecordsKept
<1>6. \A a \in Artifact : RecordOK(rec[a])'
  BY Zenon, <1>5 DEF RecordOK
<1>7. \A a \in (deleted' \cup inflight') \ purged' : Condemned(rec[a])'
  BY Zenon, <1>3 DEF Condemned
<1> QED  BY Zenon, <1>1, <1>2, <1>4, <1>5, <1>6, <1>7 DEF QueueInv

\* A job with nothing in hand.
Quiet(j) == j \in Job /\ j.at \notin Discarding \cup {"evaluating"}

\* Such a job is in order.
LEMMA QuietJob ==
  ASSUME QueueInv, NEW w \in Worker, NEW j, Quiet(j), job' = [job EXCEPT ![w] = j]
  PROVE  j \in Job /\ JobOK(w)'
BY Zenon DEF QueueInv, Quiet, JobOK, Discarding

\* Idle jobs outside evaluation and discards are quiet.
LEMMA IdleQuiet ==
  ASSUME NEW at \in Place \ (Discarding \cup {"evaluating"})
  PROVE  Quiet(Idle(at))
BY Zenon, IdleJob DEF Quiet, Idle

\* So is the job of a worker with a list of discards.
LEMMA DiscardsQuiet ==
  ASSUME NEW todo \in SUBSET Artifact, NEW after \in {"sweep", "ready"}
  PROVE  Quiet(Discards(todo, after))
<1>1. after \in Place \ (Discarding \cup {"evaluating"})
  BY Zenon DEF Place, Discarding
<1>2. 0 \in 0..AttemptCap
  BY NumberAssumption
<1>3. CASE todo = {}
  BY Zenon, <1>1, <1>3, IdleQuiet DEF Discards
<1>4. CASE todo /= {}
  BY Zenon, <1>2, <1>4 DEF Discards, Quiet, Job, Place, Discarding
<1> QED  BY Zenon, <1>3, <1>4

\* A worker through with a discard is quiet.
LEMMA NextDiscardQuiet ==
  ASSUME QueueInv, NEW w \in Worker, NEW todo \in SUBSET Artifact, NextDiscard(w, todo)
  PROVE  \E j : Quiet(j) /\ job' = [job EXCEPT ![w] = j]
<1>1. job[w].after \in {"sweep", "ready"}
  BY Zenon DEF QueueInv, Job
<1> QED  BY Zenon, <1>1, DiscardsQuiet DEF NextDiscard

\* A worker step that leaves files and calls alone and ends quietly.
LEMMA QuietStep ==
  ASSUME QueueInv, RecordsKept, faults' \in 0..MaxFaults, lost' \subseteq Artifact,
         UNCHANGED <<deleted, inflight, calls, purged>>,
         NEW w \in Worker, \E j : Quiet(j) /\ job' = [job EXCEPT ![w] = j]
  PROVE  QueueInv'
<1>1. PICK j : Quiet(j) /\ job' = [job EXCEPT ![w] = j]
  BY Zenon
<1>2. j \in Job /\ JobOK(w)'
  BY Zenon, <1>1, QuietJob
<1>3. /\ deleted \subseteq deleted' /\ deleted' \subseteq Artifact /\ inflight' \subseteq Artifact
      /\ \A a \in (deleted' \cup inflight') \ (deleted \cup inflight) : Condemned(rec[a])
      /\ calls' \in [Artifact -> Nat]
  BY Zenon DEF QueueInv
<1> QED  BY Zenon, <1>1, <1>2, <1>3, WorkerKeeps

-----------------------------------------------------------------------------
(* One lemma per action.                                                   *)

\* The first recovery of a worker.
LEMMA BootInv == ASSUME QueueInv, NEW w \in Worker, Boot(w) PROVE QueueInv'
<1>1. PICK ok \in BOOLEAN : recover_expired_claims(ok)
  BY Zenon DEF Boot
<1>2. RecordsKept /\ faults' \in 0..MaxFaults /\ lost' \subseteq Artifact
  BY Zenon, <1>1, RecoverKeeps
<1>3. Quiet(Idle("first_sweep"))
  BY Zenon, IdleQuiet DEF Place, Discarding
<1> QED  BY Zenon, <1>2, <1>3, QuietStep DEF Boot, Goto

\* Reading the list of discards to retry.
LEMMA SweepInv == ASSUME QueueInv, NEW w \in Worker, retry_pending_discards(w) PROVE QueueInv'
<1> DEFINE after == IF job[w].at = "first_sweep" THEN "sweep" ELSE "ready"
<1>1. PICK todo \in {pending_discards, {}} :
        /\ IF todo = pending_discards THEN UNCHANGED faults ELSE Fault
        /\ job' = [job EXCEPT ![w] = Discards(todo, after)]
  BY Zenon DEF retry_pending_discards
<1>2. todo \in SUBSET Artifact /\ after \in {"sweep", "ready"}
  BY Zenon DEF pending_discards
<1>3. faults' \in 0..MaxFaults
  BY <1>1, NumberAssumption DEF Fault, QueueInv
<1> HIDE DEF after
<1>4. \E j : Quiet(j) /\ job' = [job EXCEPT ![w] = j]
  BY Zenon, <1>1, <1>2, DiscardsQuiet
<1>5. RecordsKept /\ lost' \subseteq Artifact
  BY Zenon, SameRecords DEF retry_pending_discards, QueueInv
<1> QED  BY Zenon, <1>3, <1>4, <1>5, QuietStep DEF retry_pending_discards

\* The readiness check and the recovery after it.
LEMMA RecoverInv == ASSUME QueueInv, NEW w \in Worker, Recover(w) PROVE QueueInv'
<1>1. PICK ok \in BOOLEAN : recover_expired_claims(ok) /\ Goto(w, IF ok THEN "claim" ELSE "sweep")
  BY Zenon DEF Recover
<1>2. RecordsKept /\ faults' \in 0..MaxFaults /\ lost' \subseteq Artifact
  BY Zenon, <1>1, RecoverKeeps
<1>3. Quiet(Idle("claim")) /\ Quiet(Idle("sweep"))
  BY Zenon, IdleQuiet DEF Place, Discarding
<1>4. \E j : Quiet(j) /\ job' = [job EXCEPT ![w] = j]
  BY Zenon, <1>1, <1>3 DEF Goto
<1> QED  BY Zenon, <1>2, <1>4, QuietStep DEF Recover

\* A worker that finds the runtime unready keeps the invariant.
LEMMA NotReadyInv == ASSUME QueueInv, NEW w \in Worker, NotReady(w) PROVE QueueInv'
<1>1. Quiet(Idle("sweep"))
  BY Zenon, IdleQuiet DEF Place, Discarding
<1>2. RecordsKept /\ faults' \in 0..MaxFaults /\ lost' \subseteq Artifact
  BY Zenon, SameRecords DEF NotReady, QueueInv
<1> QED  BY Zenon, <1>1, <1>2, QuietStep DEF NotReady, Goto

\* A crash keeps the invariant: what a worker held is in the store.
LEMMA CrashInv == ASSUME QueueInv, NEW w \in Worker, Crash(w) PROVE QueueInv'
<1>1. Quiet(Idle("boot"))
  BY Zenon, IdleQuiet DEF Place, Discarding
<1>2. RecordsKept /\ lost' \subseteq Artifact
  BY Zenon, SameRecords DEF Crash, QueueInv
<1>3. faults' \in 0..MaxFaults
  BY NumberAssumption DEF Crash, Fault, QueueInv
<1> QED  BY Zenon, <1>1, <1>2, <1>3, QuietStep DEF Crash, Goto

\* Claiming the oldest due record, or finding none.
LEMMA ClaimInv == ASSUME QueueInv, NEW w \in Worker, claim_next_pending(w) PROVE QueueInv'
<1>1. Quiet(Idle("sweep"))
  BY Zenon, IdleQuiet DEF Place, Discarding
<1>2. CASE Due = {} /\ Goto(w, "sweep") /\ UNCHANGED <<rec, faults>>
  <2>1. RecordsKept /\ faults' \in 0..MaxFaults /\ lost' \subseteq Artifact
    BY Zenon, <1>2, SameRecords DEF claim_next_pending, QueueInv
  <2> QED  BY Zenon, <1>1, <1>2, <2>1, QuietStep DEF claim_next_pending, Goto
<1>3. ASSUME SomeTokenIsFree, NEW a \in Oldest(Due), NEW ok \in BOOLEAN,
             Persist(a, Claimed(rec[a]), ok),
             job' = [job EXCEPT ![w] =
                       IF ok THEN Evaluating(a, NewToken, Claimed(rec[a]).attempts)
                       ELSE Idle("sweep")]
      PROVE  QueueInv'
  <2>1. a \in Artifact /\ RecordOK(rec[a]) /\ rec[a].status = "pending_validation"
    BY Zenon, <1>3 DEF Oldest, Due, QueueInv
  <2>2. RecordOK(Claimed(rec[a])) /\ ~Condemned(rec[a])
    BY Zenon, <1>3, <2>1, ClaimedOK
  <2>3. Claimed(rec[a]).disposition = rec[a].disposition
    BY Zenon, <2>1 DEF Claimed, RecordOK, Record
  <2>4. RecordsKept /\ faults' \in 0..MaxFaults
    BY Zenon, <1>3, <2>1, <2>2, <2>3, OneRecord
  <2>5. lost' \subseteq Artifact /\ UNCHANGED <<deleted, inflight, calls, purged>>
    BY Zenon DEF claim_next_pending, QueueInv
  <2>6. CASE ~ok
    BY Zenon, <1>1, <1>3, <2>4, <2>5, <2>6, QuietStep
  <2>7. CASE ok
    <3> DEFINE n == Claimed(rec[a]).attempts
               j == Evaluating(a, NewToken, n)
    <3>1. n \in 0..AttemptCap
      BY Zenon, <2>2 DEF RecordOK, Record
    <3>2. NewToken \in Token
      BY Zenon, <1>3, FreshToken
    <3> HIDE DEF n
    <3>3. j \in Job /\ j.at = "evaluating" /\ j.art = a /\ j.token = NewToken
      BY Zenon, <2>1, <3>1, <3>2 DEF Evaluating, Job, Place
    <3>4. job' = [job EXCEPT ![w] = j]
      BY Zenon, <1>3, <2>7 DEF n
    <3> HIDE DEF j
    <3>5. JobOK(w)'
      BY Zenon, <2>1, <3>2, <3>3, <3>4 DEF JobOK, QueueInv, Discarding
    <3>6. /\ deleted \subseteq deleted' /\ deleted' \subseteq Artifact /\ inflight' \subseteq Artifact
          /\ \A b \in (deleted' \cup inflight') \ (deleted \cup inflight) : Condemned(rec[b])
          /\ calls' \in [Artifact -> Nat]
      BY Zenon, <2>5 DEF QueueInv
    <3> QED  BY Zenon, <2>4, <2>5, <3>3, <3>4, <3>5, <3>6, WorkerKeeps
  <2> QED  BY Zenon, <2>6, <2>7
<1> QED  BY Zenon, <1>2, <1>3 DEF claim_next_pending

\* Ending an evaluation with a verdict.
LEMMA CompleteInv ==
  ASSUME QueueInv, NEW w \in Worker, job[w].at = "evaluating", NEW v \in Final, complete(w, v),
         UNCHANGED <<deleted, inflight, calls, purged, lost>>
  PROVE  QueueInv'
<1> DEFINE a == job[w].art
           check == validate_processing_claim(a, job[w].token)
           r == Concluded(rec[a], v)
<1>1. a \in Artifact /\ RecordOK(rec[a])
  BY Zenon DEF QueueInv, JobOK
<1>2. PICK ok \in BOOLEAN :
        /\ UpdateChecked(a, check, r, ok)
        /\ job' = [job EXCEPT ![w] =
                     IF ok /\ is_physical_discard_eligible(r) THEN Discards({a}, "sweep")
                     ELSE Idle("sweep")]
  BY Zenon DEF complete
<1>3. check => RecordOK(r) /\ ~Condemned(rec[a])
  BY Zenon, <1>1, ConcludedOK DEF validate_processing_claim
<1>4. r.disposition = rec[a].disposition
  BY Zenon, <1>1 DEF Concluded, clear_processing_claim, RecordOK, Record
<1>5. check \in BOOLEAN
  BY Zenon, <1>1 DEF validate_processing_claim, RecordOK, Record
<1> HIDE DEF check, r
<1>6. RecordsKept /\ faults' \in 0..MaxFaults
  BY Zenon, <1>1, <1>2, <1>3, <1>4, <1>5, CheckedUpdate
<1>7. Quiet(Idle("sweep")) /\ Quiet(Discards({a}, "sweep"))
  BY Zenon, <1>1, IdleQuiet, DiscardsQuiet DEF Place, Discarding
<1>8. \E j : Quiet(j) /\ job' = [job EXCEPT ![w] = j]
  BY Zenon, <1>2, <1>7
<1> QED  BY Zenon, <1>6, <1>8, QuietStep DEF QueueInv

\* Ending it without one.
LEMMA PutBackInv ==
  ASSUME QueueInv, NEW w \in Worker, job[w].at = "evaluating",
         NEW r \in {Postponed(rec[job[w].art]), Deferred(rec[job[w].art])}, PutBack(w, r),
         UNCHANGED <<deleted, inflight, calls, purged, lost>>
  PROVE  QueueInv'
<1> DEFINE a == job[w].art
           check == validate_processing_claim(a, job[w].token)
<1>1. a \in Artifact /\ RecordOK(rec[a])
  BY Zenon DEF QueueInv, JobOK
<1>2. PICK ok \in BOOLEAN : UpdateChecked(a, check, r, ok) /\ Goto(w, "sweep")
  BY Zenon DEF PutBack
<1>3. check => RecordOK(r) /\ ~Condemned(rec[a])
  BY Zenon, <1>1, PostponedOK, DeferredOK DEF validate_processing_claim
<1>4. r.disposition = rec[a].disposition
  BY Zenon, <1>1 DEF Postponed, Deferred, clear_processing_claim, RecordOK, Record
<1>5. check \in BOOLEAN
  BY Zenon, <1>1 DEF validate_processing_claim, RecordOK, Record
<1> HIDE DEF check
<1>6. RecordsKept /\ faults' \in 0..MaxFaults
  BY Zenon, <1>1, <1>2, <1>3, <1>4, <1>5, CheckedUpdate
<1>7. Quiet(Idle("sweep"))
  BY Zenon, IdleQuiet DEF Place, Discarding
<1> QED  BY Zenon, <1>2, <1>6, <1>7, QuietStep DEF QueueInv, Goto

\* The end of an evaluation keeps the invariant, whichever way it ends.
LEMMA ProcessInv == ASSUME QueueInv, NEW w \in Worker, process(w) PROVE QueueInv'
<1>1. job[w].at = "evaluating" /\ UNCHANGED <<deleted, inflight, calls, purged, lost>>
  BY Zenon DEF process
<1>2. ASSUME NEW v \in Final, complete(w, v) PROVE QueueInv'
  BY Zenon, <1>1, <1>2, CompleteInv
<1>3. CASE PutBack(w, Deferred(rec[job[w].art]))
  BY Zenon, <1>1, <1>3, PutBackInv
<1>4. CASE PutBack(w, Postponed(rec[job[w].art]))
  BY Zenon, <1>1, <1>4, PutBackInv
<1>5. "review_required" \in Final
  BY Zenon DEF Final
<1> QED  BY Zenon, <1>2, <1>3, <1>4, <1>5 DEF process

\* Claiming a discard, or finding nothing to claim.
LEMMA ClaimDiscardInv ==
  ASSUME QueueInv, NEW w \in Worker, claim_artifact_discard(w) PROVE QueueInv'
<1>1. PICK a \in job[w].todo :
       IF is_physical_discard_eligible(rec[a]) /\ DiscardIsFree(a)
       THEN /\ SomeTokenIsFree
            /\ \E ok \in BOOLEAN :
                 /\ Persist(a, DiscardClaimed(rec[a]), ok)
                 /\ IF ok THEN job' = [job EXCEPT ![w] =
                                 [at |-> "deleting", art |-> a, token |-> NewToken, attempts |-> 0,
                                  todo |-> job[w].todo \ {a}, after |-> job[w].after]]
                    ELSE NextDiscard(w, job[w].todo \ {a})
       ELSE NextDiscard(w, job[w].todo \ {a}) /\ UNCHANGED <<rec, faults>>
  BY Zenon DEF claim_artifact_discard
<1>2. /\ a \in Artifact /\ RecordOK(rec[a])
      /\ job[w].todo \ {a} \in SUBSET Artifact /\ job[w].after \in {"sweep", "ready"}
  BY Zenon DEF QueueInv, Job
<1>3. lost' \subseteq Artifact /\ UNCHANGED <<deleted, inflight, calls, purged>>
  BY Zenon DEF claim_artifact_discard, QueueInv
<1>4. CASE NextDiscard(w, job[w].todo \ {a}) /\ UNCHANGED <<rec, faults>>
  <2>1. RecordsKept /\ faults' \in 0..MaxFaults
    BY Zenon, <1>4, SameRecords DEF QueueInv
  <2> QED  BY Zenon, <1>2, <1>3, <1>4, <2>1, NextDiscardQuiet, QuietStep
<1>5. ASSUME is_physical_discard_eligible(rec[a]), DiscardIsFree(a), SomeTokenIsFree,
             NEW ok \in BOOLEAN, Persist(a, DiscardClaimed(rec[a]), ok),
             IF ok THEN job' = [job EXCEPT ![w] =
                             [at |-> "deleting", art |-> a, token |-> NewToken, attempts |-> 0,
                              todo |-> job[w].todo \ {a}, after |-> job[w].after]]
             ELSE NextDiscard(w, job[w].todo \ {a})
      PROVE  QueueInv'
  <2>1. RecordOK(DiscardClaimed(rec[a])) /\ Condemned(DiscardClaimed(rec[a]))
    BY Zenon, <1>2, <1>5, DiscardClaimedOK DEF DiscardIsFree
  <2>2. DiscardClaimed(rec[a]).disposition = "discard_pending"
    BY Zenon, <1>2 DEF DiscardClaimed, RecordOK, Record
  <2>3. RecordsKept /\ faults' \in 0..MaxFaults
    BY Zenon, <1>2, <1>5, <2>1, <2>2, OneRecord
  <2>4. CASE ~ok
    BY Zenon, <1>2, <1>3, <1>5, <2>3, <2>4, NextDiscardQuiet, QuietStep
  <2>5. CASE ok
    <3> DEFINE j == [at |-> "deleting", art |-> a, token |-> NewToken, attempts |-> 0,
                     todo |-> job[w].todo \ {a}, after |-> job[w].after]
    <3>1. NewToken \in Token /\ 0 \in 0..AttemptCap
      BY <1>5, FreshToken, NumberAssumption
    <3>2. j \in Job /\ j.at = "deleting" /\ j.art = a /\ j.token = NewToken
      BY Zenon, <1>2, <3>1 DEF Job, Place
    <3>3. job' = [job EXCEPT ![w] = j]
      BY Zenon, <1>5, <2>5
    <3> HIDE DEF j
    <3>4. rec'[a] = DiscardClaimed(rec[a])
      BY Zenon, <1>2, <1>5, <2>5 DEF Persist, QueueInv
    <3>5. JobOK(w)'
      BY Zenon, <1>2, <2>1, <3>1, <3>2, <3>3, <3>4 DEF JobOK, QueueInv, Condemned
    <3>6. /\ deleted \subseteq deleted' /\ deleted' \subseteq Artifact /\ inflight' \subseteq Artifact
          /\ \A b \in (deleted' \cup inflight') \ (deleted \cup inflight) : Condemned(rec[b])
          /\ calls' \in [Artifact -> Nat]
      BY Zenon, <1>3 DEF QueueInv
    <3> QED  BY Zenon, <1>3, <2>3, <3>2, <3>3, <3>5, <3>6, WorkerKeeps
  <2> QED  BY Zenon, <2>4, <2>5
<1> QED  BY Zenon, <1>1, <1>4, <1>5

\* The DELETE call: whatever comes of it, the recording had been condemned.
LEMMA DeleteInv == ASSUME QueueInv, NEW w \in Worker, delete_dvr_artifact(w) PROVE QueueInv'
<1> DEFINE a == job[w].art
<1>1. a \in Artifact /\ Condemned(rec[a]) /\ job[w].token \in Token /\ job[w] \in Job
  BY Zenon DEF QueueInv, JobOK, delete_dvr_artifact, Discarding
<1>2. RecordsKept /\ faults' \in 0..MaxFaults /\ lost' \subseteq Artifact /\ UNCHANGED purged
  BY Zenon, SameRecords DEF delete_dvr_artifact, QueueInv
<1>3. calls' \in [Artifact -> Nat]
  BY <1>1 DEF delete_dvr_artifact, QueueInv
<1>4. /\ deleted \subseteq deleted' /\ deleted' \subseteq deleted \cup {a}
      /\ inflight' \subseteq inflight \cup {a}
  BY Zenon DEF delete_dvr_artifact
<1>5. PICK at \in {"confirmed", "unconfirmed", "unmarked"} :
        job' = [job EXCEPT ![w].at = at] /\ (at = "confirmed" => a \in deleted')
  BY Zenon DEF delete_dvr_artifact
<1> DEFINE j == [job[w] EXCEPT !.at = at]
<1>6. job' = [job EXCEPT ![w] = j]
  BY Zenon, <1>5
<1>7. j \in Job /\ j.at = at /\ j.art = a /\ j.token = job[w].token
  BY Zenon, <1>1 DEF Job, Place
<1> HIDE DEF j
<1>8. rec'[a] = rec[a]
  BY Zenon DEF delete_dvr_artifact
<1>9. JobOK(w)'
  BY <1>1, <1>5, <1>6, <1>7, <1>8 DEF JobOK, QueueInv, Condemned, Discarding
<1>10. /\ deleted' \subseteq Artifact /\ inflight' \subseteq Artifact
       /\ \A b \in (deleted' \cup inflight') \ (deleted \cup inflight) : Condemned(rec[b])
  BY Zenon, <1>1, <1>4 DEF QueueInv
<1> QED  BY Zenon, <1>2, <1>3, <1>4, <1>6, <1>7, <1>9, <1>10, WorkerKeeps

\* The tombstone: HarborLink confirmed, so the file is gone.
LEMMA MarkDiscardedInv ==
  ASSUME QueueInv, NEW w \in Worker, mark_artifact_discarded(w) PROVE QueueInv'
<1> DEFINE a == job[w].art
           check == validate_discard_attempt(a, job[w].token) /\ HarborLinkConfirmed(w)
<1>1. /\ a \in Artifact /\ RecordOK(rec[a]) /\ job[w].token \in Token /\ job[w] \in Job
      /\ job[w].todo \in SUBSET Artifact
  BY Zenon DEF QueueInv, JobOK, mark_artifact_discarded, Discarding, Job
<1>2. PICK ok \in BOOLEAN :
        /\ UpdateChecked(a, check, Discarded(rec[a]), ok)
        /\ IF ok THEN NextDiscard(w, job[w].todo) ELSE job' = [job EXCEPT ![w].at = "unmarked"]
  BY Zenon DEF mark_artifact_discarded
<1>3. check => RecordOK(Discarded(rec[a])) /\ Condemned(Discarded(rec[a])) /\ a \in deleted
  BY Zenon, <1>1, DiscardedOK DEF validate_discard_attempt, HarborLinkConfirmed, QueueInv, JobOK
<1>4. check \in BOOLEAN
  BY Zenon, <1>1 DEF validate_discard_attempt, HarborLinkConfirmed, RecordOK, Record
<1>5. lost' \subseteq Artifact /\ UNCHANGED <<deleted, inflight, calls, purged>>
  BY Zenon DEF mark_artifact_discarded, QueueInv
<1> HIDE DEF check
<1>6. RecordsKept /\ faults' \in 0..MaxFaults
  BY Zenon, <1>1, <1>2, <1>3, <1>4, CheckedUpdate
<1>7. CASE ok
  BY Zenon, <1>1, <1>2, <1>5, <1>6, <1>7, NextDiscardQuiet, QuietStep
<1>8. CASE ~ok
  <2> DEFINE j == [job[w] EXCEPT !.at = "unmarked"]
  <2>1. job' = [job EXCEPT ![w] = j]
    BY Zenon, <1>2, <1>8
  <2>2. j \in Job /\ j.at = "unmarked" /\ j.art = a /\ j.token = job[w].token
    BY Zenon, <1>1 DEF Job, Place
  <2> HIDE DEF j
  <2>3. Condemned(rec[a])
    BY Zenon DEF QueueInv, JobOK, mark_artifact_discarded, Discarding
  <2>4. Condemned(rec'[a])
    BY Zenon, <1>1, <1>6, <2>3 DEF RecordsKept
  <2>5. JobOK(w)'
    BY Zenon, <1>1, <2>1, <2>2, <2>4 DEF JobOK, QueueInv, Condemned, Discarding
  <2>6. /\ deleted \subseteq deleted' /\ deleted' \subseteq Artifact /\ inflight' \subseteq Artifact
        /\ \A b \in (deleted' \cup inflight') \ (deleted \cup inflight) : Condemned(rec[b])
        /\ calls' \in [Artifact -> Nat]
    BY Zenon, <1>5 DEF QueueInv
  <2> QED  BY Zenon, <1>5, <1>6, <2>1, <2>2, <2>5, <2>6, WorkerKeeps
<1> QED  BY Zenon, <1>7, <1>8

\* Giving up a discard attempt keeps the invariant.
LEMMA MarkFailedInv ==
  ASSUME QueueInv, NEW w \in Worker, mark_artifact_discard_failed(w) PROVE QueueInv'
<1> DEFINE a == job[w].art
           check == validate_discard_attempt(a, job[w].token)
<1>1. a \in Artifact /\ RecordOK(rec[a]) /\ job[w].todo \in SUBSET Artifact
  BY Zenon DEF QueueInv, JobOK, mark_artifact_discard_failed, Discarding, Job
<1>2. PICK ok \in BOOLEAN : UpdateChecked(a, check, DiscardFailed(rec[a]), ok)
  BY Zenon DEF mark_artifact_discard_failed
<1>3. check => RecordOK(DiscardFailed(rec[a])) /\ Condemned(DiscardFailed(rec[a]))
  BY Zenon, <1>1, DiscardFailedOK DEF validate_discard_attempt
<1>4. DiscardFailed(rec[a]).disposition = "discard_failed"
  BY Zenon, <1>1 DEF DiscardFailed, RecordOK, Record
<1>5. check \in BOOLEAN
  BY Zenon, <1>1 DEF validate_discard_attempt, RecordOK, Record
<1> HIDE DEF check
<1>6. RecordsKept /\ faults' \in 0..MaxFaults
  BY Zenon, <1>1, <1>2, <1>3, <1>4, <1>5, CheckedUpdate
<1>7. \E j : Quiet(j) /\ job' = [job EXCEPT ![w] = j]
  BY Zenon, <1>1, NextDiscardQuiet DEF mark_artifact_discard_failed
<1> QED  BY Zenon, <1>6, <1>7, QuietStep DEF mark_artifact_discard_failed, QueueInv

\* The steps that are no worker's.
Outside(a) == Register(a) \/ TimePasses(a) \/ LateDelete(a) \/ handle_delete_dvr_artifact(a)

\* Such a step leaves the jobs and the calls alone.
LEMMA OutsideStep ==
  ASSUME QueueInv, RecordsKept, faults' \in 0..MaxFaults, UNCHANGED <<job, calls, lost>>,
         deleted \subseteq deleted', deleted' \subseteq Artifact, inflight' \subseteq Artifact,
         purged' \subseteq Artifact,
         \A a \in (deleted' \cup inflight') \ purged' : Condemned(rec[a])
  PROVE  QueueInv'
<1>1. \A w \in Worker : JobOK(w)'
  BY Zenon, OtherJobs
<1>2. \A a \in (deleted' \cup inflight') \ purged' : Condemned(rec'[a])
  BY Zenon DEF QueueInv, RecordsKept
<1>3. \A a \in (deleted' \cup inflight') \ purged' : Condemned(rec[a])'
  BY Zenon, <1>2 DEF Condemned
<1>4. \A a \in Artifact : RecordOK(rec[a])'
  BY Zenon DEF RecordsKept, RecordOK
<1> QED  BY Zenon, <1>1, <1>3, <1>4 DEF QueueInv, RecordsKept

\* Registration, passing deadlines, late deletions and an operator's keep the invariant.
LEMMA OutsideInv ==
  ASSUME QueueInv, NEW a \in Artifact, Outside(a)
  PROVE  QueueInv'
<1>1. RecordOK(rec[a]) /\ \A b \in (deleted \cup inflight) \ purged : Condemned(rec[b])
  BY Zenon DEF QueueInv
<1>2. CASE Register(a)
  BY Zenon, <1>1, <1>2, RegisterKeeps, OutsideStep DEF Register, QueueInv
<1>3. ASSUME NEW r, RecordOK(r), Condemned(rec[a]) => Condemned(r),
             r.disposition = rec[a].disposition,
             rec' = [rec EXCEPT ![a] = r], UNCHANGED <<job, deleted, inflight, calls, purged, lost, faults>>
      PROVE  QueueInv'
  <2>1. Persist(a, r, TRUE)
    BY Zenon, <1>3 DEF Persist
  <2>2. RecordsKept /\ faults' \in 0..MaxFaults
    BY Zenon, <1>3, <2>1, OneRecord DEF QueueInv
  <2> QED  BY Zenon, <1>1, <1>3, <2>2, OutsideStep DEF QueueInv
<1>4. CASE ClaimLapses(a)
  <2>1. [rec[a] EXCEPT !.live = FALSE].disposition = rec[a].disposition
    BY Zenon, <1>1 DEF RecordOK, Record
  <2> QED  BY Zenon, <1>1, <1>3, <1>4, <2>1, LapsedOK DEF ClaimLapses
<1>5. CASE RetryFallsDue(a)
  <2>1. [rec[a] EXCEPT !.due = TRUE].disposition = rec[a].disposition
    BY Zenon, <1>1 DEF RecordOK, Record
  <2> QED  BY Zenon, <1>1, <1>3, <1>5, <2>1, LapsedOK DEF RetryFallsDue
<1>6. CASE DiscardLapses(a)
  <2>1. [rec[a] EXCEPT !.dlive = FALSE].disposition = rec[a].disposition
    BY Zenon, <1>1 DEF RecordOK, Record
  <2> QED  BY Zenon, <1>1, <1>3, <1>6, <2>1, LapsedOK DEF DiscardLapses
<1>7. CASE LateDelete(a)
  <2>1. RecordsKept /\ faults' \in 0..MaxFaults
    BY Zenon, <1>7, SameRecords DEF LateDelete, QueueInv
  <2> QED  BY Zenon, <1>1, <1>7, <2>1, OutsideStep DEF LateDelete, QueueInv
<1>8. CASE handle_delete_dvr_artifact(a)
  <2>1. RecordsKept /\ faults' \in 0..MaxFaults
    BY Zenon, <1>8, SameRecords DEF handle_delete_dvr_artifact, QueueInv
  <2>2. /\ purged' = purged \cup {a} /\ deleted \subseteq deleted'
        /\ deleted' \subseteq deleted \cup {a} /\ inflight' \subseteq inflight \cup {a}
    BY Zenon, <1>8 DEF handle_delete_dvr_artifact
  <2>3. \A b \in (deleted' \cup inflight') \ purged' : Condemned(rec[b])
    BY Zenon, <1>1, <2>2
  <2>4. deleted' \subseteq Artifact /\ inflight' \subseteq Artifact /\ purged' \subseteq Artifact
    BY Zenon, <2>2 DEF QueueInv
  <2> QED  BY Zenon, <1>8, <2>1, <2>2, <2>3, <2>4, OutsideStep DEF handle_delete_dvr_artifact
<1> QED  BY Zenon, <1>2, <1>4, <1>5, <1>6, <1>7, <1>8 DEF Outside, TimePasses

\* The invariant holds of an empty store.
LEMMA QueueInvInit == Init => QueueInv
<1> SUFFICES ASSUME Init PROVE QueueInv
  BY Zenon
<1>1. NewRecord("unregistered", 0) \in Record /\ RecordOK(NewRecord("unregistered", 0))
  BY Zenon, NewRecordOK
<1>2. Idle("boot") \in Job
  BY Zenon, IdleJob DEF Place
<1>3. \A w \in Worker : JobOK(w)
  BY Zenon, <1>2 DEF Init, JobOK, Idle, Discarding
<1>4. NewRecord("unregistered", 0).disposition = "retained"
  BY Zenon DEF NewRecord
<1> QED  BY <1>1, <1>2, <1>3, <1>4, NumberAssumption DEF Init, QueueInv

\* Every step keeps the invariant.
LEMMA QueueInvStep == QueueInv /\ [Next]_vars => QueueInv'
<1> SUFFICES ASSUME QueueInv, [Next]_vars PROVE QueueInv'
  BY Zenon
<1>1. ASSUME NEW w \in Worker, WorkerStep(w) \/ NotReady(w) \/ Crash(w) PROVE QueueInv'
  BY Zenon, <1>1, BootInv, SweepInv, RecoverInv, NotReadyInv, CrashInv, ClaimInv, ProcessInv,
     ClaimDiscardInv, DeleteInv, MarkDiscardedInv, MarkFailedInv DEF WorkerStep
<1>2. ASSUME NEW a \in Artifact, Outside(a) PROVE QueueInv'
  BY Zenon, <1>2, OutsideInv
<1>3. CASE UNCHANGED vars
  <2>1. RecordsKept
    BY Zenon, <1>3, SameRecords DEF vars
  <2> QED  BY Zenon, <1>3, <2>1, OutsideStep DEF vars, QueueInv
<1> QED  BY Zenon, <1>1, <1>2, <1>3 DEF Next, Outside

\* The inductive invariant holds in every state of the queue.
THEOREM QueueInvariant == Spec => []QueueInv
BY QueueInvInit, QueueInvStep, PTL DEF Spec

\* TypeOK: records and jobs keep their shape; publication, claim tokens and
\* discard tokens go with status and disposition.
THEOREM TypeCorrect == Spec => []TypeOK
<1>1. QueueInv => TypeOK
  BY Zenon DEF QueueInv, RecordOK, TypeOK
<1> QED  BY <1>1, QueueInvariant, PTL

\* OnlyRejectedAreDeleted: no DELETE of a worker, not even a late one, reaches the
\* file of a recording that was not rejected and durably marked first; the only
\* other deletions are the ones an operator asked for (handle_delete_dvr_artifact).
THEOREM DeletionSafe == Spec => []OnlyRejectedAreDeleted
<1>1. QueueInv => OnlyRejectedAreDeleted
  BY Zenon DEF QueueInv, Condemned, OnlyRejectedAreDeleted
<1> QED  BY <1>1, QueueInvariant, PTL

\* TombstoneIsTrue: a record marked discarded has no file left.
THEOREM TombstonesTrue == Spec => []TombstoneIsTrue
<1>1. QueueInv => TombstoneIsTrue
  BY Zenon DEF QueueInv, TombstoneIsTrue
<1> QED  BY <1>1, QueueInvariant, PTL

-----------------------------------------------------------------------------
(* The ways a step changes a record, and who is behind each of them.       *)

\* Worker w moves on from the place where it has a in hand.
Acts(w, at, a) == w \in Worker /\ job[w].at = at /\ job[w].art = a /\ job'[w] /= job[w]

\* A recording that can be discarded goes on the list of the worker that gave
\* the verdict, unless the store reported an error.
TakenUp(w, a, r) ==
  (faults' = 0 /\ is_physical_discard_eligible(r)) => job'[w] = Discards({a}, "sweep")

EndsClaim(w, a, r) ==
  /\ Acts(w, "evaluating", a)
  /\ validate_processing_claim(a, job[w].token)
  /\ \/ \E v \in Final : r = Concluded(rec[a], v) /\ TakenUp(w, a, r)
     \/ r = Deferred(rec[a])
     \/ RetryIsLeft(job[w].attempts) /\ r = Postponed(rec[a])

EndsDiscard(w, a, r) ==
  /\ validate_discard_attempt(a, job[w].token)
  /\ \/ Acts(w, "confirmed", a) /\ a \in deleted /\ r = Discarded(rec[a])
     \/ Acts(w, "unmarked", a) /\ r = DiscardFailed(rec[a])

Lapses(r, q) == \/ q = [r EXCEPT !.live = FALSE]
                \/ q = [r EXCEPT !.due = TRUE]
                \/ q = [r EXCEPT !.dlive = FALSE]

RecordStep(a, r) ==
  \/ rec[a].status = "unregistered" /\ \E n \in Nat : r = NewRecord("pending_validation", n)
  \/ rec[a].status = "pending_validation" /\ SomeTokenIsFree /\ r = Claimed(rec[a])
  \/ \E w \in Worker : EndsClaim(w, a, r) \/ EndsDiscard(w, a, r)
  \/ /\ is_physical_discard_eligible(rec[a]) /\ DiscardIsFree(a) /\ SomeTokenIsFree
     /\ r = DiscardClaimed(rec[a])
  \/ Lapses(rec[a], r)

OneWritten == \E a \in Artifact : \E r : rec' = [rec EXCEPT ![a] = r] /\ RecordStep(a, r)

SomeRecovered ==
  \E S \in SUBSET Expired :
    /\ rec' = [a \in Artifact |-> IF a \in S THEN Recovered(rec[a]) ELSE rec[a]]
    /\ lost' = lost \cup S

\* A write that goes through, or not.
LEMMA Written ==
  ASSUME NEW a \in Artifact, NEW r, NEW ok \in BOOLEAN, Persist(a, r, ok), RecordStep(a, r)
  PROVE  UNCHANGED rec \/ OneWritten
BY Zenon DEF Persist, OneWritten

\* Jobs of a worker that moves are told apart by their place.
LEMMA Moved ==
  ASSUME QueueInv, NEW w \in Worker, NEW j, job' = [job EXCEPT ![w] = j], j.at /= job[w].at
  PROVE  job'[w] /= job[w]
BY Zenon DEF QueueInv

\* A list of discards is never mistaken for a call in progress.
LEMMA DiscardsAt ==
  ASSUME QueueInv, NEW w \in Worker, NEW todo \in SUBSET Artifact
  PROVE  Discards(todo, job[w].after).at \in {"sweeping", "sweep", "ready"}
<1>1. job[w].after \in {"sweep", "ready"}
  BY Zenon DEF QueueInv, Job
<1> QED  BY Zenon, <1>1 DEF Discards, Idle

\* Every step writes nothing, recovers lapsed claims, or writes one record.
LEMMA ProcessWrites ==
  ASSUME QueueInv, NEW w \in Worker, process(w)
  PROVE  UNCHANGED rec \/ OneWritten
<1> DEFINE a == job[w].art
<1>1. a \in Artifact /\ job[w].at = "evaluating"
  BY Zenon DEF process, QueueInv, JobOK
<1>2. Discards({a}, "sweep").at = "sweeping" /\ Idle("sweep").at = "sweep"
  BY Zenon DEF Discards, Idle
<1>3. ASSUME NEW r, NEW ok \in BOOLEAN,
             UpdateChecked(a, validate_processing_claim(a, job[w].token), r, ok),
             Acts(w, "evaluating", a),
             \/ /\ \E v \in Final : r = Concluded(rec[a], v)
                /\ validate_processing_claim(a, job[w].token) => TakenUp(w, a, r)
             \/ r = Deferred(rec[a])
             \/ RetryIsLeft(job[w].attempts) /\ r = Postponed(rec[a])
      PROVE  UNCHANGED rec \/ OneWritten
  <2>1. CASE validate_processing_claim(a, job[w].token) /\ Persist(a, r, ok)
    <3>1. EndsClaim(w, a, r)
      BY Zenon, <1>3, <2>1 DEF EndsClaim
    <3>2. RecordStep(a, r)
      BY Zenon, <3>1 DEF RecordStep
    <3> QED  BY Zenon, <1>1, <1>3, <2>1, <3>2, Written
  <2>2. CASE UNCHANGED <<rec, faults>>
    BY Zenon, <2>2
  <2> QED  BY Zenon, <1>3, <2>1, <2>2 DEF UpdateChecked
<1>4. ASSUME NEW v \in Final, complete(w, v) PROVE UNCHANGED rec \/ OneWritten
  <2>1. PICK ok \in BOOLEAN :
          /\ UpdateChecked(a, validate_processing_claim(a, job[w].token), Concluded(rec[a], v), ok)
          /\ job' = [job EXCEPT ![w] =
                       IF ok /\ is_physical_discard_eligible(Concluded(rec[a], v))
                       THEN Discards({a}, "sweep") ELSE Idle("sweep")]
    BY Zenon, <1>4 DEF complete
  <2>2. job'[w] /= job[w]
    BY Zenon, <1>1, <1>2, <2>1, Moved
  <2>3. Acts(w, "evaluating", a)
    BY Zenon, <1>1, <2>2 DEF Acts
  <2>4. ASSUME validate_processing_claim(a, job[w].token) PROVE TakenUp(w, a, Concluded(rec[a], v))
    <3>1. ok \/ Fault
      BY Zenon, <2>1, <2>4 DEF UpdateChecked, Persist
    <3>2. Fault => faults' /= 0
      BY NumberAssumption DEF QueueInv, Fault
    <3>3. job \in [Worker -> Job]
      BY Zenon DEF QueueInv
    <3> QED  BY Zenon, <2>1, <3>1, <3>2, <3>3 DEF TakenUp
  <2>5. PICK r : r = Concluded(rec[a], v)
    BY Zenon
  <2> QED  BY Zenon, <1>3, <2>1, <2>3, <2>4, <2>5
<1>5. ASSUME NEW r, PutBack(w, r),
             \/ r = Deferred(rec[a])
             \/ RetryIsLeft(job[w].attempts) /\ r = Postponed(rec[a])
      PROVE  UNCHANGED rec \/ OneWritten
  <2>1. PICK ok \in BOOLEAN : /\ UpdateChecked(a, validate_processing_claim(a, job[w].token), r, ok)
                              /\ Goto(w, "sweep")
    BY Zenon, <1>5 DEF PutBack
  <2>2. job'[w] /= job[w]
    BY Zenon, <1>1, <1>2, <2>1, Moved DEF Goto
  <2>3. Acts(w, "evaluating", a)
    BY Zenon, <1>1, <2>2 DEF Acts
  <2> QED  BY Zenon, <1>3, <1>5, <2>1, <2>3
<1>6. CASE \E v \in Final : complete(w, v)
  BY Zenon, <1>4, <1>6
<1>7. CASE PutBack(w, Deferred(rec[a]))
  <2>1. PICK r : r = Deferred(rec[a])
    BY Zenon
  <2>2. PutBack(w, r)
    BY Zenon, <1>7, <2>1
  <2> QED  BY Zenon, <1>5, <2>1, <2>2
<1>8. CASE RetryIsLeft(job[w].attempts) /\ PutBack(w, Postponed(rec[a]))
  <2>1. PICK r : r = Postponed(rec[a])
    BY Zenon
  <2>2. PutBack(w, r)
    BY Zenon, <1>8, <2>1
  <2> QED  BY Zenon, <1>5, <1>8, <2>1, <2>2
<1>9. CASE complete(w, "review_required")
  BY Zenon, <1>4, <1>9 DEF Final
<1> QED  BY Zenon, <1>6, <1>7, <1>8, <1>9 DEF process

\* Ending a discard attempt writes its record under the live token, or nothing.
LEMMA MarkWrites ==
  ASSUME QueueInv, NEW w \in Worker, mark_artifact_discarded(w) \/ mark_artifact_discard_failed(w)
  PROVE  UNCHANGED rec \/ OneWritten
<1> DEFINE a == job[w].art
<1>1. a \in Artifact /\ job[w].todo \in SUBSET Artifact
  BY Zenon DEF mark_artifact_discarded, mark_artifact_discard_failed, QueueInv, JobOK, Discarding, Job
<1>2. ASSUME NEW r, NEW ok \in BOOLEAN, EndsDiscard(w, a, r), Persist(a, r, ok)
      PROVE  UNCHANGED rec \/ OneWritten
  <2>1. RecordStep(a, r)
    BY Zenon, <1>2 DEF RecordStep
  <2> QED  BY Zenon, <1>1, <1>2, <2>1, Written
<1>3. CASE mark_artifact_discarded(w)
  <2>1. PICK ok \in BOOLEAN :
          /\ UpdateChecked(a, validate_discard_attempt(a, job[w].token) /\ HarborLinkConfirmed(w),
                           Discarded(rec[a]), ok)
          /\ IF ok THEN NextDiscard(w, job[w].todo) ELSE job' = [job EXCEPT ![w].at = "unmarked"]
    BY Zenon, <1>3 DEF mark_artifact_discarded
  <2>2. CASE HarborLinkConfirmed(w)
    <3>1. job[w].at = "confirmed" /\ a \in deleted /\ job[w] \in Job
      BY Zenon, <2>2 DEF HarborLinkConfirmed, QueueInv, JobOK
    <3>2. job'[w] /= job[w]
      <4>1. CASE ok
        BY Zenon, <1>1, <2>1, <3>1, <4>1, DiscardsAt, Moved DEF NextDiscard
      <4>2. CASE ~ok
        <5>1. [job[w] EXCEPT !.at = "unmarked"].at = "unmarked"
          BY Zenon, <3>1 DEF Job
        <5>2. job' = [job EXCEPT ![w] = [job[w] EXCEPT !.at = "unmarked"]]
          BY Zenon, <2>1, <4>2
        <5> QED  BY Zenon, <3>1, <5>1, <5>2, Moved
      <4> QED  BY Zenon, <4>1, <4>2
    <3>3. Acts(w, "confirmed", a)
      BY Zenon, <3>1, <3>2 DEF Acts
    <3>4. validate_discard_attempt(a, job[w].token) => EndsDiscard(w, a, Discarded(rec[a]))
      BY Zenon, <3>1, <3>3 DEF EndsDiscard
    <3> QED  BY Zenon, <1>2, <2>1, <3>4 DEF UpdateChecked
  <2>3. CASE ~HarborLinkConfirmed(w)
    BY Zenon, <2>1, <2>3 DEF UpdateChecked
  <2> QED  BY Zenon, <2>2, <2>3
<1>4. CASE mark_artifact_discard_failed(w)
  <2>1. PICK ok \in BOOLEAN :
          UpdateChecked(a, validate_discard_attempt(a, job[w].token), DiscardFailed(rec[a]), ok)
    BY Zenon, <1>4 DEF mark_artifact_discard_failed
  <2>2. job[w].at = "unmarked" /\ NextDiscard(w, job[w].todo)
    BY Zenon, <1>4 DEF mark_artifact_discard_failed
  <2>3. job'[w] /= job[w]
    BY Zenon, <1>1, <2>2, DiscardsAt, Moved DEF NextDiscard
  <2>4. validate_discard_attempt(a, job[w].token) => EndsDiscard(w, a, DiscardFailed(rec[a]))
    BY Zenon, <2>2, <2>3 DEF EndsDiscard, Acts
  <2> QED  BY Zenon, <1>2, <2>1, <2>4 DEF UpdateChecked
<1> QED  BY Zenon, <1>3, <1>4

\* The steps of time write one record, or none.
LEMMA TimeWrites ==
  ASSUME QueueInv, NEW a \in Artifact, TimePasses(a)
  PROVE  OneWritten
<1>1. ASSUME NEW r, rec' = [rec EXCEPT ![a] = r],
             \/ r = [rec[a] EXCEPT !.live = FALSE]
             \/ r = [rec[a] EXCEPT !.due = TRUE]
             \/ r = [rec[a] EXCEPT !.dlive = FALSE]
      PROVE  OneWritten
  BY Zenon, <1>1 DEF OneWritten, RecordStep, Lapses
<1>2. CASE ClaimLapses(a)
  BY Zenon, <1>1, <1>2 DEF ClaimLapses
<1>3. CASE RetryFallsDue(a)
  BY Zenon, <1>1, <1>3 DEF RetryFallsDue
<1>4. CASE DiscardLapses(a)
  BY Zenon, <1>1, <1>4 DEF DiscardLapses
<1> QED  BY Zenon, <1>2, <1>3, <1>4 DEF TimePasses

\* A step leaves the records alone, recovers lapsed claims or writes one record.
LEMMA StepKinds ==
  ASSUME QueueInv, Next
  PROVE  UNCHANGED rec \/ OneWritten \/ SomeRecovered
<1>1. ASSUME NEW w \in Worker, WorkerStep(w) \/ NotReady(w) \/ Crash(w)
      PROVE  UNCHANGED rec \/ OneWritten \/ SomeRecovered
  <2>1. CASE Boot(w) \/ Recover(w)
    BY Zenon, <2>1 DEF Boot, Recover, recover_expired_claims, SomeRecovered
  <2>2. CASE claim_next_pending(w)
    <3>1. CASE UNCHANGED <<rec, faults>>
      BY Zenon, <3>1
    <3>2. CASE SomeTokenIsFree /\ \E a \in Oldest(Due), ok \in BOOLEAN : Persist(a, Claimed(rec[a]), ok)
      <4>1. PICK a \in Oldest(Due), ok \in BOOLEAN : Persist(a, Claimed(rec[a]), ok)
        BY Zenon, <3>2
      <4>2. a \in Artifact /\ rec[a].status = "pending_validation"
        BY Zenon DEF Oldest, Due
      <4>3. RecordStep(a, Claimed(rec[a]))
        BY Zenon, <3>2, <4>2 DEF RecordStep
      <4> QED  BY Zenon, <4>1, <4>2, <4>3, Written
    <3> QED  BY Zenon, <2>2, <3>1, <3>2 DEF claim_next_pending
  <2>3. CASE process(w)
    BY Zenon, <2>3, ProcessWrites
  <2>4. CASE claim_artifact_discard(w)
    <3>1. PICK a \in job[w].todo :
            \/ /\ is_physical_discard_eligible(rec[a]) /\ DiscardIsFree(a) /\ SomeTokenIsFree
               /\ \E ok \in BOOLEAN : Persist(a, DiscardClaimed(rec[a]), ok)
            \/ UNCHANGED rec
      BY Zenon, <2>4 DEF claim_artifact_discard
    <3>2. a \in Artifact
      BY Zenon DEF QueueInv, Job
    <3>3. CASE UNCHANGED rec
      BY Zenon, <3>3
    <3>4. ASSUME NEW ok \in BOOLEAN, Persist(a, DiscardClaimed(rec[a]), ok),
                 is_physical_discard_eligible(rec[a]), DiscardIsFree(a), SomeTokenIsFree
          PROVE  UNCHANGED rec \/ OneWritten
      <4>1. RecordStep(a, DiscardClaimed(rec[a]))
        BY Zenon, <3>4 DEF RecordStep
      <4> QED  BY Zenon, <3>2, <3>4, <4>1, Written
    <3> QED  BY Zenon, <3>1, <3>3, <3>4
  <2>5. CASE mark_artifact_discarded(w) \/ mark_artifact_discard_failed(w)
    BY Zenon, <2>5, MarkWrites
  <2>6. CASE retry_pending_discards(w) \/ delete_dvr_artifact(w) \/ NotReady(w) \/ Crash(w)
    BY Zenon, <2>6 DEF retry_pending_discards, delete_dvr_artifact, NotReady, Crash
  <2> QED  BY Zenon, <1>1, <2>1, <2>2, <2>3, <2>4, <2>5, <2>6 DEF WorkerStep
<1>2. ASSUME NEW a \in Artifact, Register(a)
      PROVE  UNCHANGED rec \/ OneWritten
  <2> DEFINE n == Cardinality(Registered) + 1
  <2>1. n \in Nat
    <3>1. IsFiniteSet(Registered)
      BY Zenon, FiniteAssumption, FS_Subset DEF Registered
    <3> QED  BY <3>1, FS_CardinalityType
  <2>2. PICK ok \in BOOLEAN : Persist(a, NewRecord("pending_validation", n), ok)
    BY Zenon, <1>2 DEF Register
  <2>3. rec[a].status = "unregistered"
    BY Zenon, <1>2 DEF Register, Registered
  <2> HIDE DEF n
  <2>4. RecordStep(a, NewRecord("pending_validation", n))
    BY Zenon, <2>1, <2>3 DEF RecordStep
  <2> QED  BY Zenon, <2>2, <2>4, Written
<1>3. ASSUME NEW a \in Artifact, TimePasses(a)
      PROVE  OneWritten
  BY Zenon, <1>3, TimeWrites
<1>4. ASSUME NEW a \in Artifact, LateDelete(a) \/ handle_delete_dvr_artifact(a)
      PROVE  UNCHANGED rec
  BY Zenon, <1>4 DEF LateDelete, handle_delete_dvr_artifact
<1> QED  BY Zenon, <1>1, <1>2, <1>3, <1>4 DEF Next

\* The same, seen from one record.
LEMMA RecordMoves ==
  ASSUME QueueInv, [Next]_vars, NEW a \in Artifact
  PROVE  \/ rec'[a] = rec[a]
         \/ a \in Expired /\ rec'[a] = Recovered(rec[a]) /\ a \in lost'
         \/ RecordStep(a, rec'[a])
<1>1. rec = [b \in Artifact |-> rec[b]]
  BY Zenon DEF QueueInv
<1>2. CASE UNCHANGED rec
  BY Zenon, <1>2
<1>3. CASE OneWritten
  <2>0. PICK b \in Artifact : \E r : rec' = [rec EXCEPT ![b] = r] /\ RecordStep(b, r)
    BY Zenon, <1>3 DEF OneWritten
  <2>1. PICK r : rec' = [rec EXCEPT ![b] = r] /\ RecordStep(b, r)
    BY Zenon, <2>0
  <2>2. rec'[a] = IF a = b THEN r ELSE rec[a]
    BY Zenon, <1>1, <2>1
  <2> QED  BY Zenon, <2>1, <2>2
<1>4. CASE SomeRecovered
  BY Zenon, <1>4 DEF SomeRecovered
<1>5. CASE UNCHANGED vars
  BY Zenon, <1>5 DEF vars
<1> QED  BY Zenon, <1>2, <1>3, <1>4, <1>5, StepKinds

-----------------------------------------------------------------------------
(* The action properties.                                                  *)

\* What each operation leaves alone in the record it writes: complete.
LEMMA ConcludedFields ==
  ASSUME NEW r, r \in Record, NEW v
  PROVE  /\ Concluded(r, v).status = v
         /\ Concluded(r, v).disposition = r.disposition
         /\ Concluded(r, v).dtoken = r.dtoken
BY Zenon DEF Concluded, clear_processing_claim, Record

\* The operations that put a candidate back.
LEMMA PutBackFields ==
  ASSUME NEW r, r \in Record, NEW q, q \in {Postponed(r), Deferred(r), Recovered(r)}
  PROVE  /\ q.status = "pending_validation"
         /\ q.disposition = r.disposition /\ q.dtoken = r.dtoken
<1>1. \A p \in Record : /\ Postponed(p).status = "pending_validation"
                        /\ Postponed(p).disposition = p.disposition
                        /\ Postponed(p).dtoken = p.dtoken
  BY Zenon DEF Postponed, clear_processing_claim, Record
<1>2. /\ Deferred(r).status = "pending_validation"
      /\ Deferred(r).disposition = r.disposition /\ Deferred(r).dtoken = r.dtoken
  <2> DEFINE n == IF r.attempts > 0 THEN r.attempts - 1 ELSE 0
             p == [r EXCEPT !.attempts = n]
  <2>1. Deferred(r) = Postponed(p)
    BY Zenon DEF Deferred, Record
  <2>2. n \in 0..AttemptCap
    BY NumberAssumption DEF Record
  <2> HIDE DEF n
  <2>3. p \in Record /\ p.disposition = r.disposition /\ p.dtoken = r.dtoken
    BY Zenon, <2>2 DEF Record
  <2> HIDE DEF p
  <2> QED  BY Zenon, <1>1, <2>1, <2>3
<1>3. /\ Recovered(r).status = "pending_validation"
      /\ Recovered(r).disposition = r.disposition /\ Recovered(r).dtoken = r.dtoken
  BY Zenon DEF Recovered, clear_processing_claim, Record
<1>4. q = Postponed(r) \/ q = Deferred(r) \/ q = Recovered(r)
  BY Zenon
<1> QED  BY Zenon, <1>1, <1>2, <1>3, <1>4

\* claim_next_pending.
LEMMA ClaimedFields ==
  ASSUME NEW r, r \in Record
  PROVE  /\ Claimed(r).status = "processing"
         /\ Claimed(r).disposition = r.disposition /\ Claimed(r).dtoken = r.dtoken
BY Zenon DEF Claimed, Record

\* claim_artifact_discard.
LEMMA DiscardClaimedFields ==
  ASSUME NEW r, r \in Record
  PROVE  /\ DiscardClaimed(r).status = r.status /\ DiscardClaimed(r).token = r.token
         /\ DiscardClaimed(r).disposition = "discard_pending"
BY Zenon DEF DiscardClaimed, Record

\* The two ends of a discard attempt.
LEMMA DiscardedFields ==
  ASSUME NEW r, r \in Record, NEW q, q = Discarded(r) \/ q = DiscardFailed(r)
  PROVE  q.status = r.status /\ q.token = r.token
BY Zenon DEF Discarded, DiscardFailed, Record

\* A deadline that passes.
LEMMA LapsedFields ==
  ASSUME NEW r, r \in Record, NEW q, Lapses(r, q)
  PROVE  /\ q.status = r.status /\ q.token = r.token
         /\ q.disposition = r.disposition /\ q.dtoken = r.dtoken
BY Zenon DEF Record, Lapses

\* VerdictUnderClaim: only the worker with the live claim gives a verdict, once.
THEOREM Verdicts == Spec => VerdictUnderClaim
<1> DEFINE OK(a) ==
      rec[a].status /= rec'[a].status /\ {rec[a].status, rec'[a].status} \cap Final /= {} =>
        /\ rec[a].status = "processing" /\ rec[a].live
        /\ \E w \in Worker : /\ job[w].at = "evaluating" /\ job[w].art = a
                             /\ job[w].token = rec[a].token
                             /\ job'[w] /= job[w]
<1>1. ASSUME QueueInv, [Next]_vars, NEW a \in Artifact PROVE OK(a)
  <2> DEFINE q == rec'[a]
  <2>1. rec[a] \in Record
    BY Zenon, <1>1 DEF QueueInv
  <2>2. CASE \E w \in Worker : EndsClaim(w, a, q)
    BY Zenon, <2>2 DEF EndsClaim, Acts, validate_processing_claim
  <2>S. q.status = rec[a].status => OK(a)
    BY Zenon
  <2>3. CASE \E w \in Worker : EndsDiscard(w, a, q)
    <3>1. q = Discarded(rec[a]) \/ q = DiscardFailed(rec[a])
      BY Zenon, <2>3 DEF EndsDiscard
    <3>2. q.status = rec[a].status
      BY Zenon, <2>1, <3>1, DiscardedFields
    <3> QED  BY Zenon, <2>S, <3>2
  <2>4. CASE \/ q = rec[a]
             \/ Lapses(rec[a], q)
             \/ q = DiscardClaimed(rec[a])
    <3>1. q.status = rec[a].status
      BY Zenon, <2>1, <2>4, LapsedFields, DiscardClaimedFields
    <3> QED  BY Zenon, <2>S, <3>1
  <2>5. CASE \/ a \in Expired /\ q = Recovered(rec[a])
             \/ rec[a].status = "pending_validation" /\ q = Claimed(rec[a])
    <3>1. rec[a].status \in {"processing", "pending_validation"}
      BY Zenon, <2>5 DEF Expired
    <3>2. q.status \in {"processing", "pending_validation"}
      BY <2>1, <2>5, PutBackFields, ClaimedFields
    <3> QED  BY Zenon, <3>1, <3>2 DEF Final
  <2>6. CASE rec[a].status = "unregistered" /\ \E n \in Nat : q = NewRecord("pending_validation", n)
    BY <2>6 DEF NewRecord, Final
  <2>7. RecordStep(a, q) \/ q = rec[a] \/ (a \in Expired /\ q = Recovered(rec[a]))
    BY Zenon, <1>1, RecordMoves
  <2> QED  BY Zenon, <2>2, <2>3, <2>4, <2>5, <2>6, <2>7 DEF RecordStep
<1>2. QueueInv /\ [Next]_vars => [\A a \in Artifact : OK(a)]_vars
  BY Zenon, <1>1
<1> QED  BY <1>2, QueueInvariant, PTL DEF Spec, VerdictUnderClaim

\* DiscardUnderClaim: a discard attempt is begun by a claim, and ended by the
\* worker that holds its live token.
THEOREM DiscardAttempts == Spec => DiscardUnderClaim
<1> DEFINE OK(a) ==
      rec[a].disposition /= rec'[a].disposition =>
        \/ /\ rec[a].disposition \in {"retained", "discard_failed"}
           /\ rec'[a].disposition = "discard_pending"
        \/ /\ rec[a].disposition = "discard_pending" /\ rec[a].dlive
           /\ \E w \in Worker : job[w].art = a /\ job[w].token = rec[a].dtoken
<1>1. ASSUME QueueInv, [Next]_vars, NEW a \in Artifact PROVE OK(a)
  <2> DEFINE q == rec'[a]
  <2>1. rec[a] \in Record /\ RecordOK(rec[a])
    BY Zenon, <1>1 DEF QueueInv
  <2>S. q.disposition = rec[a].disposition => OK(a)
    BY Zenon
  <2>2. CASE \E w \in Worker : EndsClaim(w, a, q)
    <3>1. (\E v \in Final : q = Concluded(rec[a], v)) \/ q = Deferred(rec[a]) \/ q = Postponed(rec[a])
      BY Zenon, <2>2 DEF EndsClaim
    <3>2. q.disposition = rec[a].disposition
      BY <2>1, <3>1, ConcludedFields, PutBackFields
    <3> QED  BY Zenon, <2>S, <3>2
  <2>3. CASE \E w \in Worker : EndsDiscard(w, a, q)
    BY Zenon, <2>3 DEF EndsDiscard, Acts, validate_discard_attempt
  <2>4. CASE \/ q = rec[a]
             \/ Lapses(rec[a], q)
             \/ q = Recovered(rec[a])
             \/ q = Claimed(rec[a])
    <3>1. q.disposition = rec[a].disposition
      BY <2>1, <2>4, LapsedFields, PutBackFields, ClaimedFields
    <3> QED  BY Zenon, <2>S, <3>1
  <2>5. CASE is_physical_discard_eligible(rec[a]) /\ q = DiscardClaimed(rec[a])
    <3>1. q.disposition = "discard_pending"
      BY Zenon, <2>1, <2>5, DiscardClaimedFields
    <3>2. rec[a].disposition \in {"retained", "discard_failed", "discard_pending"}
      BY Zenon, <2>1, <2>5 DEF is_physical_discard_eligible, Record, Disposition
    <3> QED  BY Zenon, <3>1, <3>2
  <2>6. CASE rec[a].status = "unregistered" /\ \E n \in Nat : q = NewRecord("pending_validation", n)
    <3>1. q.disposition = "retained"
      BY <2>6 DEF NewRecord
    <3>2. rec[a].disposition = "retained"
      BY Zenon, <2>1, <2>6 DEF RecordOK
    <3> QED  BY Zenon, <2>S, <3>1, <3>2
  <2>7. RecordStep(a, q) \/ q = rec[a] \/ (a \in Expired /\ q = Recovered(rec[a]))
    BY Zenon, <1>1, RecordMoves
  <2> QED  BY Zenon, <2>2, <2>3, <2>4, <2>5, <2>6, <2>7 DEF RecordStep
<1>2. QueueInv /\ [Next]_vars => [\A a \in Artifact : OK(a)]_vars
  BY Zenon, <1>1
<1> QED  BY <1>2, QueueInvariant, PTL DEF Spec, DiscardUnderClaim

\* LiveLeaseHonoured: a live claim or discard attempt changes hands only in a
\* step of the worker that holds it.
THEOREM Leases == Spec => LiveLeaseHonoured
<1> DEFINE OK(a) ==
      \/ rec[a].live  /\ rec'[a].token /= rec[a].token
      \/ rec[a].dlive /\ rec'[a].dtoken /= rec[a].dtoken
      => \E w \in Worker : /\ job[w].art = a /\ job'[w] /= job[w]
                           /\ job[w].token \in {rec[a].token, rec[a].dtoken}
<1>1. ASSUME QueueInv, [Next]_vars, NEW a \in Artifact PROVE OK(a)
  <2> DEFINE q == rec'[a]
  <2>1. /\ rec[a] \in Record
        /\ rec[a].live => rec[a].status = "processing"
        /\ rec[a].dlive => rec[a].disposition = "discard_pending" /\ rec[a].dtoken /= NoToken
                           /\ rec[a].status = "rejected"
    BY Zenon, <1>1 DEF QueueInv, RecordOK
  <2>2. CASE \E w \in Worker : EndsClaim(w, a, q)
    BY Zenon, <2>2 DEF EndsClaim, Acts, validate_processing_claim
  <2>3. CASE \E w \in Worker : EndsDiscard(w, a, q)
    BY Zenon, <2>3 DEF EndsDiscard, Acts, validate_discard_attempt
  <2>4. CASE \/ q = rec[a]
             \/ Lapses(rec[a], q)
    <3>1. q.token = rec[a].token /\ q.dtoken = rec[a].dtoken
      BY Zenon, <2>1, <2>4, LapsedFields
    <3> QED  BY Zenon, <3>1
  <2>5. CASE \/ a \in Expired /\ q = Recovered(rec[a])
             \/ rec[a].status = "pending_validation" /\ q = Claimed(rec[a])
    <3>1. ~rec[a].live
      BY Zenon, <2>1, <2>5 DEF Expired
    <3>2. q.dtoken = rec[a].dtoken
      BY <2>1, <2>5, PutBackFields, ClaimedFields
    <3> QED  BY Zenon, <3>1, <3>2
  <2>6. CASE DiscardIsFree(a) /\ q = DiscardClaimed(rec[a])
    <3>1. ~rec[a].dlive
      BY Zenon, <2>1, <2>6 DEF DiscardIsFree
    <3>2. q.token = rec[a].token
      BY Zenon, <2>1, <2>6, DiscardClaimedFields
    <3> QED  BY Zenon, <3>1, <3>2
  <2>7. CASE rec[a].status = "unregistered"
    BY Zenon, <2>1, <2>7
  <2>8. RecordStep(a, q) \/ q = rec[a] \/ (a \in Expired /\ q = Recovered(rec[a]))
    BY Zenon, <1>1, RecordMoves
  <2> QED  BY Zenon, <2>2, <2>3, <2>4, <2>5, <2>6, <2>7, <2>8 DEF RecordStep
<1>2. QueueInv /\ [Next]_vars => [\A a \in Artifact : OK(a)]_vars
  BY Zenon, <1>1
<1> QED  BY <1>2, QueueInvariant, PTL DEF Spec, LiveLeaseHonoured

-----------------------------------------------------------------------------
(* The refinement.                                                         *)

Verdict(r) == IF r.status \in Final THEN r.status ELSE "none"
ViewVerdicts  == [a \in Artifact |-> Verdict(rec[a])]
ViewCondemned == {a \in Artifact : rec[a].disposition /= "retained"}
ViewBuried    == {a \in Artifact : rec[a].disposition = "discarded"}

\* A file that goes, and whose.
FileGoes(a) == deleted' = deleted \cup {a} /\ UNCHANGED purged /\ (Condemned(rec[a]) \/ a \in purged)
FilePurged(a) == purged' = purged \cup {a} /\ deleted' \in {deleted, deleted \cup {a}}

\* A step takes away no more than one file, of a condemned recording or one that
\* an operator has deleted, and then writes no record.
LEMMA FileSteps ==
  ASSUME QueueInv, [Next]_vars
  PROVE  \/ UNCHANGED <<deleted, purged>>
         \/ UNCHANGED rec /\ \E a \in Artifact : FileGoes(a) \/ FilePurged(a)
<1>1. ASSUME NEW w \in Worker, delete_dvr_artifact(w)
      PROVE  \/ UNCHANGED <<deleted, purged>>
             \/ UNCHANGED rec /\ \E a \in Artifact : FileGoes(a)
  <2>1. job[w].art \in Artifact /\ Condemned(rec[job[w].art])
    BY Zenon, <1>1 DEF QueueInv, JobOK, Discarding, delete_dvr_artifact
  <2> QED  BY Zenon, <1>1, <2>1 DEF delete_dvr_artifact, FileGoes
<1>2. ASSUME NEW a \in Artifact, LateDelete(a)
      PROVE  UNCHANGED rec /\ FileGoes(a)
  BY Zenon, <1>2 DEF LateDelete, QueueInv, FileGoes
<1>3. ASSUME NEW w \in Worker, WorkerStep(w) \/ NotReady(w) \/ Crash(w), ~delete_dvr_artifact(w)
      PROVE  UNCHANGED <<deleted, purged>>
  BY Zenon, <1>3 DEF WorkerStep, Boot, retry_pending_discards, Recover, claim_next_pending, process,
     claim_artifact_discard, mark_artifact_discarded, mark_artifact_discard_failed, NotReady, Crash
<1>4. ASSUME NEW a \in Artifact, Register(a) \/ TimePasses(a)
      PROVE  UNCHANGED <<deleted, purged>>
  BY Zenon, <1>4 DEF Register, TimePasses, ClaimLapses, RetryFallsDue, DiscardLapses
<1>5. ASSUME NEW a \in Artifact, handle_delete_dvr_artifact(a)
      PROVE  UNCHANGED rec /\ FilePurged(a)
  BY Zenon, <1>5 DEF handle_delete_dvr_artifact, FilePurged
<1>6. CASE UNCHANGED vars
  BY Zenon, <1>6 DEF vars
<1> QED  BY Zenon, <1>1, <1>2, <1>3, <1>4, <1>5, <1>6 DEF Next

\* Writing a record changes the abstract state at that artifact only.
LEMMA ViewOfWrite ==
  ASSUME QueueInv, NEW a \in Artifact, NEW r, rec' = [rec EXCEPT ![a] = r]
  PROVE  /\ ViewVerdicts[a] = Verdict(rec[a])
         /\ ViewVerdicts' = [ViewVerdicts EXCEPT ![a] = Verdict(r)]
         /\ Verdict(r) = Verdict(rec[a]) => ViewVerdicts' = ViewVerdicts
         /\ ViewCondemned' = IF r.disposition /= "retained" THEN ViewCondemned \cup {a} ELSE ViewCondemned \ {a}
         /\ ViewBuried' = IF r.disposition = "discarded" THEN ViewBuried \cup {a} ELSE ViewBuried \ {a}
<1>1. \A b \in Artifact : rec'[b] = IF b = a THEN r ELSE rec[b]
  BY Zenon DEF QueueInv
<1>2. /\ ViewVerdicts[a] = Verdict(rec[a])
      /\ ViewVerdicts' = [ViewVerdicts EXCEPT ![a] = Verdict(r)]
      /\ Verdict(r) = Verdict(rec[a]) => ViewVerdicts' = ViewVerdicts
  <2>1. \A b \in Artifact : Verdict(rec'[b]) = IF b = a THEN Verdict(r) ELSE Verdict(rec[b])
    BY <1>1
  <2> QED  BY Zenon, <2>1 DEF ViewVerdicts
<1>3. ViewCondemned' = IF r.disposition /= "retained" THEN ViewCondemned \cup {a} ELSE ViewCondemned \ {a}
  BY Zenon, <1>1 DEF ViewCondemned
<1>4. ViewBuried' = IF r.disposition = "discarded" THEN ViewBuried \cup {a} ELSE ViewBuried \ {a}
  BY Zenon, <1>1 DEF ViewBuried
<1> QED  BY Zenon, <1>2, <1>3, <1>4

\* A write that keeps verdict and disposition of the artifact is invisible.
LEMMA InvisibleWrite ==
  ASSUME QueueInv, NEW a \in Artifact, NEW r, rec' = [rec EXCEPT ![a] = r],
         Verdict(r) = Verdict(rec[a]),
         r.disposition = "retained" <=> rec[a].disposition = "retained",
         r.disposition = "discarded" <=> rec[a].disposition = "discarded"
  PROVE  ViewVerdicts' = ViewVerdicts /\ ViewCondemned' = ViewCondemned /\ ViewBuried' = ViewBuried
BY Zenon, ViewOfWrite DEF ViewVerdicts, ViewCondemned, ViewBuried

\* Every write of a record is a step of RecordingFate or invisible to it.
LEMMA WriteRefines ==
  ASSUME QueueInv, OneWritten, UNCHANGED <<deleted, purged>>
  PROVE  [Fate!Next]_(Fate!vars)
<1> DEFINE Invisible == ViewVerdicts' = ViewVerdicts /\ ViewCondemned' = ViewCondemned /\ ViewBuried' = ViewBuried
<1>0. PICK a \in Artifact : \E r : rec' = [rec EXCEPT ![a] = r] /\ RecordStep(a, r)
  BY Zenon DEF OneWritten
<1>1. PICK r : rec' = [rec EXCEPT ![a] = r] /\ RecordStep(a, r)
  BY Zenon, <1>0
<1>2. rec[a] \in Record /\ RecordOK(rec[a])
  BY Zenon DEF QueueInv
<1>V. /\ ViewVerdicts[a] = Verdict(rec[a])
      /\ ViewVerdicts' = [ViewVerdicts EXCEPT ![a] = Verdict(r)]
      /\ Verdict(r) = Verdict(rec[a]) => ViewVerdicts' = ViewVerdicts
      /\ ViewCondemned' = IF r.disposition /= "retained" THEN ViewCondemned \cup {a} ELSE ViewCondemned \ {a}
      /\ ViewBuried' = IF r.disposition = "discarded" THEN ViewBuried \cup {a} ELSE ViewBuried \ {a}
  BY Zenon, <1>1, ViewOfWrite
<1>3. Invisible => [Fate!Next]_(Fate!vars)
  BY Zenon DEF Fate!vars, ViewVerdicts, Verdict, ViewCondemned, ViewBuried
<1>4. CASE Lapses(rec[a], r)
  <2>1. r.status = rec[a].status /\ r.disposition = rec[a].disposition
    BY Zenon, <1>2, <1>4, LapsedFields
  <2>2. Verdict(r) = Verdict(rec[a])
    BY Zenon, <2>1 DEF Verdict
  <2> QED  BY Zenon, <1>1, <1>3, <2>1, <2>2, InvisibleWrite
<1>5. CASE rec[a].status = "unregistered" /\ \E n \in Nat : r = NewRecord("pending_validation", n)
  <2>1. r.status = "pending_validation" /\ r.disposition = "retained" /\ rec[a].disposition = "retained"
    BY <1>2, <1>5 DEF NewRecord, RecordOK
  <2>2. Verdict(r) = Verdict(rec[a])
    BY Zenon, <1>5, <2>1 DEF Verdict, Final
  <2> QED  BY Zenon, <1>1, <1>3, <2>1, <2>2, InvisibleWrite
<1>6. CASE rec[a].status = "pending_validation" /\ r = Claimed(rec[a])
  <2>1. r.status = "processing" /\ r.disposition = rec[a].disposition
    BY Zenon, <1>2, <1>6, ClaimedFields
  <2>2. Verdict(r) = Verdict(rec[a])
    BY Zenon, <1>6, <2>1 DEF Verdict, Final
  <2> QED  BY Zenon, <1>1, <1>3, <2>1, <2>2, InvisibleWrite
<1>7. CASE is_physical_discard_eligible(rec[a]) /\ r = DiscardClaimed(rec[a])
  <2>1. /\ r.status = rec[a].status /\ r.disposition = "discard_pending"
        /\ rec[a].status = "rejected" /\ rec[a].disposition /= "discarded"
    BY Zenon, <1>2, <1>7, DiscardClaimedFields DEF is_physical_discard_eligible
  <2>2. Verdict(r) = Verdict(rec[a]) /\ Verdict(rec[a]) = "rejected"
    BY Zenon, <2>1 DEF Verdict, Final
  <2>3. /\ ViewVerdicts' = ViewVerdicts
        /\ ViewCondemned' = ViewCondemned \cup {a}
        /\ ViewBuried' = ViewBuried
        /\ ViewVerdicts[a] = "rejected"
    <3>1. a \notin ViewBuried
      BY Zenon, <2>1 DEF ViewBuried
    <3> QED  BY Zenon, <2>1, <2>2, <3>1, <1>V
  <2>4. Fate!Condemn(a)
    BY Zenon, <2>3 DEF Fate!Condemn, ViewVerdicts, Verdict, ViewCondemned, ViewBuried
  <2> QED  BY Zenon, <2>4 DEF Fate!Next
<1>8. ASSUME NEW w \in Worker, EndsClaim(w, a, r) PROVE [Fate!Next]_(Fate!vars)
  <2>1. rec[a].status = "processing"
    BY Zenon, <1>8 DEF EndsClaim, validate_processing_claim
  <2>2. CASE r \in {Deferred(rec[a]), Postponed(rec[a])}
    <3>1. r.status = "pending_validation" /\ r.disposition = rec[a].disposition
      BY Zenon, <1>2, <2>2, PutBackFields
    <3>2. Verdict(r) = Verdict(rec[a])
      BY Zenon, <2>1, <3>1 DEF Verdict, Final
    <3> QED  BY Zenon, <1>1, <1>3, <3>1, <3>2, InvisibleWrite
  <2>3. ASSUME NEW v \in Final, r = Concluded(rec[a], v) PROVE [Fate!Next]_(Fate!vars)
    <3>1. r.status = v /\ r.disposition = rec[a].disposition
      BY Zenon, <1>2, <2>3, ConcludedFields
    <3>2. Verdict(r) = v /\ Verdict(rec[a]) = "none"
      BY Zenon, <2>1, <3>1 DEF Verdict, Final
    <3>3. /\ ViewVerdicts' = [ViewVerdicts EXCEPT ![a] = v] /\ ViewVerdicts[a] = "none"
          /\ ViewCondemned' = ViewCondemned /\ ViewBuried' = ViewBuried
      <4>1. /\ a \in ViewCondemned <=> r.disposition /= "retained"
            /\ a \in ViewBuried <=> r.disposition = "discarded"
        BY Zenon, <3>1 DEF ViewCondemned, ViewBuried
      <4> QED  BY Zenon, <3>2, <4>1, <1>V
    <3>4. Fate!Judge(a, v)
      BY Zenon, <3>3 DEF Fate!Judge, ViewVerdicts, Verdict, ViewCondemned, ViewBuried
    <3>5. v \in Fate!Verdict
      BY Zenon DEF Fate!Verdict, Final
    <3> QED  BY Zenon, <3>4, <3>5 DEF Fate!Next
  <2> QED  BY Zenon, <1>8, <2>2, <2>3 DEF EndsClaim
<1>9. ASSUME NEW w \in Worker, EndsDiscard(w, a, r) PROVE [Fate!Next]_(Fate!vars)
  <2>1. rec[a].disposition = "discard_pending"
    BY Zenon, <1>9 DEF EndsDiscard, validate_discard_attempt
  <2>2. CASE r = DiscardFailed(rec[a])
    <3>1. r.status = rec[a].status /\ r.disposition = "discard_failed"
      BY Zenon, <1>2, <2>2 DEF DiscardFailed, Record
    <3>2. Verdict(r) = Verdict(rec[a])
      BY Zenon, <3>1 DEF Verdict
    <3> QED  BY Zenon, <1>1, <1>3, <2>1, <3>1, <3>2, InvisibleWrite
  <2>3. CASE r = Discarded(rec[a]) /\ a \in deleted
    <3>1. r.status = rec[a].status /\ r.disposition = "discarded"
      BY Zenon, <1>2, <2>3 DEF Discarded, Record
    <3>2. Verdict(r) = Verdict(rec[a])
      BY Zenon, <3>1 DEF Verdict
    <3>3. /\ ViewVerdicts' = ViewVerdicts /\ ViewCondemned' = ViewCondemned
          /\ ViewBuried' = ViewBuried \cup {a}
      <4>1. a \in ViewCondemned
        BY Zenon, <2>1 DEF ViewCondemned
      <4> QED  BY Zenon, <3>1, <3>2, <4>1, <1>V
    <3>4. Fate!Bury(a)
      BY Zenon, <2>3, <3>3 DEF Fate!Bury, ViewVerdicts, Verdict, ViewCondemned, ViewBuried
    <3> QED  BY Zenon, <3>4 DEF Fate!Next
  <2> QED  BY Zenon, <1>9, <2>2, <2>3 DEF EndsDiscard
<1> QED  BY Zenon, <1>1, <1>4, <1>5, <1>6, <1>7, <1>8, <1>9 DEF RecordStep

\* A recovery is invisible: a claim that lapsed had no verdict.
LEMMA RecoveryRefines ==
  ASSUME QueueInv, SomeRecovered, UNCHANGED <<deleted, purged>>
  PROVE  [Fate!Next]_(Fate!vars)
<1>1. ASSUME NEW a \in Artifact
      PROVE  Verdict(rec'[a]) = Verdict(rec[a]) /\ rec'[a].disposition = rec[a].disposition
  <2>1. rec'[a] = rec[a] \/ (rec[a].status = "processing" /\ rec'[a] = Recovered(rec[a]))
    BY Zenon DEF SomeRecovered, Expired
  <2>2. rec[a] \in Record
    BY Zenon DEF QueueInv
  <2>3. CASE rec[a].status = "processing" /\ rec'[a] = Recovered(rec[a])
    <3>1. rec'[a].status = "pending_validation" /\ rec'[a].disposition = rec[a].disposition
      BY Zenon, <2>2, <2>3, PutBackFields
    <3> QED  BY Zenon, <2>3, <3>1 DEF Verdict, Final
  <2> QED  BY Zenon, <2>1, <2>3
<1>2. ViewVerdicts' = ViewVerdicts /\ ViewCondemned' = ViewCondemned /\ ViewBuried' = ViewBuried
  BY Zenon, <1>1 DEF ViewVerdicts, ViewCondemned, ViewBuried
<1> QED  BY Zenon, <1>2 DEF Fate!vars, ViewVerdicts, Verdict, ViewCondemned, ViewBuried

\* ImplementsRecordingFate: whatever claims, leases, retries, errors and restarts
\* do, the queue keeps the promise RecordingFate states.
THEOREM Refinement == Spec => ImplementsRecordingFate
<1>1. Init => Fate!Init
  BY DEF Init, Fate!Init, NewRecord, Final
<1>2. ASSUME QueueInv, [Next]_vars PROVE [Fate!Next]_(Fate!vars)
  <2>1. CASE UNCHANGED <<rec, deleted, purged>>
    BY Zenon, <2>1 DEF Fate!vars
  <2>2. ASSUME UNCHANGED rec, NEW a \in Artifact, FileGoes(a) \/ FilePurged(a)
        PROVE  [Fate!Next]_(Fate!vars)
    <3>1. CASE FileGoes(a)
      <4>1. Fate!Delete(a)
        BY Zenon, <2>2, <3>1 DEF FileGoes, Fate!Delete, Condemned
      <4> QED  BY Zenon, <4>1 DEF Fate!Next
    <3>2. CASE FilePurged(a)
      <4>1. Fate!Purge(a)
        BY Zenon, <2>2, <3>2 DEF FilePurged, Fate!Purge
      <4> QED  BY Zenon, <4>1 DEF Fate!Next
    <3> QED  BY Zenon, <2>2, <3>1, <3>2
  <2>3. CASE UNCHANGED <<deleted, purged>> /\ OneWritten
    BY Zenon, <1>2, <2>3, WriteRefines
  <2>4. CASE UNCHANGED <<deleted, purged>> /\ SomeRecovered
    BY Zenon, <1>2, <2>4, RecoveryRefines
  <2>5. CASE UNCHANGED vars
    BY Zenon, <2>5 DEF vars, Fate!vars
  <2> QED  BY Zenon, <1>2, <2>1, <2>2, <2>3, <2>4, <2>5, FileSteps, StepKinds
<1> QED  BY <1>1, <1>2, QueueInvariant, PTL DEF Spec, ImplementsRecordingFate, Fate!Spec

-----------------------------------------------------------------------------
(* The attempts of a recording.                                            *)

\* What each operation does to the number of attempts.
LEMMA AttemptFields ==
  ASSUME NEW r, r \in Record
  PROVE  /\ \A v : Concluded(r, v).attempts = r.attempts
         /\ Postponed(r).attempts = r.attempts
         /\ Claimed(r).attempts = (IF r.attempts < AttemptCap THEN r.attempts + 1 ELSE r.attempts)
         /\ Claimed(r).token = NewToken
         /\ DiscardClaimed(r).attempts = r.attempts
         /\ Discarded(r).attempts = r.attempts
         /\ DiscardFailed(r).attempts = r.attempts
BY Zenon DEF Concluded, Postponed, clear_processing_claim, Claimed, DiscardClaimed, Discarded,
             DiscardFailed, Record

\* defer_resource_contention gives one attempt back.
LEMMA DeferredAttempts ==
  ASSUME NEW r, r \in Record
  PROVE  Deferred(r).attempts = IF r.attempts > 0 THEN r.attempts - 1 ELSE 0
<1> DEFINE n == IF r.attempts > 0 THEN r.attempts - 1 ELSE 0
           p == [r EXCEPT !.attempts = n]
<1>1. Deferred(r) = Postponed(p)
  BY Zenon DEF Deferred, Record
<1>2. n \in 0..AttemptCap
  BY NumberAssumption DEF Record
<1> HIDE DEF n
<1>3. p \in Record /\ p.attempts = n
  BY Zenon, <1>2 DEF Record
<1> HIDE DEF p
<1>4. Postponed(p).attempts = p.attempts
  BY Zenon, <1>3, AttemptFields
<1> QED  BY Zenon, <1>1, <1>3, <1>4 DEF n

\* A deadline that passes changes no number.
LEMMA LapsedNumbers ==
  ASSUME NEW r, r \in Record, NEW q, Lapses(r, q)
  PROVE  q.attempts = r.attempts /\ q.discards = r.discards
BY Zenon DEF Record, Lapses

\* The artifacts whose claim was recovered are remembered.
LEMMA LostGrows == ASSUME [Next]_vars PROVE lost \subseteq lost'
<1>1. \A ok \in BOOLEAN : recover_expired_claims(ok) => lost \subseteq lost'
  BY Zenon DEF recover_expired_claims
<1>2. \A w \in Worker : WorkerStep(w) \/ NotReady(w) \/ Crash(w) => lost \subseteq lost'
  BY Zenon, <1>1 DEF WorkerStep, Boot, Recover, retry_pending_discards, NotReady, claim_next_pending,
     process, claim_artifact_discard, delete_dvr_artifact, mark_artifact_discarded,
     mark_artifact_discard_failed, Crash
<1>3. \A a \in Artifact : Outside(a) => lost \subseteq lost'
  BY Zenon DEF Outside, Register, TimePasses, ClaimLapses, RetryFallsDue, DiscardLapses, LateDelete,
     handle_delete_dvr_artifact
<1> QED  BY Zenon, <1>2, <1>3 DEF Next, Outside, vars

\* Worker w evaluates a recording and its claim has not been taken away.
InHand(w) ==
  /\ job[w].at = "evaluating"
  /\ rec[job[w].art].status = "processing" /\ rec[job[w].art].token = job[w].token

\* The attempt count a worker goes by is the one in the store.
CountKnown(w) == InHand(w) => job[w].attempts = rec[job[w].art].attempts

WithinAttempts(r) ==
  /\ r.attempts <= MaxAttempts
  /\ r.status = "pending_validation" => r.attempts < MaxAttempts

TriesInv ==
  /\ QueueInv
  /\ \A w \in Worker : CountKnown(w)
  /\ \A a \in Artifact \ lost : WithinAttempts(rec[a])

\* A record under a claim that is not fresh had that claim before the step.
LEMMA ClaimStays ==
  ASSUME QueueInv, [Next]_vars, NEW a \in Artifact,
         rec'[a].status = "processing", rec'[a].token \in Held
  PROVE  /\ rec[a].status = "processing" /\ rec[a].token = rec'[a].token
         /\ rec[a].attempts = rec'[a].attempts
<1> DEFINE q == rec'[a]
<1>1. rec[a] \in Record /\ RecordOK(rec[a])
  BY Zenon DEF QueueInv
<1>2. CASE \E w \in Worker : EndsClaim(w, a, q)
  <2>1. (\E v \in Final : q = Concluded(rec[a], v)) \/ q = Deferred(rec[a]) \/ q = Postponed(rec[a])
    BY Zenon, <1>2 DEF EndsClaim
  <2>2. q.status \in Final \cup {"pending_validation"}
    BY <1>1, <2>1, ConcludedFields, PutBackFields
  <2> QED  BY Zenon, <2>2 DEF Final
<1>3. CASE \E w \in Worker : EndsDiscard(w, a, q)
  <2>1. (q = Discarded(rec[a]) \/ q = DiscardFailed(rec[a])) /\ rec[a].disposition = "discard_pending"
    BY Zenon, <1>3 DEF EndsDiscard, validate_discard_attempt
  <2>2. q.status = rec[a].status
    BY Zenon, <1>1, <2>1, DiscardedFields
  <2> QED  BY Zenon, <1>1, <2>1, <2>2 DEF RecordOK
<1>4. CASE q = rec[a] \/ Lapses(rec[a], q)
  BY Zenon, <1>1, <1>4, LapsedFields, LapsedNumbers
<1>5. CASE q = Recovered(rec[a])
  <2>1. q \in {Postponed(rec[a]), Deferred(rec[a]), Recovered(rec[a])}
    BY Zenon, <1>5
  <2>2. q.status = "pending_validation"
    BY Zenon, <1>1, <2>1, PutBackFields
  <2> QED  BY Zenon, <2>2
<1>6. CASE SomeTokenIsFree /\ q = Claimed(rec[a])
  BY Zenon, <1>1, <1>6, AttemptFields, FreshToken
<1>7. CASE is_physical_discard_eligible(rec[a]) /\ q = DiscardClaimed(rec[a])
  BY Zenon, <1>1, <1>7, DiscardClaimedFields DEF is_physical_discard_eligible
<1>8. CASE \E n \in Nat : q = NewRecord("pending_validation", n)
  BY <1>8 DEF NewRecord
<1>9. RecordStep(a, q) \/ q = rec[a] \/ q = Recovered(rec[a])
  BY Zenon, RecordMoves
<1> QED  BY Zenon, <1>2, <1>3, <1>4, <1>5, <1>6, <1>7, <1>8, <1>9 DEF RecordStep

\* A recording whose claims were never lost stays within its attempts: the worker
\* that puts it back after an error had one left, by the count in the store.
LEMMA AttemptsKept ==
  ASSUME TriesInv, [Next]_vars, NEW a \in Artifact \ lost'
  PROVE  WithinAttempts(rec'[a])
<1> DEFINE q == rec'[a]
<1>1. a \in Artifact /\ rec[a] \in Record /\ QueueInv /\ WithinAttempts(rec[a])
  BY Zenon, LostGrows DEF TriesInv, QueueInv
<1>0. rec[a].attempts \in Nat
  BY <1>1, NumberAssumption DEF Record
<1>2. /\ MaxAttempts \in Nat \ {0}
      /\ AttemptCap \in Nat /\ MaxAttempts < AttemptCap
  BY NumberAssumption
<1>3. ASSUME NEW w \in Worker, EndsClaim(w, a, q) PROVE WithinAttempts(q)
  <2>1. CASE \E v \in Final : q = Concluded(rec[a], v)
    <3>0. PICK v \in Final : q = Concluded(rec[a], v)
      BY Zenon, <2>1
    <3>1. q.status = v /\ q.attempts = rec[a].attempts
      BY <1>1, <3>0, ConcludedFields, AttemptFields
    <3> QED  BY Zenon, <1>1, <3>1 DEF WithinAttempts, Final
  <2>2. CASE q = Deferred(rec[a])
    <3>1. q.attempts = IF rec[a].attempts > 0 THEN rec[a].attempts - 1 ELSE 0
      BY Zenon, <1>1, <2>2, DeferredAttempts
    <3>2. rec[a].attempts <= MaxAttempts
      BY Zenon, <1>1 DEF WithinAttempts
    <3>3. q.attempts <= MaxAttempts /\ q.attempts < MaxAttempts
      BY ONLY <1>0, <1>2, <3>1, <3>2
    <3> QED  BY Zenon, <3>3 DEF WithinAttempts
  <2>3. CASE RetryIsLeft(job[w].attempts) /\ q = Postponed(rec[a])
    <3>1. InHand(w) /\ job[w].art = a
      BY Zenon, <1>3 DEF EndsClaim, Acts, validate_processing_claim, InHand
    <3>2. job[w].attempts = rec[a].attempts
      BY Zenon, <3>1 DEF TriesInv, CountKnown
    <3>3. q.attempts = rec[a].attempts /\ rec[a].attempts < MaxAttempts
      BY Zenon, <1>1, <2>3, <3>2, AttemptFields DEF RetryIsLeft
    <3> QED  BY Zenon, <1>1, <3>3 DEF WithinAttempts
  <2> QED  BY Zenon, <1>3, <2>1, <2>2, <2>3 DEF EndsClaim
<1>4. CASE \/ q = rec[a]
           \/ Lapses(rec[a], q)
           \/ q = DiscardClaimed(rec[a])
           \/ \E w \in Worker : EndsDiscard(w, a, q)
  <2>1. \/ q = rec[a]
        \/ Lapses(rec[a], q)
        \/ q = DiscardClaimed(rec[a])
        \/ q = Discarded(rec[a])
        \/ q = DiscardFailed(rec[a])
    BY Zenon, <1>4 DEF EndsDiscard
  <2>2. q.attempts = rec[a].attempts
    BY <1>1, <2>1, AttemptFields, LapsedNumbers
  <2>3. q.status = rec[a].status
    BY <1>1, <2>1, LapsedFields, DiscardClaimedFields, DiscardedFields
  <2> QED  BY Zenon, <1>1, <2>2, <2>3 DEF WithinAttempts
<1>5. CASE rec[a].status = "pending_validation" /\ q = Claimed(rec[a])
  <2>1. q.status = "processing"
    BY Zenon, <1>1, <1>5, ClaimedFields
  <2>2. q.attempts = (IF rec[a].attempts < AttemptCap THEN rec[a].attempts + 1 ELSE rec[a].attempts)
    BY Zenon, <1>1, <1>5, AttemptFields
  <2>3. rec[a].attempts < MaxAttempts
    BY Zenon, <1>1, <1>5 DEF WithinAttempts
  <2>4. q.attempts <= MaxAttempts
    BY ONLY <1>0, <1>2, <2>2, <2>3
  <2> QED  BY Zenon, <2>1, <2>4 DEF WithinAttempts
<1>6. CASE \E n \in Nat : q = NewRecord("pending_validation", n)
  <2>0. PICK n \in Nat : q = NewRecord("pending_validation", n)
    BY Zenon, <1>6
  <2>1. q.attempts = 0
    BY <2>0 DEF NewRecord
  <2>2. 0 <= MaxAttempts /\ 0 < MaxAttempts
    BY <1>2
  <2> QED  BY Zenon, <2>1, <2>2 DEF WithinAttempts
<1>7. RecordStep(a, q) \/ q = rec[a]
  BY Zenon, <1>1, RecordMoves
<1> QED  BY Zenon, <1>3, <1>4, <1>5, <1>6, <1>7 DEF RecordStep

\* How a step leaves worker w: with nothing claimed, with a fresh claim of a
\* recording, or with a fresh discard attempt.
Rests(w) == job'[w].at \notin {"evaluating", "deleting"}

TakesClaim(w, a) ==
  /\ SomeTokenIsFree /\ rec'[a] = Claimed(rec[a])
  /\ job'[w] = Evaluating(a, NewToken, Claimed(rec[a]).attempts)

TakesDiscard(w, a) ==
  /\ rec'[a] = DiscardClaimed(rec[a]) /\ UNCHANGED calls
  /\ job'[w].at = "deleting" /\ job'[w].art = a

\* Jobs with nothing claimed.
LEMMA RestingPlaces ==
  ASSUME QueueInv, NEW w \in Worker
  PROVE  /\ \A at \in Place \ {"evaluating", "deleting"} : Goto(w, at) => Rests(w)
         /\ \A todo \in SUBSET Artifact : NextDiscard(w, todo) => Rests(w)
<1>1. job \in [Worker -> Job] /\ job[w].after \in {"sweep", "ready"}
  BY Zenon DEF QueueInv, Job
<1>2. \A todo \in SUBSET Artifact : Discards(todo, job[w].after).at \notin {"evaluating", "deleting"}
  BY Zenon, DiscardsAt
<1>3. \A at : Idle(at).at = at
  BY Zenon DEF Idle
<1> QED  BY Zenon, <1>1, <1>2, <1>3 DEF Goto, NextDiscard, Rests

\* A worker's step leaves it in one of the three ways.
LEMMA WorkerMoves ==
  ASSUME QueueInv, NEW w \in Worker, WorkerStep(w) \/ NotReady(w) \/ Crash(w)
  PROVE  Rests(w) \/ \E a \in Artifact : TakesClaim(w, a) \/ TakesDiscard(w, a)
<1>1. /\ job \in [Worker -> Job] /\ rec \in [Artifact -> Record]
      /\ job[w] \in Job /\ job[w].todo \in SUBSET Artifact
  BY Zenon DEF QueueInv, Job
<1>2. CASE Boot(w) \/ Recover(w) \/ NotReady(w) \/ Crash(w)
  <2>1. \E at \in {"first_sweep", "claim", "sweep", "boot"} : Goto(w, at)
    BY Zenon, <1>2 DEF Boot, Recover, NotReady, Crash
  <2> QED  BY Zenon, <2>1, RestingPlaces DEF Place
<1>3. CASE retry_pending_discards(w)
  <2>1. \E todo \in SUBSET Artifact, after \in {"sweep", "ready"} :
          job' = [job EXCEPT ![w] = Discards(todo, after)]
    BY Zenon, <1>3 DEF retry_pending_discards, pending_discards
  <2>2. \A todo \in SUBSET Artifact, after \in {"sweep", "ready"} :
          Discards(todo, after).at \notin {"evaluating", "deleting"}
    BY Zenon DEF Discards, Idle
  <2> QED  BY Zenon, <1>1, <2>1, <2>2 DEF Rests
<1>4. CASE claim_next_pending(w)
  <2>1. CASE Goto(w, "sweep")
    BY Zenon, <2>1, RestingPlaces DEF Place
  <2>2. ASSUME SomeTokenIsFree, NEW a \in Oldest(Due), NEW ok \in BOOLEAN,
               Persist(a, Claimed(rec[a]), ok),
               job' = [job EXCEPT ![w] = IF ok THEN Evaluating(a, NewToken, Claimed(rec[a]).attempts)
                                         ELSE Idle("sweep")]
        PROVE  Rests(w) \/ \E b \in Artifact : TakesClaim(w, b)
    <3>1. a \in Artifact
      BY Zenon DEF Oldest, Due
    <3>2. CASE ok
      BY Zenon, <1>1, <2>2, <3>1, <3>2 DEF TakesClaim, Persist
    <3>3. CASE ~ok
      BY Zenon, <2>2, <3>3, RestingPlaces DEF Goto, Place
    <3> QED  BY Zenon, <3>2, <3>3
  <2> QED  BY Zenon, <1>4, <2>1, <2>2 DEF claim_next_pending
<1>5. CASE process(w)
  <2>1. /\ Discards({job[w].art}, "sweep").at = "sweeping"
        /\ Idle("sweep").at = "sweep"
    BY Zenon DEF Discards, Idle
  <2>2. \A v : complete(w, v) => Rests(w)
    BY Zenon, <1>1, <2>1 DEF complete, Rests
  <2>3. \A r : PutBack(w, r) => Rests(w)
    BY Zenon, RestingPlaces DEF PutBack, Place
  <2> QED  BY Zenon, <1>5, <2>2, <2>3 DEF process
<1>6. CASE claim_artifact_discard(w)
  <2> DEFINE J(a) == [at |-> "deleting", art |-> a, token |-> NewToken, attempts |-> 0,
                      todo |-> job[w].todo \ {a}, after |-> job[w].after]
  <2>1. PICK a \in job[w].todo :
          \/ NextDiscard(w, job[w].todo \ {a})
          \/ Persist(a, DiscardClaimed(rec[a]), TRUE) /\ job' = [job EXCEPT ![w] = J(a)]
    BY Zenon, <1>6 DEF claim_artifact_discard
  <2>2. a \in Artifact /\ job[w].todo \ {a} \in SUBSET Artifact
    BY Zenon, <1>1
  <2>3. CASE NextDiscard(w, job[w].todo \ {a})
    BY Zenon, <2>2, <2>3, RestingPlaces
  <2>4. CASE Persist(a, DiscardClaimed(rec[a]), TRUE) /\ job' = [job EXCEPT ![w] = J(a)]
    <3>1. job'[w].at = "deleting" /\ job'[w].art = a
      BY Zenon, <1>1, <2>4
    <3>2. rec'[a] = DiscardClaimed(rec[a]) /\ UNCHANGED calls
      BY Zenon, <1>1, <1>6, <2>2, <2>4 DEF Persist, claim_artifact_discard
    <3> QED  BY Zenon, <2>2, <3>1, <3>2 DEF TakesDiscard
  <2> QED  BY Zenon, <2>1, <2>3, <2>4
<1>7. ASSUME NEW at \in {"confirmed", "unconfirmed", "unmarked"}, job' = [job EXCEPT ![w].at = at]
      PROVE  Rests(w)
  <2>1. job'[w].at = at
    BY Zenon, <1>1, <1>7 DEF Job
  <2> QED  BY Zenon, <2>1 DEF Rests
<1>8. CASE delete_dvr_artifact(w)
  BY Zenon, <1>7, <1>8 DEF delete_dvr_artifact
<1>9. CASE mark_artifact_discarded(w)
  BY Zenon, <1>1, <1>7, <1>9, RestingPlaces DEF mark_artifact_discarded
<1>10. CASE mark_artifact_discard_failed(w)
  BY Zenon, <1>1, <1>10, RestingPlaces DEF mark_artifact_discard_failed
<1> QED  BY Zenon, <1>2, <1>3, <1>4, <1>5, <1>6, <1>8, <1>9, <1>10 DEF WorkerStep

\* The other workers keep their jobs.
LEMMA OthersKeep ==
  ASSUME QueueInv, NEW w \in Worker, WorkerStep(w) \/ NotReady(w) \/ Crash(w),
         NEW u \in Worker, u /= w
  PROVE  job'[u] = job[u]
<1>1. job \in [Worker -> Job]
  BY Zenon DEF QueueInv
<1>2. \E j : job' = [job EXCEPT ![w] = j]
  BY Zenon DEF WorkerStep, Boot, Recover, retry_pending_discards, NotReady, claim_next_pending,
     process, complete, PutBack, claim_artifact_discard, delete_dvr_artifact, mark_artifact_discarded,
     mark_artifact_discard_failed, Crash, Goto, NextDiscard
<1> QED  BY Zenon, <1>1, <1>2

\* The same, seen from one worker.
LEMMA JobMoves ==
  ASSUME QueueInv, [Next]_vars, NEW w \in Worker
  PROVE  \/ job'[w] = job[w]
         \/ Rests(w)
         \/ \E a \in Artifact : TakesClaim(w, a) \/ TakesDiscard(w, a)
<1>1. CASE \E u \in Worker : WorkerStep(u) \/ NotReady(u) \/ Crash(u)
  BY Zenon, <1>1, WorkerMoves, OthersKeep
<1>2. CASE \E a \in Artifact : Outside(a)
  BY Zenon, <1>2 DEF Outside, Register, TimePasses, ClaimLapses, RetryFallsDue, DiscardLapses, LateDelete,
     handle_delete_dvr_artifact
<1>3. CASE UNCHANGED vars
  BY Zenon, <1>3 DEF vars
<1> QED  BY Zenon, <1>1, <1>2, <1>3 DEF Next, Outside

\* A worker that has its claim in hand knows the count in the store: nothing
\* else changes the record while the claim is the worker's.
LEMMA CountStaysKnown ==
  ASSUME TriesInv, [Next]_vars, NEW w \in Worker
  PROVE  CountKnown(w)'
<1> DEFINE a == job'[w].art
<1> SUFFICES ASSUME InHand(w)' PROVE job'[w].attempts = rec'[a].attempts
  BY Zenon DEF CountKnown
<1>1. /\ job'[w].at = "evaluating"
      /\ rec'[a].status = "processing" /\ rec'[a].token = job'[w].token
  BY Zenon DEF InHand
<1>2. QueueInv
  BY Zenon DEF TriesInv
<1>3. CASE job'[w] = job[w]
  <2>1. a \in Artifact
    BY Zenon, <1>1, <1>2, <1>3 DEF QueueInv, JobOK
  <2>2. rec'[a].token \in Held
    BY Zenon, <1>1, <1>3 DEF Held
  <2>3. /\ rec[a].status = "processing" /\ rec[a].token = rec'[a].token
        /\ rec[a].attempts = rec'[a].attempts
    BY Zenon, <1>1, <1>2, <2>1, <2>2, ClaimStays
  <2>4. InHand(w) /\ job[w].art = a
    BY Zenon, <1>1, <1>3, <2>3 DEF InHand
  <2>5. job[w].attempts = rec[a].attempts
    BY Zenon, <2>4 DEF TriesInv, CountKnown
  <2> QED  BY Zenon, <1>3, <2>3, <2>5
<1>4. ASSUME NEW b \in Artifact, TakesClaim(w, b)
      PROVE  job'[w].attempts = rec'[a].attempts
  <2>1. /\ Evaluating(b, NewToken, Claimed(rec[b]).attempts).art = b
        /\ Evaluating(b, NewToken, Claimed(rec[b]).attempts).attempts = Claimed(rec[b]).attempts
    BY Zenon DEF Evaluating
  <2> QED  BY Zenon, <1>4, <2>1 DEF TakesClaim
<1>5. ~Rests(w) /\ \A b \in Artifact : ~TakesDiscard(w, b)
  BY Zenon, <1>1 DEF Rests, TakesDiscard
<1> QED  BY Zenon, <1>2, <1>3, <1>4, <1>5, JobMoves

\* The invariant behind the attempt counts holds at the start and in every step.
LEMMA TriesInvariant == Spec => []TriesInv
<1>1. Init => TriesInv
  <2> SUFFICES ASSUME Init PROVE TriesInv
    OBVIOUS
  <2>1. QueueInv
    BY Zenon, QueueInvInit
  <2>2. \A w \in Worker : ~InHand(w)
    BY Zenon DEF Init, InHand, Idle
  <2>3. \A a \in Artifact : rec[a].attempts = 0
    BY DEF Init, NewRecord
  <2>4. 0 <= MaxAttempts /\ 0 < MaxAttempts
    BY NumberAssumption
  <2> QED  BY Zenon, <2>1, <2>2, <2>3, <2>4 DEF TriesInv, CountKnown, WithinAttempts
<1>2. TriesInv /\ [Next]_vars => TriesInv'
  <2> SUFFICES ASSUME TriesInv, [Next]_vars PROVE TriesInv'
    OBVIOUS
  <2>1. QueueInv'
    BY Zenon, QueueInvStep DEF TriesInv
  <2>2. \A w \in Worker : CountKnown(w)'
    BY Zenon, CountStaysKnown
  <2>3. \A a \in Artifact \ lost' : WithinAttempts(rec'[a])
    BY Zenon, AttemptsKept
  <2>4. \A a \in Artifact \ lost' : WithinAttempts(rec[a])'
    BY Zenon, <2>3 DEF WithinAttempts
  <2> QED  BY Zenon, <2>1, <2>2, <2>4 DEF TriesInv
<1> QED  BY <1>1, <1>2, PTL DEF Spec

-----------------------------------------------------------------------------
(* The DELETE calls of a recording.                                        *)

\* Only a claim of a discard counts an attempt.
LEMMA DiscardFields ==
  ASSUME NEW r, r \in Record
  PROVE  /\ \A v : Concluded(r, v).discards = r.discards
         /\ Postponed(r).discards = r.discards
         /\ Claimed(r).discards = r.discards
         /\ Recovered(r).discards = r.discards
         /\ Discarded(r).discards = r.discards /\ Discarded(r).disposition = "discarded"
         /\ DiscardFailed(r).discards = r.discards
         /\ DiscardFailed(r).disposition = "discard_failed"
         /\ DiscardClaimed(r).discards = r.discards + 1
BY Zenon DEF Concluded, Postponed, Recovered, clear_processing_claim, Claimed, DiscardClaimed,
             Discarded, DiscardFailed, Record

\* defer_resource_contention is about the other count.
LEMMA DeferredDiscards ==
  ASSUME NEW r, r \in Record
  PROVE  Deferred(r).discards = r.discards
<1> DEFINE n == IF r.attempts > 0 THEN r.attempts - 1 ELSE 0
           p == [r EXCEPT !.attempts = n]
<1>1. Deferred(r) = Postponed(p)
  BY Zenon DEF Deferred, Record
<1>2. n \in 0..AttemptCap
  BY NumberAssumption DEF Record
<1> HIDE DEF n
<1>3. p \in Record /\ p.discards = r.discards
  BY Zenon, <1>2 DEF Record
<1> HIDE DEF p
<1>4. Postponed(p).discards = p.discards
  BY Zenon, <1>3, DiscardFields
<1> QED  BY Zenon, <1>1, <1>3, <1>4

\* A recording that is still retained was never the object of a discard attempt.
Untouched(r) == r.disposition = "retained" => r.discards = 0

\* Attempts are never taken back, and a retained recording was retained before.
LEMMA DiscardsKept ==
  ASSUME QueueInv, [Next]_vars, NEW a \in Artifact, Untouched(rec[a])
  PROVE  /\ rec[a].discards <= rec'[a].discards /\ Untouched(rec'[a])
         /\ rec'[a].disposition = "retained" => rec[a].disposition = "retained"
<1> DEFINE q == rec'[a]
<1>1. rec[a] \in Record /\ RecordOK(rec[a])
  BY Zenon DEF QueueInv
<1>2. rec[a].discards \in Nat
  BY Zenon, <1>1 DEF Record
<1>3. ASSUME q.discards = rec[a].discards, q.disposition = rec[a].disposition
      PROVE  /\ rec[a].discards <= q.discards /\ Untouched(q)
             /\ q.disposition = "retained" => rec[a].disposition = "retained"
  <2>1. rec[a].discards <= rec[a].discards
    BY <1>2
  <2> QED  BY Zenon, <1>3, <2>1 DEF Untouched
<1>4. CASE \E w \in Worker : EndsClaim(w, a, q)
  <2>1. (\E v \in Final : q = Concluded(rec[a], v)) \/ q = Deferred(rec[a]) \/ q = Postponed(rec[a])
    BY Zenon, <1>4 DEF EndsClaim
  <2>2. q.disposition = rec[a].disposition
    BY <1>1, <2>1, ConcludedFields, PutBackFields
  <2>3. q.discards = rec[a].discards
    BY <1>1, <2>1, DiscardFields, DeferredDiscards
  <2> QED  BY Zenon, <1>3, <2>2, <2>3
<1>5. CASE q = rec[a] \/ Lapses(rec[a], q) \/ q = Recovered(rec[a]) \/ q = Claimed(rec[a])
  <2>1. q.disposition = rec[a].disposition
    BY <1>1, <1>5, LapsedFields, PutBackFields, ClaimedFields
  <2>2. q.discards = rec[a].discards
    BY <1>1, <1>5, LapsedNumbers, DiscardFields
  <2> QED  BY Zenon, <1>3, <2>1, <2>2
<1>6. CASE q = DiscardClaimed(rec[a]) \/ \E w \in Worker : EndsDiscard(w, a, q)
  <2>1. q = DiscardClaimed(rec[a]) \/ q = Discarded(rec[a]) \/ q = DiscardFailed(rec[a])
    BY Zenon, <1>6 DEF EndsDiscard
  <2>2. q.disposition \in {"discard_pending", "discarded", "discard_failed"}
    BY Zenon, <1>1, <2>1, DiscardFields, DiscardClaimedFields
  <2>3. q.discards = rec[a].discards \/ q.discards = rec[a].discards + 1
    BY Zenon, <1>1, <2>1, DiscardFields
  <2>4. rec[a].discards <= q.discards
    BY ONLY <1>2, <2>3
  <2> QED  BY Zenon, <2>2, <2>4 DEF Untouched
<1>7. CASE rec[a].status = "unregistered" /\ \E n \in Nat : q = NewRecord("pending_validation", n)
  <2>1. q.disposition = "retained" /\ q.discards = 0
    BY <1>7 DEF NewRecord
  <2>2. rec[a].disposition = "retained"
    BY Zenon, <1>1, <1>7 DEF RecordOK
  <2> QED  BY Zenon, <1>3, <2>1, <2>2 DEF Untouched
<1>8. RecordStep(a, q) \/ q = rec[a] \/ q = Recovered(rec[a])
  BY Zenon, RecordMoves
<1> QED  BY Zenon, <1>4, <1>5, <1>6, <1>7, <1>8 DEF RecordStep

\* The workers about to call the client to delete a.
Deleters(a) == {w \in Worker : job[w].at = "deleting" /\ job[w].art = a}

\* Every call that was made or is about to be has an attempt of its own.
Booked(a) == calls[a] + Cardinality(Deleters(a)) <= rec[a].discards

CallsInv ==
  /\ QueueInv
  /\ \A a \in Artifact : Booked(a) /\ Untouched(rec[a])

\* Only delete_dvr_artifact is such a call.
LEMMA CallSteps ==
  ASSUME Next
  PROVE  UNCHANGED calls \/ \E w \in Worker : delete_dvr_artifact(w)
<1>1. \A w \in Worker : WorkerStep(w) \/ NotReady(w) \/ Crash(w) =>
                          UNCHANGED calls \/ delete_dvr_artifact(w)
  BY Zenon DEF WorkerStep, Boot, Recover, retry_pending_discards, NotReady, claim_next_pending,
     process, claim_artifact_discard, mark_artifact_discarded, mark_artifact_discard_failed, Crash
<1>2. \A a \in Artifact : Outside(a) => UNCHANGED calls
  BY Zenon DEF Outside, Register, TimePasses, ClaimLapses, RetryFallsDue, DiscardLapses, LateDelete,
     handle_delete_dvr_artifact
<1> QED  BY Zenon, <1>1, <1>2 DEF Next, Outside

\* A step makes no call and adds no deleter, adds the one that claimed an
\* attempt, or makes the call of a deleter, which is one no more.
LEMMA DeletersMove ==
  ASSUME QueueInv, Next, NEW a \in Artifact
  PROVE  \/ calls'[a] = calls[a] /\ Deleters(a)' \subseteq Deleters(a)
         \/ /\ calls'[a] = calls[a] /\ rec'[a] = DiscardClaimed(rec[a])
            /\ \E w \in Worker : Deleters(a)' \subseteq Deleters(a) \cup {w}
         \/ /\ calls'[a] = calls[a] + 1
            /\ \E w \in Deleters(a) : Deleters(a)' \subseteq Deleters(a) \ {w}
<1>1. CASE \E w \in Worker : delete_dvr_artifact(w)
  <2>1. PICK w \in Worker : delete_dvr_artifact(w)
    BY Zenon, <1>1
  <2>2. WorkerStep(w)
    BY Zenon, <2>1 DEF WorkerStep
  <2>3. \A u \in Worker : u /= w => job'[u] = job[u]
    BY Zenon, <2>2, OthersKeep
  <2>4. job'[w].at /= "deleting"
    BY <2>1 DEF delete_dvr_artifact, QueueInv, Job
  <2>5. Deleters(a)' \subseteq Deleters(a) \ {w}
    BY Zenon, <2>3, <2>4 DEF Deleters
  <2>6. calls' = [calls EXCEPT ![job[w].art] = calls[job[w].art] + 1] /\ job[w].at = "deleting"
    BY Zenon, <2>1 DEF delete_dvr_artifact, QueueInv
  <2>7. calls \in [Artifact -> Nat]
    BY Zenon DEF QueueInv
  <2>8. CASE job[w].art = a
    <3>1. calls'[a] = calls[a] + 1
      BY Zenon, <2>6, <2>7, <2>8
    <3>2. w \in Deleters(a)
      BY Zenon, <2>6, <2>8 DEF Deleters
    <3> QED  BY Zenon, <2>5, <3>1, <3>2
  <2>9. CASE job[w].art /= a
    <3>1. calls'[a] = calls[a]
      BY Zenon, <2>6, <2>7, <2>9
    <3> QED  BY Zenon, <2>5, <3>1
  <2> QED  BY Zenon, <2>8, <2>9
<1>2. CASE UNCHANGED calls
  <2>1. ASSUME NEW w \in Worker, WorkerStep(w) \/ NotReady(w) \/ Crash(w)
        PROVE  \/ Deleters(a)' \subseteq Deleters(a)
               \/ rec'[a] = DiscardClaimed(rec[a]) /\ Deleters(a)' \subseteq Deleters(a) \cup {w}
    <3>1. \A u \in Worker : u /= w => job'[u] = job[u]
      BY Zenon, <2>1, OthersKeep
    <3>2. CASE TakesDiscard(w, a)
      BY Zenon, <3>1, <3>2 DEF Deleters, TakesDiscard
    <3>3. CASE ~TakesDiscard(w, a)
      <4>1. ~(job'[w].at = "deleting" /\ job'[w].art = a)
        <5>1. CASE Rests(w)
          BY Zenon, <5>1 DEF Rests
        <5>2. ASSUME NEW b \in Artifact, TakesClaim(w, b) PROVE job'[w].at = "evaluating"
          BY <5>2 DEF TakesClaim, Evaluating
        <5>3. ASSUME NEW b \in Artifact, TakesDiscard(w, b) PROVE job'[w].art /= a
          BY Zenon, <3>3, <5>3 DEF TakesDiscard
        <5> QED  BY Zenon, <2>1, <5>1, <5>2, <5>3, WorkerMoves
      <4> QED  BY Zenon, <3>1, <4>1 DEF Deleters
    <3> QED  BY Zenon, <3>2, <3>3
  <2>2. ASSUME NEW b \in Artifact, Outside(b)
        PROVE  Deleters(a)' = Deleters(a)
    <3>1. job' = job
      BY Zenon, <2>2 DEF Outside, Register, TimePasses, ClaimLapses, RetryFallsDue, DiscardLapses, LateDelete,
     handle_delete_dvr_artifact
    <3> QED  BY Zenon, <3>1 DEF Deleters
  <2> QED  BY Zenon, <1>2, <2>1, <2>2 DEF Next, Outside
<1> QED  BY Zenon, <1>1, <1>2, CallSteps

\* The deleters are finitely many, of finitely many workers.
LEMMA DeletersFinite ==
  ASSUME NEW a
  PROVE  /\ IsFiniteSet(Deleters(a)) /\ Cardinality(Deleters(a)) \in Nat
         /\ IsFiniteSet(Deleters(a)') /\ Cardinality(Deleters(a)') \in Nat
<1>1. Deleters(a) \subseteq Worker /\ Deleters(a)' \subseteq Worker
  BY Zenon DEF Deleters
<1>2. IsFiniteSet(Deleters(a)) /\ IsFiniteSet(Deleters(a)')
  BY Zenon, <1>1, FiniteAssumption, FS_Subset
<1> QED  BY Zenon, <1>2, FS_CardinalityType

\* Every step keeps the calls within the attempts.
LEMMA BookedKept ==
  ASSUME CallsInv, Next, NEW a \in Artifact
  PROVE  Booked(a)'
<1> DEFINE D  == Deleters(a)
           E  == Deleters(a)'
           n  == Cardinality(D)
           m  == Cardinality(E)
           c  == calls[a]
           c2 == calls'[a]
           d  == rec[a].discards
           d2 == rec'[a].discards
<1>1. IsFiniteSet(D) /\ IsFiniteSet(E) /\ n \in Nat /\ m \in Nat
  BY Zenon, DeletersFinite
<1>2. c \in Nat /\ d \in Nat /\ c + n <= d /\ rec[a] \in Record
  BY Zenon DEF CallsInv, QueueInv, Booked, Record
<1>3. d <= d2
  BY Zenon, DiscardsKept DEF CallsInv
<1>4. QueueInv' /\ rec'[a].discards \in Nat /\ Cardinality(Deleters(a))' = m
  BY Zenon, QueueInvStep DEF CallsInv, QueueInv, Record
<1>5. d2 \in Nat
  BY Zenon, <1>4
<1>6. SUFFICES c2 + m <= d2
  BY Zenon, <1>4 DEF Booked
<1>7. \A S, T : IsFiniteSet(T) /\ S \subseteq T => Cardinality(S) <= Cardinality(T)
  BY Zenon, FS_Subset
<1>8. CASE c2 = c /\ E \subseteq D
  <2>1. m <= n
    BY Zenon, <1>1, <1>7, <1>8
  <2> HIDE DEF D, E, n, m, c, c2, d, d2
  <2> QED  BY ONLY <1>1, <1>2, <1>3, <1>5, <1>8, <2>1
<1>9. CASE /\ c2 = c /\ rec'[a] = DiscardClaimed(rec[a])
           /\ \E w \in Worker : E \subseteq D \cup {w}
  <2>1. PICK w \in Worker : E \subseteq D \cup {w}
    BY Zenon, <1>9
  <2>2. IsFiniteSet(D \cup {w}) /\ Cardinality(D \cup {w}) = IF w \in D THEN n ELSE n + 1
    BY Zenon, <1>1, FS_AddElement
  <2>3. m <= Cardinality(D \cup {w})
    BY Zenon, <1>7, <2>1, <2>2
  <2>4. d2 = d + 1
    BY Zenon, <1>2, <1>9, DiscardFields
  <2> HIDE DEF D, E, n, m, c, c2, d, d2
  <2> QED  BY ONLY <1>1, <1>2, <1>5, <1>9, <2>2, <2>3, <2>4
<1>10. CASE c2 = c + 1 /\ \E w \in D : E \subseteq D \ {w}
  <2>1. PICK w \in D : E \subseteq D \ {w}
    BY Zenon, <1>10
  <2>2. IsFiniteSet(D \ {w}) /\ Cardinality(D \ {w}) = IF w \in D THEN n - 1 ELSE n
    BY Zenon, <1>1, FS_RemoveElement
  <2>3. m <= Cardinality(D \ {w})
    BY Zenon, <1>7, <2>1, <2>2
  <2> HIDE DEF D, E, n, m, c, c2, d, d2
  <2> QED  BY ONLY <1>1, <1>2, <1>3, <1>5, <1>10, <2>1, <2>2, <2>3
<1>11. QueueInv
  BY Zenon DEF CallsInv
<1> QED  BY Zenon, <1>8, <1>9, <1>10, <1>11, DeletersMove

\* The invariant behind the calls holds at the start and in every step.
LEMMA CallsInvariant == Spec => []CallsInv
<1>1. Init => CallsInv
  <2> SUFFICES ASSUME Init PROVE CallsInv
    OBVIOUS
  <2>1. QueueInv
    BY Zenon, QueueInvInit
  <2>2. ASSUME NEW a \in Artifact PROVE Booked(a) /\ Untouched(rec[a])
    <3>1. rec[a].discards = 0 /\ calls[a] = 0
      BY DEF Init, NewRecord
    <3>2. Deleters(a) = {}
      BY Zenon DEF Init, Deleters, Idle
    <3>3. Cardinality(Deleters(a)) = 0
      BY Zenon, <3>2, FS_EmptySet
    <3>4. calls[a] + Cardinality(Deleters(a)) <= rec[a].discards
      BY ONLY <3>1, <3>3
    <3> QED  BY Zenon, <3>1, <3>4 DEF Booked, Untouched
  <2> QED  BY Zenon, <2>1, <2>2 DEF CallsInv
<1>2. CallsInv /\ [Next]_vars => CallsInv'
  <2> SUFFICES ASSUME CallsInv, [Next]_vars PROVE CallsInv'
    OBVIOUS
  <2>1. QueueInv'
    BY Zenon, QueueInvStep DEF CallsInv
  <2>2. ASSUME NEW a \in Artifact PROVE Untouched(rec[a])'
    <3>1. Untouched(rec'[a])
      BY Zenon, DiscardsKept DEF CallsInv
    <3> QED  BY Zenon, <3>1 DEF Untouched
  <2>3. CASE Next
    <3>1. \A a \in Artifact : Booked(a)'
      BY Zenon, <2>3, BookedKept
    <3> QED  BY Zenon, <2>1, <2>2, <3>1 DEF CallsInv
  <2>4. CASE UNCHANGED vars
    <3>1. \A a \in Artifact : Booked(a)'
      BY Zenon, <2>4 DEF vars, CallsInv, Booked, Deleters
    <3> QED  BY Zenon, <2>1, <2>2, <3>1 DEF CallsInv
  <2> QED  BY Zenon, <2>3, <2>4
<1> QED  BY <1>1, <1>2, PTL DEF Spec

\* AttemptsBounded: one recording whose claims were never lost is claimed
\* MaxAttempts times at most, and the workers call the client at most
\* MaxDiscardAttempts times to delete a recording.
THEOREM AttemptsAreBounded == Spec => []AttemptsBounded
<1>1. TriesInv /\ CallsInv => AttemptsBounded
  <2> SUFFICES ASSUME TriesInv, CallsInv PROVE AttemptsBounded
    OBVIOUS
  <2>1. ASSUME NEW a \in Artifact PROVE calls[a] <= MaxDiscardAttempts
    <3>1. calls[a] \in Nat /\ rec[a].discards \in Nat
      BY Zenon DEF CallsInv, QueueInv, Record
    <3>2. Cardinality(Deleters(a)) \in Nat
      BY Zenon, DeletersFinite
    <3>3. calls[a] + Cardinality(Deleters(a)) <= rec[a].discards
      BY Zenon DEF CallsInv, Booked
    <3>4. rec[a].discards <= MaxDiscardAttempts /\ MaxDiscardAttempts \in Nat
      BY Zenon, NumberAssumption DEF CallsInv, QueueInv, RecordOK
    <3> QED  BY ONLY <3>1, <3>2, <3>3, <3>4
  <2> QED  BY Zenon, <2>1 DEF AttemptsBounded, TriesInv, WithinAttempts
<1> QED  BY <1>1, TriesInvariant, CallsInvariant, PTL

-----------------------------------------------------------------------------
(* No rejected recording is left behind.                                   *)

Retained(a) == rec[a].disposition = "retained"

\* A list of discards holds recordings a discard of which was tried before, or
\* the one recording that has just been rejected.
ListOK(w) == \A a \in job[w].todo : Retained(a) => job[w].at = "sweeping" /\ job[w].todo = {a}

TakenInv ==
  /\ CallsInv
  /\ RejectedAreTaken
  /\ \A w \in Worker : ListOK(w)

\* Errors are counted, never forgotten.
LEMMA FaultsGrow == ASSUME QueueInv, [Next]_vars, faults' = 0 PROVE faults = 0
<1>1. ~Fault /\ (UNCHANGED faults => faults = 0)
  BY NumberAssumption DEF QueueInv, Fault
<1>2. \A a, r, ok : Persist(a, r, ok) => UNCHANGED faults
  BY Zenon, <1>1 DEF Persist
<1>3. \A a, check, r, ok : UpdateChecked(a, check, r, ok) => UNCHANGED faults
  BY Zenon, <1>2 DEF UpdateChecked
<1>4. \A ok : recover_expired_claims(ok) => UNCHANGED faults
  BY Zenon, <1>1 DEF recover_expired_claims
<1>5. ASSUME NEW w \in Worker, WorkerStep(w) \/ NotReady(w) \/ Crash(w) PROVE UNCHANGED faults
  <2>1. CASE Boot(w) \/ Recover(w) \/ NotReady(w) \/ Crash(w) \/ retry_pending_discards(w)
    BY Zenon, <1>1, <1>4, <2>1 DEF Boot, Recover, NotReady, Crash, retry_pending_discards
  <2>2. CASE claim_next_pending(w) \/ claim_artifact_discard(w)
    BY Zenon, <1>2, <2>2 DEF claim_next_pending, claim_artifact_discard
  <2>3. CASE process(w)
    BY Zenon, <1>3, <2>3 DEF process, complete, PutBack
  <2>4. CASE \/ delete_dvr_artifact(w) \/ mark_artifact_discarded(w)
             \/ mark_artifact_discard_failed(w)
    BY Zenon, <1>3, <2>4 DEF delete_dvr_artifact, mark_artifact_discarded, mark_artifact_discard_failed
  <2> QED  BY Zenon, <1>5, <2>1, <2>2, <2>3, <2>4 DEF WorkerStep
<1>6. ASSUME NEW a \in Artifact, Outside(a) PROVE UNCHANGED faults
  BY Zenon, <1>2, <1>6 DEF Outside, Register, TimePasses, ClaimLapses, RetryFallsDue, DiscardLapses, LateDelete,
     handle_delete_dvr_artifact
<1> QED  BY Zenon, <1>1, <1>5, <1>6 DEF Next, Outside, vars

\* A job that is a list of discards.
LEMMA ListOf ==
  ASSUME NEW todo, NEW after
  PROVE  /\ Discards(todo, after).todo = todo
         /\ todo /= {} => Discards(todo, after).at = "sweeping"
BY Zenon DEF Discards, Idle

\* What a step of worker w makes of its list: a list of recordings that are not
\* retained, the one just rejected, the rest of the list after a claim, or the
\* list as it was.
TakesNone(w) == \A a \in job'[w].todo : ~Retained(a)
TakesOne(w)  == \E a \in Artifact : job'[w].at = "sweeping" /\ job'[w].todo = {a}
DropsOne(w)  == job[w].at = "sweeping" /\ \E a \in job[w].todo : job'[w].todo = job[w].todo \ {a}
KeepsAll(w)  == job[w].at /= "sweeping" /\ job'[w].todo = job[w].todo

\* Every operation of a worker is one of these.
LEMMA ListMoves ==
  ASSUME QueueInv, NEW w \in Worker, WorkerStep(w) \/ NotReady(w) \/ Crash(w)
  PROVE  TakesNone(w) \/ TakesOne(w) \/ DropsOne(w) \/ KeepsAll(w)
<1>1. /\ job \in [Worker -> Job] /\ job[w] \in Job
  BY Zenon DEF QueueInv
<1>2. \A at : Goto(w, at) => TakesNone(w)
  <2>1. \A at : Idle(at).todo = {}
    BY Zenon DEF Idle
  <2> QED  BY Zenon, <1>1, <2>1 DEF Goto, TakesNone
<1>3. ASSUME NEW todo, NextDiscard(w, todo) PROVE job'[w].todo = todo
  <2>1. job'[w] = Discards(todo, job[w].after)
    BY Zenon, <1>1, <1>3 DEF NextDiscard
  <2>2. Discards(todo, job[w].after).todo = todo
    BY Zenon, ListOf
  <2> QED  BY Zenon, <2>1, <2>2
<1>4. \A at : job' = [job EXCEPT ![w].at = at] => job'[w].todo = job[w].todo
  BY Zenon, <1>1 DEF Job
<1>5. CASE Boot(w) \/ Recover(w) \/ NotReady(w) \/ Crash(w)
  BY Zenon, <1>2, <1>5 DEF Boot, Recover, NotReady, Crash
<1>6. CASE retry_pending_discards(w)
  <2>1. PICK todo \in {pending_discards, {}}, after \in {"sweep", "ready"} :
          job' = [job EXCEPT ![w] = Discards(todo, after)]
    BY Zenon, <1>6 DEF retry_pending_discards
  <2>2. job'[w] = Discards(todo, after)
    BY Zenon, <1>1, <2>1
  <2>3. Discards(todo, after).todo = todo
    BY Zenon, ListOf
  <2>4. job'[w].todo = pending_discards \/ job'[w].todo = {}
    BY Zenon, <2>2, <2>3
  <2> QED  BY Zenon, <2>4 DEF TakesNone, pending_discards, Retained
<1>7. CASE claim_next_pending(w)
  <2>1. \A a, t, n : Evaluating(a, t, n).todo = {}
    BY Zenon DEF Evaluating
  <2>2. ASSUME NEW a, job' = [job EXCEPT ![w] = Evaluating(a, NewToken, Claimed(rec[a]).attempts)]
        PROVE  TakesNone(w)
    BY Zenon, <1>1, <2>1, <2>2 DEF TakesNone
  <2>3. \/ Goto(w, "sweep")
        \/ \E a : job' = [job EXCEPT ![w] = Evaluating(a, NewToken, Claimed(rec[a]).attempts)]
    BY Zenon, <1>7 DEF claim_next_pending, Goto
  <2> QED  BY Zenon, <1>2, <2>2, <2>3
<1>8. CASE process(w)
  <2>1. job[w].art \in Artifact
    BY Zenon, <1>8 DEF process, QueueInv, JobOK
  <2>2. \A v : complete(w, v) => TakesOne(w) \/ TakesNone(w)
    <3>1. Idle("sweep").todo = {}
      BY Zenon DEF Idle
    <3>2. /\ Discards({job[w].art}, "sweep").todo = {job[w].art}
          /\ Discards({job[w].art}, "sweep").at = "sweeping"
      BY Zenon, ListOf
    <3> QED  BY Zenon, <1>1, <2>1, <3>1, <3>2 DEF complete, TakesOne, TakesNone
  <2>3. \A r : PutBack(w, r) => TakesNone(w)
    BY Zenon, <1>2 DEF PutBack
  <2> QED  BY Zenon, <1>8, <2>2, <2>3 DEF process
<1>9. CASE claim_artifact_discard(w)
  <2> DEFINE J(a) == [at |-> "deleting", art |-> a, token |-> NewToken, attempts |-> 0,
                      todo |-> job[w].todo \ {a}, after |-> job[w].after]
  <2>1. job[w].at = "sweeping" /\ \E a \in job[w].todo :
          NextDiscard(w, job[w].todo \ {a}) \/ job' = [job EXCEPT ![w] = J(a)]
    BY Zenon, <1>9 DEF claim_artifact_discard
  <2>2. ASSUME NEW a, job' = [job EXCEPT ![w] = J(a)] PROVE job'[w].todo = job[w].todo \ {a}
    <3>1. J(a).todo = job[w].todo \ {a}
      BY Zenon
    <3> HIDE DEF J
    <3>2. job'[w] = J(a)
      BY Zenon, <1>1, <2>2
    <3> QED  BY Zenon, <3>1, <3>2
  <2> HIDE DEF J
  <2> QED  BY Zenon, <1>3, <2>1, <2>2 DEF DropsOne
<1>10. CASE \/ delete_dvr_artifact(w) \/ mark_artifact_discarded(w)
            \/ mark_artifact_discard_failed(w)
  <2>1. job[w].at /= "sweeping"
    BY Zenon, <1>10 DEF delete_dvr_artifact, mark_artifact_discarded, mark_artifact_discard_failed
  <2>2. NextDiscard(w, job[w].todo) \/ \E at : job' = [job EXCEPT ![w].at = at]
    BY Zenon, <1>10 DEF delete_dvr_artifact, mark_artifact_discarded, mark_artifact_discard_failed
  <2> QED  BY Zenon, <1>3, <1>4, <2>1, <2>2 DEF KeepsAll
<1> QED  BY Zenon, <1>5, <1>6, <1>7, <1>8, <1>9, <1>10 DEF WorkerStep

\* The jobs of the workers that do not move.
LEMMA Movers ==
  ASSUME QueueInv, [Next]_vars, NEW w \in Worker, job'[w] /= job[w]
  PROVE  WorkerStep(w) \/ NotReady(w) \/ Crash(w)
<1>1. ASSUME NEW u \in Worker, WorkerStep(u) \/ NotReady(u) \/ Crash(u)
      PROVE  WorkerStep(w) \/ NotReady(w) \/ Crash(w)
  BY Zenon, <1>1, OthersKeep
<1>2. ASSUME NEW a \in Artifact, Outside(a) PROVE FALSE
  BY Zenon, <1>2 DEF Outside, Register, TimePasses, ClaimLapses, RetryFallsDue, DiscardLapses, LateDelete,
     handle_delete_dvr_artifact
<1> QED  BY Zenon, <1>1, <1>2 DEF Next, Outside, vars

\* Every list stays what it was made of.
LEMMA ListsKept ==
  ASSUME TakenInv, [Next]_vars, NEW w \in Worker
  PROVE  ListOK(w)'
<1> SUFFICES ASSUME NEW a \in job'[w].todo, Retained(a)'
             PROVE  job'[w].at = "sweeping" /\ job'[w].todo = {a}
  BY Zenon DEF ListOK
<1>1. QueueInv /\ CallsInv /\ ListOK(w)
  BY Zenon DEF TakenInv, CallsInv
<1>2. a \in Artifact
  <2>1. QueueInv'
    BY Zenon, <1>1, QueueInvStep
  <2> QED  BY Zenon, <2>1 DEF QueueInv, Job
<1>3. Retained(a)
  <2>1. rec'[a].disposition = "retained"
    BY Zenon DEF Retained
  <2> QED  BY Zenon, <1>1, <1>2, <2>1, DiscardsKept DEF CallsInv, Retained
<1>4. CASE job'[w] = job[w]
  BY Zenon, <1>1, <1>3, <1>4 DEF ListOK
<1>5. CASE TakesNone(w)
  BY Zenon, <1>3, <1>5 DEF TakesNone
<1>6. CASE TakesOne(w)
  BY Zenon, <1>6 DEF TakesOne
<1>7. CASE DropsOne(w)
  BY Zenon, <1>1, <1>3, <1>7 DEF DropsOne, ListOK
<1>8. CASE KeepsAll(w)
  BY Zenon, <1>1, <1>3, <1>8 DEF KeepsAll, ListOK
<1> QED  BY Zenon, <1>1, <1>4, <1>5, <1>6, <1>7, <1>8, Movers, ListMoves

\* The worker with the recording just rejected on its list claims its discard,
\* which nothing forbids, or the store reports an error.
LEMMA SweeperClaims ==
  ASSUME TakenInv, [Next]_vars, faults' = 0, NEW a \in Artifact, NEW w \in Worker,
         is_physical_discard_eligible(rec[a]), Retained(a),
         job[w].at = "sweeping", a \in job[w].todo, job'[w] /= job[w]
  PROVE  rec'[a] = DiscardClaimed(rec[a])
<1>1. QueueInv /\ CallsInv /\ ListOK(w)
  BY Zenon DEF TakenInv, CallsInv
<1>2. job[w].todo = {a}
  BY Zenon, <1>1 DEF ListOK
<1>3. ~Fault
  BY <1>1, NumberAssumption DEF QueueInv, Fault
<1>4. claim_artifact_discard(w)
  BY Zenon, <1>1, <1>3, Movers DEF WorkerStep, Boot, retry_pending_discards, Recover, claim_next_pending,
     process, delete_dvr_artifact, mark_artifact_discarded, mark_artifact_discard_failed, NotReady, Crash
<1>5. DiscardIsFree(a)
  <2>1. rec[a].discards = 0
    BY Zenon, <1>1 DEF CallsInv, Untouched, Retained
  <2>2. rec[a].discards < MaxDiscardAttempts
    BY <2>1, NumberAssumption
  <2> QED  BY Zenon, <2>2 DEF DiscardIsFree, Retained
<1>6. \E ok \in BOOLEAN : Persist(a, DiscardClaimed(rec[a]), ok)
  BY Zenon, <1>2, <1>4, <1>5 DEF claim_artifact_discard
<1>7. rec' = [rec EXCEPT ![a] = DiscardClaimed(rec[a])] /\ rec \in [Artifact -> Record]
  BY Zenon, <1>1, <1>3, <1>6 DEF Persist, QueueInv
<1> QED  BY Zenon, <1>7

\* Every step keeps some worker about to discard each rejected recording.
LEMMA TakenKept ==
  ASSUME TakenInv, [Next]_vars, faults' = 0, NEW a \in Artifact,
         is_physical_discard_eligible(rec'[a]), rec'[a].disposition = "retained"
  PROVE  \E w \in Worker : job'[w].at = "sweeping" /\ a \in job'[w].todo
<1> DEFINE q == rec'[a]
<1>1. QueueInv /\ CallsInv /\ rec[a] \in Record
  BY Zenon DEF TakenInv, CallsInv, QueueInv
<1>2. q.status = "rejected"
  BY Zenon DEF is_physical_discard_eligible
<1>3. q /= DiscardClaimed(rec[a]) /\ q /= Discarded(rec[a]) /\ q /= DiscardFailed(rec[a])
  BY Zenon, <1>1, DiscardClaimedFields, DiscardFields
<1>4. /\ q /= Claimed(rec[a]) /\ q /= Recovered(rec[a])
      /\ q /= Deferred(rec[a]) /\ q /= Postponed(rec[a])
  BY <1>1, <1>2, ClaimedFields, PutBackFields
<1>5. \A n \in Nat : q /= NewRecord("pending_validation", n)
  BY <1>2 DEF NewRecord
<1>6. ASSUME NEW w \in Worker, TakenUp(w, a, q)
      PROVE  job'[w].at = "sweeping" /\ a \in job'[w].todo
  <2>1. job'[w] = Discards({a}, "sweep")
    BY Zenon, <1>6 DEF TakenUp
  <2>2. Discards({a}, "sweep").at = "sweeping" /\ Discards({a}, "sweep").todo = {a}
    BY Zenon, ListOf
  <2> QED  BY Zenon, <2>1, <2>2
<1>7. CASE \E w \in Worker : EndsClaim(w, a, q)
  BY Zenon, <1>4, <1>6, <1>7 DEF EndsClaim
<1>8. CASE q = rec[a] \/ Lapses(rec[a], q)
  <2>1. is_physical_discard_eligible(rec[a]) /\ Retained(a)
    <3>1. CASE q = rec[a]
      BY Zenon, <3>1 DEF Retained
    <3>2. CASE Lapses(rec[a], q)
      <4>1. q.status = rec[a].status /\ q.disposition = rec[a].disposition
        BY Zenon, <1>1, <3>2, LapsedFields
      <4>2. ~rec[a].published
        BY Zenon, <1>1, <1>2, <4>1 DEF QueueInv, RecordOK
      <4> QED  BY Zenon, <4>1, <4>2 DEF is_physical_discard_eligible, Retained
    <3> QED  BY Zenon, <1>8, <3>1, <3>2
  <2>2. faults = 0
    BY Zenon, <1>1, FaultsGrow
  <2>3. PICK w \in Worker : job[w].at = "sweeping" /\ a \in job[w].todo
    BY Zenon, <2>1, <2>2 DEF TakenInv, RejectedAreTaken, Retained
  <2>4. job'[w] = job[w]
    BY Zenon, <1>3, <2>1, <2>3, SweeperClaims
  <2> QED  BY Zenon, <2>3, <2>4
<1>9. RecordStep(a, q) \/ q = rec[a] \/ q = Recovered(rec[a])
  BY Zenon, <1>1, RecordMoves
<1> QED  BY Zenon, <1>3, <1>4, <1>5, <1>7, <1>8, <1>9 DEF RecordStep, EndsDiscard

\* RejectedAreTaken: without store errors and crashes some worker is about to
\* claim the discard of every rejected recording that has none.
THEOREM RejectedTaken == Spec => []RejectedAreTaken
<1>1. Init /\ CallsInv => TakenInv
  <2> SUFFICES ASSUME Init, CallsInv PROVE TakenInv
    OBVIOUS
  <2>1. \A a \in Artifact : ~is_physical_discard_eligible(rec[a])
    BY DEF Init, NewRecord, is_physical_discard_eligible
  <2>2. \A w \in Worker : job[w].todo = {}
    BY DEF Init, Idle
  <2> QED  BY Zenon, <2>1, <2>2 DEF TakenInv, RejectedAreTaken, ListOK
<1>2. TakenInv /\ [Next]_vars /\ CallsInv' => TakenInv'
  <2> SUFFICES ASSUME TakenInv, [Next]_vars, CallsInv' PROVE TakenInv'
    OBVIOUS
  <2>1. \A w \in Worker : ListOK(w)'
    BY Zenon, ListsKept
  <2>2. RejectedAreTaken'
    BY Zenon, TakenKept DEF RejectedAreTaken, is_physical_discard_eligible
  <2> QED  BY Zenon, <2>1, <2>2 DEF TakenInv
<1>3. TakenInv => RejectedAreTaken
  BY Zenon DEF TakenInv
<1> QED  BY <1>1, <1>2, <1>3, CallsInvariant, PTL DEF Spec
=============================================================================
