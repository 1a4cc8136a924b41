----------------------- MODULE CatRecordingValidation -----------------------
(***************************************************************************)
(* The validation queue of cat recordings: the operations of               *)
(* CatRecordingValidationStore (runtime/cat_recording_validation.rs) and   *)
(* the worker of bin/agent_hub_admin_api.rs that drives them, against the  *)
(* HarborLink service that keeps the recordings' files, and the operator,  *)
(* who may delete any of them through the same client.                     *)
(*                                                                         *)
(* Every store operation runs under the store's file lock and is one step. *)
(* Between two of them a worker does slow work (download and classify, an  *)
(* HTTP DELETE), its lease may lapse and other workers run.                *)
(*                                                                         *)
(* Time: a deadline is the fact that it has not passed yet.  A lease that  *)
(* is live, or a retry that is not due, may lapse or fall due at any time. *)
(* Tokens: a fresh UUID is any token nobody holds any more.                *)
(* Faults: an append may fail before or after its line became durable (the *)
(* caller sees an error either way), and a worker may crash and restart.   *)
(***************************************************************************)
EXTENDS Integers, FiniteSets

CONSTANTS
  Artifact,            \* recordings HarborLink can report
  Worker,              \* validation workers, one per process
  Token,               \* claim tokens and discard-attempt tokens
  NoToken,
  Enforce,             \* TRUE for CatRecordingValidationMode::Enforce, FALSE for Shadow
  MaxAttempts,         \* CAT_RECORDING_VALIDATION_MAX_ATTEMPTS
  AttemptCap,          \* where attempt_count saturates (u32::MAX)
  MaxDiscardAttempts,  \* MAX_ARTIFACT_DISCARD_ATTEMPTS
  MaxFaults            \* bound: store errors and crashes in a behaviour

ASSUME FiniteAssumption == IsFiniteSet(Artifact) /\ IsFiniteSet(Worker)
ASSUME TokenAssumption  == NoToken \notin Token
ASSUME ModeAssumption   == Enforce \in BOOLEAN
ASSUME NumberAssumption == /\ MaxAttempts \in Nat \ {0}
                           /\ AttemptCap \in Nat /\ MaxAttempts < AttemptCap
                           /\ MaxDiscardAttempts \in Nat \ {0}
                           /\ MaxFaults \in Nat

VARIABLES
  rec,      \* the latest record of every artifact
  job,      \* what every worker is doing
  deleted,  \* artifacts whose file HarborLink has removed
  inflight, \* DELETE requests whose caller gave up on them
  calls,    \* auxiliary: the workers' calls of delete_dvr_artifact per artifact
  purged,   \* auxiliary: artifacts an operator asked HarborLink to delete
  lost,     \* auxiliary: artifacts a claim of which has been recovered
  faults

vars == <<rec, job, deleted, inflight, calls, purged, lost, faults>>

Status == {"unregistered", "pending_validation", "processing",
           "accepted", "review_required", "rejected"}
Final  == {"accepted", "review_required", "rejected"}

Disposition == {"retained", "discard_pending", "discard_failed", "discarded"}

Record ==
  [status      : Status,
   published   : BOOLEAN,
   created     : Nat,        \* rank in the order (created_at, validation_id)
   attempts    : 0..AttemptCap,
   due         : BOOLEAN,    \* next_retry_at is absent or has passed
   token       : Token \cup {NoToken},
   live        : BOOLEAN,    \* the claim's lease deadline has not passed
   disposition : Disposition,
   discards    : Nat,
   dtoken      : Token \cup {NoToken},
   dlive       : BOOLEAN]

NewRecord(status, rank) ==
  [status |-> status, published |-> FALSE, created |-> rank, attempts |-> 0,
   due |-> TRUE, token |-> NoToken, live |-> FALSE, disposition |-> "retained",
   discards |-> 0, dtoken |-> NoToken, dlive |-> FALSE]

\* Where a worker is: "boot" before its first recovery, "first_sweep" and "sweep"
\* before pending_discards, "sweeping" through its list, "ready" before the
\* readiness check, then the calls that follow a claim.
Place == {"boot", "first_sweep", "sweep", "sweeping", "ready", "claim",
          "evaluating", "deleting", "confirmed", "unconfirmed", "unmarked"}

Job ==
  [at       : Place,
   art      : Artifact \cup {NoToken},  \* the record in hand
   token    : Token \cup {NoToken},     \* and the token it was claimed with
   attempts : 0..AttemptCap,            \* its attempt_count when it was claimed
   todo     : SUBSET Artifact,          \* discards still to try
   after    : {"sweep", "ready"}]       \* where the worker goes after them

Idle(at) == [at |-> at, art |-> NoToken, token |-> NoToken, attempts |-> 0,
             todo |-> {}, after |-> "sweep"]

Evaluating(a, t, n) == [at |-> "evaluating", art |-> a, token |-> t, attempts |-> n,
                        todo |-> {}, after |-> "sweep"]

\* On to the next discard of a list, or out of it.
Discards(todo, after) ==
  IF todo = {} THEN Idle(after)
  ELSE [at |-> "sweeping", art |-> NoToken, token |-> NoToken, attempts |-> 0,
        todo |-> todo, after |-> after]

Init ==
  /\ rec      = [a \in Artifact |-> NewRecord("unregistered", 0)]
  /\ job      = [w \in Worker |-> Idle("boot")]
  /\ deleted  = {}
  /\ inflight = {}
  /\ calls    = [a \in Artifact |-> 0]
  /\ purged   = {}
  /\ lost     = {}
  /\ faults   = 0

-----------------------------------------------------------------------------
(* The store.                                                              *)

Held == {rec[a].token : a \in Artifact} \cup {rec[a].dtoken : a \in Artifact}
          \cup {job[w].token : w \in Worker}

NewToken == CHOOSE t \in Token : t \notin Held

SomeTokenIsFree == \E t \in Token : t \notin Held

Fault == faults < MaxFaults /\ faults' = faults + 1

\* append_unlocked: TRUE means the caller gets Ok.  After an error the line may
\* be durable all the same; the next operation rescans the files and sees it.
Persist(a, r, ok) ==
  \/ ok  /\ rec' = [rec EXCEPT ![a] = r] /\ UNCHANGED faults
  \/ ~ok /\ rec' \in {rec, [rec EXCEPT ![a] = r]} /\ Fault

\* Mutant: whatever is not published may go.
unpublished_is_eligible(r) == Enforce /\ ~r.published /\ r.disposition /= "discarded"

is_physical_discard_eligible(r) ==
  Enforce /\ r.status = "rejected" /\ ~r.published /\ r.disposition /= "discarded"

\* Mutant: only the status is looked at, so any earlier claimant may conclude.
claim_is_processing(a, t) == rec[a].status = "processing"

validate_processing_claim(a, t) ==
  rec[a].status = "processing" /\ rec[a].token = t /\ rec[a].live

validate_discard_attempt(a, t) ==
  rec[a].disposition = "discard_pending" /\ rec[a].dtoken = t /\ rec[a].dlive

clear_processing_claim(r) == [r EXCEPT !.token = NoToken, !.live = FALSE]

\* update_record_checked: a failed check leaves the record alone.
UpdateChecked(a, check, r, ok) ==
  \/ check /\ Persist(a, r, ok)
  \/ ~check /\ ~ok /\ UNCHANGED <<rec, faults>>

Registered == {a \in Artifact : rec[a].status /= "unregistered"}

\* register_candidate_with_evidence.  A known artifact keeps its record.
Register(a) ==
  /\ a \notin Registered
  /\ \E ok \in BOOLEAN :
       Persist(a, NewRecord("pending_validation", Cardinality(Registered) + 1), ok)
  /\ UNCHANGED <<job, deleted, inflight, calls, purged, lost>>

Due == {a \in Artifact : rec[a].status = "pending_validation" /\ rec[a].due}

Oldest(S) == {a \in S : \A b \in S : rec[a].created <= rec[b].created}

Expired == {a \in Artifact : rec[a].status = "processing" /\ ~rec[a].live}

Recovered(r) ==
  clear_processing_claim([r EXCEPT !.status = "pending_validation",
                                   !.published = FALSE, !.due = TRUE])

\* recover_expired_claims: the records are written one by one and an error ends
\* the loop, so any of them may have been recovered when it fails.
recover_expired_claims(ok) ==
  \E S \in SUBSET Expired :
    /\ rec' = [a \in Artifact |-> IF a \in S THEN Recovered(rec[a]) ELSE rec[a]]
    /\ lost' = lost \cup S
    /\ \/ ok /\ S = Expired /\ UNCHANGED faults
       \/ ~ok /\ Fault

-----------------------------------------------------------------------------
(* The worker loop.                                                        *)

Goto(w, at) == job' = [job EXCEPT ![w] = Idle(at)]

NextDiscard(w, todo) == job' = [job EXCEPT ![w] = Discards(todo, job[w].after)]

\* The start of run_cat_recording_validation_worker; an error is only logged.
Boot(w) ==
  /\ job[w].at = "boot"
  /\ \E ok \in BOOLEAN : recover_expired_claims(ok)
  /\ Goto(w, "first_sweep")
  /\ UNCHANGED <<deleted, inflight, calls, purged>>

\* Mutant: only attempts that reported a failure are listed.
failed_discards ==
  {a \in Artifact : /\ rec[a].disposition = "discard_failed"
                    /\ rec[a].discards < MaxDiscardAttempts
                    /\ is_physical_discard_eligible(rec[a])}

pending_discards ==
  {a \in Artifact : /\ rec[a].disposition \in {"discard_pending", "discard_failed"}
                    /\ rec[a].discards < MaxDiscardAttempts
                    /\ is_physical_discard_eligible(rec[a])}

\* retry_pending_cat_recording_discards reads its list; if it cannot, there is
\* nothing to retry.  The worker runs it twice before its first readiness check.
retry_pending_discards(w) ==
  /\ job[w].at \in {"first_sweep", "sweep"}
  /\ LET after == IF job[w].at = "first_sweep" THEN "sweep" ELSE "ready" IN
     \E todo \in {pending_discards, {}} :
       /\ IF todo = pending_discards THEN UNCHANGED faults ELSE Fault
       /\ job' = [job EXCEPT ![w] = Discards(todo, after)]
  /\ UNCHANGED <<rec, deleted, inflight, calls, purged, lost>>

\* The readiness check and the recovery that follows it.
Recover(w) ==
  /\ job[w].at = "ready"
  /\ \E ok \in BOOLEAN : recover_expired_claims(ok) /\ Goto(w, IF ok THEN "claim" ELSE "sweep")
  /\ UNCHANGED <<deleted, inflight, calls, purged>>

NotReady(w) ==
  /\ job[w].at = "ready"
  /\ Goto(w, "sweep")
  /\ UNCHANGED <<rec, deleted, inflight, calls, purged, lost, faults>>

Claimed(r) ==
  [r EXCEPT !.status = "processing", !.published = FALSE, !.due = TRUE,
            !.attempts = IF @ < AttemptCap THEN @ + 1 ELSE @,
            !.token = NewToken, !.live = TRUE]

\* claim_next_pending: the oldest record that is pending and due.
claim_next_pending(w) ==
  /\ job[w].at = "claim"
  /\ \/ Due = {} /\ Goto(w, "sweep") /\ UNCHANGED <<rec, faults>>
     \/ /\ SomeTokenIsFree
        /\ \E a \in Oldest(Due), ok \in BOOLEAN :
             /\ Persist(a, Claimed(rec[a]), ok)
             /\ job' = [job EXCEPT ![w] =
                          IF ok THEN Evaluating(a, NewToken, Claimed(rec[a]).attempts)
                          ELSE Idle("sweep")]
  /\ UNCHANGED <<deleted, inflight, calls, purged, lost>>

Concluded(r, v) ==
  clear_processing_claim([r EXCEPT !.status = v, !.published = (v = "accepted"),
                                   !.due = TRUE])

Postponed(r) ==
  clear_processing_claim([r EXCEPT !.status = "pending_validation",
                                   !.published = FALSE, !.due = FALSE])

Deferred(r) == Postponed([r EXCEPT !.attempts = IF @ > 0 THEN @ - 1 ELSE 0])

\* Mutant: the worker concludes and goes on with its loop.
complete_and_go_on(w, v) ==
  LET a == job[w].art IN
  \E ok \in BOOLEAN :
    /\ UpdateChecked(a, validate_processing_claim(a, job[w].token), Concluded(rec[a], v), ok)
    /\ Goto(w, "sweep")

\* complete, with a verdict of evaluate_cat_recording_candidate.  A rejected
\* recording goes straight into discard_cat_recording_artifact.
complete(w, v) ==
  LET a == job[w].art IN
  \E ok \in BOOLEAN :
    /\ UpdateChecked(a, validate_processing_claim(a, job[w].token), Concluded(rec[a], v), ok)
    /\ job' = [job EXCEPT ![w] =
                 IF ok /\ is_physical_discard_eligible(Concluded(rec[a], v))
                 THEN Discards({a}, "sweep")
                 ELSE Idle("sweep")]

\* schedule_retry and defer_resource_contention.
PutBack(w, r) ==
  \E ok \in BOOLEAN :
    /\ UpdateChecked(job[w].art, validate_processing_claim(job[w].art, job[w].token), r, ok)
    /\ Goto(w, "sweep")

\* cat_recording_validation_retry_delay is Some.
RetryIsLeft(n) == n < MaxAttempts

\* process_cat_recording_validation, once the evaluation is over: a verdict, no
\* accelerator lease to be had, or an error, which is retried a few times.
process(w) ==
  /\ job[w].at = "evaluating"
  /\ \/ \E v \in Final : complete(w, v)
     \/ PutBack(w, Deferred(rec[job[w].art]))
     \/ RetryIsLeft(job[w].attempts) /\ PutBack(w, Postponed(rec[job[w].art]))
     \/ ~RetryIsLeft(job[w].attempts) /\ complete(w, "review_required")
  /\ UNCHANGED <<deleted, inflight, calls, purged, lost>>

-----------------------------------------------------------------------------
(* discard_cat_recording_artifact                                          *)

DiscardClaimed(r) ==
  [r EXCEPT !.disposition = "discard_pending", !.discards = @ + 1,
            !.dtoken = NewToken, !.dlive = TRUE]

\* Mutant: the number of attempts is not looked at.
discard_is_free_uncounted(a) ==
  ~(rec[a].disposition = "discard_pending" /\ rec[a].dtoken /= NoToken /\ rec[a].dlive)

DiscardIsFree(a) ==
  /\ ~(rec[a].disposition = "discard_pending" /\ rec[a].dtoken /= NoToken /\ rec[a].dlive)
  /\ rec[a].discards < MaxDiscardAttempts

\* claim_artifact_discard checks again, under the lock, what the list said.
claim_artifact_discard(w) ==
  /\ job[w].at = "sweeping"
  /\ \E a \in job[w].todo :
       IF is_physical_discard_eligible(rec[a]) /\ DiscardIsFree(a)
       THEN /\ SomeTokenIsFree
            /\ \E ok \in BOOLEAN :
                 /\ Persist(a, DiscardClaimed(rec[a]), ok)
                 /\ IF ok THEN job' = [job EXCEPT ![w] =
                                 [at |-> "deleting", art |-> a, token |-> NewToken, attempts |-> 0,
                                  todo |-> job[w].todo \ {a}, after |-> job[w].after]]
                    ELSE NextDiscard(w, job[w].todo \ {a})
       ELSE NextDiscard(w, job[w].todo \ {a}) /\ UNCHANGED <<rec, faults>>
  /\ UNCHANGED <<deleted, inflight, calls, purged, lost>>

\* send_harborlink: a mutation is sent once more after a connect error or a timeout.
MaxSends == 2

\* delete_dvr_artifact.  HarborLink confirms the deletion (or that the file was
\* already gone), answers without confirming, or there is no answer.  A request
\* without an answer was lost, was served, or is still on its way.
delete_dvr_artifact(w) ==
  LET a == job[w].art IN
  /\ job[w].at = "deleting"
  /\ \E sends \in 1..MaxSends, answer \in {"confirmed", "unconfirmed", "unmarked"},
        fates \in SUBSET {"served", "late"} :
       /\ Cardinality(fates) <= (IF answer = "unmarked" THEN sends ELSE sends - 1)
       /\ calls' = [calls EXCEPT ![a] = @ + 1]
       /\ deleted' = IF answer = "confirmed" \/ "served" \in fates THEN deleted \cup {a} ELSE deleted
       /\ inflight' = IF "late" \in fates THEN inflight \cup {a} ELSE inflight
       /\ job' = [job EXCEPT ![w].at = answer]
  /\ UNCHANGED <<rec, purged, lost, faults>>

\* handle_delete_dvr_artifact: an operator deletes whatever artifact, through the
\* same client and past the store.
handle_delete_dvr_artifact(a) ==
  /\ purged'   = purged \cup {a}
  /\ deleted'  \in {deleted, deleted \cup {a}}
  /\ inflight' \in {inflight, inflight \cup {a}}
  /\ UNCHANGED <<rec, job, calls, lost, faults>>

LateDelete(a) ==
  /\ a \in inflight
  /\ deleted'  = deleted \cup {a}
  /\ inflight' = inflight \ {a}
  /\ UNCHANGED <<rec, job, calls, purged, lost, faults>>

Discarded(r) ==
  [r EXCEPT !.disposition = "discarded", !.dtoken = NoToken, !.dlive = FALSE]

\* Mutant: any answer of HarborLink counts.
any_answer_confirms(w) == TRUE

HarborLinkConfirmed(w) == job[w].at = "confirmed"

mark_artifact_discarded(w) ==
  LET a == job[w].art IN
  /\ job[w].at \in {"confirmed", "unconfirmed"}
  /\ \E ok \in BOOLEAN :
       /\ UpdateChecked(a, validate_discard_attempt(a, job[w].token) /\ HarborLinkConfirmed(w),
                        Discarded(rec[a]), ok)
       /\ IF ok THEN NextDiscard(w, job[w].todo)
          ELSE job' = [job EXCEPT ![w].at = "unmarked"]
  /\ UNCHANGED <<deleted, inflight, calls, purged, lost>>

DiscardFailed(r) ==
  [r EXCEPT !.disposition = "discard_failed", !.dtoken = NoToken, !.dlive = FALSE]

mark_artifact_discard_failed(w) ==
  LET a == job[w].art IN
  /\ job[w].at = "unmarked"
  /\ \E ok \in BOOLEAN :
       UpdateChecked(a, validate_discard_attempt(a, job[w].token), DiscardFailed(rec[a]), ok)
  /\ NextDiscard(w, job[w].todo)
  /\ UNCHANGED <<deleted, inflight, calls, purged, lost>>

-----------------------------------------------------------------------------
(* Time and crashes.                                                       *)

ClaimLapses(a) ==
  /\ rec[a].live
  /\ rec' = [rec EXCEPT ![a].live = FALSE]
  /\ UNCHANGED <<job, deleted, inflight, calls, purged, lost, faults>>

RetryFallsDue(a) ==
  /\ ~rec[a].due
  /\ rec' = [rec EXCEPT ![a].due = TRUE]
  /\ UNCHANGED <<job, deleted, inflight, calls, purged, lost, faults>>

DiscardLapses(a) ==
  /\ rec[a].dlive
  /\ rec' = [rec EXCEPT ![a].dlive = FALSE]
  /\ UNCHANGED <<job, deleted, inflight, calls, purged, lost, faults>>

Crash(w) ==
  /\ job[w].at /= "boot"
  /\ Goto(w, "boot")
  /\ Fault
  /\ UNCHANGED <<rec, deleted, inflight, calls, purged, lost>>

WorkerStep(w) ==
  \/ Boot(w) \/ retry_pending_discards(w) \/ Recover(w) \/ claim_next_pending(w)
  \/ process(w) \/ claim_artifact_discard(w) \/ delete_dvr_artifact(w)
  \/ mark_artifact_discarded(w) \/ mark_artifact_discard_failed(w)

TimePasses(a) == ClaimLapses(a) \/ RetryFallsDue(a) \/ DiscardLapses(a)

Next ==
  \/ \E w \in Worker : WorkerStep(w) \/ NotReady(w) \/ Crash(w)
  \/ \E a \in Artifact : \/ Register(a) \/ TimePasses(a) \/ LateDelete(a)
                          \/ handle_delete_dvr_artifact(a)

Spec == Init /\ [][Next]_vars

\* Workers never stop, clocks go on, and a runtime that is ready again and again
\* is not found unready every time (the classifier backend is always ready).
FairSpec ==
  /\ Spec
  /\ \A w \in Worker : WF_vars(WorkerStep(w) \/ NotReady(w)) /\ SF_vars(Recover(w))
  /\ \A a \in Artifact : WF_vars(TimePasses(a))

-----------------------------------------------------------------------------
(* Properties.                                                             *)

\* Records and jobs keep their shape; a record is published exactly when it was
\* accepted, has a claim token exactly while it is processed and a discard token
\* exactly while a discard is pending.
TypeOK ==
  /\ rec \in [Artifact -> Record]
  /\ job \in [Worker -> Job]
  /\ deleted \subseteq Artifact /\ inflight \subseteq Artifact
  /\ calls \in [Artifact -> Nat] /\ purged \subseteq Artifact
  /\ faults \in 0..MaxFaults
  /\ \A a \in Artifact :
       /\ rec[a].published <=> rec[a].status = "accepted"
       /\ rec[a].token /= NoToken <=> rec[a].status = "processing"
       /\ rec[a].dtoken /= NoToken <=> rec[a].disposition = "discard_pending"

\* A recording whose file is gone, or is about to go at the hands of a late request
\* of a crashed worker, had been rejected and the intent to discard it was durable
\* first, unless an operator asked for its deletion (complete,
\* claim_artifact_discard, handle_delete_dvr_artifact).
OnlyRejectedAreDeleted ==
  \A a \in (deleted \cup inflight) \ purged :
    Enforce /\ rec[a].status = "rejected" /\ rec[a].disposition /= "retained"

\* The tombstone tells the truth: a record marked discarded has no file left.
TombstoneIsTrue == \A a \in Artifact : rec[a].disposition = "discarded" => a \in deleted

\* Nobody takes a live claim or a live discard attempt from its holder: it ends
\* in a step of the worker that holds its token.
LiveLeaseHonoured ==
  [][\A a \in Artifact :
       \/ rec[a].live  /\ rec'[a].token /= rec[a].token
       \/ rec[a].dlive /\ rec'[a].dtoken /= rec[a].dtoken
       => \E w \in Worker : /\ job[w].art = a /\ job'[w] /= job[w]
                            /\ job[w].token \in {rec[a].token, rec[a].dtoken}]_vars

\* A verdict comes from the worker that holds the live claim, and is final.
VerdictUnderClaim ==
  [][\A a \in Artifact : rec[a].status /= rec'[a].status
                         /\ {rec[a].status, rec'[a].status} \cap Final /= {} =>
       /\ rec[a].status = "processing" /\ rec[a].live
       /\ \E w \in Worker : /\ job[w].at = "evaluating" /\ job[w].art = a
                            /\ job[w].token = rec[a].token
                            /\ job'[w] /= job[w]]_vars

\* A worker whose discard lease has lapsed changes nothing any more: an attempt
\* succeeds or fails under its live token, and a tombstone stays.
DiscardUnderClaim ==
  [][\A a \in Artifact : rec[a].disposition /= rec'[a].disposition =>
       \/ /\ rec[a].disposition \in {"retained", "discard_failed"}
          /\ rec'[a].disposition = "discard_pending"
       \/ /\ rec[a].disposition = "discard_pending" /\ rec[a].dlive
          /\ \E w \in Worker : job[w].art = a /\ job[w].token = rec[a].dtoken]_vars

\* Errors use up the attempts of a recording and resource contention does not:
\* one whose claims were never lost is claimed MaxAttempts times at most.  The
\* client is called at most MaxDiscardAttempts times to delete it, over all workers,
\* retries and restarts, and sends at most MaxSends requests each time.
AttemptsBounded ==
  /\ \A a \in Artifact \ lost :
       /\ rec[a].attempts <= MaxAttempts
       /\ rec[a].status = "pending_validation" => rec[a].attempts < MaxAttempts
  /\ \A a \in Artifact : calls[a] <= MaxDiscardAttempts

\* Without store errors and crashes no rejected recording is left behind: some
\* worker is about to claim its discard, or an attempt has been claimed.
RejectedAreTaken ==
  \A a \in Artifact :
    faults = 0 /\ is_physical_discard_eligible(rec[a]) /\ rec[a].disposition = "retained"
      => \E w \in Worker : job[w].at = "sweeping" /\ a \in job[w].todo

\* What was begun ends.  A claim is concluded by its worker or, if that worker
\* is gone or too slow, its lease lapses and some worker recovers the record; a
\* discard ends with the file confirmed gone or with all the attempts used.
WorkEnds ==
  \A a \in Artifact :
    /\ rec[a].status = "processing" ~> rec[a].status /= "processing"
    /\ rec[a].disposition \in {"discard_pending", "discard_failed"} ~>
         rec[a].disposition = "discarded" \/ rec[a].discards = MaxDiscardAttempts

\* The queue keeps what RecordingFate promises.
Fate == INSTANCE RecordingFate WITH
  verdict   <- [a \in Artifact |-> IF rec[a].status \in Final THEN rec[a].status ELSE "none"],
  condemned <- {a \in Artifact : rec[a].disposition /= "retained"},
  buried    <- {a \in Artifact : rec[a].disposition = "discarded"}

ImplementsRecordingFate == Fate!Spec
=============================================================================
