------------------------- MODULE AiResourceScheduler -------------------------
(***************************************************************************)
(* The process-wide lease scheduler of runtime/ai_resource_scheduler.rs.   *)
(*                                                                         *)
(* Threads ask for a lease on the accelerator resources one inference      *)
(* workload needs, wait in a bounded queue while somebody else holds them, *)
(* and give the lease back, or quarantine it when the process that used    *)
(* the accelerator could not be confirmed dead.  One mutex protects the    *)
(* whole state and one condition variable, changed, wakes the queue.       *)
(*                                                                         *)
(* A step of the model is one critical section of the mutex.  release and  *)
(* quarantine unlock the mutex BEFORE they call notify_all, so the         *)
(* notification is a step of its own: other threads run in between.        *)
(*                                                                         *)
(* The wait timeout is a nondeterministic choice: a waiter may find its    *)
(* deadline passed at any time.  The wait-time metrics are left out; the   *)
(* event counters are kept.                                                *)
(***************************************************************************)
EXTENDS Integers, FiniteSets

CONSTANTS
  Thread,         \* callers of acquire_ai_resource_lease
  QueueCapacity,  \* queue_capacity, per resource
  MaxRequests     \* bound: calls of acquire in a behaviour

ASSUME QueueCapacityAssumption == QueueCapacity \in Nat \ {0}
ASSUME MaxRequestsAssumption   == MaxRequests \in Nat

Workload == {"yolo", "llm", "cat_recording_verifier", "vlm"}

Resource == {"a100_cluster_0", "a100_cluster_1", "onnx_runtime_0", "onnx_runtime_1"}

required_resources ==
  [w \in Workload |->
     CASE w = "yolo"                   -> {"a100_cluster_0", "onnx_runtime_0"}
       [] w = "cat_recording_verifier" -> {"a100_cluster_1", "onnx_runtime_1"}
       [] OTHER                        -> {"a100_cluster_1"}]

priority ==
  [w \in Workload |->
     CASE w = "cat_recording_verifier" -> 5
       [] w = "vlm"                    -> 10
       [] OTHER                        -> 0]

VARIABLES
  pc,             \* where each thread is in acquire, or what it does with its lease
  work,           \* the workload of a thread that waits or owns a lease
  ticket,         \* the queue ticket of a waiting thread
  lease,          \* the lease id of a thread that owns an AiResourceLease
  signalled,      \* waiting threads a notify_all has reached since they parked
  next_ticket,
  next_lease_id,
  holder,         \* per resource, the id of the lease it is under; 0 for None
  quarantined,    \* resources with a quarantine_reason
  rmetrics,       \* per resource, its event counters
  wmetrics        \* per workload, its event counters

vars == <<pc, work, ticket, lease, signalled, next_ticket, next_lease_id,
          holder, quarantined, rmetrics, wmetrics>>

\* Threads that own no place in the scheduler, wait on the condition variable,
\* own a lease, or have unlocked the mutex and not called notify_all yet.
Status == {"idle", "waiting", "leased", "notifying"}

NoWork == "none"

ResourceMetrics == {"acquired", "released", "lease_quarantined", "queued",
                    "queue_full", "timed_out"}
WorkloadMetrics == {"requested", "acquired", "released", "parallel_acquired",
                    "quarantine_rejected", "queued", "queue_full", "timed_out"}

Init ==
  /\ pc            = [t \in Thread |-> "idle"]
  /\ work          = [t \in Thread |-> NoWork]
  /\ ticket        = [t \in Thread |-> 0]
  /\ lease         = [t \in Thread |-> 0]
  /\ signalled     = {}
  /\ next_ticket   = 0
  /\ next_lease_id = 0
  /\ holder        = [r \in Resource |-> 0]
  /\ quarantined   = {}
  /\ rmetrics      = [r \in Resource |-> [m \in ResourceMetrics |-> 0]]
  /\ wmetrics      = [w \in Workload |-> [m \in WorkloadMetrics |-> 0]]

-----------------------------------------------------------------------------
(* The predicates of the queue.                                            *)

waiters == {t \in Thread : pc[t] = "waiting"}

resources_are_free(R) == \A r \in R : holder[r] = 0 /\ r \notin quarantined

required_resources_are_quarantined(w) == required_resources[w] \cap quarantined /= {}

resources_overlap(v, w) == required_resources[v] \cap required_resources[w] /= {}

queued_count_for_resource(r) ==
  Cardinality({t \in waiters : r \in required_resources[work[t]]})

\* Mutant of can_grant_new_request: a request only yields to more urgent waiters,
\* so it passes the earlier ones of its own priority.
can_grant_past_equals(w) ==
  /\ resources_are_free(required_resources[w])
  /\ ~ \E o \in waiters : /\ resources_overlap(work[o], w)
                          /\ resources_are_free(required_resources[work[o]])
                          /\ priority[work[o]] < priority[w]

\* Mutant of can_grant_new_request: the queue is looked at, the holders are not.
can_grant_ignoring_holders(w) ==
  ~ \E o \in waiters : /\ resources_overlap(work[o], w)
                       /\ resources_are_free(required_resources[work[o]])
                       /\ priority[work[o]] <= priority[w]

\* A new request takes its resources at once unless somebody of the same or of
\* a more urgent priority waits for one of them and could have all of its own.
can_grant_new_request(w) ==
  /\ resources_are_free(required_resources[w])
  /\ ~ \E o \in waiters : /\ resources_overlap(work[o], w)
                          /\ resources_are_free(required_resources[work[o]])
                          /\ priority[work[o]] <= priority[w]

Precedes(o, t) ==
  \/ priority[work[o]] < priority[work[t]]
  \/ priority[work[o]] = priority[work[t]] /\ ticket[o] < ticket[t]

\* Mutant of waiter_can_be_granted: being first in line is enough.
waiter_is_first(t) ==
  ~ \E o \in waiters \ {t} : resources_overlap(work[o], work[t]) /\ Precedes(o, t)

waiter_can_be_granted(t) ==
  /\ resources_are_free(required_resources[work[t]])
  /\ ~ \E o \in waiters \ {t} : /\ resources_overlap(work[o], work[t])
                                /\ resources_are_free(required_resources[work[o]])
                                /\ Precedes(o, t)

-----------------------------------------------------------------------------
(* Counters and the condition variable.                                    *)

CountWorkload(w, M) ==
  wmetrics' = [v \in Workload |-> [m \in WorkloadMetrics |->
                 IF v = w /\ m \in M THEN wmetrics[v][m] + 1 ELSE wmetrics[v][m]]]

CountResources(R, m) ==
  rmetrics' = [r \in Resource |-> [n \in ResourceMetrics |->
                 IF r \in R /\ n = m THEN rmetrics[r][n] + 1 ELSE rmetrics[r][n]]]

notify_all == signalled' = {t \in Thread : pc'[t] = "waiting"}

\* remove_waiter, and the queue is told while the mutex is still locked.
LeaveQueue(t) ==
  /\ pc'     = [pc EXCEPT ![t] = "idle"]
  /\ work'   = [work EXCEPT ![t] = NoWork]
  /\ ticket' = [ticket EXCEPT ![t] = 0]
  /\ notify_all
  /\ UNCHANGED <<lease, next_ticket, next_lease_id, holder, quarantined>>

-----------------------------------------------------------------------------
(* acquire                                                                 *)

OtherCluster(w) == IF w = "yolo" THEN "a100_cluster_1" ELSE "a100_cluster_0"

\* The resources of w go under a fresh lease of thread t.
grant(t, w, M) ==
  /\ next_lease_id' = next_lease_id + 1
  /\ lease'  = [lease EXCEPT ![t] = next_lease_id + 1]
  /\ pc'     = [pc EXCEPT ![t] = "leased"]
  /\ holder' = [r \in Resource |->
                  IF r \in required_resources[w] THEN next_lease_id + 1 ELSE holder[r]]
  /\ CountResources(required_resources[w], "acquired")
  /\ CountWorkload(w, M \cup {"acquired"} \cup
                      IF holder[OtherCluster(w)] /= 0 THEN {"parallel_acquired"} ELSE {})
  /\ UNCHANGED quarantined

requested_total ==
  wmetrics["yolo"]["requested"] + wmetrics["llm"]["requested"]
    + wmetrics["cat_recording_verifier"]["requested"] + wmetrics["vlm"]["requested"]

Requesting(t) == pc[t] = "idle" /\ requested_total < MaxRequests

AcquireQuarantined(t, w) ==
  /\ Requesting(t)
  /\ required_resources_are_quarantined(w)
  /\ CountWorkload(w, {"requested", "quarantine_rejected"})
  /\ UNCHANGED <<pc, work, ticket, lease, signalled, next_ticket, next_lease_id,
                 holder, quarantined, rmetrics>>

AcquireAtOnce(t, w) ==
  /\ Requesting(t)
  /\ ~ required_resources_are_quarantined(w)
  /\ can_grant_new_request(w)
  /\ work' = [work EXCEPT ![t] = w]
  /\ grant(t, w, {"requested"})
  /\ UNCHANGED <<ticket, signalled, next_ticket>>

QueueFull(w) ==
  \E r \in required_resources[w] : queued_count_for_resource(r) >= QueueCapacity

AcquireQueueFull(t, w) ==
  /\ Requesting(t)
  /\ ~ required_resources_are_quarantined(w)
  /\ ~ can_grant_new_request(w)
  /\ QueueFull(w)
  /\ CountWorkload(w, {"requested", "queue_full"})
  /\ CountResources(required_resources[w], "queue_full")
  /\ UNCHANGED <<pc, work, ticket, lease, signalled, next_ticket, next_lease_id,
                 holder, quarantined>>

\* The request joins the queue and parks on the condition variable.
AcquireQueued(t, w) ==
  /\ Requesting(t)
  /\ ~ required_resources_are_quarantined(w)
  /\ ~ can_grant_new_request(w)
  /\ ~ QueueFull(w)
  /\ next_ticket' = next_ticket + 1
  /\ ticket' = [ticket EXCEPT ![t] = next_ticket + 1]
  /\ work'   = [work EXCEPT ![t] = w]
  /\ pc'     = [pc EXCEPT ![t] = "waiting"]
  /\ CountWorkload(w, {"requested", "queued"})
  /\ CountResources(required_resources[w], "queued")
  /\ UNCHANGED <<lease, signalled, next_lease_id, holder, quarantined>>

\* The wait loop, once the condition variable has let the thread go: because it
\* was signalled, because the deadline passed, or spuriously.
WaitQuarantined(t) ==
  /\ pc[t] = "waiting"
  /\ required_resources_are_quarantined(work[t])
  /\ LeaveQueue(t)
  /\ CountWorkload(work[t], {"quarantine_rejected"})
  /\ UNCHANGED rmetrics

WaitGranted(t) ==
  /\ pc[t] = "waiting"
  /\ ~ required_resources_are_quarantined(work[t])
  /\ waiter_can_be_granted(t)
  /\ ticket' = [ticket EXCEPT ![t] = 0]
  /\ signalled' = signalled \ {t}
  /\ grant(t, work[t], {})
  /\ UNCHANGED <<work, next_ticket>>

\* Mutant of WaitTimeout: the workload's counter is forgotten.
WaitTimeoutUncounted(t) ==
  /\ pc[t] = "waiting"
  /\ ~ required_resources_are_quarantined(work[t])
  /\ ~ waiter_can_be_granted(t)
  /\ LeaveQueue(t)
  /\ CountResources(required_resources[work[t]], "timed_out")
  /\ UNCHANGED wmetrics

WaitTimeout(t) ==
  /\ pc[t] = "waiting"
  /\ ~ required_resources_are_quarantined(work[t])
  /\ ~ waiter_can_be_granted(t)
  /\ LeaveQueue(t)
  /\ CountWorkload(work[t], {"timed_out"})
  /\ CountResources(required_resources[work[t]], "timed_out")

\* Nothing to do yet and time left: the thread parks again.
WaitAgain(t) ==
  /\ pc[t] = "waiting"
  /\ t \in signalled
  /\ ~ required_resources_are_quarantined(work[t])
  /\ ~ waiter_can_be_granted(t)
  /\ signalled' = signalled \ {t}
  /\ UNCHANGED <<pc, work, ticket, lease, next_ticket, next_lease_id, holder,
                 quarantined, rmetrics, wmetrics>>

-----------------------------------------------------------------------------
(* What a thread does with its lease.                                      *)

HeldBy(t) == {r \in required_resources[work[t]] : holder[r] = lease[t]}

\* Mutant of EndLease: nobody is notified.
EndLeaseSilently(t) ==
  /\ pc'    = [pc EXCEPT ![t] = "idle"]
  /\ work'  = [work EXCEPT ![t] = NoWork]
  /\ lease' = [lease EXCEPT ![t] = 0]
  /\ UNCHANGED <<ticket, signalled, next_ticket, next_lease_id>>

\* The lease value is gone; notify_all follows only if something was held.
EndLease(t) ==
  /\ pc'    = [pc EXCEPT ![t] = IF HeldBy(t) = {} THEN "idle" ELSE "notifying"]
  /\ work'  = [work EXCEPT ![t] = NoWork]
  /\ lease' = [lease EXCEPT ![t] = 0]
  /\ UNCHANGED <<ticket, signalled, next_ticket, next_lease_id>>

\* Drop for AiResourceLease.
release(t) ==
  /\ pc[t] = "leased"
  /\ EndLease(t)
  /\ holder' = [r \in Resource |-> IF r \in HeldBy(t) THEN 0 ELSE holder[r]]
  /\ CountResources(HeldBy(t), "released")
  /\ CountWorkload(work[t], IF HeldBy(t) = {} THEN {} ELSE {"released"})
  /\ UNCHANGED quarantined

\* Mutant of quarantine: the holder is cleared as release does.
quarantine_and_release(t) ==
  /\ pc[t] = "leased"
  /\ EndLease(t)
  /\ quarantined' = quarantined \cup HeldBy(t)
  /\ holder' = [r \in Resource |-> IF r \in HeldBy(t) THEN 0 ELSE holder[r]]
  /\ CountResources(HeldBy(t), "lease_quarantined")
  /\ UNCHANGED wmetrics

\* AiResourceLease::quarantine: the resources stay under the lease, for good.
quarantine(t) ==
  /\ pc[t] = "leased"
  /\ EndLease(t)
  /\ quarantined' = quarantined \cup HeldBy(t)
  /\ CountResources(HeldBy(t), "lease_quarantined")
  /\ UNCHANGED <<holder, wmetrics>>

Notify(t) ==
  /\ pc[t] = "notifying"
  /\ pc' = [pc EXCEPT ![t] = "idle"]
  /\ notify_all
  /\ UNCHANGED <<work, ticket, lease, next_ticket, next_lease_id, holder,
                 quarantined, rmetrics, wmetrics>>

-----------------------------------------------------------------------------
acquire(t, w) ==
  \/ AcquireQuarantined(t, w)
  \/ AcquireAtOnce(t, w)
  \/ AcquireQueueFull(t, w)
  \/ AcquireQueued(t, w)

Wait(t) ==
  \/ WaitQuarantined(t)
  \/ WaitGranted(t)
  \/ WaitTimeout(t)
  \/ WaitAgain(t)

Next ==
  \E t \in Thread :
    \/ \E w \in Workload : acquire(t, w)
    \/ Wait(t)
    \/ release(t)
    \/ quarantine(t)
    \/ Notify(t)

Spec == Init /\ [][Next]_vars

\* A thread past the unlock goes on to notify_all, and a thread the condition
\* variable was signalled for runs its loop.  Nothing makes a lease end, a
\* deadline pass or a spurious wakeup happen.
Fairness ==
  \A t \in Thread : WF_vars(Notify(t)) /\ WF_vars(t \in signalled /\ Wait(t))

FairSpec == Spec /\ Fairness

-----------------------------------------------------------------------------
(* Properties.                                                             *)

\* Every variable stays in its domain, and a thread in the queue or with a
\* lease has a workload.
TypeOK ==
  /\ pc \in [Thread -> Status]
  /\ work \in [Thread -> Workload \cup {NoWork}]
  /\ \A t \in Thread : pc[t] \in {"waiting", "leased"} => work[t] \in Workload
  /\ ticket \in [Thread -> Nat]
  /\ lease \in [Thread -> Nat]
  /\ signalled \in SUBSET Thread
  /\ next_ticket \in Nat
  /\ next_lease_id \in Nat
  /\ holder \in [Resource -> Nat]
  /\ quarantined \in SUBSET Resource
  /\ rmetrics \in [Resource -> [ResourceMetrics -> Nat]]
  /\ wmetrics \in [Workload -> [WorkloadMetrics -> Nat]]

\* Leases are atomic and exclusive: an owner of an AiResourceLease has every
\* resource its workload needs, and no two owners need a common one, although
\* release and quarantine only look at lease ids.
LeaseExclusive ==
  /\ \A t \in Thread : pc[t] = "leased" => HeldBy(t) = required_resources[work[t]]
  /\ \A t, u \in Thread : (t /= u /\ pc[t] = "leased" /\ pc[u] = "leased")
                             => ~ resources_overlap(work[t], work[u])

\* No resource leaks: one that is under a lease is under the lease of a thread
\* that still owns it, or was quarantined by the thread that did.
NoLeakedResource ==
  \A r \in Resource :
    holder[r] /= 0 =>
      \/ r \in quarantined
      \/ \E t \in Thread : /\ pc[t] = "leased"
                           /\ r \in required_resources[work[t]]
                           /\ holder[r] = lease[t]

\* Quarantine fails closed: a quarantined resource is under no live lease, and
\* it stays under the lease it was quarantined with.
QuarantineFences ==
  \A r \in quarantined :
    /\ holder[r] /= 0
    /\ \A t \in Thread : pc[t] = "leased" => r \notin required_resources[work[t]]

\* No wakeup is lost: a thread that sleeps in wait_timeout with no signal on its
\* way could not do anything else if it woke up.  release and quarantine unlock
\* before they notify, so a thread about to notify counts as a signal.
NoLostWakeup ==
  (\A u \in Thread : pc[u] /= "notifying") =>
    \A t \in waiters \ signalled :
      /\ ~ waiter_can_be_granted(t)
      /\ ~ required_resources_are_quarantined(work[t])

\* Every call of acquire is accounted for exactly once: it waits, or it was
\* granted, or it was turned away for one of the three reasons.  The busy flag
\* of a snapshot agrees with the counters next to it, and a resource is
\* quarantined at most once in the life of the process.
CountersExact ==
  /\ \A w \in Workload :
       wmetrics[w]["requested"] =
         wmetrics[w]["acquired"] + wmetrics[w]["quarantine_rejected"]
           + wmetrics[w]["queue_full"] + wmetrics[w]["timed_out"]
           + Cardinality({t \in waiters : work[t] = w})
  /\ \A r \in Resource :
       /\ rmetrics[r]["acquired"] = rmetrics[r]["released"] + IF holder[r] = 0 THEN 0 ELSE 1
       /\ rmetrics[r]["lease_quarantined"] = IF r \in quarantined THEN 1 ELSE 0

\* Strict priority, FIFO within a priority: a lease is never given to a thread
\* past a more urgent or an earlier waiter for one of the same resources.  The
\* code skips waiters whose own resources are not free; none ever is skipped.
NoOvertaking ==
  [][\A t \in Thread :
       (pc[t] /= "leased" /\ pc'[t] = "leased") =>
         \A o \in waiters \ {t} :
           resources_overlap(work[o], work'[t]) =>
             \/ priority[work'[t]] < priority[work[o]]
             \/ /\ pc[t] = "waiting"
                /\ priority[work'[t]] = priority[work[o]]
                /\ ticket[t] < ticket[o]]_vars

\* A waiter that could have its resources gets its turn, or somebody more
\* urgent takes them first; it never sleeps on them until its deadline.
FreedResourcesAreTaken ==
  \A t \in Thread :
    (pc[t] = "waiting" /\ waiter_can_be_granted(t))
      ~> ~ (pc[t] = "waiting" /\ waiter_can_be_granted(t))

\* The scheduler keeps the promise of LeaseBook.
Book == INSTANCE LeaseBook WITH
          granted <- [t \in Thread |->
                        IF pc[t] = "leased" THEN required_resources[work[t]] ELSE {}],
          fenced  <- quarantined

ImplementsLeaseBook == Book!Spec
=============================================================================
