---------------------- MODULE AiResourceSchedulerProofs ----------------------
(***************************************************************************)
(* Proofs about the lease scheduler, for every set of threads, queue       *)
(* capacity and number of requests: exclusion, wakeups, the order of       *)
(* grants, exact counters, and that it implements the book of leases.      *)
(***************************************************************************)
EXTENDS AiResourceScheduler, FiniteSetTheorems, TLAPS

\* What the workload table says: each workload needs some resources.
LEMMA RequiredResources ==
  ASSUME NEW w \in Workload
  PROVE  required_resources[w] \in SUBSET Resource /\ required_resources[w] /= {}
  BY Zenon DEF required_resources, Workload, Resource

\* The counters of the snapshot stay natural numbers.
LEMMA CountersTyped ==
  ASSUME TypeOK
  PROVE  /\ \A w, M : CountWorkload(w, M) => wmetrics' \in [Workload -> [WorkloadMetrics -> Nat]]
         /\ \A R, m : CountResources(R, m) => rmetrics' \in [Resource -> [ResourceMetrics -> Nat]]
<1>1. ASSUME NEW w, NEW M, CountWorkload(w, M)
      PROVE  wmetrics' \in [Workload -> [WorkloadMetrics -> Nat]]
  <2>1. ASSUME NEW v \in Workload, NEW n \in WorkloadMetrics
        PROVE  wmetrics[v][n] \in Nat
    BY Zenon DEF TypeOK
  <2>2. ASSUME NEW v \in Workload, NEW n \in WorkloadMetrics
        PROVE  (IF v = w /\ n \in M THEN wmetrics[v][n] + 1 ELSE wmetrics[v][n]) \in Nat
    BY <2>1
  <2>3. QED
    BY Zenon, <1>1, <2>2 DEF CountWorkload
<1>2. ASSUME NEW R, NEW m, CountResources(R, m)
      PROVE  rmetrics' \in [Resource -> [ResourceMetrics -> Nat]]
  <2>1. ASSUME NEW r \in Resource, NEW n \in ResourceMetrics
        PROVE  rmetrics[r][n] \in Nat
    BY Zenon DEF TypeOK
  <2>2. ASSUME NEW r \in Resource, NEW n \in ResourceMetrics
        PROVE  (IF r \in R /\ n = m THEN rmetrics[r][n] + 1 ELSE rmetrics[r][n]) \in Nat
    BY <2>1
  <2>3. QED
    BY Zenon, <1>2, <2>2 DEF CountResources
<1>3. QED
  BY Zenon, <1>1, <1>2

\* Every operation of the scheduler keeps every variable in its domain.
THEOREM TypeCorrect == Spec => []TypeOK
<1>1. Init => TypeOK
  BY DEF Init, TypeOK, Status
<1>2. TypeOK /\ [Next]_vars => TypeOK'
  <2> SUFFICES ASSUME TypeOK, [Next]_vars PROVE TypeOK'
    BY Zenon
  <2> USE CountersTyped DEF TypeOK, Status
  <2>1. ASSUME NEW t \in Thread, NEW w \in Workload, AcquireQuarantined(t, w) PROVE TypeOK'
    BY Zenon, <2>1 DEF AcquireQuarantined
  <2>2. ASSUME NEW t \in Thread, NEW w \in Workload, AcquireAtOnce(t, w) PROVE TypeOK'
    BY <2>2 DEF AcquireAtOnce, grant
  <2>3. ASSUME NEW t \in Thread, NEW w \in Workload, AcquireQueueFull(t, w) PROVE TypeOK'
    BY Zenon, <2>3 DEF AcquireQueueFull
  <2>4. ASSUME NEW t \in Thread, NEW w \in Workload, AcquireQueued(t, w) PROVE TypeOK'
    BY <2>4 DEF AcquireQueued
  <2>5. ASSUME NEW t \in Thread, WaitQuarantined(t) PROVE TypeOK'
    BY Zenon, <2>5 DEF WaitQuarantined, LeaveQueue, notify_all, NoWork
  <2>6. ASSUME NEW t \in Thread, WaitGranted(t) PROVE TypeOK'
    BY <2>6 DEF WaitGranted, grant
  <2>7. ASSUME NEW t \in Thread, WaitTimeout(t) PROVE TypeOK'
    BY Zenon, <2>7 DEF WaitTimeout, LeaveQueue, notify_all, NoWork
  <2>8. ASSUME NEW t \in Thread, WaitAgain(t) PROVE TypeOK'
    BY Zenon, <2>8 DEF WaitAgain
  <2>9. ASSUME NEW t \in Thread, release(t) PROVE TypeOK'
    BY Zenon, <2>9 DEF release, EndLease, NoWork
  <2>10. ASSUME NEW t \in Thread, quarantine(t) PROVE TypeOK'
    <3>1. HeldBy(t) \subseteq Resource
      BY Zenon, <2>10, RequiredResources DEF HeldBy, quarantine
    <3>2. QED
      BY Zenon, <2>10, <3>1 DEF quarantine, EndLease, NoWork
  <2>11. ASSUME NEW t \in Thread, Notify(t) PROVE TypeOK'
    BY Zenon, <2>11 DEF Notify, notify_all
  <2>12. CASE UNCHANGED vars
    BY Zenon, <2>12 DEF vars
  <2>13. QED
    BY Zenon, <2>1, <2>2, <2>3, <2>4, <2>5, <2>6, <2>7, <2>8, <2>9, <2>10, <2>11, <2>12
       DEF Next, acquire, Wait
<1>3. QED
  BY <1>1, <1>2, PTL DEF Spec
-----------------------------------------------------------------------------
(* Exclusion.  LeaseExclusive is not inductive: release and quarantine only *)
(* compare lease ids, so the ids have to be unique and the book of holders  *)
(* has to agree exactly with the leases that are out.                       *)

\* No runtime of R without its cluster.
RuntimeWithCluster(R) ==
  /\ "onnx_runtime_0" \in R => "a100_cluster_0" \in R
  /\ "onnx_runtime_1" \in R => "a100_cluster_1" \in R

\* Lease ids are fresh and unique, a lease owner is the holder of exactly what
\* it needs, a quarantined resource stays under a lease nobody owns, and an ONNX
\* runtime is never quarantined without its cluster.
LeaseInv ==
  /\ TypeOK
  /\ \A t \in Thread : pc[t] = "leased" => lease[t] \in 1..next_lease_id
  /\ \A t, u \in Thread : (t /= u /\ pc[t] = "leased" /\ pc[u] = "leased") => lease[t] /= lease[u]
  /\ \A r \in Resource : holder[r] <= next_lease_id
  /\ \A t \in Thread : pc[t] = "leased" =>
       \A r \in Resource : holder[r] = lease[t] <=> r \in required_resources[work[t]]
  /\ \A r \in quarantined : /\ holder[r] /= 0
                            /\ \A t \in Thread : pc[t] = "leased" => holder[r] /= lease[t]
  /\ NoLeakedResource
  /\ RuntimeWithCluster(quarantined)

\* A lease owner holds what its workload needs, so release and quarantine act on
\* all of it and always notify.
LEMMA HeldByOwner ==
  ASSUME LeaseInv, NEW t \in Thread, pc[t] = "leased"
  PROVE  /\ HeldBy(t) = required_resources[work[t]]
         /\ HeldBy(t) \in SUBSET Resource
         /\ HeldBy(t) /= {}
  <1>1. work[t] \in Workload
    BY Zenon DEF LeaseInv, TypeOK
  <1>2. required_resources[work[t]] \in SUBSET Resource /\ required_resources[work[t]] /= {}
    BY Zenon, <1>1, RequiredResources
  <1>3. \A r \in Resource : holder[r] = lease[t] <=> r \in required_resources[work[t]]
    BY Zenon DEF LeaseInv
  <1>4. QED
    BY Zenon, <1>2, <1>3 DEF HeldBy

\* Granting a lease to a thread that can_grant allowed keeps the bookkeeping of
\* held resources in step with the active leases.
LEMMA GrantKeepsLeaseInv ==
  ASSUME LeaseInv, TypeOK', NEW t \in Thread, NEW w \in Workload, NEW M,
         pc[t] /= "leased", resources_are_free(required_resources[w]),
         work' = [work EXCEPT ![t] = w], grant(t, w, M)
  PROVE  LeaseInv'
<1>1. required_resources[w] \in SUBSET Resource
  BY Zenon, RequiredResources
<1>2. /\ next_lease_id' = next_lease_id + 1
      /\ next_lease_id \in Nat
      /\ lease' = [lease EXCEPT ![t] = next_lease_id + 1]
      /\ pc' = [pc EXCEPT ![t] = "leased"]
      /\ holder' = [r \in Resource |->
                      IF r \in required_resources[w] THEN next_lease_id + 1 ELSE holder[r]]
      /\ quarantined' = quarantined
      /\ holder \in [Resource -> Nat]
      /\ pc \in [Thread -> Status]
      /\ lease \in [Thread -> Nat]
      /\ work \in [Thread -> Workload \cup {NoWork}]
      /\ quarantined \in SUBSET Resource
  BY Zenon DEF grant, LeaseInv, TypeOK
<1>3. \A u \in Thread : pc'[u] = "leased" =>
        IF u = t THEN lease'[u] = next_lease_id + 1 /\ work'[u] = w
                 ELSE pc[u] = "leased" /\ lease'[u] = lease[u] /\ work'[u] = work[u]
  BY Zenon, <1>2
<1>4. \A u \in Thread : pc'[u] = "leased" => lease'[u] \in 1..next_lease_id'
  BY <1>2, <1>3 DEF LeaseInv
<1>5. \A u, v \in Thread : (u /= v /\ pc'[u] = "leased" /\ pc'[v] = "leased") => lease'[u] /= lease'[v]
  BY <1>2, <1>3 DEF LeaseInv
<1>6. \A r \in Resource : holder'[r] <= next_lease_id'
  BY <1>2 DEF LeaseInv
<1>7. ASSUME NEW u \in Thread, pc'[u] = "leased", NEW r \in Resource
      PROVE  holder'[r] = lease'[u] <=> r \in required_resources[work'[u]]
  <2>1. CASE u = t
    BY <1>2, <1>3, <1>7, <2>1 DEF LeaseInv
  <2>2. CASE u /= t
    <3>1. pc[u] = "leased" /\ lease'[u] = lease[u] /\ work'[u] = work[u] /\ lease[u] \in 1..next_lease_id
      BY Zenon, <1>3, <1>7, <2>2 DEF LeaseInv
    <3>2. CASE r \in required_resources[w]
      <4>1. holder[r] = 0
        BY Zenon, <3>2 DEF resources_are_free
      <4>2. holder[r] /= lease[u]
        BY <3>1, <4>1
      <4>3. r \notin required_resources[work[u]]
        BY Zenon, <3>1, <4>2 DEF LeaseInv
      <4>4. QED
        BY <1>2, <3>1, <3>2, <4>3
    <3>3. CASE r \notin required_resources[w]
      BY Zenon, <1>2, <3>1, <3>3 DEF LeaseInv
    <3>4. QED
      BY Zenon, <3>2, <3>3
  <2>3. QED
    BY Zenon, <2>1, <2>2
<1>8. ASSUME NEW r \in quarantined'
      PROVE  /\ holder'[r] /= 0
             /\ \A u \in Thread : pc'[u] = "leased" => holder'[r] /= lease'[u]
  <2>1. r \in quarantined /\ r \in Resource
    BY Zenon, <1>2
  <2>2. r \notin required_resources[w]
    BY Zenon, <2>1 DEF resources_are_free
  <2>3. holder'[r] = holder[r] /\ holder[r] <= next_lease_id
    BY Zenon, <1>2, <2>1, <2>2 DEF LeaseInv
  <2>4. QED
    BY <1>2, <1>3, <2>1, <2>3 DEF LeaseInv
<1>9. NoLeakedResource'
  <2> SUFFICES ASSUME NEW r \in Resource, holder'[r] /= 0
               PROVE  \/ r \in quarantined'
                      \/ \E u \in Thread : /\ pc'[u] = "leased"
                                           /\ r \in required_resources[work'[u]]
                                           /\ holder'[r] = lease'[u]
    BY Zenon DEF NoLeakedResource
  <2>1. CASE r \in required_resources[w]
    BY Zenon, <1>2, <2>1
  <2>2. CASE r \notin required_resources[w]
    BY Zenon, <1>2, <2>2 DEF LeaseInv, NoLeakedResource
  <2>3. QED
    BY Zenon, <2>1, <2>2
<1>10. RuntimeWithCluster(quarantined')
  BY Zenon, <1>2 DEF LeaseInv
<1>11. QED
  BY Zenon, <1>4, <1>5, <1>6, <1>7, <1>8, <1>9, <1>10 DEF LeaseInv, RuntimeWithCluster

\* Steps that leave the leases and the holders alone.
LEMMA OthersKeepLeaseInv ==
  ASSUME LeaseInv, TypeOK', UNCHANGED <<lease, next_lease_id, holder, quarantined>>,
         \A t \in Thread : /\ pc[t] = "leased" <=> pc'[t] = "leased"
                           /\ pc[t] = "leased" => work'[t] = work[t]
  PROVE  LeaseInv'
  BY Zenon DEF LeaseInv, NoLeakedResource, RuntimeWithCluster

\* The owner of a lease gives it up, by release or by quarantine.
LEMMA EndLeaseKeepsLeaseInv ==
  ASSUME LeaseInv, TypeOK', NEW t \in Thread, pc[t] = "leased", EndLease(t),
         \/ /\ holder' = [r \in Resource |-> IF r \in HeldBy(t) THEN 0 ELSE holder[r]]
            /\ quarantined' = quarantined
         \/ /\ holder' = holder
            /\ quarantined' = quarantined \cup HeldBy(t)
  PROVE  LeaseInv'
<1>1. HeldBy(t) = required_resources[work[t]] /\ HeldBy(t) \in SUBSET Resource /\ HeldBy(t) /= {}
  BY Zenon, HeldByOwner
<1>2. /\ pc' = [pc EXCEPT ![t] = "notifying"]
      /\ work' = [work EXCEPT ![t] = NoWork]
      /\ lease' = [lease EXCEPT ![t] = 0]
      /\ next_lease_id' = next_lease_id
      /\ next_lease_id \in Nat
      /\ holder \in [Resource -> Nat]
      /\ pc \in [Thread -> Status]
      /\ lease \in [Thread -> Nat]
      /\ work \in [Thread -> Workload \cup {NoWork}]
      /\ quarantined \in SUBSET Resource
  BY Zenon, <1>1 DEF EndLease, LeaseInv, TypeOK
<1>3. \A u \in Thread : pc'[u] = "leased" =>
        /\ u /= t /\ pc[u] = "leased" /\ lease'[u] = lease[u] /\ work'[u] = work[u]
        /\ lease[u] \in 1..next_lease_id /\ lease[u] /= lease[t]
  BY Zenon, <1>2 DEF LeaseInv
<1>4. \A r \in HeldBy(t) : holder[r] = lease[t] /\ lease[t] \in 1..next_lease_id /\ r \in Resource
  BY Zenon, <1>1 DEF HeldBy, LeaseInv
<1>5. CASE /\ holder' = [r \in Resource |-> IF r \in HeldBy(t) THEN 0 ELSE holder[r]]
           /\ quarantined' = quarantined
  <2>1. \A r \in Resource : holder'[r] <= next_lease_id'
    BY <1>2, <1>5 DEF LeaseInv
  <2>2. ASSUME NEW u \in Thread, pc'[u] = "leased", NEW r \in Resource
        PROVE  holder'[r] = lease'[u] <=> r \in required_resources[work'[u]]
    <3>1. CASE r \in HeldBy(t)
      <4>1. holder[r] /= lease[u] /\ pc[u] = "leased"
        BY Zenon, <1>3, <1>4, <2>2, <3>1
      <4>2. r \notin required_resources[work[u]]
        BY Zenon, <4>1 DEF LeaseInv
      <4>3. QED
        BY <1>3, <1>5, <2>2, <3>1, <4>2
    <3>2. CASE r \notin HeldBy(t)
      BY Zenon, <1>3, <1>5, <2>2, <3>2 DEF LeaseInv
    <3>3. QED
      BY Zenon, <3>1, <3>2
  <2>3. ASSUME NEW r \in quarantined'
        PROVE  /\ holder'[r] /= 0
               /\ \A u \in Thread : pc'[u] = "leased" => holder'[r] /= lease'[u]
    <3>1. r \in quarantined /\ r \in Resource /\ holder[r] /= 0 /\ holder[r] /= lease[t]
      BY Zenon, <1>2, <1>5, <2>3 DEF LeaseInv
    <3>2. holder'[r] = holder[r]
      BY Zenon, <1>4, <1>5, <3>1
    <3>3. QED
      BY <1>3, <3>1, <3>2 DEF LeaseInv
  <2>4. NoLeakedResource'
    <3> SUFFICES ASSUME NEW r \in Resource, holder'[r] /= 0
                 PROVE  \/ r \in quarantined'
                        \/ \E u \in Thread : /\ pc'[u] = "leased"
                                             /\ r \in required_resources[work'[u]]
                                             /\ holder'[r] = lease'[u]
      BY Zenon DEF NoLeakedResource
    <3>1. r \notin HeldBy(t) /\ holder'[r] = holder[r]
      BY Zenon, <1>5
    <3>2. CASE r \in quarantined
      BY Zenon, <1>5, <3>2
    <3>3. CASE r \notin quarantined
      <4>1. PICK u \in Thread : /\ pc[u] = "leased"
                                /\ r \in required_resources[work[u]]
                                /\ holder[r] = lease[u]
        BY Zenon, <3>1, <3>3 DEF LeaseInv, NoLeakedResource
      <4>2. u /= t
        BY Zenon, <1>1, <3>1, <4>1
      <4>3. pc'[u] = "leased" /\ work'[u] = work[u] /\ lease'[u] = lease[u]
        BY Zenon, <1>2, <4>1, <4>2
      <4>4. QED
        BY Zenon, <3>1, <4>1, <4>3
    <3>4. QED
      BY Zenon, <3>2, <3>3
  <2>5. RuntimeWithCluster(quarantined')
    BY Zenon, <1>5 DEF LeaseInv
  <2>6. QED
    BY <1>2, <1>3, <2>1, <2>2, <2>3, <2>4, <2>5 DEF LeaseInv, RuntimeWithCluster
<1>6. CASE /\ holder' = holder
           /\ quarantined' = quarantined \cup HeldBy(t)
  <2>1. \A r \in Resource : holder'[r] <= next_lease_id'
    BY Zenon, <1>2, <1>6 DEF LeaseInv
  <2>2. \A u \in Thread : pc'[u] = "leased" =>
          \A r \in Resource : holder'[r] = lease'[u] <=> r \in required_resources[work'[u]]
    BY Zenon, <1>3, <1>6 DEF LeaseInv
  <2>3. ASSUME NEW r \in quarantined'
        PROVE  /\ holder'[r] /= 0
               /\ \A u \in Thread : pc'[u] = "leased" => holder'[r] /= lease'[u]
    <3>1. CASE r \in HeldBy(t)
      BY <1>3, <1>4, <1>6, <3>1
    <3>2. CASE r \in quarantined
      BY <1>3, <1>6, <3>2 DEF LeaseInv
    <3>3. QED
      BY Zenon, <1>6, <2>3, <3>1, <3>2
  <2>4. NoLeakedResource'
    <3> SUFFICES ASSUME NEW r \in Resource, holder'[r] /= 0, r \notin quarantined'
                 PROVE  \E u \in Thread : /\ pc'[u] = "leased"
                                          /\ r \in required_resources[work'[u]]
                                          /\ holder'[r] = lease'[u]
      BY Zenon DEF NoLeakedResource
    <3>1. PICK u \in Thread : /\ pc[u] = "leased"
                              /\ r \in required_resources[work[u]]
                              /\ holder[r] = lease[u]
      BY Zenon, <1>6 DEF LeaseInv, NoLeakedResource
    <3>2. u /= t
      BY Zenon, <1>1, <1>6, <3>1
    <3>3. pc'[u] = "leased" /\ work'[u] = work[u] /\ lease'[u] = lease[u]
      BY Zenon, <1>2, <3>1, <3>2
    <3>4. QED
      BY Zenon, <1>6, <3>1, <3>3
  <2>5. RuntimeWithCluster(quarantined')
    <3>1. work[t] \in Workload
      BY Zenon DEF LeaseInv, TypeOK
    <3>2. RuntimeWithCluster(required_resources[work[t]])
      BY Zenon, <3>1 DEF RuntimeWithCluster, required_resources, Workload
    <3>3. QED
      BY Zenon, <1>1, <1>6, <3>2 DEF LeaseInv, RuntimeWithCluster
  <2>6. QED
    BY <1>2, <1>3, <2>1, <2>2, <2>3, <2>4, <2>5 DEF LeaseInv, RuntimeWithCluster
<1>7. QED
  BY Zenon, <1>5, <1>6

\* The bookkeeping starts out right: nothing is held.
LEMMA LeaseInvInit == Init => LeaseInv
<1> SUFFICES ASSUME Init PROVE LeaseInv
  BY Zenon
<1>1. TypeOK
  BY Zenon DEF Init, TypeOK, Status
<1>2. QED
  BY <1>1 DEF Init, LeaseInv, NoLeakedResource, RuntimeWithCluster

\* Every step of acquire, release and quarantine keeps the bookkeeping right.
LEMMA LeaseInvStep == LeaseInv /\ TypeOK' /\ [Next]_vars => LeaseInv'
<1> SUFFICES ASSUME LeaseInv, TypeOK', [Next]_vars PROVE LeaseInv'
  BY Zenon
<1>0. TypeOK
  BY Zenon DEF LeaseInv
<1>1. ASSUME NEW t \in Thread, NEW w \in Workload, AcquireQuarantined(t, w) PROVE LeaseInv'
  BY Zenon, <1>1, OthersKeepLeaseInv DEF AcquireQuarantined
<1>2. ASSUME NEW t \in Thread, NEW w \in Workload, AcquireAtOnce(t, w) PROVE LeaseInv'
  BY Zenon, <1>2, GrantKeepsLeaseInv DEF AcquireAtOnce, Requesting, can_grant_new_request
<1>3. ASSUME NEW t \in Thread, NEW w \in Workload, AcquireQueueFull(t, w) PROVE LeaseInv'
  BY Zenon, <1>3, OthersKeepLeaseInv DEF AcquireQueueFull
<1>4. ASSUME NEW t \in Thread, NEW w \in Workload, AcquireQueued(t, w) PROVE LeaseInv'
  BY Zenon, <1>0, <1>4, OthersKeepLeaseInv DEF AcquireQueued, Requesting, TypeOK
<1>5. ASSUME NEW t \in Thread, WaitQuarantined(t) \/ WaitTimeout(t) PROVE LeaseInv'
  BY Zenon, <1>0, <1>5, OthersKeepLeaseInv DEF WaitQuarantined, WaitTimeout, LeaveQueue, TypeOK
<1>6. ASSUME NEW t \in Thread, WaitGranted(t) PROVE LeaseInv'
  <2>1. work[t] \in Workload /\ work' = [work EXCEPT ![t] = work[t]]
    BY Zenon, <1>0, <1>6 DEF WaitGranted, TypeOK
  <2>2. QED
    BY Zenon, <1>6, <2>1, GrantKeepsLeaseInv DEF WaitGranted, waiter_can_be_granted
<1>7. ASSUME NEW t \in Thread, WaitAgain(t) PROVE LeaseInv'
  BY Zenon, <1>7, OthersKeepLeaseInv DEF WaitAgain
<1>8. ASSUME NEW t \in Thread, release(t) PROVE LeaseInv'
  BY Zenon, <1>8, EndLeaseKeepsLeaseInv DEF release
<1>9. ASSUME NEW t \in Thread, quarantine(t) PROVE LeaseInv'
  BY Zenon, <1>9, EndLeaseKeepsLeaseInv DEF quarantine
<1>10. ASSUME NEW t \in Thread, Notify(t) PROVE LeaseInv'
  BY Zenon, <1>0, <1>10, OthersKeepLeaseInv DEF Notify, TypeOK
<1>11. CASE UNCHANGED vars
  BY Zenon, <1>11, OthersKeepLeaseInv DEF vars
<1>12. QED
  BY Zenon, <1>1, <1>2, <1>3, <1>4, <1>5, <1>6, <1>7, <1>8, <1>9, <1>10, <1>11
     DEF Next, acquire, Wait

\* The held mask of the scheduler is at all times what its active leases and
\* quarantined resources say it is.
THEOREM LeaseInvariant == Spec => []LeaseInv
  BY LeaseInvInit, LeaseInvStep, TypeCorrect, PTL DEF Spec

\* No accelerator resource is ever under two leases, and a lease covers all its
\* workload needs, for any number of threads.
THEOREM Exclusion == Spec => []LeaseExclusive
<1>1. LeaseInv => LeaseExclusive
  <2> SUFFICES ASSUME LeaseInv PROVE LeaseExclusive
    BY Zenon
  <2>1. ASSUME NEW t \in Thread, pc[t] = "leased" PROVE HeldBy(t) = required_resources[work[t]]
    BY Zenon, <2>1, HeldByOwner
  <2>2. ASSUME NEW t \in Thread, NEW u \in Thread, t /= u, pc[t] = "leased", pc[u] = "leased"
        PROVE  ~ resources_overlap(work[t], work[u])
    <3>1. required_resources[work[t]] \in SUBSET Resource
      BY Zenon, <2>2, HeldByOwner
    <3>2. lease[t] /= lease[u]
      BY Zenon, <2>2 DEF LeaseInv
    <3>3. ASSUME NEW r \in required_resources[work[t]] \cap required_resources[work[u]] PROVE FALSE
      BY <2>2, <3>1, <3>2, <3>3 DEF LeaseInv
    <3>4. QED
      BY Zenon, <3>3 DEF resources_overlap
  <2>3. QED
    BY Zenon, <2>1, <2>2 DEF LeaseExclusive
<1>2. QED
  BY <1>1, LeaseInvariant, PTL

\* A resource under a lease has an owner, or was quarantined.
THEOREM NoLeak == Spec => []NoLeakedResource
<1>1. LeaseInv => NoLeakedResource
  BY Zenon DEF LeaseInv
<1>2. QED
  BY <1>1, LeaseInvariant, PTL

\* A quarantined resource stays held, and no workload that needs it runs.
THEOREM Quarantined == Spec => []QuarantineFences
<1>1. LeaseInv => QuarantineFences
  <2> SUFFICES ASSUME LeaseInv, NEW r \in quarantined
               PROVE  /\ holder[r] /= 0
                      /\ \A t \in Thread : pc[t] = "leased" => r \notin required_resources[work[t]]
    BY Zenon DEF QuarantineFences
  <2>1. r \in Resource
    BY Zenon DEF LeaseInv, TypeOK
  <2>2. QED
    BY Zenon, <2>1 DEF LeaseInv
<1>2. QED
  BY <1>1, LeaseInvariant, PTL

-----------------------------------------------------------------------------
(* Wakeups.  A grant notifies nobody: that is right because overlap of the  *)
(* resource sets is transitive on the four workloads, so whoever the grant   *)
(* could have unblocked needs what it took.                                  *)

\* Workloads conflict through a cluster they share, so conflicts chain.
LEMMA OverlapTransitive ==
  ASSUME NEW u \in Workload, NEW v \in Workload, NEW w \in Workload,
         resources_overlap(u, v), resources_overlap(v, w)
  PROVE  resources_overlap(u, w)
  BY Zenon DEF resources_overlap, required_resources, Workload

\* A conflict is mutual.
LEMMA OverlapSymmetric ==
  ASSUME NEW u, NEW v, resources_overlap(u, v)
  PROVE  resources_overlap(v, u)
  BY Zenon DEF resources_overlap

\* A waiter that could not be granted before a grant to t still cannot be.
LEMMA GrantUnblocksNobody ==
  ASSUME LeaseInv, NEW t \in Thread, NEW w \in Workload, NEW M,
         work' = [work EXCEPT ![t] = w], grant(t, w, M),
         t \in waiters => work[t] = w,
         \A o \in Thread : o /= t => ticket'[o] = ticket[o],
         NEW u \in waiters, u /= t, ~ waiter_can_be_granted(u)
  PROVE  ~ waiter_can_be_granted(u)'
<1> SUFFICES ASSUME waiter_can_be_granted(u)' PROVE FALSE
  BY Zenon
<1>1. /\ pc \in [Thread -> Status] /\ work \in [Thread -> Workload \cup {NoWork}]
      /\ holder \in [Resource -> Nat] /\ next_lease_id \in Nat
      /\ quarantined' = quarantined
      /\ pc' = [pc EXCEPT ![t] = "leased"]
      /\ holder' = [r \in Resource |->
                      IF r \in required_resources[w] THEN next_lease_id + 1 ELSE holder[r]]
  BY Zenon DEF LeaseInv, TypeOK, grant
<1>2. u \in Thread /\ work[u] \in Workload /\ work'[u] = work[u]
  BY Zenon, <1>1 DEF waiters, LeaseInv, TypeOK
<1>3. \A v \in Workload : \A r \in required_resources[v] : r \in Resource
  BY Zenon, RequiredResources
<1>4. resources_are_free(required_resources[work[u]])'
  BY Zenon, <1>2 DEF waiter_can_be_granted
<1>5. \A r \in required_resources[work[u]] :
         holder'[r] = 0 /\ r \notin required_resources[w] /\ holder[r] = 0 /\ r \notin quarantined
  BY <1>1, <1>2, <1>3, <1>4 DEF resources_are_free
<1>6. ~ resources_overlap(work[u], w)
  BY Zenon, <1>5 DEF resources_overlap
<1>7. PICK o \in waiters \ {u} : /\ resources_overlap(work[o], work[u])
                                 /\ resources_are_free(required_resources[work[o]])
                                 /\ Precedes(o, u)
  BY Zenon, <1>5 DEF waiter_can_be_granted, resources_are_free
<1>8. o \in Thread /\ work[o] \in Workload /\ o /= t
  BY <1>6, <1>7, OverlapSymmetric DEF waiters, LeaseInv, TypeOK
<1>9. o \in waiters' /\ work'[o] = work[o] /\ ticket'[o] = ticket[o] /\ ticket'[u] = ticket[u]
  BY Zenon, <1>1, <1>2, <1>7, <1>8 DEF waiters
<1>10. ~ resources_overlap(work[o], w)
  BY Zenon, <1>2, <1>6, <1>7, <1>8, OverlapSymmetric, OverlapTransitive
<1>11. \A r \in required_resources[work[o]] : holder'[r] = 0 /\ r \notin quarantined'
  <2>1. SUFFICES ASSUME NEW r \in required_resources[work[o]]
                 PROVE  holder'[r] = 0 /\ r \notin quarantined'
    BY Zenon
  <2>2. r \notin required_resources[w] /\ r \in Resource
    BY Zenon, <1>3, <1>8, <1>10 DEF resources_overlap
  <2>3. QED
    BY Zenon, <1>1, <1>7, <2>2 DEF resources_are_free
<1>12. Precedes(o, u)'
  BY Zenon, <1>2, <1>7, <1>9 DEF Precedes
<1>13. QED
  <2>1. /\ o \in waiters' \ {u}
        /\ resources_overlap(work'[o], work'[u])
        /\ \A r \in required_resources[work'[o]] : holder'[r] = 0 /\ r \notin quarantined'
        /\ Precedes(o, u)'
    BY Zenon, <1>2, <1>7, <1>9, <1>11, <1>12
  <2>2. QED
    BY Zenon, <2>1 DEF waiter_can_be_granted, resources_are_free, resources_overlap

\* Tickets are handed out in order.
QueueInv ==
  /\ \A t \in Thread : ticket[t] <= next_ticket
  /\ \A t, u \in waiters : t /= u => ticket[t] /= ticket[u]

\* The wait queue is at all times what the waiting threads say it is.
LEMMA QueueInvariant == Spec => []QueueInv
<1>1. Init => QueueInv
  BY DEF Init, QueueInv, waiters
<1>2. TypeOK /\ QueueInv /\ [Next]_vars => QueueInv'
  <2> SUFFICES ASSUME TypeOK, QueueInv, [Next]_vars PROVE QueueInv'
    BY Zenon
  <2>0. ASSUME waiters' \subseteq waiters, UNCHANGED <<ticket, next_ticket>> PROVE QueueInv'
    BY Zenon, <2>0 DEF QueueInv
  <2>1. ASSUME NEW t \in Thread, NEW w \in Workload, acquire(t, w) PROVE QueueInv'
    <3>1. CASE AcquireQueued(t, w)
      <4>1. /\ waiters' = waiters \cup {t} /\ t \notin waiters
            /\ ticket' = [ticket EXCEPT ![t] = next_ticket'] /\ next_ticket' = next_ticket + 1
        BY Zenon, <3>1 DEF AcquireQueued, Requesting, waiters, TypeOK
      <4>2. QED  BY <4>1, SMTT(60) DEF QueueInv, TypeOK, waiters
    <3>2. CASE AcquireQuarantined(t, w) \/ AcquireAtOnce(t, w) \/ AcquireQueueFull(t, w)
      <4>1. waiters' \subseteq waiters /\ UNCHANGED <<ticket, next_ticket>>
        BY Zenon, <3>2 DEF AcquireQuarantined, AcquireAtOnce, AcquireQueueFull, Requesting, grant,
                              waiters, TypeOK
      <4>2. QED  BY Zenon, <2>0, <4>1
    <3>3. QED  BY Zenon, <2>1, <3>1, <3>2 DEF acquire
  <2>2. ASSUME NEW t \in Thread, Wait(t) PROVE QueueInv'
    <3>1. /\ UNCHANGED next_ticket
          /\ \/ pc' = [pc EXCEPT ![t] = "idle"] /\ ticket' = [ticket EXCEPT ![t] = 0]
             \/ pc' = [pc EXCEPT ![t] = "leased"] /\ ticket' = [ticket EXCEPT ![t] = 0]
             \/ UNCHANGED <<pc, ticket>>
      BY Zenon, <2>2 DEF Wait, WaitQuarantined, WaitGranted, WaitTimeout, WaitAgain, LeaveQueue, grant
    <3>2. /\ waiters' \subseteq waiters
          /\ \A u \in Thread : ticket'[u] = ticket[u] \/ (ticket'[u] = 0 /\ u \notin waiters')
      <4>1. pc \in [Thread -> Status] /\ ticket \in [Thread -> Nat]
        BY Zenon DEF TypeOK
      <4>2. ASSUME NEW u \in Thread
            PROVE  /\ pc'[u] = "waiting" => pc[u] = "waiting"
                   /\ ticket'[u] = ticket[u] \/ (ticket'[u] = 0 /\ pc'[u] /= "waiting")
        BY Zenon, <3>1, <4>1
      <4> QED  BY Zenon, <4>2 DEF waiters
    <3>3. next_ticket \in Nat /\ waiters \subseteq Thread /\ waiters' \subseteq Thread
      BY Zenon DEF TypeOK, waiters
    <3>4. QED  BY <3>1, <3>2, <3>3 DEF QueueInv
  <2>3. ASSUME NEW t \in Thread, release(t) \/ quarantine(t) \/ Notify(t) PROVE QueueInv'
    <3>1. waiters' \subseteq waiters /\ UNCHANGED <<ticket, next_ticket>>
      BY Zenon, <2>3 DEF release, quarantine, Notify, EndLease, waiters, TypeOK
    <3>2. QED  BY Zenon, <2>0, <3>1
  <2>4. CASE UNCHANGED vars
    BY Zenon, <2>4 DEF vars, QueueInv, waiters
  <2>5. QED
    BY Zenon, <2>1, <2>2, <2>3, <2>4 DEF Next
<1>3. QED
  BY <1>1, <1>2, TypeCorrect, PTL DEF Spec

\* What a grant at once and a grant to a waiter have in common.
GrantStep(t, w, M) ==
  /\ pc[t] \in {"idle", "waiting"}
  /\ work' = [work EXCEPT ![t] = w]
  /\ grant(t, w, M)
  /\ t \in waiters => work[t] = w
  /\ \A o \in Thread : o /= t => ticket'[o] = ticket[o]
  /\ signalled \ {t} \subseteq signalled'

\* A grant loses no wakeup.
LEMMA GrantWakeup ==
  ASSUME LeaseInv, LeaseInv', NoLostWakeup,
         NEW t \in Thread, NEW w \in Workload, NEW M, GrantStep(t, w, M)
  PROVE  NoLostWakeup'
<1> DEFINE Quiet == \A u \in Thread : pc[u] /= "notifying"
           Idle(u) == ~ waiter_can_be_granted(u) /\ ~ required_resources_are_quarantined(work[u])
<1>0. TypeOK /\ TypeOK'
  BY Zenon DEF LeaseInv
<1> SUFFICES ASSUME Quiet', NEW u \in waiters' \ signalled' PROVE Idle(u)'
  BY Zenon DEF NoLostWakeup
<1>1. pc' = [pc EXCEPT ![t] = "leased"] /\ quarantined' = quarantined
  BY Zenon DEF GrantStep, grant
<1>2. Quiet /\ u \in Thread /\ u /= t /\ pc[u] = "waiting" /\ u \notin signalled /\ work'[u] = work[u]
  BY Zenon, <1>0, <1>1 DEF GrantStep, waiters, TypeOK
<1>3. Idle(u) /\ u \in waiters
  BY Zenon, <1>2 DEF NoLostWakeup, waiters
<1>4. ~ waiter_can_be_granted(u)'
  BY Zenon, <1>2, <1>3, GrantUnblocksNobody DEF GrantStep
<1>5. QED
  BY Zenon, <1>1, <1>2, <1>3, <1>4 DEF required_resources_are_quarantined

\* Somebody is about to notify, or the waiters that were not signalled have
\* nothing to do.
LEMMA WakeupStep ==
  ASSUME LeaseInv, LeaseInv', QueueInv, NoLostWakeup, [Next]_vars
  PROVE  NoLostWakeup'
<1> DEFINE Quiet == \A u \in Thread : pc[u] /= "notifying"
           Idle(u) == ~ waiter_can_be_granted(u) /\ ~ required_resources_are_quarantined(work[u])
<1>0. TypeOK /\ TypeOK'
  BY Zenon DEF LeaseInv
<1>1. ASSUME NEW t \in Thread, NEW w \in Workload,
             AcquireQuarantined(t, w) \/ AcquireQueueFull(t, w)
      PROVE  NoLostWakeup'
  BY <1>1 DEF AcquireQuarantined, AcquireQueueFull, NoLostWakeup, waiters,
              waiter_can_be_granted, required_resources_are_quarantined,
              resources_are_free, Precedes
<1>3. ASSUME NEW t \in Thread, NEW w \in Workload, AcquireAtOnce(t, w) PROVE NoLostWakeup'
  <2>1. GrantStep(t, w, {"requested"})
    BY Zenon, <1>3 DEF AcquireAtOnce, Requesting, waiters, GrantStep
  <2>2. QED
    BY Zenon, <2>1, GrantWakeup
<1>4. ASSUME NEW t \in Thread, WaitGranted(t) PROVE NoLostWakeup'
  <2>1. work[t] \in Workload /\ work' = [work EXCEPT ![t] = work[t]]
    BY Zenon, <1>0, <1>4 DEF WaitGranted, TypeOK
  <2>2. \A o \in Thread : o /= t => ticket'[o] = ticket[o]
    BY Zenon, <1>0, <1>4 DEF WaitGranted, TypeOK
  <2>3. GrantStep(t, work[t], {})
    BY Zenon, <1>4, <2>1, <2>2 DEF WaitGranted, GrantStep
  <2>4. QED
    BY Zenon, <2>1, <2>3, GrantWakeup
<1>5. ASSUME NEW t \in Thread, NEW w \in Workload, AcquireQueued(t, w) PROVE NoLostWakeup'
  <2> SUFFICES ASSUME Quiet', NEW u \in waiters' \ signalled' PROVE Idle(u)'
    BY Zenon DEF NoLostWakeup
  <2>1. /\ pc[t] = "idle" /\ pc' = [pc EXCEPT ![t] = "waiting"]
        /\ work' = [work EXCEPT ![t] = w] /\ ticket' = [ticket EXCEPT ![t] = next_ticket + 1]
        /\ signalled' = signalled /\ holder' = holder /\ quarantined' = quarantined
    BY Zenon, <1>5 DEF AcquireQueued, Requesting
  <2>2. waiters' = waiters \cup {t} /\ t \notin waiters /\ u \in Thread
    BY <1>0, <2>1 DEF waiters, TypeOK
  <2>3. \A o \in waiters : /\ o \in Thread /\ o /= t /\ pc[o] = "waiting"
                           /\ work'[o] = work[o] /\ ticket'[o] = ticket[o]
    BY Zenon, <1>0, <2>1, <2>2 DEF waiters, TypeOK
  <2>4. \A R : resources_are_free(R)' <=> resources_are_free(R)
    BY Zenon, <2>1 DEF resources_are_free
  <2>5. CASE u /= t
    <3>1. Idle(u) /\ u \in waiters
      BY Zenon, <1>0, <2>1, <2>2, <2>5 DEF NoLostWakeup, TypeOK
    <3>2. ~ waiter_can_be_granted(u)'
      <4> SUFFICES ASSUME waiter_can_be_granted(u)' PROVE FALSE
        BY Zenon
      <4>1. resources_are_free(required_resources[work[u]])
        BY Zenon, <2>3, <2>4, <3>1 DEF waiter_can_be_granted
      <4>2. PICK o \in waiters \ {u} : /\ resources_overlap(work[o], work[u])
                                       /\ resources_are_free(required_resources[work[o]])
                                       /\ Precedes(o, u)
        BY Zenon, <3>1, <4>1 DEF waiter_can_be_granted
      <4>3. Precedes(o, u)'
        BY Zenon, <2>3, <3>1, <4>2 DEF Precedes
      <4>4. resources_are_free(required_resources[work[o]])'
        BY Zenon, <2>1, <2>3, <4>2 DEF resources_are_free
      <4>5. o \in waiters' \ {u} /\ resources_overlap(work'[o], work'[u])
        BY Zenon, <2>2, <2>3, <3>1, <4>2
      <4>6. QED
        BY Zenon, <4>3, <4>4, <4>5 DEF waiter_can_be_granted, resources_overlap
    <3>3. QED
      BY Zenon, <2>1, <2>3, <3>1, <3>2 DEF required_resources_are_quarantined
  <2>6. CASE u = t
    <3>0. work'[t] = w
      BY Zenon, <1>0, <2>1 DEF TypeOK
    <3>1. ~ required_resources_are_quarantined(w) /\ ~ can_grant_new_request(w)
      BY Zenon, <1>5 DEF AcquireQueued
    <3>2. ~ waiter_can_be_granted(t)'
      <4> SUFFICES ASSUME waiter_can_be_granted(t)' PROVE FALSE
        BY Zenon
      <4>1. resources_are_free(required_resources[w])
        BY Zenon, <2>1, <3>0 DEF waiter_can_be_granted, resources_are_free
      <4>2. PICK o \in waiters : /\ resources_overlap(work[o], w)
                                /\ resources_are_free(required_resources[work[o]])
                                /\ priority[work[o]] <= priority[w]
        BY Zenon, <3>1, <4>1 DEF can_grant_new_request
      <4>3. priority[work[o]] \in Nat /\ priority[w] \in Nat /\ ticket[o] < next_ticket + 1
        <5>1. work[o] \in Workload
          BY Zenon, <1>0, <2>3, <4>2 DEF TypeOK
        <5>2. ticket[o] \in Nat /\ next_ticket \in Nat /\ ticket[o] <= next_ticket
          BY Zenon, <1>0, <2>3, <4>2 DEF TypeOK, QueueInv
        <5>3. QED
          BY <5>1, <5>2 DEF priority, Workload
      <4>4. /\ o \in waiters' \ {t} /\ resources_overlap(work'[o], work'[t])
            /\ ticket'[t] = next_ticket + 1 /\ ticket'[o] = ticket[o] /\ work'[o] = work[o]
        BY Zenon, <1>0, <2>1, <2>2, <2>3, <3>0, <4>2 DEF TypeOK
      <4>5. Precedes(o, t)'
        BY <3>0, <4>2, <4>3, <4>4 DEF Precedes
      <4>6. resources_are_free(required_resources[work[o]])'
        BY Zenon, <2>1, <2>3, <4>2 DEF resources_are_free
      <4>7. QED
        BY Zenon, <4>4, <4>5, <4>6 DEF waiter_can_be_granted, resources_overlap
    <3>3. QED
      BY Zenon, <2>1, <2>6, <3>0, <3>1, <3>2 DEF required_resources_are_quarantined
  <2>7. QED
    BY Zenon, <2>5, <2>6
<1>6. ASSUME NEW t \in Thread, WaitQuarantined(t) \/ WaitTimeout(t) \/ Notify(t) PROVE NoLostWakeup'
  <2>1. waiters' = signalled'
    BY Zenon, <1>6 DEF WaitQuarantined, WaitTimeout, Notify, LeaveQueue, notify_all, waiters
  <2>2. QED
    BY Zenon, <2>1 DEF NoLostWakeup
<1>7. ASSUME NEW t \in Thread, WaitAgain(t) PROVE NoLostWakeup'
  BY <1>7 DEF WaitAgain, NoLostWakeup, waiters, waiter_can_be_granted,
              required_resources_are_quarantined, resources_are_free, Precedes
<1>8. ASSUME NEW t \in Thread, release(t) \/ quarantine(t) PROVE NoLostWakeup'
  <2>1. HeldBy(t) /= {}
    BY Zenon, <1>8, HeldByOwner DEF release, quarantine
  <2>2. pc'[t] = "notifying"
    BY Zenon, <1>0, <1>8, <2>1 DEF release, quarantine, EndLease, TypeOK
  <2>3. QED
    BY Zenon, <2>2 DEF NoLostWakeup
<1>9. CASE UNCHANGED vars
  BY Zenon, <1>9 DEF vars, NoLostWakeup, waiters, waiter_can_be_granted,
              required_resources_are_quarantined, resources_are_free, Precedes
<1>10. QED
  BY Zenon, <1>1, <1>3, <1>4, <1>5, <1>6, <1>7, <1>8, <1>9 DEF Next, acquire, Wait

\* No thread ever sleeps in wait_timeout while it could be granted its lease or
\* would be turned away, with no notification on its way.
THEOREM Wakeups == Spec => []NoLostWakeup
<1>1. Init => NoLostWakeup
  BY Zenon DEF Init, NoLostWakeup, waiters
<1>2. QED
  BY <1>1, WakeupStep, LeaseInvariant, QueueInvariant, PTL DEF Spec

-----------------------------------------------------------------------------
(* The order of grants.                                                    *)

\* The waiters a grant skips, because their own resources are not free, never
\* include one that overlaps with it: when a workload's resources are free, so
\* are those of every workload that shares one of them.
LEMMA FreeTogether ==
  ASSUME LeaseInv, NEW v \in Workload, NEW w \in Workload,
         resources_overlap(v, w), resources_are_free(required_resources[w])
  PROVE  resources_are_free(required_resources[v])
<1>1. ASSUME NEW r \in Resource, NEW c \in Resource,
             \/ r = "onnx_runtime_0" /\ c = "a100_cluster_0"
             \/ r = "onnx_runtime_1" /\ c = "a100_cluster_1",
             holder[c] = 0, c \notin quarantined
      PROVE  holder[r] = 0 /\ r \notin quarantined
  <2>1. r \notin quarantined
    BY Zenon, <1>1 DEF LeaseInv, RuntimeWithCluster
  <2>2. SUFFICES ASSUME holder[r] /= 0 PROVE FALSE
    BY Zenon, <2>1
  <2>3. PICK t \in Thread : /\ pc[t] = "leased"
                            /\ r \in required_resources[work[t]]
                            /\ holder[r] = lease[t]
    BY Zenon, <2>1, <2>2 DEF LeaseInv, NoLeakedResource
  <2>4. work[t] \in Workload
    BY Zenon, <2>3 DEF LeaseInv, TypeOK
  <2>5. c \in required_resources[work[t]]
    BY Zenon, <1>1, <2>3, <2>4 DEF required_resources, Workload
  <2>6. holder[c] = lease[t] /\ lease[t] \in 1..next_lease_id
    BY Zenon, <2>3, <2>5 DEF LeaseInv
  <2>7. QED
    BY <1>1, <2>6
<1>2. \/ required_resources[v] \subseteq required_resources[w]
      \/ /\ "a100_cluster_1" \in required_resources[w]
         /\ required_resources[v] = {"a100_cluster_1", "onnx_runtime_1"}
  BY Zenon DEF resources_overlap, required_resources, Workload
<1>3. QED
  BY Zenon, <1>1, <1>2 DEF resources_are_free, Resource

\* Strict priority, first come first served within a priority.
THEOREM PriorityOrder == Spec => NoOvertaking
<1> DEFINE Fair(t) ==
      (pc[t] /= "leased" /\ pc'[t] = "leased") =>
         \A o \in waiters \ {t} :
           resources_overlap(work[o], work'[t]) =>
             \/ priority[work'[t]] < priority[work[o]]
             \/ /\ pc[t] = "waiting"
                /\ priority[work'[t]] = priority[work[o]]
                /\ ticket[t] < ticket[o]
<1>1. ASSUME LeaseInv, QueueInv, [Next]_vars, NEW t \in Thread PROVE Fair(t)
  <2>0. TypeOK
    BY Zenon, <1>1 DEF LeaseInv
  <2>1. \A w \in Workload : priority[w] \in Nat
    BY Zenon DEF priority, Workload
  <2>2. \A o \in waiters : o \in Thread /\ work[o] \in Workload /\ ticket[o] \in Nat
    BY Zenon, <2>0 DEF waiters, TypeOK
  <2>3. ASSUME NEW w \in Workload, AcquireAtOnce(t, w) PROVE Fair(t)
    <3> SUFFICES ASSUME NEW o \in waiters \ {t}, resources_overlap(work[o], w)
                 PROVE  priority[w] < priority[work[o]]
      BY Zenon, <2>0, <2>3 DEF AcquireAtOnce, TypeOK
    <3>1. can_grant_new_request(w)
      BY Zenon, <2>3 DEF AcquireAtOnce
    <3>2. resources_are_free(required_resources[work[o]])
      BY Zenon, <1>1, <2>2, <3>1, FreeTogether DEF can_grant_new_request
    <3>3. QED
      BY <2>1, <2>2, <3>1, <3>2 DEF can_grant_new_request
  <2>4. ASSUME WaitGranted(t) PROVE Fair(t)
    <3>1. pc[t] = "waiting" /\ work' = work /\ waiter_can_be_granted(t) /\ t \in waiters
      BY Zenon, <2>4 DEF WaitGranted, waiters
    <3> SUFFICES ASSUME NEW o \in waiters \ {t}, resources_overlap(work[o], work[t])
                 PROVE  \/ priority[work[t]] < priority[work[o]]
                        \/ /\ priority[work[t]] = priority[work[o]]
                           /\ ticket[t] < ticket[o]
      BY Zenon, <3>1
    <3>2. resources_are_free(required_resources[work[o]])
      BY Zenon, <1>1, <2>2, <3>1, FreeTogether DEF waiter_can_be_granted
    <3>3. ~ Precedes(o, t)
      BY Zenon, <3>1, <3>2 DEF waiter_can_be_granted
    <3>4. ticket[o] /= ticket[t]
      BY Zenon, <1>1, <3>1 DEF QueueInv
    <3>5. QED
      BY <2>1, <2>2, <3>1, <3>3, <3>4 DEF Precedes
  <2>5. ASSUME pc[t] /= "leased", pc'[t] = "leased"
        PROVE  WaitGranted(t) \/ \E w \in Workload : AcquireAtOnce(t, w)
    <3>1. ASSUME NEW u \in Thread, NEW w \in Workload, acquire(u, w)
          PROVE  AcquireAtOnce(t, w)
      BY Zenon, <2>0, <2>5, <3>1 DEF acquire, AcquireQuarantined, AcquireAtOnce, AcquireQueueFull,
                              AcquireQueued, grant, TypeOK
    <3>2. ASSUME NEW u \in Thread, Wait(u) PROVE WaitGranted(t)
      BY Zenon, <2>0, <2>5, <3>2 DEF Wait, WaitQuarantined, WaitGranted, WaitTimeout, WaitAgain,
                              LeaveQueue, grant, TypeOK
    <3>3. ASSUME NEW u \in Thread, release(u) \/ quarantine(u) \/ Notify(u) PROVE FALSE
      BY Zenon, <2>0, <2>5, <3>3 DEF release, quarantine, Notify, EndLease, TypeOK
    <3>4. CASE UNCHANGED vars
      BY Zenon, <2>5, <3>4 DEF vars
    <3>5. QED
      BY Zenon, <1>1, <3>1, <3>2, <3>3, <3>4 DEF Next
  <2>6. QED
    BY Zenon, <2>3, <2>4, <2>5
<1>2. LeaseInv /\ QueueInv /\ [Next]_vars => [\A t \in Thread : Fair(t)]_vars
  BY Zenon, <1>1
<1>3. QED
  BY <1>2, LeaseInvariant, QueueInvariant, PTL DEF Spec, NoOvertaking

-----------------------------------------------------------------------------
(* Counters.  CountersExact needs LeaseInv, so that a grant finds what it   *)
(* takes free and a lease ends over what it held and nobody had quarantined, *)
(* and a finite queue, so that one who joins or leaves it counts as one.     *)

QueueOf(w) == {t \in waiters : work[t] = w}

QueuesFinite == \A w \in Workload : IsFiniteSet(QueueOf(w))

CountInv == LeaseInv /\ QueuesFinite /\ CountersExact

Answered(w) == wmetrics[w]["acquired"] + wmetrics[w]["quarantine_rejected"]
                 + wmetrics[w]["queue_full"] + wmetrics[w]["timed_out"]

\* Every call of acquire for w was answered, or waits.
Balanced(w) == wmetrics[w]["requested"] = Answered(w) + Cardinality(QueueOf(w))

\* The counters of a resource agree with its holder and its quarantine.
Tallied(r) ==
  /\ rmetrics[r]["acquired"] = rmetrics[r]["released"] + IF holder[r] = 0 THEN 0 ELSE 1
  /\ rmetrics[r]["lease_quarantined"] = IF r \in quarantined THEN 1 ELSE 0

\* The counters are exact if they are for each workload and each resource.
LEMMA ExactParts ==
  /\ CountersExact <=> (\A w \in Workload : Balanced(w)) /\ (\A r \in Resource : Tallied(r))
  /\ CountersExact' <=> (\A w \in Workload : Balanced(w)') /\ (\A r \in Resource : Tallied(r)')
BY Zenon DEF CountersExact, Balanced, Answered, Tallied, QueueOf

\* How often an event of the set M counts for m.
Once(M, m) == IF m \in M THEN 1 ELSE 0

\* The counters of a workload stay balanced if the events that a step counts
\* agree with what it does to the queue.
LEMMA KeepsBalance ==
  ASSUME TypeOK, NEW w \in Workload, NEW M, CountWorkload(w, M),
         NEW v \in Workload, Balanced(v),
         Cardinality(QueueOf(v)) \in Nat, Cardinality(QueueOf(v))' \in Nat,
         v /= w => Cardinality(QueueOf(v))' = Cardinality(QueueOf(v)),
         v = w => Cardinality(QueueOf(v))' + Once(M, "acquired") + Once(M, "quarantine_rejected")
                    + Once(M, "queue_full") + Once(M, "timed_out")
                  = Cardinality(QueueOf(v)) + Once(M, "requested")
  PROVE  Balanced(v)'
<1>1. ASSUME NEW m \in WorkloadMetrics
      PROVE  wmetrics[v][m] \in Nat
  BY Zenon DEF TypeOK
<1>2. ASSUME NEW m \in WorkloadMetrics
      PROVE  wmetrics'[v][m] = IF v = w /\ m \in M THEN wmetrics[v][m] + 1 ELSE wmetrics[v][m]
  BY Zenon DEF CountWorkload
<1>4. {"requested", "acquired", "quarantine_rejected", "queue_full", "timed_out"} \subseteq WorkloadMetrics
  BY Zenon DEF WorkloadMetrics
<1>5. /\ Once(M, "requested") \in Nat /\ Once(M, "acquired") \in Nat
      /\ Once(M, "quarantine_rejected") \in Nat /\ Once(M, "queue_full") \in Nat
      /\ Once(M, "timed_out") \in Nat
  BY DEF Once
<1>6. /\ wmetrics[v]["requested"] \in Nat /\ wmetrics[v]["acquired"] \in Nat
      /\ wmetrics[v]["quarantine_rejected"] \in Nat /\ wmetrics[v]["queue_full"] \in Nat
      /\ wmetrics[v]["timed_out"] \in Nat
  BY Zenon, <1>1, <1>4
<1>7. CASE v /= w
  <2>1. ASSUME NEW m \in WorkloadMetrics PROVE wmetrics'[v][m] = wmetrics[v][m]
    BY Zenon, <1>2, <1>7
  <2>2. Answered(v)' = Answered(v) /\ wmetrics'[v]["requested"] = wmetrics[v]["requested"]
    BY Zenon, <1>4, <2>1 DEF Answered
  <2>3. QED
    BY Zenon, <1>7, <2>2 DEF Balanced
<1>8. CASE v = w
  <2>1. ASSUME NEW m \in WorkloadMetrics PROVE wmetrics'[v][m] = wmetrics[v][m] + Once(M, m)
    BY <1>1, <1>2, <1>8 DEF Once
  <2>2. /\ wmetrics'[v]["requested"] = wmetrics[v]["requested"] + Once(M, "requested")
        /\ wmetrics'[v]["acquired"] = wmetrics[v]["acquired"] + Once(M, "acquired")
        /\ wmetrics'[v]["quarantine_rejected"]
              = wmetrics[v]["quarantine_rejected"] + Once(M, "quarantine_rejected")
        /\ wmetrics'[v]["queue_full"] = wmetrics[v]["queue_full"] + Once(M, "queue_full")
        /\ wmetrics'[v]["timed_out"] = wmetrics[v]["timed_out"] + Once(M, "timed_out")
    BY Zenon, <1>4, <2>1
  <2>3. /\ wmetrics[v]["requested"] = Answered(v) + Cardinality(QueueOf(v))
        /\ Cardinality(QueueOf(v))' + Once(M, "acquired") + Once(M, "quarantine_rejected")
             + Once(M, "queue_full") + Once(M, "timed_out")
           = Cardinality(QueueOf(v)) + Once(M, "requested")
    BY Zenon, <1>8 DEF Balanced
  <2>4. wmetrics'[v]["requested"] = Answered(v)' + Cardinality(QueueOf(v))'
    <3> DEFINE n(m) == wmetrics[v][m]
               c    == Cardinality(QueueOf(v))
               d    == Cardinality(QueueOf(v))'
    <3>1. /\ n("requested") = n("acquired") + n("quarantine_rejected") + n("queue_full") + n("timed_out") + c
          /\ d + Once(M, "acquired") + Once(M, "quarantine_rejected")
               + Once(M, "queue_full") + Once(M, "timed_out") = c + Once(M, "requested")
          /\ c \in Nat /\ d \in Nat
      BY Zenon, <2>3 DEF Answered
    <3>2. /\ n("requested") \in Nat /\ n("acquired") \in Nat /\ n("quarantine_rejected") \in Nat
          /\ n("queue_full") \in Nat /\ n("timed_out") \in Nat
      BY Zenon, <1>6
    <3> HIDE DEF n, c, d
    <3>3. n("requested") + Once(M, "requested") =
            (n("acquired") + Once(M, "acquired"))
              + (n("quarantine_rejected") + Once(M, "quarantine_rejected"))
              + (n("queue_full") + Once(M, "queue_full")) + (n("timed_out") + Once(M, "timed_out")) + d
      BY ONLY <1>5, <3>1, <3>2
    <3>4. QED
      BY Zenon, <2>2, <3>3 DEF Answered, n, d
  <2>5. QED
    BY Zenon, <2>4 DEF Balanced
<1>9. QED
  BY Zenon, <1>7, <1>8

\* A step that moves no waiter leaves the queues alone.
LEMMA QueueStays ==
  ASSUME NEW v \in Workload, QueuesFinite,
         \A u \in Thread : /\ pc'[u] = "waiting" <=> pc[u] = "waiting"
                           /\ pc[u] = "waiting" => work'[u] = work[u]
  PROVE  /\ QueueOf(v)' = QueueOf(v) /\ IsFiniteSet(QueueOf(v))'
         /\ Cardinality(QueueOf(v)) \in Nat /\ Cardinality(QueueOf(v))' = Cardinality(QueueOf(v))
<1>1. QueueOf(v)' = QueueOf(v)
  BY Zenon DEF QueueOf, waiters
<1>2. IsFiniteSet(QueueOf(v))
  BY Zenon DEF QueuesFinite
<1>3. Cardinality(QueueOf(v)) \in Nat
  BY Zenon, <1>2, FS_CardinalityType
<1>4. QED
  BY Zenon, <1>1, <1>2, <1>3

\* A request that is queued joins the queue of its workload and no other.
LEMMA QueueGrows ==
  ASSUME TypeOK, NEW t \in Thread, NEW w \in Workload, NEW v \in Workload, QueuesFinite,
         pc[t] /= "waiting", pc' = [pc EXCEPT ![t] = "waiting"], work' = [work EXCEPT ![t] = w]
  PROVE  /\ IsFiniteSet(QueueOf(v))'
         /\ Cardinality(QueueOf(v)) \in Nat
         /\ Cardinality(QueueOf(v))' = Cardinality(QueueOf(v)) + IF v = w THEN 1 ELSE 0
<1>1. pc \in [Thread -> Status] /\ work \in [Thread -> Workload \cup {NoWork}]
  BY Zenon DEF TypeOK
<1>2. IsFiniteSet(QueueOf(v)) /\ t \notin QueueOf(v)
  BY Zenon DEF QueuesFinite, QueueOf, waiters
<1>3. Cardinality(QueueOf(v)) \in Nat
  BY Zenon, <1>2, FS_CardinalityType
<1>4. CASE v = w
  <2>1. QueueOf(v)' = QueueOf(v) \cup {t}
    BY Zenon, <1>1, <1>4 DEF QueueOf, waiters
  <2>2. IsFiniteSet(QueueOf(v) \cup {t}) /\ Cardinality(QueueOf(v) \cup {t}) = Cardinality(QueueOf(v)) + 1
    BY Zenon, <1>2, FS_AddElement
  <2>3. QED
    BY Zenon, <1>3, <1>4, <2>1, <2>2
<1>5. CASE v /= w
  <2>1. QueueOf(v)' = QueueOf(v)
    BY Zenon, <1>1, <1>5 DEF QueueOf, waiters
  <2>2. Cardinality(QueueOf(v)) + 0 = Cardinality(QueueOf(v))
    BY <1>3
  <2>3. QED
    BY Zenon, <1>2, <1>3, <1>5, <2>1, <2>2
<1>6. QED
  BY Zenon, <1>4, <1>5

\* A waiter that is granted, refused or out of time leaves the queue of its
\* workload and no other.
LEMMA QueueShrinks ==
  ASSUME TypeOK, NEW t \in Thread, NEW v \in Workload, QueuesFinite,
         pc[t] = "waiting", NEW x, x /= "waiting", pc' = [pc EXCEPT ![t] = x],
         \A u \in Thread : u /= t => work'[u] = work[u]
  PROVE  /\ IsFiniteSet(QueueOf(v))'
         /\ Cardinality(QueueOf(v)) \in Nat /\ Cardinality(QueueOf(v))' \in Nat
         /\ Cardinality(QueueOf(v))' + (IF v = work[t] THEN 1 ELSE 0) = Cardinality(QueueOf(v))
<1>1. pc \in [Thread -> Status]
  BY Zenon DEF TypeOK
<1>2. IsFiniteSet(QueueOf(v)) /\ (t \in QueueOf(v) <=> v = work[t])
  BY Zenon DEF QueuesFinite, QueueOf, waiters
<1>3. QueueOf(v)' = QueueOf(v) \ {t}
  BY Zenon, <1>1 DEF QueueOf, waiters
<1>4. /\ IsFiniteSet(QueueOf(v) \ {t})
      /\ Cardinality(QueueOf(v) \ {t}) =
           IF t \in QueueOf(v) THEN Cardinality(QueueOf(v)) - 1 ELSE Cardinality(QueueOf(v))
  BY Zenon, <1>2, FS_RemoveElement
<1>5. Cardinality(QueueOf(v)) \in Nat /\ Cardinality(QueueOf(v) \ {t}) \in Nat
  BY Zenon, <1>2, <1>4, FS_CardinalityType
<1>6. (Cardinality(QueueOf(v) \ {t})) + (IF v = work[t] THEN 1 ELSE 0) = Cardinality(QueueOf(v))
  BY <1>2, <1>4, <1>5
<1>7. QED
  BY Zenon, <1>3, <1>4, <1>5, <1>6

\* The counters that are compared with the state of a resource.
Compared == {"acquired", "released", "lease_quarantined"}

\* Of these counters of r, m has gone up if r is in R, and the others have not.
Ticked(R, m, r) ==
  \A n \in Compared : /\ rmetrics[r][n] \in Nat
                      /\ (r \in R /\ n = m) => rmetrics'[r][n] = rmetrics[r][n] + 1
                      /\ (r \notin R \/ n /= m) => rmetrics'[r][n] = rmetrics[r][n]

\* What CountResources does to the counters of a resource.
LEMMA Counted ==
  ASSUME TypeOK, NEW R, NEW m, CountResources(R, m), NEW r \in Resource
  PROVE  Ticked(R, m, r)
<1>1. Compared \subseteq ResourceMetrics
  BY Zenon DEF Compared, ResourceMetrics
<1>2. QED
  BY Zenon, <1>1 DEF Ticked, CountResources, TypeOK

\* Waiting, a full queue and a timeout are counted apart from the leases.
LEMMA OthersKeepTally ==
  ASSUME TypeOK, NEW R, NEW m, m \notin Compared, CountResources(R, m),
         UNCHANGED <<holder, quarantined>>, NEW r \in Resource, Tallied(r)
  PROVE  Tallied(r)'
<1>1. Ticked(R, m, r)
  BY Zenon, Counted
<1>2. \A n \in Compared : rmetrics'[r][n] = rmetrics[r][n]
  BY Zenon, <1>1 DEF Ticked
<1>3. QED
  BY Zenon, <1>2 DEF Tallied, Compared

\* A grant counts once for every resource it takes, and takes free ones only.
LEMMA GrantKeepsTally ==
  ASSUME TypeOK, NEW t \in Thread, NEW w \in Workload, NEW M, grant(t, w, M),
         resources_are_free(required_resources[w]), NEW r \in Resource, Tallied(r)
  PROVE  Tallied(r)'
<1> DEFINE R == required_resources[w]
<1>1. /\ CountResources(R, "acquired") /\ quarantined' = quarantined
      /\ holder'[r] = IF r \in R THEN next_lease_id + 1 ELSE holder[r]
  BY Zenon DEF grant
<1>2. /\ rmetrics[r]["acquired"] \in Nat /\ rmetrics[r]["released"] \in Nat
      /\ rmetrics'[r]["released"] = rmetrics[r]["released"]
      /\ rmetrics'[r]["lease_quarantined"] = rmetrics[r]["lease_quarantined"]
      /\ r \in R => rmetrics'[r]["acquired"] = rmetrics[r]["acquired"] + 1
      /\ r \notin R => rmetrics'[r]["acquired"] = rmetrics[r]["acquired"]
  <2>1. Ticked(R, "acquired", r)
    BY Zenon, <1>1, Counted
  <2>2. QED
    BY Zenon, <2>1 DEF Ticked, Compared
<1>3. CASE r \in R
  <2>1. holder[r] = 0 /\ holder'[r] = next_lease_id + 1
    BY Zenon, <1>1, <1>3 DEF resources_are_free
  <2>2. next_lease_id + 1 /= 0
    BY DEF TypeOK
  <2>3. rmetrics[r]["acquired"] = rmetrics[r]["released"] + 0
    BY Zenon, <2>1 DEF Tallied
  <2>4. rmetrics[r]["acquired"] + 1 = rmetrics[r]["released"] + 1
    BY <1>2, <2>3
  <2>5. QED
    BY Zenon, <1>1, <1>2, <1>3, <2>1, <2>2, <2>4 DEF Tallied
<1>4. CASE r \notin R
  BY Zenon, <1>1, <1>2, <1>4 DEF Tallied
<1>5. QED
  BY Zenon, <1>3, <1>4

\* A release counts for every resource it gives back, and they were held.
LEMMA ReleaseKeepsTally ==
  ASSUME LeaseInv, NEW t \in Thread, release(t), NEW r \in Resource, Tallied(r)
  PROVE  Tallied(r)'
<1>1. /\ CountResources(HeldBy(t), "released") /\ quarantined' = quarantined
      /\ holder'[r] = IF r \in HeldBy(t) THEN 0 ELSE holder[r]
      /\ pc[t] = "leased" /\ TypeOK
  BY Zenon DEF release, LeaseInv
<1>2. /\ rmetrics[r]["acquired"] \in Nat /\ rmetrics[r]["released"] \in Nat
      /\ rmetrics'[r]["acquired"] = rmetrics[r]["acquired"]
      /\ rmetrics'[r]["lease_quarantined"] = rmetrics[r]["lease_quarantined"]
      /\ r \in HeldBy(t) => rmetrics'[r]["released"] = rmetrics[r]["released"] + 1
      /\ r \notin HeldBy(t) => rmetrics'[r]["released"] = rmetrics[r]["released"]
  <2>1. Ticked(HeldBy(t), "released", r)
    BY Zenon, <1>1, Counted
  <2>2. QED
    BY Zenon, <2>1 DEF Ticked, Compared
<1>3. CASE r \in HeldBy(t)
  <2>1. holder[r] = lease[t] /\ lease[t] \in 1..next_lease_id /\ holder'[r] = 0
    BY Zenon, <1>1, <1>3 DEF LeaseInv, HeldBy
  <2>2. holder[r] /= 0
    BY <2>1
  <2>3. rmetrics[r]["acquired"] = rmetrics[r]["released"] + 1
    BY Zenon, <2>2 DEF Tallied
  <2>4. rmetrics[r]["acquired"] = (rmetrics[r]["released"] + 1) + 0
    BY <1>2, <2>3
  <2>5. QED
    BY Zenon, <1>1, <1>2, <1>3, <2>1, <2>4 DEF Tallied
<1>4. CASE r \notin HeldBy(t)
  BY Zenon, <1>1, <1>2, <1>4 DEF Tallied
<1>5. QED
  BY Zenon, <1>3, <1>4

\* A quarantine counts for every resource of the lease, and none of them was
\* quarantined before.
LEMMA QuarantineKeepsTally ==
  ASSUME LeaseInv, NEW t \in Thread, quarantine(t), NEW r \in Resource, Tallied(r)
  PROVE  Tallied(r)'
<1>1. /\ CountResources(HeldBy(t), "lease_quarantined") /\ holder' = holder
      /\ quarantined' = quarantined \cup HeldBy(t)
      /\ pc[t] = "leased" /\ TypeOK
  BY Zenon DEF quarantine, LeaseInv
<1>2. /\ rmetrics'[r]["acquired"] = rmetrics[r]["acquired"]
      /\ rmetrics'[r]["released"] = rmetrics[r]["released"]
      /\ r \in HeldBy(t) => rmetrics'[r]["lease_quarantined"] = rmetrics[r]["lease_quarantined"] + 1
      /\ r \notin HeldBy(t) => rmetrics'[r]["lease_quarantined"] = rmetrics[r]["lease_quarantined"]
  <2>1. Ticked(HeldBy(t), "lease_quarantined", r)
    BY Zenon, <1>1, Counted
  <2>2. QED
    BY Zenon, <2>1 DEF Ticked, Compared
<1>3. CASE r \in HeldBy(t)
  <2>1. r \notin quarantined
    BY Zenon, <1>1, <1>3 DEF LeaseInv, HeldBy
  <2>2. rmetrics[r]["lease_quarantined"] = 0
    BY Zenon, <2>1 DEF Tallied
  <2>3. rmetrics[r]["lease_quarantined"] + 1 = 1
    BY <2>2
  <2>4. QED
    BY Zenon, <1>1, <1>2, <1>3, <2>3 DEF Tallied
<1>4. CASE r \notin HeldBy(t)
  BY Zenon, <1>1, <1>2, <1>4 DEF Tallied
<1>5. QED
  BY Zenon, <1>3, <1>4

\* A step whose events agree with what it does to the queues, and to the
\* resources, keeps the counters exact.
LEMMA StepKeepsCount ==
  ASSUME LeaseInv', \A v \in Workload : IsFiniteSet(QueueOf(v))' /\ Balanced(v)',
         \A r \in Resource : Tallied(r)'
  PROVE  CountInv'
BY Zenon, ExactParts DEF CountInv, QueuesFinite

\* acquire and the waiting in the queue: what they count agrees with what they do.
LEMMA RequestKeepsBalance ==
  ASSUME CountInv, NEW t \in Thread, NEW w \in Workload, NEW v \in Workload, pc[t] = "idle",
         NEW M, CountWorkload(w, M), "requested" \in M,
         \/ /\ UNCHANGED <<pc, work>>
            /\ M \cap {"acquired", "quarantine_rejected", "queue_full", "timed_out"}
                 \in {{"quarantine_rejected"}, {"queue_full"}}
         \/ /\ pc' = [pc EXCEPT ![t] = "leased"] /\ work' = [work EXCEPT ![t] = w]
            /\ M \cap {"acquired", "quarantine_rejected", "queue_full", "timed_out"} = {"acquired"}
         \/ /\ pc' = [pc EXCEPT ![t] = "waiting"] /\ work' = [work EXCEPT ![t] = w]
            /\ M \cap {"acquired", "quarantine_rejected", "queue_full", "timed_out"} = {}
  PROVE  IsFiniteSet(QueueOf(v))' /\ Balanced(v)'
<1> DEFINE Answers == {"acquired", "quarantine_rejected", "queue_full", "timed_out"}
<1>1. TypeOK /\ QueuesFinite /\ Balanced(v) /\ Once(M, "requested") = 1
  BY Zenon, ExactParts DEF CountInv, LeaseInv, Once
<1>2. CASE M \cap Answers \in {{"acquired"}, {"quarantine_rejected"}, {"queue_full"}}
  <2>1. /\ Once(M, "acquired") + Once(M, "quarantine_rejected")
             + Once(M, "queue_full") + Once(M, "timed_out") = 1
        /\ Once(M, "acquired") \in Nat /\ Once(M, "quarantine_rejected") \in Nat
        /\ Once(M, "queue_full") \in Nat /\ Once(M, "timed_out") \in Nat
    BY <1>2 DEF Once
  <2>2. \A u \in Thread : /\ pc'[u] = "waiting" <=> pc[u] = "waiting"
                          /\ pc[u] = "waiting" => work'[u] = work[u]
    BY Zenon, <1>1, <1>2 DEF TypeOK
  <2>3. /\ IsFiniteSet(QueueOf(v))' /\ Cardinality(QueueOf(v)) \in Nat
        /\ Cardinality(QueueOf(v))' = Cardinality(QueueOf(v))
    BY Zenon, <1>1, <2>2, QueueStays
  <2>4. Cardinality(QueueOf(v))' + Once(M, "acquired") + Once(M, "quarantine_rejected")
          + Once(M, "queue_full") + Once(M, "timed_out") = Cardinality(QueueOf(v)) + 1
    BY <2>1, <2>3
  <2>5. QED
    BY Zenon, <1>1, <2>3, <2>4, KeepsBalance
<1>3. CASE M \cap Answers = {}
  <2>1. /\ Once(M, "acquired") = 0 /\ Once(M, "quarantine_rejected") = 0
        /\ Once(M, "queue_full") = 0 /\ Once(M, "timed_out") = 0
    BY Zenon, <1>3 DEF Once
  <2>2. /\ IsFiniteSet(QueueOf(v))' /\ Cardinality(QueueOf(v)) \in Nat
        /\ Cardinality(QueueOf(v))' = Cardinality(QueueOf(v)) + IF v = w THEN 1 ELSE 0
    BY Zenon, <1>1, <1>3, QueueGrows
  <2>3. /\ Cardinality(QueueOf(v))' \in Nat
        /\ v /= w => Cardinality(QueueOf(v))' = Cardinality(QueueOf(v))
        /\ v = w => Cardinality(QueueOf(v))' + Once(M, "acquired") + Once(M, "quarantine_rejected")
                      + Once(M, "queue_full") + Once(M, "timed_out") = Cardinality(QueueOf(v)) + 1
    BY <2>1, <2>2
  <2>4. QED
    BY Zenon, <1>1, <2>2, <2>3, KeepsBalance
<1>4. QED
  BY Zenon, <1>2, <1>3

\* A waiter is answered when it leaves the queue: granted, refused, or too late.
LEMMA AnswerKeepsBalance ==
  ASSUME CountInv, NEW t \in Thread, NEW v \in Workload, pc[t] = "waiting",
         NEW M, CountWorkload(work[t], M), "requested" \notin M,
         M \cap {"acquired", "quarantine_rejected", "queue_full", "timed_out"}
           \in {{"acquired"}, {"quarantine_rejected"}, {"timed_out"}},
         NEW x, x /= "waiting", pc' = [pc EXCEPT ![t] = x],
         \A u \in Thread : u /= t => work'[u] = work[u]
  PROVE  IsFiniteSet(QueueOf(v))' /\ Balanced(v)'
<1>1. TypeOK /\ QueuesFinite /\ Balanced(v) /\ Once(M, "requested") = 0 /\ work[t] \in Workload
  BY Zenon, ExactParts DEF CountInv, LeaseInv, Once, TypeOK
<1>2. /\ Once(M, "acquired") + Once(M, "quarantine_rejected")
           + Once(M, "queue_full") + Once(M, "timed_out") = 1
      /\ Once(M, "acquired") \in Nat /\ Once(M, "quarantine_rejected") \in Nat
      /\ Once(M, "queue_full") \in Nat /\ Once(M, "timed_out") \in Nat
  BY DEF Once
<1>3. /\ IsFiniteSet(QueueOf(v))'
      /\ Cardinality(QueueOf(v)) \in Nat /\ Cardinality(QueueOf(v))' \in Nat
      /\ Cardinality(QueueOf(v))' + (IF v = work[t] THEN 1 ELSE 0) = Cardinality(QueueOf(v))
  BY Zenon, <1>1, QueueShrinks
<1>4. /\ v /= work[t] => Cardinality(QueueOf(v))' = Cardinality(QueueOf(v))
      /\ v = work[t] =>
           Cardinality(QueueOf(v))' + Once(M, "acquired") + Once(M, "quarantine_rejected")
             + Once(M, "queue_full") + Once(M, "timed_out")
           = Cardinality(QueueOf(v)) + Once(M, "requested")
  BY <1>1, <1>2, <1>3
<1>5. QED
  BY Zenon, <1>1, <1>3, <1>4, KeepsBalance

\* A step that moves no waiter and counts nothing is no answer.
LEMMA SilentKeepsBalance ==
  ASSUME CountInv, NEW v \in Workload, wmetrics' = wmetrics,
         \A u \in Thread : /\ pc'[u] = "waiting" <=> pc[u] = "waiting"
                           /\ pc[u] = "waiting" => work'[u] = work[u]
  PROVE  IsFiniteSet(QueueOf(v))' /\ Balanced(v)'
<1>1. QueuesFinite /\ Balanced(v)
  BY Zenon, ExactParts DEF CountInv
<1>2. QueueOf(v)' = QueueOf(v) /\ IsFiniteSet(QueueOf(v))'
  BY Zenon, <1>1, QueueStays
<1>3. QED
  BY Zenon, <1>1, <1>2 DEF Balanced, Answered

\* A release is counted apart from the answers.
LEMMA ReleaseKeepsBalance ==
  ASSUME CountInv, NEW w \in Workload, NEW v \in Workload, NEW M, CountWorkload(w, M),
         M \cap {"requested", "acquired", "quarantine_rejected", "queue_full", "timed_out"} = {},
         \A u \in Thread : /\ pc'[u] = "waiting" <=> pc[u] = "waiting"
                           /\ pc[u] = "waiting" => work'[u] = work[u]
  PROVE  IsFiniteSet(QueueOf(v))' /\ Balanced(v)'
<1>1. TypeOK /\ QueuesFinite /\ Balanced(v)
  BY Zenon, ExactParts DEF CountInv, LeaseInv
<1>2. /\ IsFiniteSet(QueueOf(v))' /\ Cardinality(QueueOf(v)) \in Nat
      /\ Cardinality(QueueOf(v))' = Cardinality(QueueOf(v))
  BY Zenon, <1>1, QueueStays
<1>3. /\ Once(M, "acquired") = 0 /\ Once(M, "quarantine_rejected") = 0
      /\ Once(M, "queue_full") = 0 /\ Once(M, "timed_out") = 0 /\ Once(M, "requested") = 0
  BY Zenon DEF Once
<1>4. Cardinality(QueueOf(v))' + Once(M, "acquired") + Once(M, "quarantine_rejected")
        + Once(M, "queue_full") + Once(M, "timed_out") = Cardinality(QueueOf(v)) + Once(M, "requested")
  BY <1>2, <1>3
<1>5. QED
  BY Zenon, <1>1, <1>2, <1>4, KeepsBalance

\* At the start nothing has been asked for.
LEMMA CountInvInit == Init => CountInv
<1> SUFFICES ASSUME Init PROVE CountInv
  BY Zenon
<1>1. LeaseInv
  BY Zenon, LeaseInvInit
<1>2. ASSUME NEW w \in Workload PROVE IsFiniteSet(QueueOf(w)) /\ Balanced(w)
  <2>1. QueueOf(w) = {}
    BY Zenon DEF Init, QueueOf, waiters
  <2>2. IsFiniteSet(QueueOf(w)) /\ Cardinality(QueueOf(w)) = 0
    BY Zenon, <2>1, FS_EmptySet
  <2>3. \A m \in WorkloadMetrics : wmetrics[w][m] = 0
    BY Zenon DEF Init
  <2>4. /\ wmetrics[w]["requested"] = 0 /\ wmetrics[w]["acquired"] = 0
        /\ wmetrics[w]["quarantine_rejected"] = 0 /\ wmetrics[w]["queue_full"] = 0
        /\ wmetrics[w]["timed_out"] = 0
    BY Zenon, <2>3 DEF WorkloadMetrics
  <2>5. 0 = 0 + 0 + 0 + 0 + 0
    OBVIOUS
  <2>6. QED
    BY Zenon, <2>2, <2>4, <2>5 DEF Balanced, Answered
<1>3. ASSUME NEW r \in Resource PROVE Tallied(r)
  <2>1. holder[r] = 0 /\ r \notin quarantined /\ \A n \in ResourceMetrics : rmetrics[r][n] = 0
    BY Zenon DEF Init
  <2>2. 0 = 0 + 0
    OBVIOUS
  <2>3. QED
    BY Zenon, <2>1, <2>2 DEF Tallied, ResourceMetrics
<1>4. QED
  BY Zenon, <1>1, <1>2, <1>3, ExactParts DEF CountInv, QueuesFinite

\* Every critical section counts what it does.
LEMMA CountInvStep == CountInv /\ LeaseInv' /\ [Next]_vars => CountInv'
<1> SUFFICES ASSUME CountInv, LeaseInv', [Next]_vars PROVE CountInv'
  BY Zenon
<1>0. LeaseInv /\ TypeOK /\ \A r \in Resource : Tallied(r)
  BY Zenon, ExactParts DEF CountInv, LeaseInv
<1>1. ASSUME NEW t \in Thread, NEW w \in Workload, AcquireQuarantined(t, w) PROVE CountInv'
  <2>1. ASSUME NEW v \in Workload PROVE IsFiniteSet(QueueOf(v))' /\ Balanced(v)'
    BY Zenon, <1>1, RequestKeepsBalance DEF AcquireQuarantined, Requesting
  <2>2. ASSUME NEW r \in Resource PROVE Tallied(r)'
    BY Zenon, <1>0, <1>1 DEF AcquireQuarantined, Tallied
  <2>3. QED
    BY Zenon, <2>1, <2>2, StepKeepsCount
<1>2. ASSUME NEW t \in Thread, NEW w \in Workload, AcquireAtOnce(t, w) PROVE CountInv'
  <2>1. PICK P \in {{}, {"parallel_acquired"}} : CountWorkload(w, {"requested"} \cup {"acquired"} \cup P)
    BY Zenon, <1>2 DEF AcquireAtOnce, grant
  <2>2. /\ pc[t] = "idle" /\ pc' = [pc EXCEPT ![t] = "leased"] /\ work' = [work EXCEPT ![t] = w]
        /\ "requested" \in {"requested"} \cup {"acquired"} \cup P
        /\ ({"requested"} \cup {"acquired"} \cup P)
             \cap {"acquired", "quarantine_rejected", "queue_full", "timed_out"} = {"acquired"}
    BY Zenon, <1>2 DEF AcquireAtOnce, grant, Requesting
  <2>3. ASSUME NEW v \in Workload PROVE IsFiniteSet(QueueOf(v))' /\ Balanced(v)'
    BY Zenon, <2>1, <2>2, RequestKeepsBalance
  <2>4. ASSUME NEW r \in Resource PROVE Tallied(r)'
    BY Zenon, <1>0, <1>2, GrantKeepsTally DEF AcquireAtOnce, can_grant_new_request
  <2>5. QED
    BY Zenon, <2>3, <2>4, StepKeepsCount
<1>3. ASSUME NEW t \in Thread, NEW w \in Workload, AcquireQueueFull(t, w) PROVE CountInv'
  <2>1. ASSUME NEW v \in Workload PROVE IsFiniteSet(QueueOf(v))' /\ Balanced(v)'
    BY Zenon, <1>3, RequestKeepsBalance DEF AcquireQueueFull, Requesting
  <2>2. ASSUME NEW r \in Resource PROVE Tallied(r)'
    <3>1. /\ CountResources(required_resources[w], "queue_full") /\ "queue_full" \notin Compared
          /\ UNCHANGED <<holder, quarantined>>
      BY Zenon, <1>3 DEF AcquireQueueFull, Compared
    <3>2. QED
      BY Zenon, <1>0, <3>1, OthersKeepTally
  <2>3. QED
    BY Zenon, <2>1, <2>2, StepKeepsCount
<1>4. ASSUME NEW t \in Thread, NEW w \in Workload, AcquireQueued(t, w) PROVE CountInv'
  <2>1. ASSUME NEW v \in Workload PROVE IsFiniteSet(QueueOf(v))' /\ Balanced(v)'
    BY Zenon, <1>4, RequestKeepsBalance DEF AcquireQueued, Requesting
  <2>2. ASSUME NEW r \in Resource PROVE Tallied(r)'
    <3>1. /\ CountResources(required_resources[w], "queued") /\ "queued" \notin Compared
          /\ UNCHANGED <<holder, quarantined>>
      BY Zenon, <1>4 DEF AcquireQueued, Compared
    <3>2. QED
      BY Zenon, <1>0, <3>1, OthersKeepTally
  <2>3. QED
    BY Zenon, <2>1, <2>2, StepKeepsCount
<1>5. ASSUME NEW t \in Thread, WaitQuarantined(t) PROVE CountInv'
  <2>1. ASSUME NEW v \in Workload PROVE IsFiniteSet(QueueOf(v))' /\ Balanced(v)'
    BY Zenon, <1>0, <1>5, AnswerKeepsBalance DEF WaitQuarantined, LeaveQueue, TypeOK
  <2>2. ASSUME NEW r \in Resource PROVE Tallied(r)'
    BY Zenon, <1>0, <1>5 DEF WaitQuarantined, LeaveQueue, Tallied
  <2>3. QED
    BY Zenon, <2>1, <2>2, StepKeepsCount
<1>6. ASSUME NEW t \in Thread, WaitGranted(t) PROVE CountInv'
  <2>1. PICK P \in {{}, {"parallel_acquired"}} : CountWorkload(work[t], {} \cup {"acquired"} \cup P)
    BY Zenon, <1>6 DEF WaitGranted, grant
  <2>2. /\ pc[t] = "waiting" /\ pc' = [pc EXCEPT ![t] = "leased"] /\ work' = work
        /\ "requested" \notin {} \cup {"acquired"} \cup P
        /\ ({} \cup {"acquired"} \cup P)
             \cap {"acquired", "quarantine_rejected", "queue_full", "timed_out"} = {"acquired"}
    BY Zenon, <1>6 DEF WaitGranted, grant
  <2>3. ASSUME NEW v \in Workload PROVE IsFiniteSet(QueueOf(v))' /\ Balanced(v)'
    BY Zenon, <2>1, <2>2, AnswerKeepsBalance
  <2>4. work[t] \in Workload
    BY Zenon, <1>0, <2>2 DEF TypeOK
  <2>5. ASSUME NEW r \in Resource PROVE Tallied(r)'
    BY Zenon, <1>0, <1>6, <2>4, GrantKeepsTally DEF WaitGranted, waiter_can_be_granted
  <2>6. QED
    BY Zenon, <2>3, <2>5, StepKeepsCount
<1>7. ASSUME NEW t \in Thread, WaitTimeout(t) PROVE CountInv'
  <2>1. ASSUME NEW v \in Workload PROVE IsFiniteSet(QueueOf(v))' /\ Balanced(v)'
    BY Zenon, <1>0, <1>7, AnswerKeepsBalance DEF WaitTimeout, LeaveQueue, TypeOK
  <2>2. ASSUME NEW r \in Resource PROVE Tallied(r)'
    <3>1. /\ CountResources(required_resources[work[t]], "timed_out") /\ "timed_out" \notin Compared
          /\ UNCHANGED <<holder, quarantined>>
      BY Zenon, <1>7 DEF WaitTimeout, LeaveQueue, Compared
    <3>2. QED
      BY Zenon, <1>0, <3>1, OthersKeepTally
  <2>3. QED
    BY Zenon, <2>1, <2>2, StepKeepsCount
<1>8. ASSUME NEW t \in Thread, release(t) PROVE CountInv'
  <2>1. PICK M \in {{}, {"released"}} : CountWorkload(work[t], M)
    BY Zenon, <1>8 DEF release
  <2>2. /\ work[t] \in Workload
        /\ M \cap {"requested", "acquired", "quarantine_rejected", "queue_full", "timed_out"} = {}
        /\ \A u \in Thread : /\ pc'[u] = "waiting" <=> pc[u] = "waiting"
                             /\ pc[u] = "waiting" => work'[u] = work[u]
    BY Zenon, <1>0, <1>8 DEF release, EndLease, TypeOK
  <2>3. ASSUME NEW v \in Workload PROVE IsFiniteSet(QueueOf(v))' /\ Balanced(v)'
    BY Zenon, <2>1, <2>2, ReleaseKeepsBalance
  <2>4. ASSUME NEW r \in Resource PROVE Tallied(r)'
    BY Zenon, <1>0, <1>8, ReleaseKeepsTally
  <2>5. QED
    BY Zenon, <2>3, <2>4, StepKeepsCount
<1>9. ASSUME NEW t \in Thread, quarantine(t) PROVE CountInv'
  <2>1. /\ wmetrics' = wmetrics
        /\ \A u \in Thread : /\ pc'[u] = "waiting" <=> pc[u] = "waiting"
                             /\ pc[u] = "waiting" => work'[u] = work[u]
    BY Zenon, <1>0, <1>9 DEF quarantine, EndLease, TypeOK
  <2>2. ASSUME NEW v \in Workload PROVE IsFiniteSet(QueueOf(v))' /\ Balanced(v)'
    BY Zenon, <2>1, SilentKeepsBalance
  <2>3. ASSUME NEW r \in Resource PROVE Tallied(r)'
    BY Zenon, <1>0, <1>9, QuarantineKeepsTally
  <2>4. QED
    BY Zenon, <2>2, <2>3, StepKeepsCount
<1>10. ASSUME NEW t \in Thread, WaitAgain(t) \/ Notify(t) PROVE CountInv'
  <2>1. /\ UNCHANGED <<wmetrics, rmetrics, holder, quarantined>>
        /\ \A u \in Thread : /\ pc'[u] = "waiting" <=> pc[u] = "waiting"
                             /\ pc[u] = "waiting" => work'[u] = work[u]
    BY Zenon, <1>0, <1>10 DEF WaitAgain, Notify, TypeOK
  <2>2. ASSUME NEW v \in Workload PROVE IsFiniteSet(QueueOf(v))' /\ Balanced(v)'
    BY Zenon, <2>1, SilentKeepsBalance
  <2>3. ASSUME NEW r \in Resource PROVE Tallied(r)'
    BY Zenon, <1>0, <2>1 DEF Tallied
  <2>4. QED
    BY Zenon, <2>2, <2>3, StepKeepsCount
<1>11. CASE UNCHANGED vars
  <2>1. UNCHANGED <<pc, work, wmetrics, rmetrics, holder, quarantined>>
    BY Zenon, <1>11 DEF vars
  <2>2. ASSUME NEW v \in Workload PROVE IsFiniteSet(QueueOf(v))' /\ Balanced(v)'
    BY Zenon, <2>1, SilentKeepsBalance
  <2>3. ASSUME NEW r \in Resource PROVE Tallied(r)'
    BY Zenon, <1>0, <2>1 DEF Tallied
  <2>4. QED
    BY Zenon, <2>2, <2>3, StepKeepsCount
<1>12. QED
  BY Zenon, <1>1, <1>2, <1>3, <1>4, <1>5, <1>6, <1>7, <1>8, <1>9, <1>10, <1>11
     DEF Next, acquire, Wait

\* The counters of a snapshot add up at all times: every call of acquire is
\* counted once as answered or waits, and the leases and quarantines counted for
\* a resource say whether it is held and quarantined.
THEOREM CountersAddUp == Spec => []CountersExact
<1>1. CountInv => CountersExact
  BY Zenon DEF CountInv
<1>2. QED
  BY <1>1, CountInvInit, CountInvStep, LeaseInvariant, PTL DEF Spec

-----------------------------------------------------------------------------
(* Refinement.                                                             *)

\* The queueing scheduler implements the abstract lease book: every step grants
\* a free set, gives one back, fences one, or changes nothing of the book.
THEOREM Refinement == Spec => ImplementsLeaseBook
<1> DEFINE G == [t \in Thread |-> IF pc[t] = "leased" THEN required_resources[work[t]] ELSE {}]
<1>1. Init => Book!Init
  BY Zenon DEF Init, Book!Init
<1>2. LeaseInv /\ LeaseInv' /\ [Next]_vars => [Book!Next]_(Book!bookVars)
  <2> SUFFICES ASSUME LeaseInv, LeaseInv', [Next]_vars
               PROVE  Book!Next \/ UNCHANGED <<G, quarantined>>
    BY Zenon DEF Book!bookVars
  <2>0. TypeOK /\ TypeOK'
    BY Zenon DEF LeaseInv
  <2>1. ASSUME NEW t \in Thread, NEW w \in Workload, NEW M, pc[t] /= "leased",
               work' = [work EXCEPT ![t] = w], grant(t, w, M),
               resources_are_free(required_resources[w])
        PROVE  Book!Next
    <3>1. G' = [G EXCEPT ![t] = required_resources[w]] /\ G[t] = {} /\ quarantined' = quarantined
      BY Zenon, <2>0, <2>1 DEF grant, TypeOK
    <3>2. required_resources[w] \in SUBSET Resource /\ required_resources[w] /= {}
      BY Zenon, RequiredResources
    <3>3. required_resources[w] \cap quarantined = {}
      BY Zenon, <2>1 DEF resources_are_free
    <3>4. ASSUME NEW u \in Thread PROVE required_resources[w] \cap G[u] = {}
      <4>1. CASE pc[u] = "leased"
        <5>1. \A r \in required_resources[w] : holder[r] = 0 /\ r \in Resource
          BY Zenon, <2>1, <3>2 DEF resources_are_free
        <5>2. \A r \in required_resources[w] : r \notin required_resources[work[u]]
          BY <4>1, <5>1 DEF LeaseInv
        <5>3. QED
          BY Zenon, <4>1, <5>2
      <4>2. CASE pc[u] /= "leased"
        BY Zenon, <4>2
      <4>3. QED
        BY Zenon, <4>1, <4>2
    <3>5. Book!Grant(t, required_resources[w])
      BY Zenon, <3>1, <3>2, <3>3, <3>4 DEF Book!Grant
    <3>6. QED
      BY Zenon, <3>2, <3>5 DEF Book!Next
  <2>2. ASSUME NEW t \in Thread, NEW w \in Workload, AcquireAtOnce(t, w) PROVE Book!Next
    <3>1. /\ pc[t] /= "leased" /\ work' = [work EXCEPT ![t] = w] /\ grant(t, w, {"requested"})
          /\ resources_are_free(required_resources[w])
      BY Zenon, <2>2 DEF AcquireAtOnce, Requesting, can_grant_new_request
    <3>2. QED
      BY Zenon, <2>1, <3>1
  <2>3. ASSUME NEW t \in Thread, WaitGranted(t) PROVE Book!Next
    <3>1. /\ pc[t] /= "leased" /\ work' = [work EXCEPT ![t] = work[t]] /\ grant(t, work[t], {})
          /\ resources_are_free(required_resources[work[t]]) /\ work[t] \in Workload
      BY Zenon, <2>0, <2>3 DEF WaitGranted, waiter_can_be_granted, TypeOK
    <3>2. QED
      BY Zenon, <2>1, <3>1
  <2>4. ASSUME NEW t \in Thread, release(t) \/ quarantine(t) PROVE Book!Next
    <3>1. /\ HeldBy(t) = required_resources[work[t]] /\ HeldBy(t) /= {}
          /\ pc[t] = "leased" /\ EndLease(t)
      BY Zenon, <2>4, HeldByOwner DEF release, quarantine
    <3>2. G[t] = HeldBy(t) /\ G' = [G EXCEPT ![t] = {}]
      BY Zenon, <2>0, <3>1 DEF EndLease, TypeOK
    <3>3. CASE release(t)
      BY Zenon, <3>1, <3>2, <3>3 DEF release, Book!GiveBack, Book!Next
    <3>4. CASE quarantine(t)
      BY Zenon, <3>1, <3>2, <3>4 DEF quarantine, Book!Fence, Book!Next
    <3>5. QED
      BY Zenon, <2>4, <3>3, <3>4
  <2>5. ASSUME quarantined' = quarantined,
               \A t \in Thread : /\ pc[t] = "leased" <=> pc'[t] = "leased"
                                 /\ pc[t] = "leased" => work'[t] = work[t]
        PROVE  UNCHANGED <<G, quarantined>>
    BY Zenon, <2>5
  <2>6. ASSUME NEW t \in Thread, NEW w \in Workload,
               AcquireQuarantined(t, w) \/ AcquireQueueFull(t, w) \/ AcquireQueued(t, w)
        PROVE  UNCHANGED <<G, quarantined>>
    BY Zenon, <2>0, <2>5, <2>6 DEF AcquireQuarantined, AcquireQueueFull, AcquireQueued, Requesting, TypeOK
  <2>7. ASSUME NEW t \in Thread,
               WaitQuarantined(t) \/ WaitTimeout(t) \/ WaitAgain(t) \/ Notify(t)
        PROVE  UNCHANGED <<G, quarantined>>
    BY Zenon, <2>0, <2>5, <2>7 DEF WaitQuarantined, WaitTimeout, WaitAgain, Notify, LeaveQueue, TypeOK
  <2>8. CASE UNCHANGED vars
    BY Zenon, <2>5, <2>8 DEF vars
  <2>9. QED
    BY Zenon, <2>2, <2>3, <2>4, <2>6, <2>7, <2>8 DEF Next, acquire, Wait
<1>3. QED
  BY <1>1, <1>2, LeaseInvariant, PTL DEF Spec, ImplementsLeaseBook, Book!Spec
=============================================================================
