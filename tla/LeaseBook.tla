------------------------------ MODULE LeaseBook ------------------------------
(***************************************************************************)
(* What the AI resource scheduler promises its callers, with no queue, no  *)
(* lease ids and no condition variable: a thread is granted a whole set of *)
(* resources at once, only resources nobody else has and that were never   *)
(* fenced; it gives all of them back, or leaves all of them fenced.        *)
(***************************************************************************)
CONSTANTS Thread, Resource

VARIABLES
  granted,  \* the resources each thread has under its lease
  fenced    \* resources no thread will ever be granted again

bookVars == <<granted, fenced>>

Init ==
  /\ granted = [t \in Thread |-> {}]
  /\ fenced  = {}

Grant(t, R) ==
  /\ granted[t] = {}
  /\ R /= {}
  /\ R \cap fenced = {}
  /\ \A u \in Thread : R \cap granted[u] = {}
  /\ granted' = [granted EXCEPT ![t] = R]
  /\ UNCHANGED fenced

GiveBack(t) ==
  /\ granted[t] /= {}
  /\ granted' = [granted EXCEPT ![t] = {}]
  /\ UNCHANGED fenced

Fence(t) ==
  /\ granted[t] /= {}
  /\ fenced'  = fenced \cup granted[t]
  /\ granted' = [granted EXCEPT ![t] = {}]

Next ==
  \E t \in Thread :
    \/ \E R \in SUBSET Resource : Grant(t, R)
    \/ GiveBack(t)
    \/ Fence(t)

Spec == Init /\ [][Next]_bookVars
=============================================================================
