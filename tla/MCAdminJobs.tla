----------------------------- MODULE MCAdminJobs -----------------------------
EXTENDS AdminJobs, TLC
Alike == Permutations(Threads) \cup Permutations(IndexWorkers) \cup Permutations(DownloadWorkers)

\* Bounds of the state space: the index until the first lost update, of which its
\* property says nothing more, with two runs of one root or one run of two, and two
\* processes at work at a time; downloads with one request at a time, and with one
\* file once two workers have met.
Busy(S) == Cardinality({p \in S : at[p] # AtRest})
Within ==
    /\ deployed = "index" => ~lost /\ Busy(Procs) <= 2 /\ (roots > 1 => Cardinality(asked) <= 1)
    /\ deployed # "index" => Busy(Threads) <= 1 /\ (together => \A w \in DownloadWorkers : file[w] = 1)
=============================================================================
