---------------------------- MODULE RecordingFate ----------------------------
(***************************************************************************)
(* What the cat-recording pipeline promises about a recording, whatever    *)
(* workers, leases, retries and restarts do underneath: it is judged at    *)
(* most once, only a recording judged to show no cat is ever marked for    *)
(* removal, the mark is durable before the file goes, unless an operator   *)
(* asked for its deletion, and a tombstone is written only for a file that *)
(* is gone.                                                                *)
(***************************************************************************)
CONSTANT Artifact

VARIABLES
  verdict,    \* per recording, "none" or the one verdict it got
  condemned,  \* recordings whose removal has been durably decided
  purged,     \* recordings an operator asked to delete
  deleted,    \* recordings whose file is gone
  buried      \* recordings with a tombstone

vars == <<verdict, condemned, purged, deleted, buried>>

Verdict == {"accepted", "review_required", "rejected"}

Init ==
  /\ verdict   = [a \in Artifact |-> "none"]
  /\ condemned = {}
  /\ purged    = {}
  /\ deleted   = {}
  /\ buried    = {}

Judge(a, v) ==
  /\ verdict[a] = "none"
  /\ verdict' = [verdict EXCEPT ![a] = v]
  /\ UNCHANGED <<condemned, purged, deleted, buried>>

Condemn(a) ==
  /\ verdict[a] = "rejected"
  /\ condemned' = condemned \cup {a}
  /\ UNCHANGED <<verdict, purged, deleted, buried>>

Delete(a) ==
  /\ a \in condemned \cup purged
  /\ deleted' = deleted \cup {a}
  /\ UNCHANGED <<verdict, condemned, purged, buried>>

Purge(a) ==
  /\ purged' = purged \cup {a}
  /\ deleted' \in {deleted, deleted \cup {a}}
  /\ UNCHANGED <<verdict, condemned, buried>>

Bury(a) ==
  /\ a \in deleted
  /\ buried' = buried \cup {a}
  /\ UNCHANGED <<verdict, condemned, purged, deleted>>

Next == \E a \in Artifact : \/ \E v \in Verdict : Judge(a, v)
                            \/ Condemn(a)
                            \/ Delete(a)
                            \/ Purge(a)
                            \/ Bury(a)

Spec == Init /\ [][Next]_vars
=============================================================================
