-------------------------- MODULE MCEmbeddingStore --------------------------
EXTENDS EmbeddingStore

CONSTANTS small, large

TwoFiles == 1 .. 2
OneSidecar == {2}
\* Models whose vectors differ in length.
Distinct == [m \in Models |-> IF m = small THEN 1 ELSE 2]

\* Files, clock and model change only where the worker's next step may notice (any other
\* time amounts to the same), and the search runs beside the last refresh.
Timely ==
    /\ text' # text => pc \in {"idle", "parse"} /\ sAt = "idle"
    /\ now' # now => pc = "idle" /\ sAt = "idle"
    /\ model' # model => pc \in {"idle", "probe", "chunk"}
    /\ (sAt = "idle" /\ sAt' # "idle") => (refreshes = MaxRefreshes /\ pc # "idle")

\* Two disturbances: edits, changes of model, faults.
Disturbed == edits + switches + faults <= 2
=============================================================================
