--------------------------- MODULE MCHomeGuardian ---------------------------
EXTENDS HomeGuardian, TLC
OneCamera == [e \in Events |-> CHOOSE c \in Cameras : TRUE]
OneAction == <<"notify">>

\* The state file is saved twice, or once beside a restart.
Disturbed == version + budget.restarts <= MaxSaves
EventSymmetry == Permutations(Events)
=============================================================================
