------------------------ MODULE MCValidationStoreLog ------------------------
EXTENDS ValidationStoreLog, TLC

Symmetry == Permutations(Process) \cup Permutations(Key)
=============================================================================
