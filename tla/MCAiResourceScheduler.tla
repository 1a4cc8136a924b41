------------------------ MODULE MCAiResourceScheduler ------------------------
EXTENDS AiResourceScheduler, TLC
ThreadSymmetry == Permutations(Thread)
=============================================================================
