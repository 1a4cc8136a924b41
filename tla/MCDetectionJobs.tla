-------------------------- MODULE MCDetectionJobs --------------------------
EXTENDS DetectionJobs

CONSTANTS t1, t2, c1, c2, main, sub
=============================================================================
