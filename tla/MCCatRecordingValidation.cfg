SPECIFICATION FairSpec
CONSTANTS
  Artifact = {a1}
  Worker = {w1, w2}
  Token = {t1, t2, t3, t4}
  NoToken = NoToken
  Enforce = TRUE
  MaxAttempts = 2
  AttemptCap = 3
  MaxDiscardAttempts = 2
  MaxFaults = 2
INVARIANTS RejectedAreTaken OnlyRejectedAreDeleted TombstoneIsTrue AttemptsBounded
PROPERTIES VerdictUnderClaim ImplementsRecordingFate WorkEnds
