SPECIFICATION Spec
CONSTANTS
  p1 = p1
  p2 = p2
  restart = restart
  status = status
  wipe = wipe
  Thread = {p1, p2}
  Task = {restart, status, wipe}
  Guarded = {restart, wipe}
  ReadOnly = {wipe}
  MaxDeliveries = 2
  Deployment <- Deployments
INVARIANTS
  GateHolds
  SequentialOnce
  RejectedNeverRuns
CHECK_DEADLOCK FALSE
