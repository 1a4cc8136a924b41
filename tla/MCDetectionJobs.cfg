SPECIFICATION FairSpec
CONSTANTS
  t1 = t1
  t2 = t2
  c1 = c1
  c2 = c2
  main = main
  sub = sub
  Nothing = Nothing
  Thread = {t1, t2}
  Camera = {c1, c2}
  Profile = {main, sub}
  MaxHistory = 2
  MaxJobs = 2
INVARIANTS
  OneWorker
  EndedIsClean
  RunningHasSource
PROPERTIES
  LapsedJobsEnd
  CallsEnd
