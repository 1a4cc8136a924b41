SPECIFICATION FairSpec
CONSTANTS
  Thread = {t1, t2, t3}
  QueueCapacity = 2
  MaxRequests = 4
INVARIANTS LeaseExclusive QuarantineFences NoLostWakeup CountersExact
PROPERTIES NoOvertaking FreedResourcesAreTaken ImplementsLeaseBook
CHECK_DEADLOCK FALSE
