CONSTANTS
  NoGpu = NoGpu
  g1 = g1
  g2 = g2
  NJobs = 2
  Gpus = {g1}
  Device <- OneGpu
  Broken = {}
  Schedulers = {1, 2, 3}
  Submitters = {}
  Outcomes = {"done"}
  MaxConcurrent = 2
  MaxClaims = 3
  MaxCrashes = 1
  MaxUserOps = 1
SPECIFICATION FairSpec
INVARIANTS TypeOK LeaseExclusive ComputingWorkerOwnsJob ComputedAtMostOnce
PROPERTIES RequeuedOnlyUnstarted ImplementsPromise EveryJobSettles
CHECK_DEADLOCK FALSE
