CONSTANTS
  NoGpu = NoGpu
  g1 = g1
  g2 = g2
  NJobs = 3
  Gpus = {g1}
  Device <- AllCpu
  Broken = {}
  Schedulers = {1, 2}
  Submitters = {}
  Outcomes = {"done"}
  MaxConcurrent = 1
  MaxClaims = 3
  MaxCrashes = 1
  MaxUserOps = 1
SPECIFICATION Spec
INVARIANTS ConcurrencyLimit PauseLetsOneThrough
CHECK_DEADLOCK FALSE
