CONSTANTS
  NoGpu = NoGpu
  g1 = g1
  g2 = g2
  NJobs = 2
  Gpus = {g1}
  Device <- OneGpu
  Broken = {}
  Schedulers = {1}
  Submitters = {}
  Outcomes = {"done"}
  MaxConcurrent = 1
  MaxClaims = 2
  MaxCrashes = 0
  MaxUserOps = 1
SPECIFICATION Spec
INVARIANTS OneCalculationPerGpu
CHECK_DEADLOCK FALSE
