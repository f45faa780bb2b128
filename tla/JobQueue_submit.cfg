CONSTANTS
  NoGpu = NoGpu
  g1 = g1
  g2 = g2
  NJobs = 2
  Gpus = {g1}
  Device <- SharedGpu
  Broken = {2}
  Schedulers = {1}
  Submitters = {3}
  Outcomes = {"done", "not_converged"}
  MaxConcurrent = 1
  MaxClaims = 3
  MaxCrashes = 1
  MaxUserOps = 1
SPECIFICATION Spec
INVARIANTS ReportIsTheExit
PROPERTIES TerminalIsFinal
CHECK_DEADLOCK FALSE
