CONSTANTS
  Fresh = {1}
  Resumes = {2, 3}
  Policy = "relax"
  Climb = FALSE
  Interval = 2
  StageSteps = 2
  MaxRaises = 0
  MaxCrashes = 2
SPECIFICATION NebSpec
INVARIANTS ResumeKeepsPath
CHECK_DEADLOCK FALSE
