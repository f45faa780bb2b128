CONSTANTS
  TotalSteps = 4
  SaveInterval = 2
  QueueMax = 1
  MaxUpsets = 1
SPECIFICATION Spec
INVARIANTS AlwaysDrained
CHECK_DEADLOCK FALSE
