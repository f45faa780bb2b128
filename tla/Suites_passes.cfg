CONSTANTS
  Calculator <- TwoOfMace
  Isolated = "dpa"
  Requests <- FewRequests
SPECIFICATION SuitesSpec
INVARIANT PassesConverged
CHECK_DEADLOCK FALSE
