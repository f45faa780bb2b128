CONSTANTS
  Calculator <- TwoOfMace
  Isolated = "dpa"
  Requests <- FewRequests
SPECIFICATION SuitesSpec
INVARIANT OneCalculatorEach
CHECK_DEADLOCK FALSE
