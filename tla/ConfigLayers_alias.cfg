CONSTANT MaxDeclared = 3
SPECIFICATION LayersSpec
INVARIANT DocumentedPrecedence
CHECK_DEADLOCK FALSE
