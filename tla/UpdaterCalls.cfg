CONSTANTS
  MaxCalls = 3
  Total = 2
SPECIFICATION Spec
INVARIANTS OwnAnswers
PROPERTIES CallsReturn FreeReturns
CHECK_DEADLOCK FALSE
