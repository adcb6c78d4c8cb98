SPECIFICATION Spec
CONSTANTS
  MaxTokens = 4
  Inputs <- AnyInputs
INVARIANTS
  IndexesInside
  NestingAdvances
  WellFormedRight
  WellFormedSafe
PROPERTY WellFormedOnce
CHECK_DEADLOCK FALSE
