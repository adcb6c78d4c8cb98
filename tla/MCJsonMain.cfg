SPECIFICATION Spec
CONSTANTS
  MaxTokens = 0
  Inputs <- MainInputs
INVARIANT AllMembersBuilt
CHECK_DEADLOCK FALSE
