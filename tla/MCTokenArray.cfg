SPECIFICATION ArraySpec
CONSTANTS
  TokenSize = 16
  PtrSize = 8
  MaxTokens = 40
INVARIANTS
  StoresFit
  LengthIsCount
  AllFreed
CHECK_DEADLOCK FALSE
