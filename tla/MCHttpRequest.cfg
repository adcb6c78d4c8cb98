SPECIFICATION Spec
CONSTANTS
  MaxHeaders = 2
  MaxLines = 5
INVARIANTS
  PartsKept
  BodyIsLast
  HeadersMatch
  OverrunOnlyWhenFull
CHECK_DEADLOCK FALSE
