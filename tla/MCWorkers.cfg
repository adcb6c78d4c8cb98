SPECIFICATION Spec
CONSTANTS
  Conns = {c1, c2}
  Threads = {t1, t2}
  Chunks <- MCChunks
  MaxText = 5
  MaxHeaders = 1
  ReadStatuses = {"UV_EOF"}
SYMMETRY Symmetry
INVARIANTS
  KnownText
  OwnLines
  OwnPlace
CHECK_DEADLOCK FALSE
