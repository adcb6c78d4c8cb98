SPECIFICATION Spec
CONSTANTS
  Conns = {c1, c2}
  PoolSize = 1
  Chunks <- MCChunks
  MaxText = 4
  MaxHeaders = 1
  ReadStatuses = {"UV_EOF", "UV_ECONNRESET"}
INVARIANT ReadErrorsHandled
CHECK_DEADLOCK FALSE
