SPECIFICATION FairSpec
CONSTANTS
  Conns = {c1, c2}
  Threads = {t1}
  Chunks <- MCChunks
  MaxText = 5
  MaxHeaders = 1
  ReadStatuses = {"UV_EOF", "UV_ECONNRESET"}
PROPERTIES
  ImplementsServer
  Released
  Answered
CHECK_DEADLOCK FALSE
