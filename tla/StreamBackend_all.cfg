SPECIFICATION FairSpec

CONSTANTS
  Backends = {"client_addr", "http_ok", "discard", "hang", "log_conn", "close", "file"}
  ANSWER = 2
  FileSizes = {0, 1, 2, 3, 5}
  HIGH = 2
  IDLE_TIMEOUT = 3
  CLOSE_WAIT = 2
  MaxSock = 2

INVARIANTS
  SilenceBounded

PROPERTIES
  ResponseWhole
  ResponseEnds

\* A connection that is freed does nothing more.
CHECK_DEADLOCK FALSE
