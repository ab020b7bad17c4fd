SPECIFICATION Spec
CONSTANTS
  CHUNK = 2
  HDR = 0
  CONNECT_TIMEOUT = 1
  IDLE_TIMEOUT = 2
  CLOSE_WAIT = 1
PROPERTY
  AcceptedBytesForwarded
CHECK_DEADLOCK FALSE
