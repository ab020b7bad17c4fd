SPECIFICATION FairSpec
CONSTANTS
  CHUNK = 2
  HDR = 1
  CONNECT_TIMEOUT = 1
  IDLE_TIMEOUT = 3
  CLOSE_WAIT = 1
INVARIANTS
  OutputBounded
  NoLostResume
  NothingAfterEnd
  TimerAlwaysArmed
  IdleBound
PROPERTIES
  ResponseNotCut
  IdleNotEarly
  HalfCloseEnds
  ConnectResolves
\* A connection that is freed does nothing more.
CHECK_DEADLOCK FALSE
