SPECIFICATION FairSpec
CONSTANTS
  Worker = {w1}
  Pools = {{w1}}
  Addr = {a1}
  Chunk = {c1}
  Fd = {f1}
  IDLE = 1
  MaxTime = 3
  MaxReplies = 1
  None = None
PROPERTIES
  IdleMappingExpires
\* A route that has been freed does nothing more.
CHECK_DEADLOCK FALSE
