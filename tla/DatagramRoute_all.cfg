SPECIFICATION Spec
CONSTANTS
  Worker = {w1, w2}
  Pools = {{w1}, {w1, w2}}
  Addr = {a1, a2}
  Chunk = {c1, c2}
  Fd = {f1, f2}
  IDLE = 1
  MaxTime = 3
  MaxReplies = 1
  None = None
INVARIANTS
  OneClientPerAddress
  SocketsOwned
  MappingKept
  ReplyToOriginalClientAlone
\* A route that has been freed does nothing more.
CHECK_DEADLOCK FALSE
