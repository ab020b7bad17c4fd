SPECIFICATION Spec
CONSTANTS
  N = 2
  Streams = {s1, s2}
  Packets = {p1, p2}
  CAP = 2
  BUF = 2
  NotifyMayFail = TRUE
INVARIANTS
  OneOwner
  FreedAfterUse
  AllAccountedFor
PROPERTIES
  SafeHandoff
CHECK_DEADLOCK FALSE
