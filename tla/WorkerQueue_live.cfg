SPECIFICATION FairSpec
CONSTANTS
  N = 2
  Streams = {s1, s2}
  Packets = {p1}
  CAP = 2
  BUF = 2
  NotifyMayFail = FALSE
INVARIANTS
  NoLostWakeup
  JoinsNoSleeper
PROPERTIES
  ShutdownCompletes
  ImplementsHandoff
