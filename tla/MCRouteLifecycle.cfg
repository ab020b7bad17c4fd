SPECIFICATION FairSpec
CONSTANTS
  Proc = {p1, p2}
  First = p1
  Foreign <- MCForeign
  HostPorts <- MCHostPorts
  Builtins = {"hang"}
  LongPaths = {"fff"}
  HALF = 4
  Configs <- MCConfigs
  CPUS = 1
  SECOND = 2
  INTERVAL = 1
  MaxRoutes = 3
INVARIANTS
  ReplySocketOpen
  NoOrphanFd
  AloneIsReachable
  StalePathNeverBlocks
  WaitHonoured
  CleanExit
PROPERTIES
  FilesKept
  SignalEnds
  StartResolves
