SPECIFICATION FormatsSpec
CONSTANTS
  PieceLens = {1, 4, 5, 9, 21, 30, 31, 33}
  SNIFF_MAX = 32
  SNI_MAX = 2
  RANDOM = 0
  OCTET = 6
  HOST_LEN = 3
  PORT_MAX = 76
  ULONG_MAX = 99
  LOG_LEN = 6
  MAX_LINE_LEN = 3
  ANY_HOST <- MCAnyHost
  Letters <- MCLetters
  Alphabets <- MCAlphabets
  MaxText = 6
  Hosts4 <- MCHosts4
  Hosts6 <- MCHosts6
  Ports = {80, 258}
  BufLens <- MCBufLens
  Lens <- MCLens
INVARIANTS
  ReadsInside
  HostPortsReadAsWritten
  EndpointsRoundTrip
  CrLfInsensitive
  ProxyHeadersReadable
  RawPacketsValid
PROPERTIES
  ParseAdvances
CHECK_DEADLOCK FALSE
