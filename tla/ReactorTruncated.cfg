SPECIFICATION FairSpec
CONSTANTS
  NoConn = NoConn
  c1 = c1
  c2 = c2
  Clients <- OneClient
  Streams <- PairStreams
  MaxFd = 2
  CONN_MAX = 2
  BUFFER_SIZE = 2
  MAX_EVENTS = 2
  HeadLen = 1
  FileLen = 1
  SNDBUF = 2
  Faults <- TruncateOnly
PROPERTY StopReturns
