SPECIFICATION FairSpec
CONSTANTS
  NoConn = NoConn
  c1 = c1
  c2 = c2
  Clients <- OneClient
  Streams <- AllStreams
  MaxFd = 2
  CONN_MAX = 2
  BUFFER_SIZE = 2
  MAX_EVENTS = 1
  HeadLen = 2
  FileLen = 1
  SNDBUF = 2
  Faults <- CreateOnly
INVARIANTS TypeOK LoopInv InOrder Complete NoLostEdge EventsFit NoLeak
PROPERTIES Answers StopReturns
