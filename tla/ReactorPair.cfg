SPECIFICATION Spec
CONSTANTS
  NoConn = NoConn
  c1 = c1
  c2 = c2
  Clients <- TwoClients
  Streams <- PairStreams
  MaxFd = 3
  CONN_MAX = 3
  BUFFER_SIZE = 2
  MAX_EVENTS = 2
  HeadLen = 1
  FileLen = 1
  SNDBUF = 1
  Faults <- LoopFaults
SYMMETRY ClientSymmetry
INVARIANTS LoopInv Complete NoLostEdge EventsFit NoLeak
