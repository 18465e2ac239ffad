SPECIFICATION Spec
CONSTANTS
  Streams <- AllStreams
  METHOD_SIZE = 2
  MAX_PATH = 3
  ver = 2
  ROW = 6
  MAX_HEADERS = 3
INVARIANTS ParserInv StoresFit HostRequired AcceptsRequests RejectsOnlyHopeless
