SPECIFICATION FairSpec
CONSTANTS
  Streams <- OddStreams
  METHOD_SIZE = 2
  MAX_PATH = 3
  ver = 2
  ROW = 6
  MAX_HEADERS = 3
PROPERTY SomePromiseKept
