CONSTANTS
  HexMax = 2
  Pow16 <- MCPow16
  U64 = 1024
  OverheadLimit = 8
  Inputs = {}
  MaxRead = 40
  Streams <- MCStreams
SPECIFICATION FairSession
CHECK_DEADLOCK FALSE
INVARIANTS
  SessionTypeOK
  CountersExact
  FramingBounded
  NothingLost
PROPERTIES
  ImplementsContract
  StreamDrained
