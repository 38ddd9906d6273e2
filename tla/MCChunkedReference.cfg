CONSTANTS
  HexMax = 2
  Pow16 <- MCPow16
  U64 = 1024
  OverheadLimit = 100
  Inputs = {}
  MaxRead = 40
  Streams <- MCStreams
SPECIFICATION SessionSpec
CHECK_DEADLOCK FALSE
INVARIANTS
  DecodesTheCoding
  InDataExact
