CONSTANTS
  HexMax = 2
  Pow16 <- MCPow16
  U64 = 1024
  OverheadLimit = 8
  Inputs = {}
  MaxRead = 40
  Streams <- MCMessages
SPECIFICATION SessionSpec
CHECK_DEADLOCK FALSE
INVARIANT MalformedIsFinal
