CONSTANTS
  HexMax = 2
  Pow16 <- MCPow16
  U64 = 64
  OverheadLimit = 4
  Inputs <- MCInputs
  MaxRead = 6
  Structs <- MCStructs
  MaxLen = 2
SPECIFICATION ForgedFair
INVARIANT FailsClosed
PROPERTIES
  CallReturns
  ReplacesOracle
