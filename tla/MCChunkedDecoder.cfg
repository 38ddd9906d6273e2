CONSTANTS
  HexMax = 2
  Pow16 <- MCPow16
  U64 = 64
  OverheadLimit = 6
  Inputs <- MCInputs
  MaxRead = 9
  MaxLen = 3
SPECIFICATION Spec
INVARIANTS
  TypeOK
  UnreadIntact
  NeverCorrupt
  CarriedStateConsistent
  DrainedBeforePartial
  OverheadWithinRead
  LeftoverIntact
PROPERTY SizeNeverWraps
