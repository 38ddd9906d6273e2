CONSTANTS
  CIntMod = 32
  Lanes = 2
  Heads <- MCHeads
  Hints = {0, 4}
  Caps = {0, 2}
SPECIFICATION FairDropIn
INVARIANTS
  HeadTypeOK
  OutputsInOrder
  SlotsInOrder
PROPERTIES
  HeadReturns
  AgreesWithOracle
