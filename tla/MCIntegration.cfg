CONSTANTS
  Fixtures <- MCFixtures
  SockBuf = 65536
  BufAt = 1000
  SizeMod = 65536
SPECIFICATION FairSpec
CHECK_DEADLOCK FALSE
INVARIANTS
  IntegrationTypeOK
  BuffersHold
PROPERTIES
  RunEnds
  HandedOnce
  CorrectRunPasses
