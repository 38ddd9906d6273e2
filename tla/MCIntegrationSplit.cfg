CONSTANTS
  Fixtures <- MCFixtures
  SockBuf = 65536
  BufAt = 1000
  SizeMod = 65536
SPECIFICATION Spec
CHECK_DEADLOCK FALSE
PROPERTIES
  SplitsAreDeterministic
