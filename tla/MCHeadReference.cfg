CONSTANTS
  CIntMod = 65536
  Lanes = 2
  Heads = {}
  Hints = {}
  Caps = {}
  MaxBlock = 6
  Changes = {9, 10, 13, 32, 58, 97, 127}
  Exchanges <- MCExchanges
SPECIFICATION FairSession
CHECK_DEADLOCK FALSE
INVARIANTS
  AcceptsTheHead
  RejectsNoHead
  HeadNotMissed
  PrefixSurvives
PROPERTY HeadDecided
