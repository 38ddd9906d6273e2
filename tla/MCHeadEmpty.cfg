CONSTANTS
  CIntMod = 65536
  Lanes = 2
  Heads = {}
  Hints = {}
  Caps = {}
  MaxBlock = 4
  Changes = {13}
  Exchanges <- MCExchanges
SPECIFICATION SessionSpec
CHECK_DEADLOCK FALSE
INVARIANT EmptyBlockAnswered
