CONSTANTS
  Files = {0, 3, 5}
  Args = {0, 1, 2}
  Caps <- MCCaps
  Defects <- MCDefects
  BigFile = 3
  MAXLEN = 4
  Snippets = {2, 4}
  Iterations = 3
  Mutations = 2
  MAX_CASES = 2
  MAX_BODY = 4
  MAX_CALLS = 4
  BodyRounds = 2
  BodyChanges = 2
  MaxReports = 2
  HexRun = 2
  Lefts = {10}
  Hexes = {16}
  Overheads = {102400}
  Deltas = {0}
SPECIFICATION FairSpec
CHECK_DEADLOCK FALSE
INVARIANTS
  CampaignTypeOK
  ExitTells
  SweepFinds
  CrashOnDisk
  OracleDefined
  ReportsBounded
