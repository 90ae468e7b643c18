CONSTANTS
  Proc = {p1, p2, p3}
  Nobody = Nobody
  Statements = 6
  Tables = 3
  MaxOpens = 4
  MaxCalls = 1
  MaxCrashes = 1
SPECIFICATION FairSpec
CHECK_DEADLOCK FALSE
INVARIANTS
  OpenedIsWhole
  CreatorsAgree
  HalfMadeIsRefused
PROPERTIES
  EveryOpenReturns
