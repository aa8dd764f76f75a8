CONSTANTS
  SessionIDs = {s1, s2}
  MaxRegistrations = 2
  Publishers = {d1, d2}
  TotalCap = 100
  FloorCap = 7
  PayloadSizes = {8, 95}
  MaxAppends = 2
  MaxChanges = 3
  NoSession = NoSession
SPECIFICATION FairLRUSpec
INVARIANT CapOrFloor
PROPERTY BalanceEnds
CHECK_DEADLOCK FALSE
