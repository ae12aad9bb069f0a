SPECIFICATION FollowFairSpec
CONSTANTS
  MaxHis = 2
  MaxTrades = 3
  SellAll = 75
  MinShares = 1
CONSTRAINT InSight
INVARIANTS
  SellsFollowHim
PROPERTIES
  OutWhenHeIsOut
CHECK_DEADLOCK FALSE
