SPECIFICATION FairSpec
CHECK_DEADLOCK FALSE
CONSTANTS
  N = 2
  Sells = {2}
  Size = 2
  Cap = 1
  PruneFloor = 1
  Perils = {}
  MaxEvents = 1
INVARIANTS
  ReleasedIsDead
PROPERTIES
  LiveRestsAreKnown
  NoBuyRestsUnwanted
  GoneRestsLeave
