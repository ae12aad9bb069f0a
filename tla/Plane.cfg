SPECIFICATION FairSpec
CHECK_DEADLOCK FALSE
CONSTANTS
  lane = lane
  Lanes = {lane}
  Perils <- AtOnce
  MaxEvents = 3
INVARIANTS
  BuysAreMeant
  StopsHold
  StaysOut
PROPERTIES
  WantedLanesBuy
  UnwantedLanesEnd
