SPECIFICATION FairSpec
CHECK_DEADLOCK FALSE
CONSTANTS
  l1 = l1
  l2 = l2
  b = b
  x = x
  Lanes = {l1, l2}
  Buys = {b}
  Sells = {x}
  LaneOf <- TwoLanes
  Holding <- OneEach
  Perils = {"kept", "lag", "midsale", "late"}
  MaxFaults = 1
  MaxCrashes = 1
INVARIANTS
  CreditedOnce
  Conserved
  ReleasesAreRedeemed
PROPERTIES
  ClaimsAreCredited
