SPECIFICATION CopiesSpec
SYMMETRY Symmetry
CONSTANTS
  Sources = {w1, w2}
  HisOrders = {o1}
  HisSize = 12
  MaxTx = 2
  Fills = {2, 8}
  MaxTimes = 2
  SeenCap = 1
  Pct = 25
  Explicit = 25
  Seed = 8
  Realised = {0, 8}
  Offers <- MCOffers
  Pads = {50, 100}
  MinFillFloor = TRUE
  MinOrder = 1
  Tolerance = 150
  Perils <- MCPerils
INVARIANTS
  CallsAreReadRight
  FillsCountOnce
  CopiesWithinShare
  RateHaltIsJust
CHECK_DEADLOCK FALSE
