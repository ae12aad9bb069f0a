SPECIFICATION Spec
CHECK_DEADLOCK FALSE
CONSTANTS
  A = A
  B = B
  NoLane = NoLane
  b1 = b1
  b2 = b2
  b3 = b3
  x1 = x1
  x2 = x2
  Lanes = {A, B}
  Buys = {b1, b2, b3}
  Sells = {x1, x2}
  LaneOf <- Assigned
  Asks <- Sizes
  Held <- HeldByA
  MaxOpen = 2
  MaxDay = 2
CONSTRAINT InOrder
INVARIANTS
  NeverOversold
  WithinCap
  DayWithinBudget
  OneLanePerToken
