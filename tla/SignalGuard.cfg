SPECIFICATION Spec
CHECK_DEADLOCK FALSE
CONSTANTS
  a = a
  b = b
  c = c
  l1 = l1
  l2 = l2
  mkt = mkt
  x = x
  y = y
  NoLane = NoLane
  NoToken = NoToken
  Salts = {a, b}
  LaneOf <- Lane
  CondOf <- Cond
  TokenOf <- Token
  Legacy = {b}
  OrderSize = 2
  TTL = 2
  ReleaseWithin = 1
  MaxTime = 3
  MaxFaults = 1
  MaxCrashes = 1
  MaxCopied = 2
INVARIANTS
  OneSidePerMarket
  BoughtWithinOrder
  RestartRemembers
