SPECIFICATION Spec
CHECK_DEADLOCK FALSE
CONSTANTS
  la = la
  lb = lb
  b1 = b1
  b2 = b2
  s1 = s1
  salt = salt
  Lanes = {la, lb}
  LaneOf <- OwnLane
  Buys = {b1, b2}
  Sells = {}
  Rests = {b2}
  Salts = {salt}
  SaltOf <- OneSalt
  Size = 2
  MaxCrashes = 1
  MaxFaults = 1
  SlowPosts = FALSE
  WrongRefusals = FALSE
  StaleListing = FALSE
  RecycleFails = FALSE
INVARIANTS
  NoFillForgotten
  CommitmentCoversOrders
  ResolvedStaysResolved
PROPERTIES
  ExactlyOnceSpec
