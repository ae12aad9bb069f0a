SPECIFICATION FairSpec
CHECK_DEADLOCK FALSE
CONSTANTS
  la = la
  lb = lb
  b1 = b1
  b2 = b2
  s1 = s1
  salt = salt
  Lanes = {la}
  LaneOf <- OwnLane
  Buys = {b1}
  Sells = {s1}
  Rests = {s1}
  Salts = {salt}
  SaltOf <- OneSalt
  Size = 1
  MaxCrashes = 1
  MaxFaults = 1
  SlowPosts = TRUE
  WrongRefusals = FALSE
  StaleListing = TRUE
  RecycleFails = TRUE
INVARIANTS
  NoFillForgotten
  OpenRowsAreDurable
PROPERTIES
  FilledBuyIsBooked
