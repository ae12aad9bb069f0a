SPECIFICATION WatchSpec
CHECK_DEADLOCK FALSE
SYMMETRY Symmetric
CONSTANTS
  s1 = s1
  s2 = s2
  Sockets = {s1, s2}
  HisSize = 10
  Amounts = {1, 4}
  FeedPerils = {}
  MaxFrames = 5
  MaxBreaks = 1
INVARIANTS
  NoFalseCancel
  CancelIsSeen
