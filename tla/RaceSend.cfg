SPECIFICATION RaceSpec
CHECK_DEADLOCK FALSE
CONSTANTS
  p1 = p1
  p2 = p2
  p3 = p3
  Paths = {p1, p2, p3}
INVARIANTS
  SilenceIsNoRefusal
  RefusalIsFinal
  OutcomeIsFinal
