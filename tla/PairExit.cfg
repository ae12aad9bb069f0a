SPECIFICATION Spec
CHECK_DEADLOCK FALSE
CONSTANTS
  a = a
  b = b
  Legs = {a, b}
  MaxHeld = 2
  MaxMerges = 2
SYMMETRY Sides
CONSTRAINT InSight
INVARIANTS
  LegsAgree
  MergedOnChain
