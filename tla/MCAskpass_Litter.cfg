SPECIFICATION Spec
CONSTANTS
  Proc = {p1, p2}
INVARIANTS
  SweepTakesAnything
CHECK_DEADLOCK FALSE
