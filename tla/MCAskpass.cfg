SPECIFICATION Spec
CONSTANTS
  Proc = {p1, p2}
SYMMETRY Interchangeable
INVARIANTS
  TypeOK
  YoungPairsAnswer
  NothingLeft
  SweepTakesOrphans
CHECK_DEADLOCK FALSE
