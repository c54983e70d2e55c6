SPECIFICATION Spec
CONSTANTS
  p1 = p1
  p2 = p2
  Procs <- MCProcs
  MaxVersion = 2
  MaxDay = 1
  MaxSetBacks = 1
SYMMETRY Symmetry
INVARIANTS TypeOK NeverLost UpdateVerified RootRanVerified PartialsExplained
PROPERTIES NewsWithinADay
CHECK_DEADLOCK FALSE
