SPECIFICATION Spec
CONSTANTS
  Writer = {w1, w2, w3}
  Content = {c1, c2}
  Old = Old
  Absent = Absent
  Torn = Torn
  FileSync = TRUE
  DirSync = TRUE
  DiskCanFill = FALSE
SYMMETRY Interchangeable
INVARIANTS
  TypeOK
  ReturnedSurvives
PROPERTIES
  ImplementsAtomicFile
