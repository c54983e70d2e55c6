SPECIFICATION Spec
CONSTANTS
  Writer = {w1}
  Content = {c1, c2}
  Old = Old
  Absent = Absent
  Torn = Torn
  FileSync = TRUE
  DirSync = TRUE
  DiskCanFill = TRUE
INVARIANTS
  NeverTorn
