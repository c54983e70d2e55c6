SPECIFICATION Spec
CONSTANTS
  Proc = {p1, p2}
  Target <- SameTarget
  Conn <- SameConn
  Key <- SameKey
  KeyOf <- SameKeyOf
  MatchOf <- SameMatchOf
  Commands <- NoLogin
  MaxTok = 2
  MaxCred = 1
  None = None
PROPERTIES
  CommandsEnd
CHECK_DEADLOCK FALSE
