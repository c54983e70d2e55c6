SPECIFICATION Spec
CONSTANTS
  Proc = {p1, p2}
  Target <- SameTarget
  Conn <- SameConn
  Key <- SameKey
  KeyOf <- SameKeyOf
  MatchOf <- SameMatchOf
  Commands <- OnlyKubectl
  MaxTok = 1
  MaxCred = 1
  None = None
INVARIANTS
  BothTerminalsReachGateway
CHECK_DEADLOCK FALSE
