SPECIFICATION Spec
CONSTANTS
  Proc = {p1, p2}
  Target <- MCTarget
  Conn <- MCConn
  Key <- MCKey
  KeyOf <- MergedKeyOf
  MatchOf <- MCMatchOf
  Commands <- AllCommands
  MaxTok = 1
  MaxCred = 1
  None = None
INVARIANTS
  CredentialsMatchConnection
CHECK_DEADLOCK FALSE
