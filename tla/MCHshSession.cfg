SPECIFICATION Spec
CONSTANTS
  Proc = {p1, p2}
  Target <- MCTarget
  Conn <- MCConn
  Key <- MCKey
  KeyOf <- ApartKeyOf
  MatchOf <- MCMatchOf
  Commands <- AllCommands
  MaxTok = 2
  MaxCred = 1
  None = None
SYMMETRY Interchangeable
INVARIANTS
  TypeOK
  CredentialsMatchConnection
  WipedIsForgotten
PROPERTIES
  ImplementsContract
CHECK_DEADLOCK FALSE
