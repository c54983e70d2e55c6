SPECIFICATION FairSpec
CONSTANTS
  c1 = c1
  r1 = r1
  r2 = r2
  si = si
  so = so
  Cli <- MCCli
  Chains <- MCChains
  Clients <- MCClients
  SignIn <- si
  SignOut <- so
  OldLogin = old
  MaxFaults = 1
  MaxClicks = 1
  Commands = {"login", "login --no-setup", "login --no-tunnel", "logout", "logout --no-tunnel", "tunnel login", "setup", "tunnel status", "tunnel connections", "tunnel refresh", "tunnel up", "tunnel down", "tunnel config get", "tunnel config set", "tunnel logout"}
  BesidePage = {"tunnel logout"}
INVARIANTS TypeOK SuccessIsAccepted ToldIsUntouched RejectedNeverSaved PageHonest
PROPERTIES CommandsEnd PageSettles
CHECK_DEADLOCK FALSE
