-------------------------- MODULE TunnelCommands --------------------------
(***************************************************************************)
(* The commands that talk to the daemon: hsh login and logout with their   *)
(* tunnel legs, hsh tunnel login and logout, hsh setup's configuration of  *)
(* the daemon, and the commands of one request (src/commands/tunnel.ts,    *)
(* login.ts, logout.ts, setup.ts).                                         *)
(***************************************************************************)
EXTENDS CliLogin

CONSTANT Commands    \* bound: the commands that are run

VARIABLES
  cmd,       \* what each process runs
  present,   \* what daemonLooksInstalled said at the start of loginDaemon
  late,      \* the deadline of the loop it is in has passed
  told       \* it has printed that the daemon still holds its previous token

commandVars == <<cliVars, cmd, present, late, told>>

\* hsh login with or without --no-tunnel and --no-setup.
LoginCommands == {"login", "login --no-setup", "login --no-tunnel"}

\* Mutant: a path the daemon does not serve.
MisspeltRequest(command) ==
  IF command = "tunnel refresh" THEN "refresh" ELSE "config"

\* The request a command begins with.
DaemonRequest(command) ==
  CASE command = "tunnel status"      -> "status"
    [] command = "tunnel connections" -> "connections"
    [] command = "tunnel refresh"     -> "refreshConnections"
    [] command = "tunnel up"          -> "up"
    [] command = "tunnel down"        -> "down"
    [] command = "tunnel config get"  -> "config"
    [] command = "tunnel config set"  -> "updateConfig"
    [] command \in {"tunnel logout", "logout"} -> "logout"
    [] OTHER                          -> "config"

OneRequest ==
  {"tunnel status", "tunnel connections", "tunnel refresh", "tunnel up", "tunnel down",
   "tunnel config get", "tunnel config set", "tunnel logout", "logout"}

ASSUME CommandsAssumption ==
  Commands \subseteq LoginCommands \cup OneRequest
                     \cup {"logout --no-tunnel", "tunnel login", "setup"}

\* Where a process can be.
Labels == {"idle", "detect", "prompt", "serve", "loginUrl", "await", "loggedIn",
           "setup", "sudo", "setupConfig", "probe", "connect", "config", "method",
           "password", "local", "start", "poll", "report", "single", "done"}

\* The types, in the parts that steps change together.
ControlTyped ==
  /\ pc \in [Cli -> Labels]
  /\ code \in [Cli -> {0, 1}]
  /\ cmd \in [Cli -> Commands \cup {"none"}]

CliLoginTyped ==
  /\ cliToken \in Cli \cup {"none"}
  /\ settled \in [Cli -> {"no", "pending", "token", "rejected"}]
  /\ armed \in [Cli -> BOOLEAN] /\ stopping \in [Cli -> BOOLEAN]

FlagsTyped ==
  /\ present \in [Cli -> BOOLEAN] /\ late \in [Cli -> BOOLEAN]
  /\ told \in [Cli -> BOOLEAN]

CommandsTypeOK == ControlTyped /\ CliLoginTyped /\ FlagsTyped

Optional(c) == cmd[c] \in LoginCommands

unchangedLogin == UNCHANGED <<cliToken, settled, armed, stopping>>
unchangedFlags == UNCHANGED <<cmd, present, late, told>>

\* The action returns with process.exitCode set or not; the process lives on
\* until its callback server, if any, has stopped.
Return(c, n) ==
  /\ GoTo(c, "done")
  /\ code' = [code EXCEPT ![c] = IF @ = 1 THEN 1 ELSE n]

---------------------------------------------------------------------------

CommandsInit ==
  /\ pc = [c \in Cli |-> "idle"]
  /\ code = [c \in Cli |-> 0]
  /\ cliToken = "none"
  /\ settled = [c \in Cli |-> "no"]
  /\ armed = [c \in Cli |-> FALSE] /\ stopping = [c \in Cli |-> FALSE]
  /\ cmd = [c \in Cli |-> "none"]
  /\ present = [c \in Cli |-> FALSE]
  /\ late = [c \in Cli |-> FALSE] /\ told = [c \in Cli |-> FALSE]

Begin(c, command) ==
  /\ pc[c] = "idle"
  /\ cmd' = [cmd EXCEPT ![c] = command]
  /\ \/ command \in LoginCommands /\ GoTo(c, "detect") /\ UNCHANGED cliToken
     \/ command = "setup" /\ GoTo(c, "setup") /\ UNCHANGED cliToken     \* or --force
     \/ command = "setup" /\ ControlTokenPresent /\ GoTo(c, "done") /\ UNCHANGED cliToken
     \/ command = "tunnel login" /\ GoTo(c, "probe") /\ UNCHANGED cliToken
     \/ command \in OneRequest \ {"logout"} /\ GoTo(c, "connect") /\ UNCHANGED cliToken
     \/ command = "logout" /\ GoTo(c, "connect") /\ cliToken' = "none"
     \/ command = "logout --no-tunnel" /\ GoTo(c, "done") /\ cliToken' = "none"
  /\ UNCHANGED <<daemonVars, code, settled, armed, stopping, present, late, told>>

\* After the CLI's own login: hsh setup when it is wanted, then the daemon's login,
\* unless --no-tunnel.  No controlling terminal, or no daemon for this platform: a
\* hint at most.
AfterLogin(c) ==
  /\ pc[c] = "loggedIn"
  /\ \/ cmd[c] = "login --no-tunnel" /\ GoTo(c, "done")
     \/ cmd[c] = "login" /\ ~ControlTokenPresent /\ GoTo(c, "setup")
     \/ cmd[c] # "login --no-tunnel" /\ GoTo(c, "probe")
  /\ UNCHANGED <<daemonVars, code>> /\ unchangedLogin /\ unchangedFlags

\* The daemon is downloaded and verified, which has timeouts; sudo, which asks for
\* a password, has none.
DaemonFetched(c) ==
  /\ pc[c] = "setup"
  /\ GoTo(c, "sudo")
  /\ UNCHANGED <<daemonVars, code>> /\ unchangedLogin /\ unchangedFlags

SetupFails(c) ==
  /\ pc[c] \in {"setup", "sudo"}
  /\ IF cmd[c] = "setup" THEN ExitNow(c, 1) /\ UNCHANGED <<cliToken, settled>>
     ELSE /\ code' = [code EXCEPT ![c] = 1] /\ GoTo(c, "probe")
          /\ UNCHANGED port /\ unchangedLogin
  /\ UNCHANGED <<daemonState, requestState, held, faults>> /\ unchangedFlags

\* sudo hsh-tunneld install registers and starts the service; then the gateway
\* is handed to it, if this session may already read the control token.
SetupInstalls(c) ==
  /\ pc[c] = "sudo"
  /\ installed' = TRUE /\ Launch
  /\ IF readable
     THEN /\ GoTo(c, "setupConfig") /\ Send(c, "config")
          /\ held' = [held EXCEPT ![c] = key']
     ELSE /\ GoTo(c, IF cmd[c] = "setup" THEN "done" ELSE "probe")
          /\ UNCHANGED <<asked, held>>
  /\ UNCHANGED <<readable, apiUrl, token, faults, code>>
  /\ unchangedLogin /\ unchangedFlags

\* A daemon that already has a gateway keeps it; failures are ignored.
ConfigureDaemon(c) ==
  /\ pc[c] = "setupConfig"
  /\ \/ /\ Answered(c, "config") /\ answer[c] = "unset"
        /\ TakeAndAsk(c, "updateConfig")
        /\ UNCHANGED pc
     \/ /\ Answered(c, "updateConfig") \/ (Answered(c, "config") /\ answer[c] # "unset")
        /\ Take(c)
        /\ GoTo(c, IF cmd[c] = "setup" THEN "done" ELSE "probe")
  /\ UNCHANGED <<daemonState, port, faults, code>> /\ unchangedLogin /\ unchangedFlags

---------------------------------------------------------------------------
(* loginDaemon *)

ProbeDaemon(c) ==
  /\ pc[c] = "probe"
  /\ present' = [present EXCEPT ![c] = DaemonLooksInstalled]
  /\ GoTo(c, "connect")
  /\ UNCHANGED <<daemonVars, code, cmd, late, told>> /\ unchangedLogin

\* Mutant: every optional login is skipped silently.
SkipWhenOptional(c) ==
  IF Optional(c) THEN Return(c, 0) /\ UNCHANGED told
  ELSE Return(c, 1) /\ UNCHANGED told

\* skipOrFail: silent only for an optional login and a daemon that looked absent.
SkipOrFail(c) ==
  IF Optional(c) /\ ~present[c]
  THEN Return(c, 0) /\ UNCHANGED told
  ELSE Return(c, 1) /\ told' = [told EXCEPT ![c] = Optional(c)]

\* TunnelClient.connect: the control token is read, or the command gives up.
ConnectDaemon(c) ==
  /\ pc[c] = "connect" /\ ReadControlToken
  /\ Connect(c)
  /\ Send(c, DaemonRequest(cmd[c]))
  /\ GoTo(c, IF cmd[c] \in OneRequest THEN "single" ELSE "config")
  /\ UNCHANGED <<daemonState, port, answer, faults, code>>
  /\ unchangedLogin /\ unchangedFlags

\* It gives up: no control token, or a key that config set does not know.
CannotConnect(c) ==
  /\ pc[c] = "connect"
  /\ \/ ~ReadControlToken /\ Optional(c) /\ SkipOrFail(c)
     \/ ~ReadControlToken /\ cmd[c] = "logout" /\ Return(c, 0) /\ UNCHANGED told
     \/ /\ cmd[c] = "tunnel config set" \/ (~ReadControlToken /\ ~Optional(c) /\ cmd[c] # "logout")
        /\ Return(c, 1) /\ UNCHANGED told
  /\ UNCHANGED <<daemonVars, cmd, present, late>> /\ unchangedLogin

CheckConfig(c) ==
  /\ pc[c] = "config" /\ Answered(c, "config")
  /\ Take(c)
  /\ \/ answer[c] = "set" /\ GoTo(c, "method") /\ UNCHANGED <<code, told>>
     \/ answer[c] = "unset" /\ Return(c, 1) /\ UNCHANGED told
     \/ answer[c] = "failed" /\ SkipOrFail(c)
  /\ UNCHANGED <<daemonState, port, faults, cmd, present, late>> /\ unchangedLogin

\* The gateway's method: SAML and the rest, and a local gateway without users, fail.
DaemonMethod(c) ==
  /\ pc[c] = "method"
  /\ \E method \in AuthMethods :
       \/ /\ method = "local" /\ GoTo(c, "password")
          /\ UNCHANGED <<requestState, held, code, told>>
       \/ /\ method = "oidc" /\ Ask(c, "loginStart") /\ GoTo(c, "start")
          /\ UNCHANGED <<code, told>>
       \/ /\ method \in {"local", "other"} /\ Return(c, 1)
          /\ UNCHANGED <<requestState, held, told>>
       \/ method = "unknown" /\ SkipOrFail(c) /\ UNCHANGED <<requestState, held>>
  /\ UNCHANGED <<daemonState, port, faults, cmd, present, late>> /\ unchangedLogin

\* The prompts wait for the user, who may cancel.
LocalPassword(c) ==
  /\ pc[c] = "password"
  /\ \/ Ask(c, "loginLocal") /\ GoTo(c, "local") /\ UNCHANGED code
     \/ Return(c, 1) /\ UNCHANGED <<requestState, held>>
  /\ UNCHANGED <<daemonState, port, faults>> /\ unchangedLogin /\ unchangedFlags

\* reportPostLoginStatus begins: the login is done, whatever status says.
Report(c) ==
  /\ TakeAndAsk(c, "status") /\ GoTo(c, "report")
  /\ late' = [late EXCEPT ![c] = FALSE]
  /\ UNCHANGED code

LocalAnswered(c) ==
  /\ pc[c] = "local" /\ Answered(c, "loginLocal")
  /\ \/ answer[c] = "ok" /\ Report(c)
     \/ answer[c] = "failed" /\ Take(c) /\ Return(c, 1) /\ UNCHANGED late
  /\ UNCHANGED <<daemonState, port, faults, cmd, present, told>> /\ unchangedLogin

StartAnswered(c) ==
  /\ pc[c] = "start" /\ Answered(c, "loginStart")
  /\ \/ /\ answer[c] = "started"
        /\ TakeAndAsk(c, "loginPoll") /\ GoTo(c, "poll")
        /\ late' = [late EXCEPT ![c] = FALSE]
        /\ UNCHANGED code
     \/ answer[c] = "failed" /\ Take(c) /\ Return(c, 1) /\ UNCHANGED late
  /\ UNCHANGED <<daemonState, port, faults, cmd, present, told>> /\ unchangedLogin

\* Mutant: an error of the poll loop is reported like one before the login.
PollErrorIsSkip(c) ==
  /\ pc[c] = "poll" /\ Answered(c, "loginPoll")
  /\ \/ answer[c] = "done" /\ Report(c) /\ UNCHANGED told
     \/ /\ answer[c] = "pending" /\ ~late[c]
        /\ TakeAndAsk(c, "loginPoll")
        /\ UNCHANGED <<pc, code, late, told>>
     \/ /\ answer[c] \in {"error", "failed"} \/ (answer[c] = "pending" /\ late[c])
        /\ Take(c) /\ SkipOrFail(c)
        /\ UNCHANGED late
  /\ UNCHANGED <<daemonState, port, faults, cmd, present>> /\ unchangedLogin

\* One round of the poll loop: a pending login is asked for again a second later
\* unless --timeout has passed; one failed poll ends the loop.
PollAnswered(c) ==
  /\ pc[c] = "poll" /\ Answered(c, "loginPoll")
  /\ \/ answer[c] = "done" /\ Report(c)
     \/ /\ answer[c] = "pending" /\ ~late[c]
        /\ TakeAndAsk(c, "loginPoll")
        /\ UNCHANGED <<pc, code, late>>
     \/ /\ answer[c] \in {"error", "failed"} \/ (answer[c] = "pending" /\ late[c])
        /\ Take(c) /\ Return(c, 1)
        /\ UNCHANGED late
  /\ UNCHANGED <<daemonState, port, faults, cmd, present, told>> /\ unchangedLogin

DeadlinePasses(c) ==
  /\ pc[c] \in {"poll", "report"} /\ ~late[c]
  /\ late' = [late EXCEPT ![c] = TRUE]
  /\ UNCHANGED <<daemonVars, pc, code, cmd, present, told>> /\ unchangedLogin

\* Up, or not up with a reason, ends the report; so do five seconds.
StatusReported(c) ==
  /\ pc[c] = "report" /\ Answered(c, "status")
  /\ \/ /\ ~late[c] /\ answer[c] # "running"
        /\ TakeAndAsk(c, "status")
        /\ UNCHANGED <<pc, code>>
     \/ /\ late[c] \/ answer[c] # "failed"
        /\ Take(c) /\ Return(c, 0)
  /\ UNCHANGED <<daemonState, port, faults>> /\ unchangedLogin /\ unchangedFlags

\* hsh logout has cleared its own files and ignores what the daemon says.
SingleAnswered(c) ==
  /\ pc[c] = "single" /\ HasAnswer(c)
  /\ Take(c)
  /\ Return(c, IF answer[c] = "failed" /\ cmd[c] # "logout" THEN 1 ELSE 0)
  /\ UNCHANGED <<daemonState, port, faults>> /\ unchangedLogin /\ unchangedFlags

\* What a command does by itself; a password it asks for is the user's.
CommandRuns(c) ==
  \/ AfterLogin(c) \/ DaemonFetched(c) \/ ConfigureDaemon(c) \/ ProbeDaemon(c)
  \/ ConnectDaemon(c) \/ CannotConnect(c) \/ CheckConfig(c) \/ DaemonMethod(c)
  \/ LocalAnswered(c) \/ StartAnswered(c) \/ PollAnswered(c) \/ StatusReported(c)
  \/ SingleAnswered(c)

CommandStep(c) ==
  CommandRuns(c) \/ SetupFails(c) \/ SetupInstalls(c) \/ LocalPassword(c)
===========================================================================
