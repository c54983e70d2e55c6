---------------------------- MODULE TunnelProofs ----------------------------
(***************************************************************************)
(* What the commands, the page and the daemon guarantee together, for any  *)
(* number of commands, refreshes, clicks and faults.                       *)
(***************************************************************************)
EXTENDS TunnelSystem, TLAPS

USE DEF daemonState, requestState, daemonVars, cliVars, commandVars, pageVars, view,
        unchangedLogin, unchangedFlags, GoTo, Return, ExitNow

\* A client that asks for nothing has no answer, and the list of the page is
\* painted from an answer to the request for it.
Fits(c) ==
  /\ asked[c] = "nothing" => answer[c] = "none"
  /\ asked[c] = "connections" => answer[c] \in {"none", "stalled", "failed", "some", "empty"}

\* A command has a request in flight only where it waits for its answer.
Waiting == {"setupConfig", "config", "local", "start", "poll", "report", "single"}
Waits(c) == pc[c] \notin Waiting => asked[c] = "nothing"

\* Until a command asks for the daemon's login none of its own has begun, and none
\* can; what it tells when it gives up is told from there.
BeforeLogin == Labels \ {"local", "start", "poll", "report", "single", "done"}
Untouched(c) ==
  /\ logins[c] = "none" /\ token # c
  /\ asked[c] \notin {"loginStart", "loginLocal"}
Tells(c) ==
  /\ pc[c] \in BeforeLogin => Untouched(c)
  /\ told[c] => pc[c] = "done" /\ Untouched(c)

\* A login that is answered or reported done is done, and only a new one, which
\* nobody starts by then, would undo it.
Accepted(c) ==
  /\ asked[c] = "loginStart" => pc[c] = "start"
  /\ asked[c] = "loginPoll" /\ answer[c] = "done" => logins[c] = "done"
  /\ asked[c] = "loginLocal" /\ answer[c] = "ok" => logins[c] = "done"
  /\ pc[c] = "report" => logins[c] = "done"
  /\ pc[c] = "single" => cmd[c] \in OneRequest
  /\ pc[c] = "done" /\ DaemonLogin(c) /\ code[c] = 0 =>
       logins[c] = "done" \/ (Optional(c) /\ ~present[c])

\* A token is saved without a callback server or after its promise got it.
BeforeServer == {"idle", "detect", "prompt", "serve"}
Saved(c) ==
  /\ pc[c] \in BeforeServer => settled[c] = "no"
  /\ cliToken = c => /\ pc[c] \notin BeforeServer \cup {"loginUrl", "await"}
                     /\ settled[c] \in {"no", "token"}

Commanded(c) == Waits(c) /\ Tells(c) /\ Accepted(c) /\ Saved(c)

TunnelInv ==
  /\ TypeOK
  /\ \A c \in Clients : Fits(c)
  /\ \A c \in Cli : Commanded(c)
  /\ PageHonest

-----------------------------------------------------------------------------
(* The steps.                                                              *)

Begins(c) == \E command \in Commands : Begin(c, command)
LoginMoves(c) == LoginStep(c) \/ Callback(c) \/ CallbackTimeout(c) \/ StopServer(c)
CommandMoves(c) == CommandStep(c) \/ DeadlinePasses(c) \/ Begins(c)
PageMoves == PageReacts \/ PageUser \/ VisibilityChanges

\* Every step is one of the daemon, of a command on one of its legs, of the page,
\* or none.
LEMMA NextCases ==
  ASSUME [Next]_vars
  PROVE  \/ DaemonNext /\ UNCHANGED <<commandVars, pageVars>>
         \/ \E c \in Cli : LoginMoves(c) /\ UNCHANGED <<cmd, present, late, told, pageVars>>
         \/ \E c \in Cli : CommandMoves(c) /\ UNCHANGED pageVars
         \/ PageMoves /\ UNCHANGED commandVars
         \/ UNCHANGED vars
  BY Zenon DEF Next, User, Timers, LoginLeg, TunnelLeg, DaemonPart, PagePart, Begins,
     LoginMoves, CommandMoves, PageMoves

\* The clients of the daemon are the commands and the three parts of the page.
LEMMA WhoAsks ==
  /\ Cli \subseteq Clients /\ Chains \subseteq Clients
  /\ SignIn \in Clients \ Cli /\ SignOut \in Clients \ Cli
  /\ SignIn # SignOut /\ SignIn \notin Chains /\ SignOut \notin Chains
  /\ Cli \cap Chains = {}
  /\ \A c \in Clients : c \notin {OldLogin, "none", "free", "daemon", "other"}
  BY DaemonAssumption, PageAssumption, SystemAssumption DEF PageClients

-----------------------------------------------------------------------------
(* Types.                                                                  *)

\* The initial states have the types.
LEMMA InitTyped == Init => TypeOK
  <1>. SUFFICES ASSUME Init PROVE TypeOK
    OBVIOUS
  <1>1. ServiceTyped
    <2>1. 0 \in 0..MaxFaults
      BY DaemonAssumption
    <2>2. \A b : b \in (IF installed THEN BOOLEAN ELSE {FALSE}) => b \in BOOLEAN
      OBVIOUS
    <2>. QED
      BY <2>1, <2>2 DEF Init, DaemonInit, ServiceTyped
  <1>2. LoginsTyped
    BY DEF Init, DaemonInit, LoginsTyped, LoginStates
  <1>3. RequestsTyped
    BY DEF Init, DaemonInit, RequestsTyped
  <1>4. CommandsTypeOK
    BY DEF Init, CommandsInit, CommandsTypeOK, ControlTyped, CliLoginTyped, FlagsTyped, Labels
  <1>5. PageTypeOK
    <2>1. 0 \in 0..MaxClicks
      BY PageAssumption
    <2>. QED
      BY <2>1 DEF Init, PageInit, PageTypeOK
  <1>. QED
    BY <1>1, <1>2, <1>3, <1>4, <1>5 DEF TypeOK, DaemonTypeOK

\* What is counted is counted up to its bound.
LEMMA Bounds ==
  /\ \A n \in 0..MaxFaults : n < MaxFaults => n + 1 \in 0..MaxFaults
  /\ \A n \in 0..MaxClicks : n < MaxClicks => n + 1 \in 0..MaxClicks
  BY DaemonAssumption, PageAssumption

\* The daemon's steps keep the types of the service.
LEMMA DaemonService ==
  ASSUME TypeOK, DaemonNext
  PROVE  ServiceTyped'
  <1>. USE Bounds DEF TypeOK, DaemonTypeOK, ServiceTyped, LoginsTyped
  <1>1. ASSUME NEW c \in Clients, Serve(c) PROVE ServiceTyped'
    BY <1>1 DEF Serve, Handle, AcceptLogin
  <1>2. ASSUME NEW c \in Clients, Refuse(c) PROVE ServiceTyped'
    BY <1>2 DEF Refuse
  <1>3. ASSUME NEW c \in Clients, Fail(c) PROVE ServiceTyped'
    <2>1. faults' \in 0..MaxFaults
      BY <1>3 DEF Fail
    <2>2. CASE UNCHANGED <<daemonState, port>>
      BY <2>1, <2>2
    <2>3. CASE \E a \in Answers : Handle(c, a)
      <3>1. apiUrl' \in BOOLEAN /\ running' \in BOOLEAN
        BY <2>3 DEF Handle, AcceptLogin
      <3>. QED
        BY <2>1, <2>3, <3>1 DEF Handle
    <2>. QED
      BY <1>3, <2>2, <2>3 DEF Fail
  <1>4. ASSUME NEW c \in Clients, BrowserReturns(c) PROVE ServiceTyped'
    BY <1>4 DEF BrowserReturns, AcceptLogin
  <1>5. ASSUME NEW c \in Clients, LoginExpires(c) PROVE ServiceTyped'
    BY <1>5 DEF LoginExpires
  <1>6. ASSUME Stop PROVE ServiceTyped'
    <2>1. faults' \in 0..MaxFaults
      BY <1>6 DEF Stop
    <2>. QED
      BY <1>6, <2>1 DEF Stop
  <1>7. ASSUME Start PROVE ServiceTyped'
    BY <1>7 DEF Start, Launch, LoseLogins, BreakOff
  <1>. QED
    BY <1>1, <1>2, <1>3, <1>4, <1>5, <1>6, <1>7 DEF DaemonNext

\* They keep those of the logins.
LEMMA DaemonLogins ==
  ASSUME TypeOK, DaemonNext
  PROVE  LoginsTyped'
  <1>. USE DEF TypeOK, DaemonTypeOK, CommandsTypeOK, LoginsTyped, LoginStates
  <1>1. ASSUME NEW c \in Clients, Serve(c) PROVE LoginsTyped'
    BY <1>1 DEF Serve, Handle, AcceptLogin
  <1>2. ASSUME NEW c \in Clients, Fail(c) PROVE LoginsTyped'
    BY <1>2 DEF Fail, Handle, AcceptLogin
  <1>3. ASSUME NEW c \in Clients, BrowserReturns(c) PROVE LoginsTyped'
    BY <1>3 DEF BrowserReturns, AcceptLogin
  <1>4. ASSUME NEW c \in Clients, LoginExpires(c) PROVE LoginsTyped'
    BY <1>4 DEF LoginExpires
  <1>5. ASSUME Stop PROVE LoginsTyped'
    BY <1>5 DEF Stop, LoseLogins, BreakOff
  <1>6. ASSUME Start PROVE LoginsTyped'
    BY <1>6 DEF Start, Launch, LoseLogins, BreakOff
  <1>7. ASSUME NEW c \in Clients, Refuse(c) PROVE LoginsTyped'
    BY <1>7 DEF Refuse
  <1>. QED
    BY <1>1, <1>2, <1>3, <1>4, <1>5, <1>6, <1>7 DEF DaemonNext

\* They answer with answers.
LEMMA DaemonRequests ==
  ASSUME TypeOK, DaemonNext
  PROVE  RequestsTyped'
  <1>. USE DEF TypeOK, DaemonTypeOK, CommandsTypeOK, RequestsTyped, Answers
  <1>1. ASSUME NEW c \in Clients, Serve(c) PROVE RequestsTyped'
    BY <1>1 DEF Serve, Handle, AcceptLogin
  <1>2. ASSUME NEW c \in Clients, Fail(c) PROVE RequestsTyped'
    BY <1>2 DEF Fail, Handle, AcceptLogin
  <1>3. ASSUME NEW c \in Clients, Refuse(c) PROVE RequestsTyped'
    BY <1>3 DEF Refuse
  <1>4. ASSUME NEW c \in Clients, BrowserReturns(c) PROVE RequestsTyped'
    BY <1>4 DEF BrowserReturns, AcceptLogin
  <1>5. ASSUME NEW c \in Clients, LoginExpires(c) PROVE RequestsTyped'
    BY <1>5 DEF LoginExpires
  <1>6. ASSUME Stop \/ Start PROVE RequestsTyped'
    BY <1>6 DEF Stop, LoseLogins, BreakOff, Start, Launch
  <1>. QED
    BY <1>1, <1>2, <1>3, <1>4, <1>5, <1>6 DEF DaemonNext

\* The first leg of a login leaves the daemon alone, but for the port.
LEMMA LoginPort ==
  ASSUME TypeOK, NEW c \in Cli, LoginMoves(c)
  PROVE  LoginsTyped' /\ UNCHANGED <<daemonState, requestState, held, faults>>
  <1>. USE WhoAsks DEF TypeOK, DaemonTypeOK, CommandsTypeOK, LoginsTyped
  <1>1. ASSUME DetectMethod(c)
        PROVE  LoginsTyped' /\ UNCHANGED <<daemonState, requestState, held, faults>>
    BY <1>1 DEF DetectMethod
  <1>2. ASSUME LocalLogin(c)
        PROVE  LoginsTyped' /\ UNCHANGED <<daemonState, requestState, held, faults>>
    BY <1>2 DEF LocalLogin, Save
  <1>3. ASSUME StartCallbackServer(c)
        PROVE  LoginsTyped' /\ UNCHANGED <<daemonState, requestState, held, faults>>
    BY <1>3 DEF StartCallbackServer
  <1>4. ASSUME FetchLoginUrl(c)
        PROVE  LoginsTyped' /\ UNCHANGED <<daemonState, requestState, held, faults>>
    BY <1>4 DEF FetchLoginUrl
  <1>5. ASSUME CallbackTimeout(c)
        PROVE  LoginsTyped' /\ UNCHANGED <<daemonState, requestState, held, faults>>
    BY <1>5 DEF CallbackTimeout
  <1>6. ASSUME StopServer(c)
        PROVE  LoginsTyped' /\ UNCHANGED <<daemonState, requestState, held, faults>>
    BY <1>6 DEF StopServer
  <1>7. ASSUME LoginRejected(c)
        PROVE  LoginsTyped' /\ UNCHANGED <<daemonState, requestState, held, faults>>
    BY <1>7 DEF LoginRejected
  <1>8. ASSUME ReceiveToken(c) \/ Callback(c)
        PROVE  LoginsTyped' /\ UNCHANGED <<daemonState, requestState, held, faults>>
    BY <1>8 DEF ReceiveToken, Save, Callback, Settle, TokenlessCallback
  <1>. QED
    BY <1>1, <1>2, <1>3, <1>4, <1>5, <1>6, <1>7, <1>8 DEF LoginMoves, LoginStep, LoginRuns

\* It is always at one of its labels.
LEMMA LoginControl ==
  ASSUME TypeOK, cmd' = cmd, NEW c \in Cli, LoginMoves(c)
  PROVE  ControlTyped'
  <1>. USE DEF TypeOK, DaemonTypeOK, CommandsTypeOK, ControlTyped, Labels
  <1>1. ASSUME DetectMethod(c) PROVE ControlTyped'
    BY <1>1 DEF DetectMethod
  <1>2. ASSUME LocalLogin(c) PROVE ControlTyped'
    BY <1>2 DEF LocalLogin, Save
  <1>3. ASSUME StartCallbackServer(c) PROVE ControlTyped'
    BY <1>3 DEF StartCallbackServer
  <1>4. ASSUME FetchLoginUrl(c) PROVE ControlTyped'
    BY <1>4 DEF FetchLoginUrl
  <1>5. ASSUME ReceiveToken(c) PROVE ControlTyped'
    BY <1>5 DEF ReceiveToken, Save
  <1>6. ASSUME LoginRejected(c) PROVE ControlTyped'
    BY <1>6 DEF LoginRejected
  <1>7. ASSUME Callback(c) \/ CallbackTimeout(c) \/ StopServer(c) PROVE ControlTyped'
    BY <1>7 DEF Callback, Settle, TokenlessCallback, CallbackTimeout, StopServer
  <1>. QED
    BY <1>1, <1>2, <1>3, <1>4, <1>5, <1>6, <1>7 DEF LoginMoves, LoginStep, LoginRuns

\* Its promise and its timers have their types.
LEMMA LoginTypes ==
  ASSUME TypeOK, NEW c \in Cli, LoginMoves(c)
  PROVE  CliLoginTyped'
  <1>. USE DEF TypeOK, DaemonTypeOK, CommandsTypeOK, CliLoginTyped
  <1>1. ASSUME DetectMethod(c) PROVE CliLoginTyped'
    BY <1>1 DEF DetectMethod
  <1>2. ASSUME LocalLogin(c) PROVE CliLoginTyped'
    BY <1>2 DEF LocalLogin, Save
  <1>3. ASSUME StartCallbackServer(c) PROVE CliLoginTyped'
    BY <1>3 DEF StartCallbackServer
  <1>4. ASSUME FetchLoginUrl(c) PROVE CliLoginTyped'
    BY <1>4 DEF FetchLoginUrl
  <1>5. ASSUME ReceiveToken(c) PROVE CliLoginTyped'
    BY <1>5 DEF ReceiveToken, Save
  <1>6. ASSUME LoginRejected(c) PROVE CliLoginTyped'
    BY <1>6 DEF LoginRejected
  <1>7. ASSUME Callback(c) PROVE CliLoginTyped'
    BY <1>7 DEF Callback, Settle, TokenlessCallback
  <1>8. ASSUME CallbackTimeout(c) PROVE CliLoginTyped'
    BY <1>8 DEF CallbackTimeout
  <1>9. ASSUME StopServer(c) PROVE CliLoginTyped'
    BY <1>9 DEF StopServer
  <1>. QED
    BY <1>1, <1>2, <1>3, <1>4, <1>5, <1>6, <1>7, <1>8, <1>9 DEF LoginMoves, LoginStep, LoginRuns

\* A command's steps keep the types of the service.
LEMMA CommandService ==
  ASSUME TypeOK, NEW c \in Cli, CommandMoves(c)
  PROVE  ServiceTyped'
  <1>. USE DEF TypeOK, DaemonTypeOK, CommandsTypeOK, ServiceTyped, LoginsTyped
  <1>1. ASSUME SetupInstalls(c) PROVE ServiceTyped'
    BY <1>1 DEF SetupInstalls, Launch, LoseLogins, BreakOff, Send
  <1>2. ASSUME Begins(c) \/ AfterLogin(c) \/ DaemonFetched(c) \/ SetupFails(c)
        PROVE  ServiceTyped'
    BY <1>2 DEF Begins, Begin, AfterLogin, DaemonFetched, SetupFails
  <1>3. ASSUME ConfigureDaemon(c) \/ ProbeDaemon(c) \/ ConnectDaemon(c)
        PROVE  ServiceTyped'
    BY <1>3 DEF ConfigureDaemon, Answered, TakeAndAsk, Take, Send, ProbeDaemon,
       ConnectDaemon, Connect
  <1>4. ASSUME CannotConnect(c) \/ CheckConfig(c) \/ DaemonMethod(c) \/ LocalAnswered(c)
        PROVE  ServiceTyped'
    BY <1>4 DEF CannotConnect, SkipOrFail, CheckConfig, Take, DaemonMethod, Ask, Send,
       LocalAnswered, Answered, Report, TakeAndAsk
  <1>5. ASSUME StartAnswered(c) \/ PollAnswered(c) \/ StatusReported(c) \/
              SingleAnswered(c) \/ DeadlinePasses(c) \/ LocalPassword(c)
        PROVE  ServiceTyped'
    BY <1>5 DEF StartAnswered, Answered, TakeAndAsk, Take, Send, PollAnswered, Report,
       StatusReported, SingleAnswered, DeadlinePasses, LocalPassword, Ask
  <1>. QED
    BY <1>1, <1>2, <1>3, <1>4, <1>5 DEF CommandMoves, CommandStep, CommandRuns

\* They keep those of the logins.
LEMMA CommandLogins ==
  ASSUME TypeOK, NEW c \in Cli, CommandMoves(c)
  PROVE  LoginsTyped'
  <1>. USE WhoAsks DEF TypeOK, DaemonTypeOK, CommandsTypeOK, LoginsTyped, LoginStates
  <1>1. ASSUME SetupInstalls(c) PROVE LoginsTyped'
    BY <1>1 DEF SetupInstalls, Launch, LoseLogins, BreakOff, Send
  <1>2. ASSUME SetupFails(c) PROVE LoginsTyped'
    BY <1>2 DEF SetupFails
  <1>3. ASSUME Begins(c) \/ AfterLogin(c) \/ DaemonFetched(c) \/ ConfigureDaemon(c) \/
              ProbeDaemon(c) \/ ConnectDaemon(c) \/ CannotConnect(c) \/ CheckConfig(c)
              \/ DaemonMethod(c) \/ LocalAnswered(c) \/ StartAnswered(c) \/
              PollAnswered(c) \/ StatusReported(c) \/ SingleAnswered(c) \/
              DeadlinePasses(c) \/ LocalPassword(c)
        PROVE  LoginsTyped'
    BY <1>3 DEF Begins, Begin, AfterLogin, DaemonFetched, ConfigureDaemon, Answered,
       TakeAndAsk, Take, Send, ProbeDaemon, ConnectDaemon, Connect, CannotConnect,
       SkipOrFail, CheckConfig, DaemonMethod, Ask, LocalAnswered, Report, StartAnswered,
       PollAnswered, StatusReported, SingleAnswered, DeadlinePasses, LocalPassword
  <1>. QED
    BY <1>1, <1>2, <1>3 DEF CommandMoves, CommandStep, CommandRuns

\* A command asks for what the daemon serves.
LEMMA CommandRequests ==
  ASSUME TypeOK, NEW c \in Cli, CommandMoves(c)
  PROVE  RequestsTyped'
  <1>. USE WhoAsks DEF TypeOK, DaemonTypeOK, CommandsTypeOK, ServiceTyped, RequestsTyped
  <1>1. ASSUME SetupInstalls(c) PROVE RequestsTyped'
    <2>1. answer' \in [Clients -> Answers \cup {"none", "stalled"}]
      BY <1>1 DEF SetupInstalls, Launch, BreakOff, Answers
    <2>2. key' \in {0, 1}
      BY <1>1 DEF SetupInstalls, Launch
    <2>3. asked' = asked \/ asked' = [asked EXCEPT ![c] = "config"]
      BY <1>1 DEF SetupInstalls, Send
    <2>4. held' = held \/ held' = [held EXCEPT ![c] = key']
      BY <1>1 DEF SetupInstalls
    <2>5. asked' \in [Clients -> Requests \cup {"nothing"}]
      BY <2>3 DEF Requests
    <2>6. held' \in [Clients -> {0, 1}]
      BY <2>2, <2>4
    <2>. QED
      BY <2>1, <2>5, <2>6
  <1>2. ASSUME ConfigureDaemon(c) PROVE RequestsTyped'
    BY <1>2 DEF ConfigureDaemon, Answered, TakeAndAsk, Take, Send, Requests
  <1>3. ASSUME ConnectDaemon(c) PROVE RequestsTyped'
    <2>1. DaemonRequest(cmd[c]) \in Requests
      BY DEF DaemonRequest, Requests
    <2>. QED
      BY <1>3, <2>1 DEF ConnectDaemon, Connect, Send
  <1>4. ASSUME CheckConfig(c) PROVE RequestsTyped'
    BY <1>4 DEF CheckConfig, SkipOrFail, Take, Requests
  <1>5. ASSUME DaemonMethod(c) PROVE RequestsTyped'
    BY <1>5 DEF DaemonMethod, SkipOrFail, Ask, Send, Requests
  <1>6. ASSUME LocalAnswered(c) PROVE RequestsTyped'
    BY <1>6 DEF LocalAnswered, Answered, Report, TakeAndAsk, Take, Send, Requests
  <1>7. ASSUME StartAnswered(c) PROVE RequestsTyped'
    BY <1>7 DEF StartAnswered, Answered, TakeAndAsk, Take, Send, Requests
  <1>8. ASSUME PollAnswered(c) PROVE RequestsTyped'
    BY <1>8 DEF PollAnswered, Answered, Report, TakeAndAsk, Take, Send, Requests
  <1>9. ASSUME StatusReported(c) PROVE RequestsTyped'
    BY <1>9 DEF StatusReported, Answered, TakeAndAsk, Take, Send, Requests
  <1>10. ASSUME SingleAnswered(c) PROVE RequestsTyped'
    BY <1>10 DEF SingleAnswered, Take, Requests
  <1>11. ASSUME Begins(c) \/ AfterLogin(c) \/ DaemonFetched(c) \/ SetupFails(c) \/
              ProbeDaemon(c) \/ CannotConnect(c) \/ DeadlinePasses(c)
        PROVE  RequestsTyped'
    BY <1>11 DEF Begins, Begin, AfterLogin, DaemonFetched, SetupFails, ProbeDaemon,
       CannotConnect, SkipOrFail, DeadlinePasses
  <1>12. ASSUME LocalPassword(c) PROVE RequestsTyped'
    BY <1>12 DEF LocalPassword, Ask, Send, Requests
  <1>. QED
    BY <1>1, <1>2, <1>3, <1>4, <1>5, <1>6, <1>7, <1>8, <1>9, <1>10, <1>11, <1>12 DEF
       CommandMoves, CommandStep, CommandRuns

\* It is always at one of its labels.
LEMMA CommandControl ==
  ASSUME TypeOK, NEW c \in Cli, CommandMoves(c)
  PROVE  ControlTyped'
  <1>. USE DEF TypeOK, DaemonTypeOK, CommandsTypeOK, ControlTyped, Labels
  <1>1. ASSUME Begins(c) PROVE ControlTyped'
    BY <1>1, ZenonT(60) DEF Begins, Begin
  <1>2. ASSUME AfterLogin(c) PROVE ControlTyped'
    BY <1>2 DEF AfterLogin
  <1>3. ASSUME DaemonFetched(c) PROVE ControlTyped'
    BY <1>3 DEF DaemonFetched
  <1>4. ASSUME SetupFails(c) PROVE ControlTyped'
    BY <1>4 DEF SetupFails
  <1>5. ASSUME SetupInstalls(c) PROVE ControlTyped'
    BY <1>5 DEF SetupInstalls, Launch, LoseLogins, BreakOff, Send
  <1>6. ASSUME ConfigureDaemon(c) PROVE ControlTyped'
    BY <1>6 DEF ConfigureDaemon, Answered, TakeAndAsk, Take, Send
  <1>7. ASSUME ProbeDaemon(c) PROVE ControlTyped'
    BY <1>7 DEF ProbeDaemon
  <1>8. ASSUME ConnectDaemon(c) PROVE ControlTyped'
    BY <1>8 DEF ConnectDaemon, Connect, Send
  <1>9. ASSUME CannotConnect(c) PROVE ControlTyped'
    BY <1>9 DEF CannotConnect, SkipOrFail
  <1>10. ASSUME CheckConfig(c) PROVE ControlTyped'
    BY <1>10 DEF CheckConfig, SkipOrFail, Take
  <1>11. ASSUME DaemonMethod(c) PROVE ControlTyped'
    BY <1>11 DEF DaemonMethod, SkipOrFail, Ask, Send
  <1>12. ASSUME LocalAnswered(c) PROVE ControlTyped'
    BY <1>12 DEF LocalAnswered, Answered, Report, TakeAndAsk, Take, Send
  <1>13. ASSUME StartAnswered(c) PROVE ControlTyped'
    BY <1>13 DEF StartAnswered, Answered, TakeAndAsk, Take, Send
  <1>14. ASSUME PollAnswered(c) PROVE ControlTyped'
    BY <1>14 DEF PollAnswered, Answered, Report, TakeAndAsk, Take, Send
  <1>15. ASSUME StatusReported(c) PROVE ControlTyped'
    BY <1>15 DEF StatusReported, Answered, TakeAndAsk, Take, Send
  <1>16. ASSUME SingleAnswered(c) PROVE ControlTyped'
    BY <1>16 DEF SingleAnswered, Take
  <1>17. ASSUME DeadlinePasses(c) PROVE ControlTyped'
    BY <1>17 DEF DeadlinePasses
  <1>18. ASSUME LocalPassword(c) PROVE ControlTyped'
    BY <1>18 DEF LocalPassword, Ask, Send
  <1>. QED
    BY <1>1, <1>2, <1>3, <1>4, <1>5, <1>6, <1>7, <1>8, <1>9, <1>10, <1>11, <1>12, <1>13,
       <1>14, <1>15, <1>16, <1>17, <1>18 DEF CommandMoves, CommandStep,
       CommandRuns

\* It leaves the promise and the timers alone until it exits.
LEMMA CommandLoginTypes ==
  ASSUME TypeOK, NEW c \in Cli, CommandMoves(c)
  PROVE  CliLoginTyped'
  <1>. USE DEF TypeOK, DaemonTypeOK, CommandsTypeOK, CliLoginTyped
  <1>1. ASSUME Begins(c) PROVE CliLoginTyped'
    BY <1>1 DEF Begins, Begin
  <1>2. ASSUME SetupFails(c) PROVE CliLoginTyped'
    BY <1>2 DEF SetupFails
  <1>3. ASSUME AfterLogin(c) \/ DaemonFetched(c) \/ SetupInstalls(c) \/
              ConfigureDaemon(c) \/ ProbeDaemon(c) \/ ConnectDaemon(c) \/
              CannotConnect(c) \/ CheckConfig(c) \/ DaemonMethod(c) \/ LocalAnswered(c)
              \/ StartAnswered(c) \/ PollAnswered(c) \/ StatusReported(c) \/
              SingleAnswered(c) \/ DeadlinePasses(c) \/ LocalPassword(c)
        PROVE  CliLoginTyped'
    BY <1>3 DEF AfterLogin, DaemonFetched, SetupInstalls, Launch, LoseLogins, BreakOff, Send,
       ConfigureDaemon, Answered, TakeAndAsk, Take, ProbeDaemon, ConnectDaemon, Connect,
       CannotConnect, SkipOrFail, CheckConfig, DaemonMethod, Ask, LocalAnswered, Report,
       StartAnswered, PollAnswered, StatusReported, SingleAnswered, DeadlinePasses,
       LocalPassword, Ask
  <1>. QED
    BY <1>1, <1>2, <1>3 DEF CommandMoves, CommandStep, CommandRuns

\* What it has seen and told is true or false.
LEMMA CommandFlags ==
  ASSUME TypeOK, NEW c \in Cli, CommandMoves(c)
  PROVE  FlagsTyped'
  <1>. USE DEF TypeOK, DaemonTypeOK, CommandsTypeOK, FlagsTyped, Optional,
       DaemonLooksInstalled, ServiceTyped
  <1>1. ASSUME ProbeDaemon(c) PROVE FlagsTyped'
    BY <1>1 DEF ProbeDaemon
  <1>2. ASSUME CannotConnect(c) PROVE FlagsTyped'
    BY <1>2 DEF CannotConnect, SkipOrFail
  <1>3. ASSUME CheckConfig(c) PROVE FlagsTyped'
    <2>1. told' = told \/ told' = [told EXCEPT ![c] = Optional(c)]
      BY <1>3 DEF CheckConfig, SkipOrFail, Take
    <2>2. Optional(c) \in BOOLEAN
      OBVIOUS
    <2>. QED
      BY <1>3, <2>1, <2>2 DEF CheckConfig
  <1>4. ASSUME DaemonMethod(c) PROVE FlagsTyped'
    <2>1. told' = told \/ told' = [told EXCEPT ![c] = Optional(c)]
      BY <1>4 DEF DaemonMethod, SkipOrFail, Ask, Send
    <2>2. Optional(c) \in BOOLEAN
      OBVIOUS
    <2>. QED
      BY <1>4, <2>1, <2>2 DEF DaemonMethod
  <1>5. ASSUME LocalAnswered(c) PROVE FlagsTyped'
    BY <1>5 DEF LocalAnswered, Answered, Report, TakeAndAsk, Take, Send
  <1>6. ASSUME StartAnswered(c) PROVE FlagsTyped'
    BY <1>6 DEF StartAnswered, Answered, TakeAndAsk, Take, Send
  <1>7. ASSUME PollAnswered(c) PROVE FlagsTyped'
    BY <1>7 DEF PollAnswered, Answered, Report, TakeAndAsk, Take, Send
  <1>8. ASSUME DeadlinePasses(c) PROVE FlagsTyped'
    BY <1>8 DEF DeadlinePasses
  <1>9. ASSUME Begins(c) \/ AfterLogin(c) \/ DaemonFetched(c) \/ SetupFails(c) \/
              SetupInstalls(c) \/ ConfigureDaemon(c) \/ ConnectDaemon(c) \/
              StatusReported(c) \/ SingleAnswered(c) \/ LocalPassword(c)
        PROVE  FlagsTyped'
    BY <1>9 DEF Begins, Begin, AfterLogin, DaemonFetched, SetupFails, SetupInstalls,
       Launch, LoseLogins, BreakOff, Send, ConfigureDaemon, Answered, TakeAndAsk, Take,
       ConnectDaemon, Connect, StatusReported, SingleAnswered, LocalPassword, Ask
  <1>. QED
    BY <1>1, <1>2, <1>3, <1>4, <1>5, <1>6, <1>7, <1>8, <1>9 DEF CommandMoves,
       CommandStep, CommandRuns

\* The page asks for what the daemon serves.
LEMMA PageRequests ==
  ASSUME TypeOK, PageMoves
  PROVE  RequestsTyped'
  <1>. USE WhoAsks DEF TypeOK, DaemonTypeOK, CommandsTypeOK, ServiceTyped, RequestsTyped
  <1>1. ASSUME NEW r \in Chains, StatusArrives(r) PROVE RequestsTyped'
    BY <1>1 DEF StatusArrives, ShowUnreachable, ShowStatus, EndRefresh, SchedulePoll,
       Paint, Take, TakeAndAsk, Send, PillOf, Requests
  <1>2. ASSUME NEW r \in Chains, ConnectionsArrive(r) PROVE RequestsTyped'
    BY <1>2 DEF ConnectionsArrive, EndRefresh, SchedulePoll, Take, Answered, Requests
  <1>3. ASSUME NEW r \in Chains, SignInDone(r) PROVE RequestsTyped'
    BY <1>3 DEF SignInDone, EndSignIn, TakeAndRefresh, BeginRefresh, Requests
  <1>4. ASSUME NEW r \in Chains, SignOutDone(r) PROVE RequestsTyped'
    BY <1>4 DEF SignOutDone, TakeAndRefresh, BeginRefresh, Requests
  <1>5. ASSUME NEW r \in Chains, PollTimerFires(r) PROVE RequestsTyped'
    BY <1>5 DEF PollTimerFires, BeginRefresh, Ask, Send, Requests
  <1>6. ASSUME NEW r \in Chains, Open(r) PROVE RequestsTyped'
    BY <1>6 DEF Open, BeginRefresh, Send, SchedulePoll, Requests
  <1>7. ASSUME NEW r \in Chains, ClickRetry(r) PROVE RequestsTyped'
    BY <1>7 DEF ClickRetry, Click, BeginRefresh, Ask, Send, Requests
  <1>8. ASSUME SignInFails PROVE RequestsTyped'
    BY <1>8 DEF SignInFails, EndSignIn, Take, Requests
  <1>9. ASSUME SignInWaits PROVE RequestsTyped'
    BY <1>9 DEF SignInWaits, Take, Requests
  <1>10. ASSUME SignInPolls PROVE RequestsTyped'
    BY <1>10 DEF SignInPolls, Ask, Send, Requests
  <1>11. ASSUME SignOutFails PROVE RequestsTyped'
    BY <1>11 DEF SignOutFails, Take, Requests
  <1>12. ASSUME ClickSignIn PROVE RequestsTyped'
    BY <1>12 DEF ClickSignIn, Click, Ask, Send, Requests
  <1>13. ASSUME ClickSignOut PROVE RequestsTyped'
    BY <1>13 DEF ClickSignOut, Click, Ask, Send, Requests
  <1>14. ASSUME VisibilityChanges PROVE RequestsTyped'
    BY <1>14 DEF VisibilityChanges
  <1>. QED
    BY <1>1, <1>2, <1>3, <1>4, <1>5, <1>6, <1>7, <1>8, <1>9, <1>10, <1>11, <1>12, <1>13,
       <1>14 DEF PageMoves, PageReacts, PageUser, SignInStep, SignOutStep, PollStep

\* It shows what it can show.
LEMMA PageTypes ==
  ASSUME TypeOK, \A q \in Clients : Fits(q), PageMoves
  PROVE  PageTypeOK'
  <1>. USE Bounds DEF TypeOK, PageTypeOK
  <1>1. ASSUME NEW r \in Chains, StatusArrives(r) PROVE PageTypeOK'
    BY <1>1 DEF StatusArrives, ShowUnreachable, ShowStatus, EndRefresh, SchedulePoll,
       Paint, Take, TakeAndAsk, Send, PillOf
  <1>2. ASSUME NEW r \in Chains, ConnectionsArrive(r) PROVE PageTypeOK'
    <2>1. answer[r] \in {"failed", "some", "empty"} /\ r \in Clients
      BY <1>2, WhoAsks DEF ConnectionsArrive, Answered, HasAnswer, Answers, Fits
    <2>2. list' \in {"shown", "empty", "hidden"}
      BY <1>2, <2>1 DEF ConnectionsArrive
    <2>. QED
      BY <1>2, <2>2 DEF ConnectionsArrive, EndRefresh, SchedulePoll
  <1>3. ASSUME NEW r \in Chains, SignInDone(r) PROVE PageTypeOK'
    BY <1>3, ZenonT(60) DEF SignInDone, EndSignIn, TakeAndRefresh, BeginRefresh
  <1>4. ASSUME NEW r \in Chains, SignOutDone(r) PROVE PageTypeOK'
    BY <1>4, ZenonT(60) DEF SignOutDone, TakeAndRefresh, BeginRefresh
  <1>5. ASSUME NEW r \in Chains, PollTimerFires(r) PROVE PageTypeOK'
    BY <1>5, ZenonT(60) DEF PollTimerFires, BeginRefresh, Ask, Send
  <1>6. ASSUME NEW r \in Chains, Open(r) PROVE PageTypeOK'
    BY <1>6, ZenonT(60) DEF Open, BeginRefresh, Send, SchedulePoll
  <1>7. ASSUME NEW r \in Chains, ClickRetry(r) PROVE PageTypeOK'
    <2>1. clicks' \in 0..MaxClicks
      BY <1>7 DEF ClickRetry, Click
    <2>. QED
      BY <1>7, <2>1, ZenonT(60) DEF ClickRetry, BeginRefresh
  <1>8. ASSUME SignInFails PROVE PageTypeOK'
    BY <1>8, ZenonT(60) DEF SignInFails, EndSignIn, Take
  <1>9. ASSUME SignInWaits PROVE PageTypeOK'
    BY <1>9 DEF SignInWaits, Take
  <1>10. ASSUME SignInPolls PROVE PageTypeOK'
    BY <1>10 DEF SignInPolls, Ask, Send
  <1>11. ASSUME SignOutFails PROVE PageTypeOK'
    BY <1>11 DEF SignOutFails, Take
  <1>12. ASSUME ClickSignIn PROVE PageTypeOK'
    <2>1. clicks' \in 0..MaxClicks
      BY <1>12 DEF ClickSignIn, Click
    <2>. QED
      BY <1>12, <2>1, ZenonT(60) DEF ClickSignIn
  <1>13. ASSUME ClickSignOut PROVE PageTypeOK'
    <2>1. clicks' \in 0..MaxClicks
      BY <1>13 DEF ClickSignOut, Click
    <2>. QED
      BY <1>13, <2>1, ZenonT(60) DEF ClickSignOut
  <1>14. ASSUME VisibilityChanges PROVE PageTypeOK'
    BY <1>14 DEF VisibilityChanges
  <1>. QED
    BY <1>1, <1>2, <1>3, <1>4, <1>5, <1>6, <1>7, <1>8, <1>9, <1>10, <1>11, <1>12, <1>13,
       <1>14 DEF PageMoves, PageReacts, PageUser, SignInStep, SignOutStep, PollStep

\* A page that nobody touches keeps its type.
LEMMA PageStays == ASSUME PageTypeOK, UNCHANGED pageVars PROVE PageTypeOK'
  BY ZenonT(60) DEF PageTypeOK

\* The page changes nothing of the daemon's own.
LEMMA PageLeaves ==
  ASSUME PageMoves
  PROVE  UNCHANGED <<daemonState, port, faults>>
  <1>1. ASSUME NEW r \in Chains, StatusArrives(r) \/ ConnectionsArrive(r) \/
              SignInDone(r) \/ SignOutDone(r) \/ PollTimerFires(r) \/ Open(r) \/
              ClickRetry(r)
        PROVE  UNCHANGED <<daemonState, port, faults>>
    BY <1>1 DEF StatusArrives, ShowUnreachable, ShowStatus, EndRefresh, SchedulePoll,
       Paint, Take, TakeAndAsk, Send, PillOf, ConnectionsArrive, Answered, SignInDone,
       EndSignIn, TakeAndRefresh, BeginRefresh, SignOutDone, PollTimerFires, Ask, Open,
       ClickRetry, Click
  <1>2. ASSUME SignInFails \/ SignInWaits \/ SignInPolls \/ SignOutFails \/ ClickSignIn
              \/ ClickSignOut \/ VisibilityChanges
        PROVE  UNCHANGED <<daemonState, port, faults>>
    BY <1>2 DEF SignInFails, EndSignIn, Take, SignInWaits, SignInPolls, Ask, Send,
       SignOutFails, ClickSignIn, Click, ClickSignOut, VisibilityChanges
  <1>. QED
    BY <1>1, <1>2 DEF PageMoves, PageReacts, PageUser, SignInStep, SignOutStep, PollStep

\* Every step keeps the types.
LEMMA TypeStep ==
  ASSUME TypeOK, \A c \in Clients : Fits(c), [Next]_vars PROVE TypeOK'
  <1>. USE DEF TypeOK, DaemonTypeOK, CommandsTypeOK
  <1>1. ASSUME DaemonNext, UNCHANGED <<commandVars, pageVars>> PROVE TypeOK'
    <2>1. DaemonTypeOK'
      BY <1>1, DaemonService, DaemonLogins, DaemonRequests
    <2>2. CommandsTypeOK'
      BY <1>1 DEF ControlTyped, CliLoginTyped, FlagsTyped
    <2>3. PageTypeOK'
      BY <1>1, PageStays
    <2>. QED
      BY <2>1, <2>2, <2>3
  <1>2. ASSUME NEW c \in Cli, LoginMoves(c),
               UNCHANGED <<cmd, present, late, told, pageVars>>
        PROVE  TypeOK'
    <2>1. DaemonTypeOK'
      BY <1>2, LoginPort DEF ServiceTyped, RequestsTyped
    <2>2. CommandsTypeOK'
      BY <1>2, LoginControl, LoginTypes DEF FlagsTyped
    <2>3. PageTypeOK'
      BY <1>2, PageStays
    <2>. QED
      BY <2>1, <2>2, <2>3
  <1>3. ASSUME NEW c \in Cli, CommandMoves(c), UNCHANGED pageVars PROVE TypeOK'
    <2>1. DaemonTypeOK'
      BY <1>3, CommandService, CommandLogins, CommandRequests
    <2>2. CommandsTypeOK'
      BY <1>3, CommandControl, CommandLoginTypes, CommandFlags
    <2>3. PageTypeOK'
      BY <1>3, PageStays
    <2>. QED
      BY <2>1, <2>2, <2>3
  <1>4. ASSUME PageMoves, UNCHANGED commandVars PROVE TypeOK'
    <2>1. UNCHANGED <<daemonState, port, faults>>
      BY <1>4, PageLeaves
    <2>2. DaemonTypeOK'
      BY <1>4, <2>1, PageRequests DEF ServiceTyped, LoginsTyped
    <2>3. CommandsTypeOK'
      BY <1>4 DEF ControlTyped, CliLoginTyped, FlagsTyped
    <2>4. PageTypeOK'
      BY <1>4, PageTypes
    <2>. QED
      BY <2>2, <2>3, <2>4
  <1>5. ASSUME UNCHANGED vars PROVE TypeOK'
    <2>1. DaemonTypeOK'
      BY <1>5 DEF vars, ServiceTyped, LoginsTyped, RequestsTyped
    <2>2. CommandsTypeOK'
      BY <1>5 DEF vars, ControlTyped, CliLoginTyped, FlagsTyped
    <2>3. PageTypeOK'
      BY <1>5, PageStays DEF vars
    <2>. QED
      BY <2>1, <2>2, <2>3
  <1>. QED
    BY <1>1, <1>2, <1>3, <1>4, <1>5, NextCases

-----------------------------------------------------------------------------
(* The frames: what a step leaves alone.                                   *)

\* The daemon answers what it was asked, ends a login only for the request to
\* start another, and begins none that was not asked for.
Replies(d) ==
  /\ asked'[d] = asked[d]
  /\ \/ answer'[d] = answer[d]
     \/ answer[d] = "stalled" /\ answer'[d] = "failed"
     \/ /\ answer[d] = "none" /\ asked[d] # "nothing" /\ answer'[d] # "none"
        /\ asked[d] = "connections" => answer'[d] \in {"stalled", "failed", "some", "empty"}
        /\ asked[d] \in {"loginPoll", "loginLocal"} /\ answer'[d] \in {"done", "ok"} =>
             logins'[d] = "done"
  /\ logins[d] = "done" /\ asked[d] # "loginStart" => logins'[d] = "done"
  /\ logins[d] = "none" /\ asked[d] \notin {"loginStart", "loginLocal"} =>
       logins'[d] = "none"
  /\ token' = d => token = d \/ logins[d] = "pending" \/ asked[d] = "loginLocal"

\* The steps of command c change nothing of the other clients; an installation
\* loses the logins in progress and breaks off the answers begun.
Alone(c) ==
  /\ \A d \in Clients : d # c =>
       /\ asked'[d] = asked[d]
       /\ answer'[d] = answer[d] \/ (answer[d] = "stalled" /\ answer'[d] = "failed")
  /\ \A d \in Clients : logins'[d] = logins[d] \/ (logins[d] = "pending" /\ logins'[d] = "none")
  /\ token' = token
  /\ \A d \in Cli : d # c =>
       /\ pc'[d] = pc[d] /\ code'[d] = code[d] /\ cmd'[d] = cmd[d]
       /\ settled'[d] = settled[d] /\ present'[d] = present[d] /\ told'[d] = told[d]
  /\ cliToken' \in {cliToken, c, "none"}

\* So it is with each of its steps.
LEMMA DaemonReplies ==
  ASSUME TypeOK, NEW d \in Clients, DaemonNext
  PROVE  Replies(d)
  <1>. USE WhoAsks DEF TypeOK, DaemonTypeOK, LoginsTyped, RequestsTyped, LoginStates,
       Answers, Replies
  <1>1. ASSUME NEW c \in Clients, Serve(c) PROVE Replies(d)
    BY <1>1, ZenonT(60) DEF Serve, Handle, AcceptLogin
  <1>2. ASSUME NEW c \in Clients, Refuse(c) PROVE Replies(d)
    BY <1>2 DEF Refuse
  <1>3. ASSUME NEW c \in Clients, Fail(c) PROVE Replies(d)
    BY <1>3, ZenonT(60) DEF Fail, Handle, AcceptLogin
  <1>4. ASSUME NEW c \in Clients, BrowserReturns(c) PROVE Replies(d)
    BY <1>4 DEF BrowserReturns, AcceptLogin
  <1>5. ASSUME NEW c \in Clients, LoginExpires(c) PROVE Replies(d)
    BY <1>5 DEF LoginExpires
  <1>6. ASSUME Stop PROVE Replies(d)
    BY <1>6 DEF Stop, LoseLogins, BreakOff
  <1>7. ASSUME Start PROVE Replies(d)
    BY <1>7 DEF Start, Launch, LoseLogins, BreakOff
  <1>. QED
    BY <1>1, <1>2, <1>3, <1>4, <1>5, <1>6, <1>7 DEF DaemonNext

\* So it is with the steps of its first leg,
LEMMA LoginAlone ==
  ASSUME TypeOK, UNCHANGED <<cmd, present, late, told>>, NEW c \in Cli, LoginMoves(c)
  PROVE  Alone(c)
  <1>. USE DEF TypeOK, DaemonTypeOK, CommandsTypeOK, ControlTyped, CliLoginTyped, Alone
  <1>1. ASSUME DetectMethod(c) PROVE Alone(c)
    BY <1>1 DEF DetectMethod
  <1>2. ASSUME LocalLogin(c) PROVE Alone(c)
    BY <1>2 DEF LocalLogin, Save
  <1>3. ASSUME StartCallbackServer(c) PROVE Alone(c)
    BY <1>3 DEF StartCallbackServer
  <1>4. ASSUME FetchLoginUrl(c) PROVE Alone(c)
    BY <1>4 DEF FetchLoginUrl
  <1>5. ASSUME ReceiveToken(c) PROVE Alone(c)
    BY <1>5 DEF ReceiveToken, Save
  <1>6. ASSUME LoginRejected(c) PROVE Alone(c)
    BY <1>6 DEF LoginRejected
  <1>7. ASSUME Callback(c) PROVE Alone(c)
    BY <1>7 DEF Callback, Settle, TokenlessCallback
  <1>8. ASSUME CallbackTimeout(c) PROVE Alone(c)
    BY <1>8 DEF CallbackTimeout
  <1>9. ASSUME StopServer(c) PROVE Alone(c)
    BY <1>9 DEF StopServer
  <1>. QED
    BY <1>1, <1>2, <1>3, <1>4, <1>5, <1>6, <1>7, <1>8, <1>9 DEF LoginMoves, LoginStep, LoginRuns

\* and with those of the second.
LEMMA CommandAlone ==
  ASSUME TypeOK, NEW c \in Cli, CommandMoves(c)
  PROVE  Alone(c)
  <1>. USE WhoAsks DEF TypeOK, DaemonTypeOK, CommandsTypeOK, RequestsTyped, LoginsTyped,
       ControlTyped, CliLoginTyped, FlagsTyped, Alone
  <1>1. ASSUME Begins(c) PROVE Alone(c)
    BY <1>1, ZenonT(60) DEF Begins, Begin
  <1>2. ASSUME AfterLogin(c) PROVE Alone(c)
    BY <1>2 DEF AfterLogin
  <1>3. ASSUME DaemonFetched(c) PROVE Alone(c)
    BY <1>3 DEF DaemonFetched
  <1>4. ASSUME SetupFails(c) PROVE Alone(c)
    BY <1>4 DEF SetupFails
  <1>5. ASSUME SetupInstalls(c) PROVE Alone(c)
    BY <1>5 DEF SetupInstalls, Launch, LoseLogins, BreakOff, Send
  <1>6. ASSUME ConfigureDaemon(c) PROVE Alone(c)
    BY <1>6 DEF ConfigureDaemon, Answered, TakeAndAsk, Take, Send
  <1>7. ASSUME ProbeDaemon(c) PROVE Alone(c)
    BY <1>7 DEF ProbeDaemon
  <1>8. ASSUME ConnectDaemon(c) PROVE Alone(c)
    BY <1>8 DEF ConnectDaemon, Connect, Send
  <1>9. ASSUME CannotConnect(c) PROVE Alone(c)
    BY <1>9 DEF CannotConnect, SkipOrFail
  <1>10. ASSUME CheckConfig(c) PROVE Alone(c)
    BY <1>10 DEF CheckConfig, SkipOrFail, Take
  <1>11. ASSUME DaemonMethod(c) PROVE Alone(c)
    BY <1>11 DEF DaemonMethod, SkipOrFail, Ask, Send
  <1>12. ASSUME LocalAnswered(c) PROVE Alone(c)
    BY <1>12 DEF LocalAnswered, Answered, Report, TakeAndAsk, Take, Send
  <1>13. ASSUME StartAnswered(c) PROVE Alone(c)
    BY <1>13 DEF StartAnswered, Answered, TakeAndAsk, Take, Send
  <1>14. ASSUME PollAnswered(c) PROVE Alone(c)
    BY <1>14 DEF PollAnswered, Answered, Report, TakeAndAsk, Take, Send
  <1>15. ASSUME StatusReported(c) PROVE Alone(c)
    BY <1>15 DEF StatusReported, Answered, TakeAndAsk, Take, Send
  <1>16. ASSUME SingleAnswered(c) PROVE Alone(c)
    BY <1>16 DEF SingleAnswered, Take
  <1>17. ASSUME DeadlinePasses(c) PROVE Alone(c)
    BY <1>17 DEF DeadlinePasses
  <1>18. ASSUME LocalPassword(c) PROVE Alone(c)
    BY <1>18 DEF LocalPassword, Ask, Send
  <1>. QED
    BY <1>1, <1>2, <1>3, <1>4, <1>5, <1>6, <1>7, <1>8, <1>9, <1>10, <1>11, <1>12, <1>13,
       <1>14, <1>15, <1>16, <1>17, <1>18 DEF CommandMoves, CommandStep,
       CommandRuns

\* Those of the page touch no command's request.
LEMMA PageAlone ==
  ASSUME TypeOK, NEW d \in Cli, PageMoves
  PROVE  asked'[d] = asked[d] /\ answer'[d] = answer[d]
  <1>. USE WhoAsks DEF TypeOK, DaemonTypeOK, RequestsTyped
  <1>1. ASSUME NEW r \in Chains, StatusArrives(r)
        PROVE  asked'[d] = asked[d] /\ answer'[d] = answer[d]
    BY <1>1 DEF StatusArrives, ShowUnreachable, ShowStatus, EndRefresh, SchedulePoll,
       Paint, Take, TakeAndAsk, Send, PillOf
  <1>2. ASSUME NEW r \in Chains, ConnectionsArrive(r)
        PROVE  asked'[d] = asked[d] /\ answer'[d] = answer[d]
    BY <1>2 DEF ConnectionsArrive, EndRefresh, SchedulePoll, Take, Answered
  <1>3. ASSUME NEW r \in Chains, SignInDone(r)
        PROVE  asked'[d] = asked[d] /\ answer'[d] = answer[d]
    BY <1>3 DEF SignInDone, EndSignIn, TakeAndRefresh, BeginRefresh
  <1>4. ASSUME NEW r \in Chains, SignOutDone(r)
        PROVE  asked'[d] = asked[d] /\ answer'[d] = answer[d]
    BY <1>4 DEF SignOutDone, TakeAndRefresh, BeginRefresh
  <1>5. ASSUME NEW r \in Chains, PollTimerFires(r)
        PROVE  asked'[d] = asked[d] /\ answer'[d] = answer[d]
    BY <1>5 DEF PollTimerFires, BeginRefresh, Ask, Send
  <1>6. ASSUME NEW r \in Chains, Open(r)
        PROVE  asked'[d] = asked[d] /\ answer'[d] = answer[d]
    BY <1>6 DEF Open, BeginRefresh, Send, SchedulePoll
  <1>7. ASSUME NEW r \in Chains, ClickRetry(r)
        PROVE  asked'[d] = asked[d] /\ answer'[d] = answer[d]
    BY <1>7 DEF ClickRetry, Click, BeginRefresh, Ask, Send
  <1>8. ASSUME SignInFails PROVE asked'[d] = asked[d] /\ answer'[d] = answer[d]
    BY <1>8 DEF SignInFails, EndSignIn, Take
  <1>9. ASSUME SignInWaits PROVE asked'[d] = asked[d] /\ answer'[d] = answer[d]
    BY <1>9 DEF SignInWaits, Take
  <1>10. ASSUME SignInPolls PROVE asked'[d] = asked[d] /\ answer'[d] = answer[d]
    BY <1>10 DEF SignInPolls, Ask, Send
  <1>11. ASSUME SignOutFails PROVE asked'[d] = asked[d] /\ answer'[d] = answer[d]
    BY <1>11 DEF SignOutFails, Take
  <1>12. ASSUME ClickSignIn PROVE asked'[d] = asked[d] /\ answer'[d] = answer[d]
    BY <1>12 DEF ClickSignIn, Click, Ask, Send
  <1>13. ASSUME ClickSignOut PROVE asked'[d] = asked[d] /\ answer'[d] = answer[d]
    BY <1>13 DEF ClickSignOut, Click, Ask, Send
  <1>14. ASSUME VisibilityChanges PROVE asked'[d] = asked[d] /\ answer'[d] = answer[d]
    BY <1>14 DEF VisibilityChanges
  <1>. QED
    BY <1>1, <1>2, <1>3, <1>4, <1>5, <1>6, <1>7, <1>8, <1>9, <1>10, <1>11, <1>12, <1>13,
       <1>14 DEF PageMoves, PageReacts, PageUser, SignInStep, SignOutStep, PollStep

-----------------------------------------------------------------------------
(* The commands.                                                           *)

\* What the daemon does keeps what holds of a command,
LEMMA DaemonCommanded ==
  ASSUME TypeOK, DaemonNext, UNCHANGED <<commandVars, pageVars>>,
         NEW d \in Cli, Fits(d), Commanded(d)
  PROVE  Commanded(d)'
  <1>1. Replies(d)
    BY DaemonReplies, WhoAsks
  <1>2. d # "none" /\ logins[d] \in LoginStates
    BY WhoAsks DEF TypeOK, DaemonTypeOK, LoginsTyped
  <1>3. Waits(d)'
    BY <1>1 DEF Commanded, Waits, Replies
  <1>4. Tells(d)'
    BY <1>1, <1>2 DEF Commanded, Tells, Untouched, Replies
  <1>5. Accepted(d)'
    BY <1>1 DEF Commanded, Accepted, Replies, DaemonLogin, Optional
  <1>6. Saved(d)'
    BY DEF Commanded, Saved
  <1>. QED
    BY <1>3, <1>4, <1>5, <1>6 DEF Commanded

\* and so does what another command does,
LEMMA OthersCommanded ==
  ASSUME NEW c \in Cli, NEW d \in Cli, d # c, Commanded(d), Alone(c)
  PROVE  Commanded(d)'
  <1>1. d \in Clients /\ d # "none"
    BY WhoAsks
  <1>2. Waits(d)'
    BY <1>1 DEF Commanded, Waits, Alone
  <1>3. Tells(d)'
    BY <1>1 DEF Commanded, Tells, Untouched, Alone
  <1>4. Accepted(d)'
    BY <1>1 DEF Commanded, Accepted, Alone, DaemonLogin, Optional
  <1>5. Saved(d)'
    BY <1>1 DEF Commanded, Saved, Alone
  <1>. QED
    BY <1>2, <1>3, <1>4, <1>5 DEF Commanded

\* and what the page does.
LEMMA PageCommanded ==
  ASSUME TypeOK, PageMoves, UNCHANGED commandVars, NEW d \in Cli, Commanded(d)
  PROVE  Commanded(d)'
  <1>1. asked'[d] = asked[d] /\ answer'[d] = answer[d]
    BY PageAlone
  <1>2. UNCHANGED <<logins, token>>
    BY PageLeaves
  <1>. QED
    BY <1>1, <1>2 DEF Commanded, Waits, Tells, Untouched, Accepted, Saved,
       DaemonLogin, Optional

\* The first leg of a login asks for nothing,
LEMMA LoginWaits ==
  ASSUME TypeOK, UNCHANGED <<cmd, present, late, told>>, NEW c \in Cli, LoginMoves(c)
  PROVE  Waits(c) => Waits(c)'
  <1>. USE WhoAsks DEF TypeOK, CommandsTypeOK, ControlTyped, CliLoginTyped,
       DaemonTypeOK, LoginsTyped, RequestsTyped, Waits, Waiting
  <1>1. ASSUME DetectMethod(c) PROVE Waits(c) => Waits(c)'
    BY <1>1 DEF DetectMethod
  <1>2. ASSUME LocalLogin(c) PROVE Waits(c) => Waits(c)'
    BY <1>2 DEF LocalLogin, Save
  <1>3. ASSUME StartCallbackServer(c) PROVE Waits(c) => Waits(c)'
    BY <1>3 DEF StartCallbackServer
  <1>4. ASSUME FetchLoginUrl(c) PROVE Waits(c) => Waits(c)'
    BY <1>4 DEF FetchLoginUrl
  <1>5. ASSUME ReceiveToken(c) PROVE Waits(c) => Waits(c)'
    BY <1>5 DEF ReceiveToken, Save
  <1>6. ASSUME LoginRejected(c) PROVE Waits(c) => Waits(c)'
    BY <1>6 DEF LoginRejected
  <1>7. ASSUME Callback(c) PROVE Waits(c) => Waits(c)'
    BY <1>7 DEF Callback, Settle, TokenlessCallback
  <1>8. ASSUME CallbackTimeout(c) PROVE Waits(c) => Waits(c)'
    BY <1>8 DEF CallbackTimeout
  <1>9. ASSUME StopServer(c) PROVE Waits(c) => Waits(c)'
    BY <1>9 DEF StopServer
  <1>. QED
    BY <1>1, <1>2, <1>3, <1>4, <1>5, <1>6, <1>7, <1>8, <1>9 DEF LoginMoves, LoginStep, LoginRuns

\* tells nothing,
LEMMA LoginTells ==
  ASSUME TypeOK, UNCHANGED <<cmd, present, late, told>>, NEW c \in Cli, LoginMoves(c)
  PROVE  Tells(c) => Tells(c)'
  <1>. USE WhoAsks DEF TypeOK, CommandsTypeOK, ControlTyped, CliLoginTyped,
       DaemonTypeOK, LoginsTyped, RequestsTyped, Tells, BeforeLogin, Untouched, Labels
  <1>1. ASSUME DetectMethod(c) PROVE Tells(c) => Tells(c)'
    BY <1>1 DEF DetectMethod
  <1>2. ASSUME LocalLogin(c) PROVE Tells(c) => Tells(c)'
    BY <1>2 DEF LocalLogin, Save
  <1>3. ASSUME StartCallbackServer(c) PROVE Tells(c) => Tells(c)'
    BY <1>3 DEF StartCallbackServer
  <1>4. ASSUME FetchLoginUrl(c) PROVE Tells(c) => Tells(c)'
    BY <1>4 DEF FetchLoginUrl
  <1>5. ASSUME ReceiveToken(c) PROVE Tells(c) => Tells(c)'
    BY <1>5 DEF ReceiveToken, Save
  <1>6. ASSUME LoginRejected(c) PROVE Tells(c) => Tells(c)'
    BY <1>6 DEF LoginRejected
  <1>7. ASSUME Callback(c) PROVE Tells(c) => Tells(c)'
    BY <1>7 DEF Callback, Settle, TokenlessCallback
  <1>8. ASSUME CallbackTimeout(c) PROVE Tells(c) => Tells(c)'
    BY <1>8 DEF CallbackTimeout
  <1>9. ASSUME StopServer(c) PROVE Tells(c) => Tells(c)'
    BY <1>9 DEF StopServer
  <1>. QED
    BY <1>1, <1>2, <1>3, <1>4, <1>5, <1>6, <1>7, <1>8, <1>9 DEF LoginMoves, LoginStep, LoginRuns

\* ends with 1 if at all,
LEMMA LoginAccepted ==
  ASSUME TypeOK, UNCHANGED <<cmd, present, late, told>>, NEW c \in Cli, LoginMoves(c)
  PROVE  Accepted(c) => Accepted(c)'
  <1>. USE WhoAsks DEF TypeOK, CommandsTypeOK, ControlTyped, CliLoginTyped,
       DaemonTypeOK, LoginsTyped, RequestsTyped, Accepted
  <1>1. ASSUME DetectMethod(c) PROVE Accepted(c) => Accepted(c)'
    <2>1. /\ pc[c] = "detect"
          /\ pc'[c] \in {"prompt", "serve"} \/ (pc'[c] = "done" /\ code'[c] = 1)
      BY <1>1 DEF DetectMethod
    <2>2. UNCHANGED <<logins, asked, answer, cmd, present>>
      BY <1>1 DEF DetectMethod
    <2>. QED
      BY ONLY <2>1, <2>2
  <1>2. ASSUME LocalLogin(c) PROVE Accepted(c) => Accepted(c)'
    <2>1. /\ pc[c] = "prompt"
          /\ pc'[c] = "loggedIn" \/ (pc'[c] = "done" /\ code'[c] = 1)
      BY <1>2 DEF LocalLogin, Save
    <2>2. UNCHANGED <<logins, asked, answer, cmd, present>>
      BY <1>2 DEF LocalLogin, Save
    <2>. QED
      BY ONLY <2>1, <2>2
  <1>3. ASSUME StartCallbackServer(c) PROVE Accepted(c) => Accepted(c)'
    BY <1>3 DEF StartCallbackServer, DaemonLogin, Optional
  <1>4. ASSUME FetchLoginUrl(c) PROVE Accepted(c) => Accepted(c)'
    <2>1. /\ pc[c] = "loginUrl"
          /\ pc'[c] = "await" \/ (pc'[c] = "done" /\ code'[c] = 1)
      BY <1>4 DEF FetchLoginUrl
    <2>2. UNCHANGED <<logins, asked, answer, cmd, present>>
      BY <1>4 DEF FetchLoginUrl
    <2>. QED
      BY ONLY <2>1, <2>2
  <1>5. ASSUME ReceiveToken(c) PROVE Accepted(c) => Accepted(c)'
    BY <1>5 DEF ReceiveToken, Save, DaemonLogin, Optional
  <1>6. ASSUME LoginRejected(c) PROVE Accepted(c) => Accepted(c)'
    <2>1. /\ pc[c] \in {"loginUrl", "await"}
          /\ pc'[c] = "done" /\ code'[c] = 1
      BY <1>6 DEF LoginRejected
    <2>2. UNCHANGED <<logins, asked, answer, cmd, present>>
      BY <1>6 DEF LoginRejected
    <2>. QED
      BY ONLY <2>1, <2>2
  <1>7. ASSUME Callback(c) PROVE Accepted(c) => Accepted(c)'
    BY <1>7 DEF Callback, Settle, TokenlessCallback, DaemonLogin, Optional
  <1>8. ASSUME CallbackTimeout(c) PROVE Accepted(c) => Accepted(c)'
    BY <1>8 DEF CallbackTimeout, DaemonLogin, Optional
  <1>9. ASSUME StopServer(c) PROVE Accepted(c) => Accepted(c)'
    BY <1>9 DEF StopServer, DaemonLogin, Optional
  <1>. QED
    BY <1>1, <1>2, <1>3, <1>4, <1>5, <1>6, <1>7, <1>8, <1>9 DEF LoginMoves, LoginStep, LoginRuns

\* and saves what was not rejected.
LEMMA LoginSaved ==
  ASSUME TypeOK, NEW c \in Cli, LoginMoves(c)
  PROVE  Saved(c) => Saved(c)'
  <1>. USE WhoAsks DEF TypeOK, CommandsTypeOK, ControlTyped, CliLoginTyped,
       DaemonTypeOK, LoginsTyped, RequestsTyped, Saved, BeforeServer
  <1>1. ASSUME DetectMethod(c) PROVE Saved(c) => Saved(c)'
    BY <1>1 DEF DetectMethod
  <1>2. ASSUME LocalLogin(c) PROVE Saved(c) => Saved(c)'
    BY <1>2 DEF LocalLogin, Save
  <1>3. ASSUME StartCallbackServer(c) PROVE Saved(c) => Saved(c)'
    BY <1>3 DEF StartCallbackServer
  <1>4. ASSUME FetchLoginUrl(c) PROVE Saved(c) => Saved(c)'
    BY <1>4 DEF FetchLoginUrl
  <1>5. ASSUME ReceiveToken(c) PROVE Saved(c) => Saved(c)'
    BY <1>5 DEF ReceiveToken, Save
  <1>6. ASSUME LoginRejected(c) PROVE Saved(c) => Saved(c)'
    BY <1>6 DEF LoginRejected
  <1>7. ASSUME Callback(c) PROVE Saved(c) => Saved(c)'
    BY <1>7 DEF Callback, Settle, TokenlessCallback
  <1>8. ASSUME CallbackTimeout(c) PROVE Saved(c) => Saved(c)'
    BY <1>8 DEF CallbackTimeout
  <1>9. ASSUME StopServer(c) PROVE Saved(c) => Saved(c)'
    BY <1>9 DEF StopServer
  <1>. QED
    BY <1>1, <1>2, <1>3, <1>4, <1>5, <1>6, <1>7, <1>8, <1>9 DEF LoginMoves, LoginStep, LoginRuns

\* The second asks for something where it waits for it,
LEMMA CommandWaits ==
  ASSUME TypeOK, NEW c \in Cli, CommandMoves(c)
  PROVE  Waits(c) => Waits(c)'
  <1>. USE WhoAsks DEF TypeOK, CommandsTypeOK, ControlTyped, CliLoginTyped,
       DaemonTypeOK, LoginsTyped, RequestsTyped, Waits, Waiting
  <1>1. ASSUME Begins(c) PROVE Waits(c) => Waits(c)'
    BY <1>1 DEF Begins, Begin
  <1>2. ASSUME AfterLogin(c) PROVE Waits(c) => Waits(c)'
    BY <1>2 DEF AfterLogin
  <1>3. ASSUME DaemonFetched(c) PROVE Waits(c) => Waits(c)'
    BY <1>3 DEF DaemonFetched
  <1>4. ASSUME SetupFails(c) PROVE Waits(c) => Waits(c)'
    BY <1>4 DEF SetupFails
  <1>5. ASSUME SetupInstalls(c) PROVE Waits(c) => Waits(c)'
    BY <1>5 DEF SetupInstalls, Launch, LoseLogins, BreakOff, Send
  <1>6. ASSUME ConfigureDaemon(c) PROVE Waits(c) => Waits(c)'
    BY <1>6 DEF ConfigureDaemon, Answered, TakeAndAsk, Take, Send
  <1>7. ASSUME ProbeDaemon(c) PROVE Waits(c) => Waits(c)'
    BY <1>7 DEF ProbeDaemon
  <1>8. ASSUME ConnectDaemon(c) PROVE Waits(c) => Waits(c)'
    BY <1>8 DEF ConnectDaemon, Connect, Send
  <1>9. ASSUME CannotConnect(c) PROVE Waits(c) => Waits(c)'
    BY <1>9 DEF CannotConnect, SkipOrFail
  <1>10. ASSUME CheckConfig(c) PROVE Waits(c) => Waits(c)'
    BY <1>10 DEF CheckConfig, SkipOrFail, Take
  <1>11. ASSUME DaemonMethod(c) PROVE Waits(c) => Waits(c)'
    BY <1>11 DEF DaemonMethod, SkipOrFail, Ask, Send
  <1>12. ASSUME LocalAnswered(c) PROVE Waits(c) => Waits(c)'
    BY <1>12 DEF LocalAnswered, Answered, Report, TakeAndAsk, Take, Send
  <1>13. ASSUME StartAnswered(c) PROVE Waits(c) => Waits(c)'
    BY <1>13 DEF StartAnswered, Answered, TakeAndAsk, Take, Send
  <1>14. ASSUME PollAnswered(c) PROVE Waits(c) => Waits(c)'
    BY <1>14 DEF PollAnswered, Answered, Report, TakeAndAsk, Take, Send
  <1>15. ASSUME StatusReported(c) PROVE Waits(c) => Waits(c)'
    BY <1>15 DEF StatusReported, Answered, TakeAndAsk, Take, Send
  <1>16. ASSUME SingleAnswered(c) PROVE Waits(c) => Waits(c)'
    BY <1>16 DEF SingleAnswered, Take
  <1>17. ASSUME DeadlinePasses(c) PROVE Waits(c) => Waits(c)'
    BY <1>17 DEF DeadlinePasses
  <1>18. ASSUME LocalPassword(c) PROVE Waits(c) => Waits(c)'
    BY <1>18 DEF LocalPassword, Ask, Send
  <1>. QED
    BY <1>1, <1>2, <1>3, <1>4, <1>5, <1>6, <1>7, <1>8, <1>9, <1>10, <1>11, <1>12, <1>13,
       <1>14, <1>15, <1>16, <1>17, <1>18 DEF CommandMoves, CommandStep,
       CommandRuns

\* tells before it asks for a login,
LEMMA CommandTells ==
  ASSUME TypeOK, NEW c \in Cli, CommandMoves(c)
  PROVE  Fits(c) /\ Waits(c) /\ Tells(c) => Tells(c)'
  <1>. USE WhoAsks DEF TypeOK, CommandsTypeOK, ControlTyped, CliLoginTyped,
       DaemonTypeOK, LoginsTyped, RequestsTyped, Fits, Waits, Waiting, Tells,
       BeforeLogin, Untouched, Labels, FlagsTyped, DaemonRequest
  <1>1. ASSUME Begins(c) PROVE Fits(c) /\ Waits(c) /\ Tells(c) => Tells(c)'
    BY <1>1 DEF Begins, Begin
  <1>2. ASSUME AfterLogin(c) PROVE Fits(c) /\ Waits(c) /\ Tells(c) => Tells(c)'
    BY <1>2 DEF AfterLogin
  <1>3. ASSUME DaemonFetched(c) PROVE Fits(c) /\ Waits(c) /\ Tells(c) => Tells(c)'
    BY <1>3 DEF DaemonFetched
  <1>4. ASSUME SetupFails(c) PROVE Fits(c) /\ Waits(c) /\ Tells(c) => Tells(c)'
    BY <1>4 DEF SetupFails
  <1>5. ASSUME SetupInstalls(c) PROVE Fits(c) /\ Waits(c) /\ Tells(c) => Tells(c)'
    BY <1>5 DEF SetupInstalls, Launch, LoseLogins, BreakOff, Send
  <1>6. ASSUME ConfigureDaemon(c) PROVE Fits(c) /\ Waits(c) /\ Tells(c) => Tells(c)'
    BY <1>6 DEF ConfigureDaemon, Answered, TakeAndAsk, Take, Send
  <1>7. ASSUME ProbeDaemon(c) PROVE Fits(c) /\ Waits(c) /\ Tells(c) => Tells(c)'
    BY <1>7 DEF ProbeDaemon
  <1>8. ASSUME ConnectDaemon(c) PROVE Fits(c) /\ Waits(c) /\ Tells(c) => Tells(c)'
    BY <1>8 DEF ConnectDaemon, Connect, Send
  <1>9. ASSUME CannotConnect(c) PROVE Fits(c) /\ Waits(c) /\ Tells(c) => Tells(c)'
    BY <1>9 DEF CannotConnect, SkipOrFail
  <1>10. ASSUME CheckConfig(c) PROVE Fits(c) /\ Waits(c) /\ Tells(c) => Tells(c)'
    BY <1>10 DEF CheckConfig, SkipOrFail, Take
  <1>11. ASSUME DaemonMethod(c) PROVE Fits(c) /\ Waits(c) /\ Tells(c) => Tells(c)'
    BY <1>11 DEF DaemonMethod, SkipOrFail, Ask, Send
  <1>12. ASSUME LocalAnswered(c) PROVE Fits(c) /\ Waits(c) /\ Tells(c) => Tells(c)'
    BY <1>12 DEF LocalAnswered, Answered, Report, TakeAndAsk, Take, Send
  <1>13. ASSUME StartAnswered(c) PROVE Fits(c) /\ Waits(c) /\ Tells(c) => Tells(c)'
    BY <1>13 DEF StartAnswered, Answered, TakeAndAsk, Take, Send
  <1>14. ASSUME PollAnswered(c) PROVE Fits(c) /\ Waits(c) /\ Tells(c) => Tells(c)'
    BY <1>14 DEF PollAnswered, Answered, Report, TakeAndAsk, Take, Send
  <1>15. ASSUME StatusReported(c) PROVE Fits(c) /\ Waits(c) /\ Tells(c) => Tells(c)'
    BY <1>15 DEF StatusReported, Answered, TakeAndAsk, Take, Send
  <1>16. ASSUME SingleAnswered(c) PROVE Fits(c) /\ Waits(c) /\ Tells(c) => Tells(c)'
    BY <1>16 DEF SingleAnswered, Take
  <1>17. ASSUME DeadlinePasses(c) PROVE Fits(c) /\ Waits(c) /\ Tells(c) => Tells(c)'
    BY <1>17 DEF DeadlinePasses
  <1>18. ASSUME LocalPassword(c) PROVE Fits(c) /\ Waits(c) /\ Tells(c) => Tells(c)'
    BY <1>18 DEF LocalPassword, Ask, Send
  <1>. QED
    BY <1>1, <1>2, <1>3, <1>4, <1>5, <1>6, <1>7, <1>8, <1>9, <1>10, <1>11, <1>12, <1>13,
       <1>14, <1>15, <1>16, <1>17, <1>18 DEF CommandMoves, CommandStep,
       CommandRuns

\* ends with 0 when the login is done or was not wanted,
LEMMA CommandAccepted ==
  ASSUME TypeOK, NEW c \in Cli, CommandMoves(c)
  PROVE  Fits(c) /\ Waits(c) /\ Accepted(c) => Accepted(c)'
  <1>. USE WhoAsks DEF TypeOK, CommandsTypeOK, ControlTyped, CliLoginTyped,
       DaemonTypeOK, LoginsTyped, RequestsTyped, Fits, Waits, Waiting, Accepted
  <1>1. ASSUME Begins(c) PROVE Fits(c) /\ Waits(c) /\ Accepted(c) => Accepted(c)'
    BY <1>1, ZenonT(60) DEF Begins, Begin, DaemonLogin, Optional, OneRequest,
       LoginCommands, DaemonRequest
  <1>2. ASSUME AfterLogin(c) PROVE Fits(c) /\ Waits(c) /\ Accepted(c) => Accepted(c)'
    BY <1>2 DEF AfterLogin, DaemonLogin, Optional, OneRequest, LoginCommands,
       DaemonRequest
  <1>3. ASSUME DaemonFetched(c) PROVE Fits(c) /\ Waits(c) /\ Accepted(c) => Accepted(c)'
    BY <1>3 DEF DaemonFetched, DaemonLogin, Optional, OneRequest, LoginCommands,
       DaemonRequest
  <1>4. ASSUME SetupFails(c) PROVE Fits(c) /\ Waits(c) /\ Accepted(c) => Accepted(c)'
    BY <1>4 DEF SetupFails, DaemonLogin, Optional, OneRequest, LoginCommands,
       DaemonRequest
  <1>5. ASSUME SetupInstalls(c) PROVE Fits(c) /\ Waits(c) /\ Accepted(c) => Accepted(c)'
    BY <1>5, ZenonT(60) DEF SetupInstalls, Launch, LoseLogins, BreakOff, Send, DaemonLogin,
       Optional, OneRequest, LoginCommands, DaemonRequest
  <1>6. ASSUME ConfigureDaemon(c)
        PROVE  Fits(c) /\ Waits(c) /\ Accepted(c) => Accepted(c)'
    BY <1>6, ZenonT(60) DEF ConfigureDaemon, Answered, TakeAndAsk, Take, Send,
       DaemonLogin, Optional, OneRequest, LoginCommands, DaemonRequest
  <1>7. ASSUME ProbeDaemon(c) PROVE Fits(c) /\ Waits(c) /\ Accepted(c) => Accepted(c)'
    BY <1>7 DEF ProbeDaemon, DaemonLogin, Optional, OneRequest, LoginCommands,
       DaemonRequest
  <1>8. ASSUME ConnectDaemon(c) PROVE Fits(c) /\ Waits(c) /\ Accepted(c) => Accepted(c)'
    BY <1>8 DEF ConnectDaemon, Connect, Send, DaemonLogin, Optional, OneRequest,
       LoginCommands, DaemonRequest
  <1>9. ASSUME CannotConnect(c) PROVE Fits(c) /\ Waits(c) /\ Accepted(c) => Accepted(c)'
    <2>1. pc[c] = "connect" /\ UNCHANGED <<logins, asked, answer, cmd, present>>
      BY <1>9 DEF CannotConnect
    <2>2. CASE SkipOrFail(c)
      <3>1. pc'[c] = "done" /\ (code'[c] = 0 => Optional(c) /\ ~present[c])
        BY <2>2 DEF SkipOrFail
      <3>2. Optional(c)' <=> Optional(c)
        BY <2>1 DEF Optional
      <3>. QED
        BY <2>1, <3>1, <3>2
    <2>3. CASE cmd[c] = "logout" /\ Return(c, 0)
      <3>1. ~DaemonLogin(c)'
        BY <2>1, <2>3 DEF DaemonLogin
      <3>. QED
        BY <2>1, <2>3, <3>1
    <2>4. CASE Return(c, 1)
      BY <2>1, <2>4
    <2>. QED
      BY <1>9, <2>2, <2>3, <2>4 DEF CannotConnect
  <1>10. ASSUME CheckConfig(c) PROVE Fits(c) /\ Waits(c) /\ Accepted(c) => Accepted(c)'
    <2>1. /\ pc[c] = "config" /\ asked'[c] = "nothing"
          /\ pc'[c] = "method" \/ (pc'[c] = "done" /\ (code'[c] = 0 => Optional(c) /\ ~present[c]))
      BY <1>10 DEF CheckConfig, SkipOrFail, Take
    <2>2. UNCHANGED <<logins, cmd, present>>
      BY <1>10 DEF CheckConfig, SkipOrFail, Take
    <2>3. DaemonLogin(c)' <=> DaemonLogin(c)
      BY <2>2 DEF DaemonLogin
    <2>4. Optional(c)' <=> Optional(c)
      BY <2>2 DEF Optional
    <2>. QED
      BY <2>1, <2>2, <2>3, <2>4
  <1>11. ASSUME DaemonMethod(c) PROVE Fits(c) /\ Waits(c) /\ Accepted(c) => Accepted(c)'
    <2>1. /\ pc[c] = "method" /\ answer'[c] = answer[c]
          /\ \/ pc'[c] = "password" /\ asked'[c] = asked[c]
             \/ pc'[c] = "start" /\ asked'[c] = "loginStart"
             \/ pc'[c] = "done" /\ asked'[c] = asked[c] /\ (code'[c] = 0 => Optional(c) /\ ~present[c])
      BY <1>11 DEF DaemonMethod, SkipOrFail, Ask, Send
    <2>2. UNCHANGED <<logins, cmd, present>>
      BY <1>11 DEF DaemonMethod, SkipOrFail, Ask, Send
    <2>3. DaemonLogin(c)' <=> DaemonLogin(c)
      BY <2>2 DEF DaemonLogin
    <2>4. Optional(c)' <=> Optional(c)
      BY <2>2 DEF Optional
    <2>. QED
      BY <2>1, <2>2, <2>3, <2>4
  <1>12. ASSUME LocalAnswered(c)
        PROVE  Fits(c) /\ Waits(c) /\ Accepted(c) => Accepted(c)'
    <2>1. /\ pc[c] = "local" /\ asked[c] = "loginLocal"
          /\ \/ answer[c] = "ok" /\ pc'[c] = "report" /\ asked'[c] = "status"
             \/ pc'[c] = "done" /\ asked'[c] = "nothing" /\ code'[c] = 1
      BY <1>12 DEF LocalAnswered, Answered, Report, TakeAndAsk, Take, Send
    <2>2. UNCHANGED <<logins, cmd, present>>
      BY <1>12 DEF LocalAnswered, Answered, Report, TakeAndAsk, Take, Send
    <2>. QED
      BY ONLY <2>1, <2>2
  <1>13. ASSUME StartAnswered(c)
        PROVE  Fits(c) /\ Waits(c) /\ Accepted(c) => Accepted(c)'
    <2>1. /\ pc[c] = "start" /\ asked[c] = "loginStart"
          /\ \/ pc'[c] = "poll" /\ asked'[c] = "loginPoll" /\ answer'[c] = "none"
             \/ pc'[c] = "done" /\ asked'[c] = "nothing" /\ code'[c] = 1
      BY <1>13 DEF StartAnswered, Answered, TakeAndAsk, Take, Send
    <2>2. UNCHANGED <<logins, cmd, present>>
      BY <1>13 DEF StartAnswered, Answered, TakeAndAsk, Take, Send
    <2>. QED
      BY ONLY <2>1, <2>2
  <1>14. ASSUME PollAnswered(c) PROVE Fits(c) /\ Waits(c) /\ Accepted(c) => Accepted(c)'
    <2>1. /\ pc[c] = "poll" /\ asked[c] = "loginPoll"
          /\ \/ answer[c] = "done" /\ pc'[c] = "report" /\ asked'[c] = "status"
             \/ pc'[c] = "poll" /\ asked'[c] = "loginPoll" /\ answer'[c] = "none"
             \/ pc'[c] = "done" /\ asked'[c] = "nothing" /\ code'[c] = 1
      BY <1>14 DEF PollAnswered, Answered, Report, TakeAndAsk, Take, Send
    <2>2. UNCHANGED <<logins, cmd, present>>
      BY <1>14 DEF PollAnswered, Answered, Report, TakeAndAsk, Take, Send
    <2>. QED
      BY ONLY <2>1, <2>2
  <1>15. ASSUME StatusReported(c)
        PROVE  Fits(c) /\ Waits(c) /\ Accepted(c) => Accepted(c)'
    BY <1>15 DEF StatusReported, Answered, TakeAndAsk, Take, Send, DaemonLogin,
       Optional, OneRequest, LoginCommands, DaemonRequest
  <1>16. ASSUME SingleAnswered(c)
        PROVE  Fits(c) /\ Waits(c) /\ Accepted(c) => Accepted(c)'
    BY <1>16 DEF SingleAnswered, Take, DaemonLogin, Optional, OneRequest, LoginCommands,
       DaemonRequest
  <1>17. ASSUME DeadlinePasses(c)
        PROVE  Fits(c) /\ Waits(c) /\ Accepted(c) => Accepted(c)'
    BY <1>17 DEF DeadlinePasses, DaemonLogin, Optional, OneRequest, LoginCommands,
       DaemonRequest
  <1>18. ASSUME LocalPassword(c)
        PROVE  Fits(c) /\ Waits(c) /\ Accepted(c) => Accepted(c)'
    <2>1. /\ pc[c] = "password" /\ answer'[c] = answer[c]
          /\ \/ pc'[c] = "local" /\ asked'[c] = "loginLocal"
             \/ pc'[c] = "done" /\ asked'[c] = asked[c] /\ code'[c] = 1
      BY <1>18 DEF LocalPassword, Ask, Send
    <2>2. UNCHANGED <<logins, cmd, present>>
      BY <1>18 DEF LocalPassword, Ask, Send
    <2>. QED
      BY <2>1, <2>2
  <1>. QED
    BY <1>1, <1>2, <1>3, <1>4, <1>5, <1>6, <1>7, <1>8, <1>9, <1>10, <1>11, <1>12, <1>13,
       <1>14, <1>15, <1>16, <1>17, <1>18 DEF CommandMoves, CommandStep,
       CommandRuns

\* and saves nothing.
LEMMA CommandSaved ==
  ASSUME TypeOK, NEW c \in Cli, CommandMoves(c)
  PROVE  Saved(c) => Saved(c)'
  <1>. USE WhoAsks DEF TypeOK, CommandsTypeOK, ControlTyped, CliLoginTyped,
       DaemonTypeOK, LoginsTyped, RequestsTyped, Saved, BeforeServer
  <1>1. ASSUME Begins(c) PROVE Saved(c) => Saved(c)'
    <2>1. pc[c] = "idle" /\ cliToken' \in {cliToken, "none"}
      BY <1>1 DEF Begins, Begin
    <2>2. UNCHANGED settled
      BY <1>1 DEF Begins, Begin
    <2>. QED
      BY <2>1, <2>2
  <1>2. ASSUME AfterLogin(c) PROVE Saved(c) => Saved(c)'
    <2>1. pc[c] = "loggedIn" /\ pc'[c] \in {"done", "setup", "probe"}
      BY <1>2, Zenon DEF AfterLogin, GoTo
    <2>2. UNCHANGED <<settled, cliToken>>
      BY <1>2 DEF AfterLogin
    <2>. QED
      BY <2>1, <2>2
  <1>3. ASSUME DaemonFetched(c) PROVE Saved(c) => Saved(c)'
    BY <1>3 DEF DaemonFetched
  <1>4. ASSUME SetupFails(c) PROVE Saved(c) => Saved(c)'
    BY <1>4 DEF SetupFails
  <1>5. ASSUME SetupInstalls(c) PROVE Saved(c) => Saved(c)'
    BY <1>5 DEF SetupInstalls, Launch, LoseLogins, BreakOff, Send
  <1>6. ASSUME ConfigureDaemon(c) PROVE Saved(c) => Saved(c)'
    BY <1>6 DEF ConfigureDaemon, Answered, TakeAndAsk, Take, Send
  <1>7. ASSUME ProbeDaemon(c) PROVE Saved(c) => Saved(c)'
    BY <1>7 DEF ProbeDaemon
  <1>8. ASSUME ConnectDaemon(c) PROVE Saved(c) => Saved(c)'
    BY <1>8 DEF ConnectDaemon, Connect, Send
  <1>9. ASSUME CannotConnect(c) PROVE Saved(c) => Saved(c)'
    BY <1>9 DEF CannotConnect, SkipOrFail
  <1>10. ASSUME CheckConfig(c) PROVE Saved(c) => Saved(c)'
    BY <1>10 DEF CheckConfig, SkipOrFail, Take
  <1>11. ASSUME DaemonMethod(c) PROVE Saved(c) => Saved(c)'
    BY <1>11 DEF DaemonMethod, SkipOrFail, Ask, Send
  <1>12. ASSUME LocalAnswered(c) PROVE Saved(c) => Saved(c)'
    BY <1>12 DEF LocalAnswered, Answered, Report, TakeAndAsk, Take, Send
  <1>13. ASSUME StartAnswered(c) PROVE Saved(c) => Saved(c)'
    BY <1>13 DEF StartAnswered, Answered, TakeAndAsk, Take, Send
  <1>14. ASSUME PollAnswered(c) PROVE Saved(c) => Saved(c)'
    BY <1>14 DEF PollAnswered, Answered, Report, TakeAndAsk, Take, Send
  <1>15. ASSUME StatusReported(c) PROVE Saved(c) => Saved(c)'
    BY <1>15 DEF StatusReported, Answered, TakeAndAsk, Take, Send
  <1>16. ASSUME SingleAnswered(c) PROVE Saved(c) => Saved(c)'
    BY <1>16 DEF SingleAnswered, Take
  <1>17. ASSUME DeadlinePasses(c) PROVE Saved(c) => Saved(c)'
    BY <1>17 DEF DeadlinePasses
  <1>18. ASSUME LocalPassword(c) PROVE Saved(c) => Saved(c)'
    BY <1>18 DEF LocalPassword, Ask, Send
  <1>. QED
    BY <1>1, <1>2, <1>3, <1>4, <1>5, <1>6, <1>7, <1>8, <1>9, <1>10, <1>11, <1>12, <1>13,
       <1>14, <1>15, <1>16, <1>17, <1>18 DEF CommandMoves, CommandStep,
       CommandRuns

\* It asks anew only when it has no answer.
LEMMA CommandFits ==
  ASSUME TypeOK, NEW c \in Cli, CommandMoves(c)
  PROVE  Fits(c) /\ Waits(c) => Fits(c)'
  <1>. USE WhoAsks DEF TypeOK, CommandsTypeOK, ControlTyped, CliLoginTyped,
       DaemonTypeOK, LoginsTyped, RequestsTyped, Fits, Waits, Waiting
  <1>1. ASSUME Begins(c) PROVE Fits(c) /\ Waits(c) => Fits(c)'
    BY <1>1 DEF Begins, Begin, DaemonRequest
  <1>2. ASSUME AfterLogin(c) PROVE Fits(c) /\ Waits(c) => Fits(c)'
    BY <1>2 DEF AfterLogin, DaemonRequest
  <1>3. ASSUME DaemonFetched(c) PROVE Fits(c) /\ Waits(c) => Fits(c)'
    BY <1>3 DEF DaemonFetched, DaemonRequest
  <1>4. ASSUME SetupFails(c) PROVE Fits(c) /\ Waits(c) => Fits(c)'
    BY <1>4 DEF SetupFails, DaemonRequest
  <1>5. ASSUME SetupInstalls(c) PROVE Fits(c) /\ Waits(c) => Fits(c)'
    BY <1>5 DEF SetupInstalls, Launch, LoseLogins, BreakOff, Send, DaemonRequest
  <1>6. ASSUME ConfigureDaemon(c) PROVE Fits(c) /\ Waits(c) => Fits(c)'
    BY <1>6 DEF ConfigureDaemon, Answered, TakeAndAsk, Take, Send, DaemonRequest
  <1>7. ASSUME ProbeDaemon(c) PROVE Fits(c) /\ Waits(c) => Fits(c)'
    BY <1>7 DEF ProbeDaemon, DaemonRequest
  <1>8. ASSUME ConnectDaemon(c) PROVE Fits(c) /\ Waits(c) => Fits(c)'
    BY <1>8 DEF ConnectDaemon, Connect, Send, DaemonRequest
  <1>9. ASSUME CannotConnect(c) PROVE Fits(c) /\ Waits(c) => Fits(c)'
    BY <1>9 DEF CannotConnect, SkipOrFail, DaemonRequest
  <1>10. ASSUME CheckConfig(c) PROVE Fits(c) /\ Waits(c) => Fits(c)'
    BY <1>10 DEF CheckConfig, SkipOrFail, Take, DaemonRequest
  <1>11. ASSUME DaemonMethod(c) PROVE Fits(c) /\ Waits(c) => Fits(c)'
    BY <1>11 DEF DaemonMethod, SkipOrFail, Ask, Send, DaemonRequest
  <1>12. ASSUME LocalAnswered(c) PROVE Fits(c) /\ Waits(c) => Fits(c)'
    BY <1>12 DEF LocalAnswered, Answered, Report, TakeAndAsk, Take, Send, DaemonRequest
  <1>13. ASSUME StartAnswered(c) PROVE Fits(c) /\ Waits(c) => Fits(c)'
    BY <1>13 DEF StartAnswered, Answered, TakeAndAsk, Take, Send, DaemonRequest
  <1>14. ASSUME PollAnswered(c) PROVE Fits(c) /\ Waits(c) => Fits(c)'
    BY <1>14 DEF PollAnswered, Answered, Report, TakeAndAsk, Take, Send, DaemonRequest
  <1>15. ASSUME StatusReported(c) PROVE Fits(c) /\ Waits(c) => Fits(c)'
    BY <1>15 DEF StatusReported, Answered, TakeAndAsk, Take, Send, DaemonRequest
  <1>16. ASSUME SingleAnswered(c) PROVE Fits(c) /\ Waits(c) => Fits(c)'
    BY <1>16 DEF SingleAnswered, Take, DaemonRequest
  <1>17. ASSUME DeadlinePasses(c) PROVE Fits(c) /\ Waits(c) => Fits(c)'
    BY <1>17 DEF DeadlinePasses, DaemonRequest
  <1>18. ASSUME LocalPassword(c) PROVE Fits(c) /\ Waits(c) => Fits(c)'
    BY <1>18 DEF LocalPassword, Ask, Send, DaemonRequest
  <1>. QED
    BY <1>1, <1>2, <1>3, <1>4, <1>5, <1>6, <1>7, <1>8, <1>9, <1>10, <1>11, <1>12, <1>13,
       <1>14, <1>15, <1>16, <1>17, <1>18 DEF CommandMoves, CommandStep,
       CommandRuns

-----------------------------------------------------------------------------
(* The page.                                                               *)

\* The page asks for the list when it has taken the status.
LEMMA PageFits ==
  ASSUME TypeOK, NEW d \in Clients, PageMoves
  PROVE  Fits(d) => Fits(d)'
  <1>. USE WhoAsks DEF TypeOK, DaemonTypeOK, RequestsTyped, Fits
  <1>1. ASSUME NEW r \in Chains, StatusArrives(r) PROVE Fits(d) => Fits(d)'
    BY <1>1 DEF StatusArrives, ShowUnreachable, ShowStatus, EndRefresh, SchedulePoll,
       Paint, Take, TakeAndAsk, Send, PillOf
  <1>2. ASSUME NEW r \in Chains, ConnectionsArrive(r) PROVE Fits(d) => Fits(d)'
    BY <1>2 DEF ConnectionsArrive, EndRefresh, SchedulePoll, Take, Answered
  <1>3. ASSUME NEW r \in Chains, SignInDone(r) PROVE Fits(d) => Fits(d)'
    BY <1>3 DEF SignInDone, EndSignIn, TakeAndRefresh, BeginRefresh
  <1>4. ASSUME NEW r \in Chains, SignOutDone(r) PROVE Fits(d) => Fits(d)'
    BY <1>4 DEF SignOutDone, TakeAndRefresh, BeginRefresh
  <1>5. ASSUME NEW r \in Chains, PollTimerFires(r) PROVE Fits(d) => Fits(d)'
    BY <1>5 DEF PollTimerFires, BeginRefresh, Ask, Send
  <1>6. ASSUME NEW r \in Chains, Open(r) PROVE Fits(d) => Fits(d)'
    BY <1>6 DEF Open, BeginRefresh, Send, SchedulePoll
  <1>7. ASSUME NEW r \in Chains, ClickRetry(r) PROVE Fits(d) => Fits(d)'
    BY <1>7 DEF ClickRetry, Click, BeginRefresh, Ask, Send
  <1>8. ASSUME SignInFails PROVE Fits(d) => Fits(d)'
    BY <1>8 DEF SignInFails, EndSignIn, Take
  <1>9. ASSUME SignInWaits PROVE Fits(d) => Fits(d)'
    BY <1>9 DEF SignInWaits, Take
  <1>10. ASSUME SignInPolls PROVE Fits(d) => Fits(d)'
    BY <1>10 DEF SignInPolls, Ask, Send
  <1>11. ASSUME SignOutFails PROVE Fits(d) => Fits(d)'
    BY <1>11 DEF SignOutFails, Take
  <1>12. ASSUME ClickSignIn PROVE Fits(d) => Fits(d)'
    BY <1>12 DEF ClickSignIn, Click, Ask, Send
  <1>13. ASSUME ClickSignOut PROVE Fits(d) => Fits(d)'
    BY <1>13 DEF ClickSignOut, Click, Ask, Send
  <1>14. ASSUME VisibilityChanges PROVE Fits(d) => Fits(d)'
    BY <1>14 DEF VisibilityChanges
  <1>. QED
    BY <1>1, <1>2, <1>3, <1>4, <1>5, <1>6, <1>7, <1>8, <1>9, <1>10, <1>11, <1>12, <1>13,
       <1>14 DEF PageMoves, PageReacts, PageUser, SignInStep, SignOutStep, PollStep

\* Whatever ends a call takes back what the page says of it.
LEMMA PageIsHonest ==
  ASSUME TypeOK, PageHonest, PageMoves
  PROVE  PageHonest'
  <1>. USE WhoAsks DEF TypeOK, DaemonTypeOK, RequestsTyped, PageTypeOK, PageHonest
  <1>1. ASSUME NEW r \in Chains, StatusArrives(r) PROVE PageHonest'
    BY <1>1 DEF StatusArrives, ShowUnreachable, ShowStatus, EndRefresh, SchedulePoll,
       Paint, Take, TakeAndAsk, Send, PillOf
  <1>2. ASSUME NEW r \in Chains, ConnectionsArrive(r) PROVE PageHonest'
    BY <1>2 DEF ConnectionsArrive, EndRefresh, SchedulePoll, Take, Answered
  <1>3. ASSUME NEW r \in Chains, SignInDone(r) PROVE PageHonest'
    BY <1>3 DEF SignInDone, EndSignIn, TakeAndRefresh, BeginRefresh
  <1>4. ASSUME NEW r \in Chains, SignOutDone(r) PROVE PageHonest'
    BY <1>4 DEF SignOutDone, TakeAndRefresh, BeginRefresh
  <1>5. ASSUME NEW r \in Chains, PollTimerFires(r) PROVE PageHonest'
    BY <1>5 DEF PollTimerFires, BeginRefresh, Ask, Send
  <1>6. ASSUME NEW r \in Chains, Open(r) PROVE PageHonest'
    BY <1>6 DEF Open, BeginRefresh, Send, SchedulePoll
  <1>7. ASSUME NEW r \in Chains, ClickRetry(r) PROVE PageHonest'
    BY <1>7 DEF ClickRetry, Click, BeginRefresh, Ask, Send
  <1>8. ASSUME SignInFails PROVE PageHonest'
    BY <1>8 DEF SignInFails, EndSignIn, Take
  <1>9. ASSUME SignInWaits PROVE PageHonest'
    BY <1>9 DEF SignInWaits, Take
  <1>10. ASSUME SignInPolls PROVE PageHonest'
    BY <1>10 DEF SignInPolls, Ask, Send
  <1>11. ASSUME SignOutFails PROVE PageHonest'
    BY <1>11 DEF SignOutFails, Take
  <1>12. ASSUME ClickSignIn PROVE PageHonest'
    BY <1>12 DEF ClickSignIn, Click, Ask, Send
  <1>13. ASSUME ClickSignOut PROVE PageHonest'
    BY <1>13 DEF ClickSignOut, Click, Ask, Send
  <1>14. ASSUME VisibilityChanges PROVE PageHonest'
    BY <1>14 DEF VisibilityChanges
  <1>. QED
    BY <1>1, <1>2, <1>3, <1>4, <1>5, <1>6, <1>7, <1>8, <1>9, <1>10, <1>11, <1>12, <1>13,
       <1>14 DEF PageMoves, PageReacts, PageUser, SignInStep, SignOutStep, PollStep

-----------------------------------------------------------------------------
(* The theorems.                                                           *)

\* What holds of the clients, and of the page, holds at first,
LEMMA InitInv == Init => TunnelInv
  <1>. SUFFICES ASSUME Init PROVE TunnelInv
    OBVIOUS
  <1>1. ASSUME NEW c \in Clients PROVE Fits(c)
    BY DEF Init, DaemonInit, Fits
  <1>2. ASSUME NEW c \in Cli PROVE Commanded(c)
    <2>1. /\ pc[c] = "idle" /\ ~told[c] /\ settled[c] = "no" /\ cliToken = "none"
          /\ c \in Clients /\ c # "none" /\ c # OldLogin
      BY WhoAsks DEF Init, CommandsInit
    <2>2. asked[c] = "nothing" /\ logins[c] = "none" /\ token \in {OldLogin, "none"}
      BY <2>1 DEF Init, DaemonInit
    <2>. QED
      BY <2>1, <2>2 DEF Commanded, Waits, Tells, Untouched, Accepted, Saved, BeforeServer
  <1>3. PageHonest
    BY WhoAsks DEF Init, DaemonInit, PageInit, PageHonest
  <1>. QED
    BY <1>1, <1>2, <1>3, InitTyped DEF TunnelInv

\* and after every step of the daemon,
LEMMA DaemonKeeps ==
  ASSUME TunnelInv, DaemonNext, UNCHANGED <<commandVars, pageVars>>
  PROVE  /\ \A c \in Clients : Fits(c)'
         /\ \A c \in Cli : Commanded(c)'
         /\ PageHonest'
  <1>1. ASSUME NEW c \in Clients PROVE Replies(c)
    BY DaemonReplies DEF TunnelInv
  <1>2. ASSUME NEW c \in Clients PROVE Fits(c)'
    BY <1>1 DEF TunnelInv, Fits, Replies
  <1>3. ASSUME NEW c \in Cli PROVE Commanded(c)'
    BY DaemonCommanded, WhoAsks DEF TunnelInv
  <1>4. PageHonest'
    <2>1. asked'[SignOut] = asked[SignOut]
      BY <1>1, WhoAsks DEF Replies
    <2>. QED
      BY <2>1 DEF TunnelInv, PageHonest
  <1>. QED
    BY <1>2, <1>3, <1>4

\* of a command,
LEMMA CommandsKeep ==
  ASSUME TunnelInv, NEW c \in Cli, UNCHANGED pageVars,
         \/ LoginMoves(c) /\ UNCHANGED <<cmd, present, late, told>>
         \/ CommandMoves(c)
  PROVE  /\ \A d \in Clients : Fits(d)'
         /\ \A d \in Cli : Commanded(d)'
         /\ PageHonest'
  <1>. USE DEF TunnelInv
  <1>1. Alone(c)
    BY LoginAlone, CommandAlone
  <1>2. Fits(c) /\ Commanded(c)
    BY WhoAsks
  <1>3. ASSUME NEW d \in Clients PROVE Fits(d)'
    <2>1. CASE d # c
      BY <1>1, <2>1 DEF Fits, Alone
    <2>2. CASE d = c /\ CommandMoves(c)
      BY <1>2, <2>2, CommandFits DEF Commanded
    <2>3. CASE d = c /\ LoginMoves(c) /\ UNCHANGED <<cmd, present, late, told>>
      <3>1. UNCHANGED <<asked, answer>>
        BY <2>3, LoginPort
      <3>. QED
        BY <1>2, <2>3, <3>1 DEF Fits
    <2>. QED
      BY <2>1, <2>2, <2>3
  <1>4. ASSUME NEW d \in Cli PROVE Commanded(d)'
    <2>1. CASE d # c
      BY <1>1, <2>1, OthersCommanded
    <2>2. CASE d = c /\ CommandMoves(c)
      BY <1>2, <2>2, CommandWaits, CommandTells, CommandAccepted, CommandSaved DEF Commanded
    <2>3. CASE d = c /\ LoginMoves(c) /\ UNCHANGED <<cmd, present, late, told>>
      BY <1>2, <2>3, LoginWaits, LoginTells, LoginAccepted, LoginSaved DEF Commanded
    <2>. QED
      BY <2>1, <2>2, <2>3
  <1>5. PageHonest'
    <2>1. asked'[SignOut] = asked[SignOut]
      BY <1>1, WhoAsks DEF Alone
    <2>. QED
      BY <2>1 DEF PageHonest
  <1>. QED
    BY <1>3, <1>4, <1>5

\* and of the page.
LEMMA PageKeeps ==
  ASSUME TunnelInv, PageMoves, UNCHANGED commandVars
  PROVE  /\ \A d \in Clients : Fits(d)'
         /\ \A d \in Cli : Commanded(d)'
         /\ PageHonest'
  BY PageFits, PageCommanded, PageIsHonest DEF TunnelInv

\* In every reachable state, for any number of clients, faults and clicks.
THEOREM TunnelInvariant == Spec => []TunnelInv
  <1>1. TunnelInv /\ [Next]_vars => TunnelInv'
    <2>. SUFFICES ASSUME TunnelInv, [Next]_vars PROVE TunnelInv'
      OBVIOUS
    <2>1. TypeOK'
      BY TypeStep DEF TunnelInv
    <2>2. CASE UNCHANGED vars
      <3>1. /\ \A c \in Clients : Fits(c)'
            /\ \A c \in Cli : Commanded(c)'
        BY <2>2 DEF vars, TunnelInv, Fits, Commanded, Waits, Tells, Untouched, Accepted,
           Saved, DaemonLogin, Optional
      <3>2. PageHonest'
        BY <2>2 DEF vars, TunnelInv, PageHonest
      <3>. QED
        BY <2>1, <3>1, <3>2 DEF TunnelInv
    <2>. QED
      BY <2>1, <2>2, NextCases, DaemonKeeps, CommandsKeep, PageKeeps DEF TunnelInv
  <1>. QED
    BY InitInv, <1>1, PTL DEF Spec

\* Every variable of the daemon, the commands and the page keeps its type, and no
\* command asks for what the daemon does not serve.
THEOREM TunnelTypes == Spec => []TypeOK
  <1>1. TunnelInv => TypeOK
    BY DEF TunnelInv
  <1>. QED
    BY <1>1, TunnelInvariant, PTL

\* A login command that ends with 0 has logged the daemon in, or the daemon looked
\* absent and its login was optional, however the daemon fails, restarts or is
\* logged in and out by others meanwhile (loginDaemon).
THEOREM SuccessMeansAccepted == Spec => []SuccessIsAccepted
  <1>1. TunnelInv => SuccessIsAccepted
    BY DEF TunnelInv, Commanded, Accepted, SuccessIsAccepted
  <1>. QED
    BY <1>1, TunnelInvariant, PTL

\* A command that has said that the daemon still holds its previous token has
\* left no login behind that the daemon could complete later (skipOrFail).
THEOREM ToldMeansUntouched == Spec => []ToldIsUntouched
  <1>1. TunnelInv => ToldIsUntouched
    BY DEF TunnelInv, Commanded, Tells, Untouched, ToldIsUntouched
  <1>. QED
    BY <1>1, TunnelInvariant, PTL

\* A browser login that timed out or was refused saves nothing, whoever calls its
\* callback server until it stops (src/auth/oauth.ts).
THEOREM RejectedIsNeverSaved == Spec => []RejectedNeverSaved
  <1>1. TunnelInv => RejectedNeverSaved
    BY DEF TunnelInv, Commanded, Saved, RejectedNeverSaved
  <1>. QED
    BY <1>1, TunnelInvariant, PTL

\* The page says it waits for a browser, or keeps a button disabled, only while
\* the call it stands for is in progress (signIn, signOut in app.js).
THEOREM PageIsAlwaysHonest == Spec => []PageHonest
  <1>1. TunnelInv => PageHonest
    BY DEF TunnelInv
  <1>. QED
    BY <1>1, TunnelInvariant, PTL
=============================================================================
