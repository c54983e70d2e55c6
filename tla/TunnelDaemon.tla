--------------------------- MODULE TunnelDaemon ---------------------------
(***************************************************************************)
(* hsh-tunneld as the commands and the dashboard of hsh see it: an         *)
(* external program behind a local socket.  Its code is not in this        *)
(* repository; what it does is taken from how src/tunnel/ipc-client.ts,    *)
(* src/tunnel/types.ts, src/tunnel/socket-path.ts and their callers use    *)
(* it.  The module also holds the client's side of one request             *)
(* (TunnelClient.do) and the look-ups of the control token.                *)
(***************************************************************************)
EXTENDS Naturals

CONSTANTS
  Clients,      \* everything that can have one request at the daemon
  OldLogin,     \* a login made before the behaviour starts
  MaxFaults     \* bound: refusals, timeouts and stops of a live daemon

ASSUME DaemonAssumption ==
  /\ OldLogin \notin Clients
  /\ Clients \cap {"none", "free", "daemon", "other"} = {}
  /\ MaxFaults \in Nat

VARIABLES
  installed,    \* the service is registered with the system
  alive,        \* the daemon runs and listens on its socket
  controlFile,  \* /var/run/hsh/control-token exists
  readable,     \* this user may read it (member of group hsh)
  key,          \* which control token the daemon accepts
  apiUrl,       \* the daemon has an api_url
  token,        \* the login whose token the daemon holds, or "none"
  running,      \* the tunnel is up
  logins,       \* what /v1/login/poll says of the login each client started
  port,         \* who listens on 127.0.0.1:3587
  asked,        \* each client's request in flight
  answer,       \* what its caller gets, once it is known; "stalled" while the
                \* daemon has begun an answer and does not end it
  held,         \* the control token each client sends
  faults        \* faults so far

daemonState == <<installed, alive, controlFile, readable, key, apiUrl, token,
                 running, logins>>
requestState == <<asked, answer>>
daemonVars == <<daemonState, port, requestState, held, faults>>

Requests == {"status", "connections", "loginStart", "loginPoll", "loginLocal",
             "logout", "config", "updateConfig", "up", "down",
             "refreshConnections"}

\* TunnelApiError and TunnelUnavailableError alike are "failed": callers that
\* tell them apart do so in what they print.
Answers == {"failed", "ok", "running", "idle", "loggedOut", "some", "empty",
            "started", "pending", "done", "error", "set", "unset"}

LoginStates == {"none", "pending", "done", "error"}

\* The types, in the parts that steps change together.
ServiceTyped ==
  /\ installed \in BOOLEAN /\ alive \in BOOLEAN /\ controlFile \in BOOLEAN
  /\ readable \in BOOLEAN /\ apiUrl \in BOOLEAN /\ running \in BOOLEAN
  /\ key \in {0, 1}
  /\ faults \in 0..MaxFaults

LoginsTyped ==
  /\ token \in Clients \cup {OldLogin, "none"}
  /\ logins \in [Clients -> LoginStates]
  /\ port \in Clients \cup {"free", "daemon", "other"}

RequestsTyped ==
  /\ asked \in [Clients -> Requests \cup {"nothing"}]
  /\ answer \in [Clients -> Answers \cup {"none", "stalled"}]
  /\ held \in [Clients -> {0, 1}]

DaemonTypeOK == ServiceTyped /\ LoginsTyped /\ RequestsTyped

\* A machine without the daemon, or one with it, running or stopped, logged in
\* or not, reachable for this user or not.  Bound: some other program has the port
\* only on a machine without the daemon.
DaemonInit ==
  /\ installed \in BOOLEAN
  /\ alive \in (IF installed THEN BOOLEAN ELSE {FALSE})
  /\ controlFile = alive
  /\ readable \in BOOLEAN
  /\ key = 0
  /\ apiUrl \in (IF installed THEN BOOLEAN ELSE {FALSE})
  /\ token \in (IF apiUrl THEN {OldLogin, "none"} ELSE {"none"})
  /\ running = (alive /\ token # "none")
  /\ logins = [c \in Clients |-> "none"]
  /\ port \in (IF installed THEN {"free"} ELSE {"free", "other"})
  /\ asked = [c \in Clients |-> "nothing"]
  /\ answer = [c \in Clients |-> "none"]
  /\ held = [c \in Clients |-> 0]
  /\ faults = 0

---------------------------------------------------------------------------
(* The client's side *)

\* readControlToken: a file that is there and may be read.
ReadControlToken == controlFile /\ readable

\* daemonInstalled (src/commands/setup.ts): the file, readable or not.
ControlTokenPresent == controlFile

\* daemonLooksInstalled (src/commands/tunnel.ts): the file, or the socket.
DaemonLooksInstalled == controlFile \/ alive

\* TunnelClient.connect and the request that follows it.
Connect(c) == held' = [held EXCEPT ![c] = key]
Send(c, request) == asked' = [asked EXCEPT ![c] = request]
Ask(c, request) ==
  /\ Send(c, request)
  /\ UNCHANGED <<answer, held>>

\* The caller has read the whole body, or has got the error.
HasAnswer(c) == answer[c] \in Answers
Answered(c, request) == asked[c] = request /\ HasAnswer(c)
Take(c) ==
  /\ asked' = [asked EXCEPT ![c] = "nothing"]
  /\ answer' = [answer EXCEPT ![c] = "none"]
  /\ UNCHANGED held
TakeAndAsk(c, request) ==
  /\ Send(c, request)
  /\ answer' = [answer EXCEPT ![c] = "none"]
  /\ UNCHANGED held

---------------------------------------------------------------------------
(* The daemon's side of one request *)

Status == IF token = "none" THEN "loggedOut" ELSE IF running THEN "running" ELSE "idle"

\* A token is stored, and the tunnel comes up at once or fails to.
AcceptLogin(c) ==
  /\ token' = c
  /\ running' \in BOOLEAN
  /\ logins' = [logins EXCEPT ![c] = "done"]

\* What each endpoint answers, and what it changes.
Handle(c, a) ==
  LET asks(request, result) == asked[c] = request /\ a = result
      keeps == UNCHANGED <<apiUrl, token, running, logins, port>>
  IN  /\ \/ asks("status", Status) /\ keeps
         \/ asks("connections", IF running THEN "some" ELSE "empty") /\ keeps
         \/ asks("refreshConnections", "ok") /\ keeps
         \/ asks("config", IF apiUrl THEN "set" ELSE "unset") /\ keeps
         \/ asks("loginPoll", logins[c]) /\ logins[c] # "none" /\ keeps
         \/ /\ asks("updateConfig", "ok")
            /\ apiUrl' \in {TRUE, apiUrl}       \* or another field
            /\ UNCHANGED <<token, running, logins, port>>
         \/ /\ asks("loginStart", "started") /\ apiUrl /\ port = "free"
            /\ port' = "daemon"
            /\ logins' = [logins EXCEPT ![c] = "pending"]
            /\ UNCHANGED <<apiUrl, token, running>>
         \/ asks("loginLocal", "ok") /\ AcceptLogin(c) /\ UNCHANGED <<apiUrl, port>>
         \/ /\ asks("logout", "ok")
            /\ token' = "none" /\ running' = FALSE
            /\ UNCHANGED <<apiUrl, logins, port>>
         \/ /\ asks("up", "ok") /\ token # "none"
            /\ running' = TRUE
            /\ UNCHANGED <<apiUrl, token, logins, port>>
         \/ /\ asks("down", "ok")
            /\ running' = FALSE
            /\ UNCHANGED <<apiUrl, token, logins, port>>
      /\ UNCHANGED <<installed, alive, controlFile, readable, key>>

Admitted(c) == alive /\ held[c] = key

\* The request is answered within its five seconds.
Serve(c) ==
  /\ asked[c] # "nothing" /\ answer[c] = "none"
  /\ Admitted(c)
  /\ \E a \in Answers : Handle(c, a) /\ answer' = [answer EXCEPT ![c] = a]
  /\ UNCHANGED <<asked, held, faults>>

\* It cannot be: nobody listens, the control token is a former one, there is
\* no gateway or no port for a login, no login to poll, no token to bring up.
CannotServe(c) ==
  \/ ~Admitted(c)
  \/ asked[c] = "loginStart" /\ (port # "free" \/ ~apiUrl)
  \/ asked[c] = "loginPoll" /\ logins[c] = "none"
  \/ asked[c] = "up" /\ token = "none"

Refuse(c) ==
  /\ asked[c] # "nothing" /\ answer[c] = "none"
  /\ CannotServe(c)
  /\ answer' = [answer EXCEPT ![c] = "failed"]
  /\ UNCHANGED <<daemonState, port, asked, held, faults>>

\* The daemon fails, or is slower than the abort, or stalls after the headers, when
\* the abort timer is gone: the request may have been carried out or not.
Fail(c) ==
  /\ asked[c] # "nothing" /\ answer[c] = "none"
  /\ Admitted(c) /\ faults < MaxFaults
  /\ \/ UNCHANGED <<daemonState, port>>
     \/ \E a \in Answers : Handle(c, a)
  /\ \E result \in {"failed", "stalled"} : answer' = [answer EXCEPT ![c] = result]
  /\ faults' = faults + 1
  /\ UNCHANGED <<asked, held>>

---------------------------------------------------------------------------
(* The daemon by itself *)

\* The browser comes back to the daemon's own callback server.
BrowserReturns(c) ==
  /\ alive /\ logins[c] = "pending" /\ port = "daemon"
  /\ AcceptLogin(c)
  /\ port' = "free"
  /\ UNCHANGED <<installed, alive, controlFile, readable, key, apiUrl,
                 requestState, held, faults>>

\* It comes back with an error, or three minutes have passed.
LoginExpires(c) ==
  /\ alive /\ logins[c] = "pending" /\ port = "daemon"
  /\ logins' = [logins EXCEPT ![c] = "error"]
  /\ port' = "free"
  /\ UNCHANGED <<installed, alive, controlFile, readable, key, apiUrl, token,
                 running, requestState, held, faults>>

\* A stop loses the logins in progress and their callback server.
LoseLogins ==
  /\ logins' = [c \in Clients |-> IF logins[c] = "pending" THEN "none" ELSE logins[c]]
  /\ port' = IF port = "daemon" THEN "free" ELSE port

\* It breaks off the answers it has begun, too.
BreakOff ==
  answer' = [c \in Clients |-> IF answer[c] = "stalled" THEN "failed" ELSE answer[c]]

\* The service stops; its runtime directory, with the control token, goes.
Stop ==
  /\ alive /\ faults < MaxFaults
  /\ alive' = FALSE /\ running' = FALSE /\ controlFile' = FALSE
  /\ LoseLogins /\ BreakOff
  /\ faults' = faults + 1
  /\ UNCHANGED <<installed, readable, key, apiUrl, token, asked, held>>

\* It starts, anew or again, with the control token it had or with a new one,
\* and brings the tunnel up if it holds a login.
Launch ==
  /\ alive' = TRUE /\ controlFile' = TRUE
  /\ key' \in {key, 1}
  /\ running' \in (IF token = "none" THEN {FALSE} ELSE BOOLEAN)
  /\ LoseLogins /\ BreakOff

Start ==
  /\ installed /\ ~alive
  /\ Launch
  /\ UNCHANGED <<installed, readable, apiUrl, token, asked, held, faults>>

DaemonNext ==
  \/ \E c \in Clients :
       \/ Serve(c) \/ Refuse(c) \/ Fail(c)
       \/ BrowserReturns(c) \/ LoginExpires(c)
  \/ Stop
  \/ Start
===========================================================================
