----------------------------- MODULE CliLogin -----------------------------
(***************************************************************************)
(* The first leg of hsh login: how the command itself gets a token         *)
(* (src/auth/manager.ts, oauth.ts, local.ts, src/api/serverinfo.ts).  In   *)
(* the browser flow the command listens on the one port that the gateway   *)
(* sends every browser back to, the port the daemon uses for its logins.   *)
(***************************************************************************)
EXTENDS TunnelDaemon

CONSTANT Cli    \* the processes of hsh

ASSUME CliAssumption == Cli \subseteq Clients

VARIABLES
  pc,         \* where each command is
  code,       \* its exit code
  cliToken,   \* the command whose login auth.json holds, or "none"
  settled,    \* the promise of startCallbackServer
  armed,      \* its three-minute timer is set
  stopping    \* its server stops in half a second

cliVars == <<pc, code, cliToken, settled, armed, stopping>>

\* process.exit, or a rejection nobody handles: the sockets close with the
\* process.
ExitNow(c, n) ==
  /\ pc' = [pc EXCEPT ![c] = "done"]
  /\ code' = [code EXCEPT ![c] = n]
  /\ port' = IF port = c THEN "free" ELSE port
  /\ armed' = [armed EXCEPT ![c] = FALSE]
  /\ stopping' = [stopping EXCEPT ![c] = FALSE]

GoTo(c, label) == pc' = [pc EXCEPT ![c] = label]

Save(c) ==
  /\ cliToken' = c
  /\ GoTo(c, "loggedIn")

---------------------------------------------------------------------------

\* What getPublicServerInfo comes to: a method or, when the gateway cannot be
\* reached or answers anything else, an exception ("unknown").
AuthMethods == {"local", "oidc", "other", "unknown"}

\* An unknown method is tried in the browser; SAML and the rest, and a local
\* gateway that has no users yet, end the command.
DetectMethod(c) ==
  /\ pc[c] = "detect"
  /\ \E method \in AuthMethods :
       \/ /\ method = "local" /\ GoTo(c, "prompt")
          /\ UNCHANGED <<code, port, armed, stopping>>
       \/ /\ method \in {"oidc", "unknown"} /\ GoTo(c, "serve")
          /\ UNCHANGED <<code, port, armed, stopping>>
       \/ method \in {"local", "other"} /\ ExitNow(c, 1)
  /\ UNCHANGED <<daemonState, requestState, held, faults, cliToken, settled>>

\* The prompts wait for the user; then email, password and POST /api/localauth/login.
LocalLogin(c) ==
  /\ pc[c] = "prompt"
  /\ \/ Save(c) /\ UNCHANGED <<code, port, armed, stopping>>
     \/ ExitNow(c, 1) /\ UNCHANGED cliToken
  /\ UNCHANGED <<daemonState, requestState, held, faults, settled>>

\* The timer is set first.  Bun.serve throws when the port is taken, which rejects
\* the promise.
StartCallbackServer(c) ==
  /\ pc[c] = "serve"
  /\ GoTo(c, "loginUrl")
  /\ \/ /\ port = "free"
        /\ port' = c
        /\ settled' = [settled EXCEPT ![c] = "pending"]
     \/ /\ port # "free"
        /\ settled' = [settled EXCEPT ![c] = "rejected"]
        /\ UNCHANGED port
  /\ armed' = [armed EXCEPT ![c] = TRUE]
  /\ UNCHANGED <<daemonState, requestState, held, faults, code, cliToken, stopping>>

\* The server listens before the gateway is asked for the URL to open.
FetchLoginUrl(c) ==
  /\ pc[c] = "loginUrl"
  /\ \/ GoTo(c, "await") /\ UNCHANGED <<code, port, armed, stopping>>
     \/ ExitNow(c, 1)
  /\ UNCHANGED <<daemonState, requestState, held, faults, cliToken, settled>>

\* Mutant: the last callback decides.
SettleAgain(c, how) ==
  /\ settled' = [settled EXCEPT ![c] = how]
  /\ armed' = [armed EXCEPT ![c] = FALSE]
  /\ stopping' = [stopping EXCEPT ![c] = TRUE]

\* A promise settles once; the timer goes and the server stops a little later.
Settle(c, how) ==
  /\ settled' = [settled EXCEPT ![c] = IF @ = "pending" THEN how ELSE @]
  /\ armed' = [armed EXCEPT ![c] = FALSE]
  /\ stopping' = [stopping EXCEPT ![c] = TRUE]

\* Mutant: any call of the server ends the timer.
AnyCallEndsTimer(c) ==
  /\ port = c
  /\ armed' = [armed EXCEPT ![c] = FALSE]
  /\ UNCHANGED <<settled, stopping>>

\* A browser calls /callback without a token or another page.
TokenlessCallback(c) ==
  /\ port = c
  /\ UNCHANGED <<settled, armed, stopping>>

\* A browser, perhaps one left from an earlier login, calls the server.
Callback(c) ==
  /\ port = c
  /\ \/ Settle(c, "rejected")
     \/ Settle(c, "token")
     \/ TokenlessCallback(c)
  /\ UNCHANGED <<daemonVars, pc, code, cliToken>>

\* It stops the server; without one it throws, like the rejection before it.
CallbackTimeout(c) ==
  /\ armed[c]
  /\ armed' = [armed EXCEPT ![c] = FALSE]
  /\ settled' = [settled EXCEPT ![c] = IF @ = "pending" THEN "rejected" ELSE @]
  /\ port' = IF port = c THEN "free" ELSE port
  /\ UNCHANGED <<daemonState, requestState, held, faults, pc, code, cliToken, stopping>>

StopServer(c) ==
  /\ stopping[c]
  /\ stopping' = [stopping EXCEPT ![c] = FALSE]
  /\ port' = IF port = c THEN "free" ELSE port
  /\ UNCHANGED <<daemonState, requestState, held, faults, pc, code, cliToken, settled, armed>>

ReceiveToken(c) ==
  /\ pc[c] = "await" /\ settled[c] = "token"
  /\ Save(c)
  /\ UNCHANGED <<daemonVars, code, settled, armed, stopping>>

\* Nobody catches the rejection.
LoginRejected(c) ==
  /\ pc[c] \in {"loginUrl", "await"} /\ settled[c] = "rejected"
  /\ ExitNow(c, 1)
  /\ UNCHANGED <<daemonState, requestState, held, faults, cliToken, settled>>

\* What the command does by itself, and what it does when the user has answered.
LoginRuns(c) ==
  \/ DetectMethod(c) \/ StartCallbackServer(c) \/ FetchLoginUrl(c)
  \/ ReceiveToken(c) \/ LoginRejected(c)

LoginStep(c) == LoginRuns(c) \/ LocalLogin(c)
===========================================================================
