--------------------------- MODULE TunnelSystem ---------------------------
(***************************************************************************)
(* The commands, the dashboard and the daemon together.                    *)
(***************************************************************************)
EXTENDS TunnelCommands, Dashboard

vars == <<daemonVars, commandVars, pageVars>>

CONSTANT BesidePage   \* bound: the commands that run while a page is open

ASSUME SystemAssumption == Clients = Cli \cup PageClients /\ Cli \cap PageClients = {}

Init == DaemonInit /\ CommandsInit /\ PageInit

LoginLeg(A) == A /\ UNCHANGED <<cmd, present, late, told, pageVars>>
TunnelLeg(A) == A /\ UNCHANGED pageVars
DaemonPart(A) == A /\ UNCHANGED <<commandVars, pageVars>>
PagePart(A) == A /\ UNCHANGED commandVars

\* Bound: with an open page the user either clicks in it or runs one command of
\* BesidePage.
User ==
  \/ \E c \in Cli, command \in Commands :
       /\ opened => command \in BesidePage /\ clicks = 0
       /\ TunnelLeg(Begin(c, command))
  \/ \E c \in Cli : LoginLeg(Callback(c))
  \/ PagePart(VisibilityChanges)
  \/ /\ \A c \in Cli : cmd[c] = "none"
     /\ PagePart(PageUser)

Timers(c) ==
  LoginLeg(CallbackTimeout(c)) \/ LoginLeg(StopServer(c)) \/ TunnelLeg(DeadlinePasses(c))

Next ==
  \/ DaemonPart(DaemonNext)
  \/ \E c \in Cli : LoginLeg(LoginStep(c)) \/ TunnelLeg(CommandStep(c)) \/ Timers(c)
  \/ PagePart(PageReacts)
  \/ User

\* Commands run on, timers fire, a request gets its headers or is given up after
\* five seconds, and the page's event loop handles every event.  The user, who is
\* asked for passwords at three prompts, the browser, the body of an answer, faults
\* and restarts of the daemon owe nothing.
Fairness ==
  /\ \A c \in Clients : WF_vars(DaemonPart(Serve(c) \/ Refuse(c)))
  /\ \A c \in Cli : /\ WF_vars(LoginLeg(LoginRuns(c)))
                    /\ WF_vars(TunnelLeg(CommandRuns(c)))
                    /\ WF_vars(LoginLeg(CallbackTimeout(c)))
                    /\ WF_vars(LoginLeg(StopServer(c)))
                    /\ WF_vars(TunnelLeg(DeadlinePasses(c)))
  /\ \A r \in Chains : WF_vars(PagePart(StatusArrives(r) \/ ConnectionsArrive(r)))
  /\ WF_vars(PagePart(SignInStep))
  /\ WF_vars(PagePart(SignOutStep))
  /\ WF_vars(PagePart(PollStep))

Spec == Init /\ [][Next]_vars
FairSpec == Spec /\ Fairness

---------------------------------------------------------------------------

\* Every variable of the daemon, the commands and the page keeps its type; no command
\* sends a request the daemon does not serve (src/tunnel/ipc-client.ts).
TypeOK == DaemonTypeOK /\ CommandsTypeOK /\ PageTypeOK

\* A login command that ends with 0 has logged the daemon in, or the daemon looked
\* absent and its login was optional (src/commands/tunnel.ts, loginDaemon).
DaemonLogin(c) == cmd[c] \in {"tunnel login", "login", "login --no-setup"}

SuccessIsAccepted ==
  \A c \in Cli : pc[c] = "done" /\ DaemonLogin(c) /\ code[c] = 0 =>
                   logins[c] = "done" \/ (Optional(c) /\ ~present[c])

\* A command that has printed that the daemon still holds its previous token has
\* left no login behind that the daemon could complete later (skipOrFail).
ToldIsUntouched == \A c \in Cli : told[c] => logins[c] = "none" /\ token # c

\* A browser login that timed out or was refused saves nothing, whatever the
\* browser sends before the process is gone (src/auth/oauth.ts).
RejectedNeverSaved == \A c \in Cli : settled[c] = "rejected" => cliToken # c

\* The page says it waits for a browser, or keeps a button disabled, only while
\* the call it stands for is in progress (signIn, signOut in app.js).
PageHonest ==
  /\ message = "waiting" => signIn # "idle"
  /\ "signin" \in disabled <=> signIn # "idle"
  /\ "signout" \in disabled <=> asked[SignOut] # "nothing"

\* The prompts of the two local logins and of sudo wait for the user for ever.
AtPrompt(c) == pc[c] \in {"prompt", "password", "sudo"}

\* Every command ends, unless it waits for the user at a prompt or for the rest of
\* an answer that the daemon has begun, and in each case it does not keep the
\* callback port, whether or not the browser or the daemon ever does its part.
CommandsEnd ==
  \A c \in Cli : pc[c] # "idle" ~>
    /\ pc[c] = "done" \/ AtPrompt(c) \/ answer[c] = "stalled"
    /\ port # c

\* A page that stays open on a daemon that stays up with the control token its
\* server read, and that ends the answers it begins, comes to show the daemon's
\* state and keeps showing it, although refreshes overlap and whatever failed
\* before; the list is shown only with "tunnel up".
PageCurrent ==
  /\ pill = PillOf(Status)
  /\ list # "hidden" => pill = "tunnel up"

PageSettles ==
  <>[](/\ opened /\ visible /\ alive
       /\ \A r \in Chains : held[r] = key /\ answer[r] # "stalled") => <>[]PageCurrent
===========================================================================
