----------------------------- MODULE Dashboard -----------------------------
(***************************************************************************)
(* The dashboard: the page (src/dashboard/app.js) and the server it talks  *)
(* to (server.ts), which passes each call on to the daemon with the        *)
(* control token it read when hsh dashboard started.  A refresh is an      *)
(* asynchronous chain of two requests, and chains overlap: the poll, Retry *)
(* and the ends of sign-in and sign-out each start one.                    *)
(***************************************************************************)
EXTENDS TunnelDaemon

CONSTANTS
  Chains,      \* bound: refreshes in progress at a time
  SignIn,      \* the sign-in loop and
  SignOut,     \* the sign-out call, as clients of the daemon
  MaxClicks    \* bound: clicks of the user

PageClients == Chains \cup {SignIn, SignOut}

ASSUME PageAssumption ==
  /\ PageClients \subseteq Clients
  /\ SignIn # SignOut /\ {SignIn, SignOut} \cap Chains = {}
  /\ MaxClicks \in Nat

VARIABLES
  opened,     \* the page is loaded
  pill,       \* what its header says
  list,       \* panelConnections shown, panelEmpty shown, or neither
  button,     \* btnSignin or btnSignout shown, or neither
  disabled,   \* which of the two is disabled
  message,    \* signinMsg: nothing, waiting for the browser, or an error
  visible,    \* the tab's visibility
  pollTimer,  \* the timer of schedulePoll is set
  chain,      \* how far each refresh is
  polls,      \* the refreshes that the timer started
  signIn,     \* how far signIn is
  clicks

pageVars == <<opened, pill, list, button, disabled, message, visible, pollTimer,
              chain, polls, signIn, clicks>>
view == <<pill, list, button>>

PageTypeOK ==
  /\ opened \in BOOLEAN /\ visible \in BOOLEAN /\ pollTimer \in BOOLEAN
  /\ pill \in {"checking", "tunnel up", "bring-up failed", "sign-in required",
               "daemon down"}
  /\ list \in {"shown", "empty", "hidden"}
  /\ button \in {"none", "signin", "signout"}
  /\ disabled \subseteq {"signin", "signout"}
  /\ message \in {"none", "waiting", "error"}
  /\ chain \in [Chains -> {"idle", "status", "connections"}]
  /\ polls \subseteq Chains
  /\ signIn \in {"idle", "start", "sleep", "poll"}
  /\ clicks \in 0..MaxClicks

PageInit ==
  /\ opened = FALSE
  /\ pill = "checking" /\ list = "hidden" /\ button = "none"
  /\ disabled = {} /\ message = "none"
  /\ visible = TRUE /\ pollTimer = FALSE
  /\ chain = [r \in Chains |-> "idle"] /\ polls = {}
  /\ signIn = "idle"
  /\ clicks = 0

---------------------------------------------------------------------------
(* refresh and renderConnections *)

\* The first request of refresh; one free chain stands for any.
BeginRefresh(r) ==
  /\ chain[r] = "idle" /\ r = CHOOSE q \in Chains : chain[q] = "idle"
  /\ chain' = [chain EXCEPT ![r] = "status"]

\* schedulePoll: one timer, set only while the tab is visible.
SchedulePoll == pollTimer' = visible

\* A refresh ends; the one the timer started sets the timer again.
EndRefresh(r) ==
  /\ chain' = [chain EXCEPT ![r] = "idle"]
  /\ polls' = polls \ {r}
  /\ IF r \in polls THEN SchedulePoll ELSE UNCHANGED pollTimer

PillOf(status) ==
  CASE status = "running"   -> "tunnel up"
    [] status = "idle"      -> "bring-up failed"
    [] status = "loggedOut" -> "sign-in required"

\* api throws for whatever the server makes of an error of the daemon, of its
\* absence and of its own: every status but 2xx.
Threw(c) == answer[c] = "failed"

Paint(newPill, newList, newButton) ==
  pill' = newPill /\ list' = newList /\ button' = newButton

\* showUnreachable, for every error alike.
ShowUnreachable(r) ==
  /\ Threw(r)
  /\ Paint("daemon down", "hidden", button)
  /\ EndRefresh(r)
  /\ Take(r)

\* Mutant: the list is not hidden when the tunnel is down.
StatusKeepsList(r) ==
  \/ /\ answer[r] = "running"
     /\ Paint("tunnel up", list, "signout")
     /\ chain' = [chain EXCEPT ![r] = "connections"]
     /\ TakeAndAsk(r, "connections")
     /\ UNCHANGED <<polls, pollTimer>>
  \/ /\ answer[r] \in {"idle", "loggedOut"}
     /\ Paint(PillOf(answer[r]), list,
              IF answer[r] = "idle" THEN "signout" ELSE "signin")
     /\ EndRefresh(r)
     /\ Take(r)

\* The panels of the status; the list stays until the connections are there.
ShowStatus(r) ==
  \/ /\ answer[r] = "running"
     /\ Paint("tunnel up", list, "signout")
     /\ chain' = [chain EXCEPT ![r] = "connections"]
     /\ TakeAndAsk(r, "connections")
     /\ UNCHANGED <<polls, pollTimer>>
  \/ /\ answer[r] \in {"idle", "loggedOut"}
     /\ Paint(PillOf(answer[r]), "hidden",
              IF answer[r] = "idle" THEN "signout" ELSE "signin")
     /\ EndRefresh(r)
     /\ Take(r)

StatusArrives(r) ==
  /\ chain[r] = "status" /\ Answered(r, "status")
  /\ ShowUnreachable(r) \/ ShowStatus(r)
  /\ UNCHANGED <<daemonState, port, faults, opened, disabled, message, visible,
                 signIn, clicks>>

\* renderConnections touches the list alone: nothing says that the status it
\* followed still holds.
ConnectionsArrive(r) ==
  /\ chain[r] = "connections" /\ Answered(r, "connections")
  /\ list' = CASE answer[r] = "some"   -> "shown"
               [] answer[r] = "empty"  -> "empty"
               [] answer[r] = "failed" -> "hidden"
  /\ EndRefresh(r)
  /\ Take(r)
  /\ UNCHANGED <<daemonState, port, faults, opened, pill, button, disabled, message,
                 visible, signIn, clicks>>

---------------------------------------------------------------------------
(* The page's own events *)

\* hsh dashboard reads the control token once and opens the page.  First paint:
\* one refresh, and the poll is scheduled.
Open(r) ==
  /\ ~opened /\ opened' = TRUE
  /\ ReadControlToken
  /\ held' = [c \in Clients |-> IF c \in PageClients THEN key ELSE held[c]]
  /\ BeginRefresh(r) /\ Send(r, "status") /\ UNCHANGED answer
  /\ SchedulePoll
  /\ UNCHANGED <<daemonState, port, faults, view, disabled, message, visible, polls,
                 signIn, clicks>>

PollTimerFires(r) ==
  /\ pollTimer /\ pollTimer' = FALSE
  /\ BeginRefresh(r) /\ Ask(r, "status")
  /\ polls' = polls \cup {r}
  /\ UNCHANGED <<daemonState, port, faults, opened, view, disabled, message, visible,
                 signIn, clicks>>

VisibilityChanges ==
  /\ opened
  /\ visible' = ~visible
  /\ pollTimer' = visible'
  /\ UNCHANGED <<daemonVars, opened, view, disabled, message, chain, polls, signIn,
                 clicks>>

Click ==
  /\ opened /\ clicks < MaxClicks
  /\ clicks' = clicks + 1

ClickRetry(r) ==
  /\ Click /\ pill = "daemon down"
  /\ BeginRefresh(r) /\ Ask(r, "status")
  /\ UNCHANGED <<daemonState, port, faults, opened, view, disabled, message, visible,
                 pollTimer, polls, signIn>>

---------------------------------------------------------------------------
(* signIn and signOut *)

\* Both buttons live in the status panel, which "daemon down" hides.
Shown(b) == button = b /\ pill # "daemon down" /\ b \notin disabled

ClickSignIn ==
  /\ Click /\ Shown("signin")
  /\ disabled' = disabled \cup {"signin"}
  /\ message' = "waiting"
  /\ signIn' = "start" /\ Ask(SignIn, "loginStart")
  /\ UNCHANGED <<daemonState, port, faults, opened, view, visible, pollTimer, chain, polls>>

\* Mutant: the button stays disabled.
SignInStaysDisabled(text) ==
  /\ signIn' = "idle"
  /\ message' = text
  /\ UNCHANGED disabled

\* Every way out of signIn enables the button again.
EndSignIn(text) ==
  /\ signIn' = "idle"
  /\ disabled' = disabled \ {"signin"}
  /\ message' = text

SignInFails ==
  /\ \/ signIn \in {"start", "poll"} /\ (Threw(SignIn) \/ answer[SignIn] = "error")
     \/ signIn = "poll" /\ answer[SignIn] = "pending"     \* after three minutes
  /\ EndSignIn("error")
  /\ Take(SignIn)
  /\ UNCHANGED <<daemonState, port, faults, opened, view, visible, pollTimer, chain,
                 polls, clicks>>

SignInWaits ==
  /\ \/ signIn = "start" /\ answer[SignIn] = "started" /\ message' = "waiting"
     \/ signIn = "poll" /\ answer[SignIn] = "pending" /\ UNCHANGED message
  /\ signIn' = "sleep"
  /\ Take(SignIn)
  /\ UNCHANGED <<daemonState, port, faults, opened, view, disabled, visible, pollTimer,
                 chain, polls, clicks>>

SignInPolls ==
  /\ signIn = "sleep"
  /\ signIn' = "poll" /\ Ask(SignIn, "loginPoll")
  /\ UNCHANGED <<daemonState, port, faults, opened, view, disabled, message, visible,
                 pollTimer, chain, polls, clicks>>

\* Two clients change in one step: the loop has its answer and a chain begins.
TakeAndRefresh(c, r) ==
  /\ BeginRefresh(r)
  /\ asked' = [asked EXCEPT ![c] = "nothing", ![r] = "status"]
  /\ answer' = [answer EXCEPT ![c] = "none"]
  /\ UNCHANGED held

SignInDone(r) ==
  /\ signIn = "poll" /\ answer[SignIn] = "done"
  /\ EndSignIn("none")
  /\ TakeAndRefresh(SignIn, r)
  /\ UNCHANGED <<daemonState, port, faults, opened, view, visible, pollTimer, polls,
                 clicks>>

ClickSignOut ==
  /\ Click /\ Shown("signout")
  /\ disabled' = disabled \cup {"signout"}
  /\ Ask(SignOut, "logout")
  /\ UNCHANGED <<daemonState, port, faults, opened, view, message, visible, pollTimer,
                 chain, polls, signIn>>

SignOutFails ==
  /\ Threw(SignOut)
  /\ disabled' = disabled \ {"signout"}
  /\ message' = "error"
  /\ Take(SignOut)
  /\ UNCHANGED <<daemonState, port, faults, opened, view, visible, pollTimer, chain,
                 polls, signIn, clicks>>

SignOutDone(r) ==
  /\ answer[SignOut] = "ok"
  /\ disabled' = disabled \ {"signout"}
  /\ TakeAndRefresh(SignOut, r)
  /\ UNCHANGED <<daemonState, port, faults, opened, view, message, visible, pollTimer,
                 polls, signIn, clicks>>

\* What the page does by itself, and what the user does with it.
SignInStep == SignInFails \/ SignInWaits \/ SignInPolls \/ \E r \in Chains : SignInDone(r)
SignOutStep == SignOutFails \/ \E r \in Chains : SignOutDone(r)
PollStep == \E r \in Chains : PollTimerFires(r)

PageReacts ==
  \/ \E r \in Chains : StatusArrives(r) \/ ConnectionsArrive(r)
  \/ SignInStep
  \/ SignOutStep
  \/ PollStep

PageUser ==
  \/ \E r \in Chains : Open(r) \/ ClickRetry(r)
  \/ ClickSignIn
  \/ ClickSignOut
===========================================================================
