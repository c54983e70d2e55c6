--------------------------- MODULE CommandContract ---------------------------
(***************************************************************************)
(* What one hsh command promises to the shell that started it: how it may  *)
(* end, given the command and what the gateway has answered so far.  This  *)
(* is the contract of src/plugins/exit-codes.ts, with the outcome of a     *)
(* command that handed the terminal to a child told apart by what the      *)
(* child reaches:                                                          *)
(*   native    the user's own ssh / kubectl, nothing of Hoop involved      *)
(*   connected the child talks to the gateway with issued credentials      *)
(*   bypassed  kubectl was pointed at the ephemeral kubeconfig, but found  *)
(*             no entry of its context there and used the user's own file  *)
(*   exitN     hsh itself ended the command with that status               *)
(***************************************************************************)
CONSTANT Proc       \* the hsh invocations

VARIABLES cmd,      \* the command each invocation runs, "none" before it starts
          verdict,  \* the most telling gateway answer it has acted on
          outcome   \* how it ended, "none" while it runs

contractVars == <<cmd, verdict, outcome>>

Wrapper  == {"ssh", "kubectl", "kubeconfig"}
Command  == Wrapper \cup {"login", "logout"}
Verdict  == {"unasked", "accepted", "unavailable", "denied", "refused",
             "issued", "pending"}
Outcome  == {"native", "connected", "bypassed", "exit0", "exit1", "exit75",
             "exit77"}

\* The verdicts that can replace v: the connection list is asked for first,
\* credentials only once the list was served.
Follows(v) ==
  IF v = "unasked" THEN {"accepted", "unavailable", "denied"}
  ELSE IF v = "accepted"
  THEN {"unavailable", "denied", "refused", "issued", "pending"} ELSE {}

\* Handing over to the wrapped tool without Hoop, or (hsh kubeconfig has no
\* tool to hand over to) the generic error.
Fallback(c) == IF c \in {"ssh", "kubectl"} THEN "native" ELSE "exit1"

\* Reaching the target: kubeconfig only prints a path.
Reached(c) ==
  IF c = "kubeconfig" THEN {"exit0"}
  ELSE {"connected"} \cup (IF c = "kubectl" THEN {"bypassed"} ELSE {})

\* The ways a command c that knows v may end.
Allowed(c, v) ==
  IF c \notin Wrapper THEN {"exit0", "exit1"}
  ELSE IF v = "unasked"
  THEN {Fallback(c)} \cup (IF c = "kubeconfig" THEN {"exit77"} ELSE {})
  ELSE {o \in Outcome:
          \/ v = "accepted"    /\ o \in Reached(c) \cup {Fallback(c), "exit1"}
          \/ v = "unavailable" /\ o = Fallback(c)
          \/ v = "denied"      /\ o \in {"exit77", "exit1"}
          \/ v = "refused"     /\ o = "exit1"
          \/ v = "issued"      /\ o \in Reached(c) \cup {"exit1"}
          \/ v = "pending"     /\ o = "exit75"}

Init ==
  /\ cmd     = [p \in Proc |-> "none"]
  /\ verdict = [p \in Proc |-> "unasked"]
  /\ outcome = [p \in Proc |-> "none"]

Running(p) == cmd[p] # "none" /\ outcome[p] = "none"

Start(p) ==
  /\ cmd[p] = "none"
  /\ \E c \in Command: cmd' = [cmd EXCEPT ![p] = c]
  /\ UNCHANGED <<verdict, outcome>>

\* A command that cannot start (no host or context in its arguments, no API
\* URL configured) starts and ends at once.
StartAndEnd(p) ==
  /\ cmd[p] = "none"
  /\ \E c \in Command:
       /\ cmd' = [cmd EXCEPT ![p] = c]
       /\ \E o \in Allowed(c, verdict[p]): outcome' = [outcome EXCEPT ![p] = o]
  /\ UNCHANGED verdict

\* What the command has changed is looked at first: most of its steps are none
\* of the contract's.
Learn(p) ==
  /\ Running(p) /\ verdict'[p] # verdict[p]
  /\ \E v \in Follows(verdict[p]): verdict' = [verdict EXCEPT ![p] = v]
  /\ UNCHANGED <<cmd, outcome>>

\* The last answer and the end may come in one step.
Finish(p) ==
  /\ Running(p) /\ outcome'[p] # "none"
  /\ \E v \in {verdict[p]} \cup Follows(verdict[p]):
       /\ verdict' = [verdict EXCEPT ![p] = v]
       /\ \E o \in Allowed(cmd[p], v): outcome' = [outcome EXCEPT ![p] = o]
  /\ UNCHANGED cmd

Next == \E p \in Proc: Start(p) \/ StartAndEnd(p) \/ Learn(p) \/ Finish(p)

Spec == Init /\ [][Next]_contractVars
=============================================================================
