------------------------------- MODULE Askpass -------------------------------
(***************************************************************************)
(* How hsh gives ssh the token (src/auth/askpass.ts, runWithAskpass of     *)
(* src/plugins/ssh.ts).  Each invocation sweeps ~/.hsh/askpass, writes the *)
(* token and a shim that prints it, both with safeWrite under names of its *)
(* own, spawns ssh, and removes the two files when ssh has exited.  ssh    *)
(* runs the shim whenever it wants a password.  hsh may be killed at any   *)
(* step, and ssh then goes on without it.                                  *)
(***************************************************************************)
CONSTANT Proc     \* hsh ssh invocations that hold credentials

VARIABLES
  hsh,     \* the next step of each invocation
  ssh,     \* its child
  got,     \* what the shim has printed when ssh asked for a password
  dir,     \* the files in ~/.hsh/askpass
  old,     \* those older than ORPHAN_TTL_MS
  doomed,  \* what a sweep has listed and not yet looked at
  due,     \* auxiliary: the old orphans there were when a sweep began
  aged     \* auxiliary: invocations one of whose files has ever been old

disk    == <<dir, old>>
history == <<due, aged>>
vars    == <<hsh, ssh, got, disk, doomed, history>>

Part == {"token", "shim"}
\* A temporary file of safeWrite, or the file it is renamed to.
File == [of: Proc, part: Part, tmp: BOOLEAN]
Label == {"start", "sweep", "token", "tokenTmp", "shim", "shimTmp", "chmod",
          "spawn", "wait", "dropToken", "dropShim", "paste", "pasted", "done",
          "dead"}
TempOf(p, part)  == [of |-> p, part |-> part, tmp |-> TRUE]
FinalOf(p, part) == [of |-> p, part |-> part, tmp |-> FALSE]

TypeOK ==
  /\ hsh \in [Proc -> Label]
  /\ ssh \in [Proc -> {"none", "running", "exited"}]
  /\ got \in [Proc -> SUBSET {"token", "empty"}]
  /\ dir \in SUBSET File /\ old \in SUBSET File
  /\ doomed \in [Proc -> SUBSET File]
  /\ due \in [Proc -> SUBSET File] /\ aged \in SUBSET Proc

Init ==
  /\ hsh = [p \in Proc |-> "start"] /\ ssh = [p \in Proc |-> "none"]
  /\ got = [p \in Proc |-> {}]
  /\ dir = {} /\ old = {}
  /\ doomed = [p \in Proc |-> {}]
  /\ due = [p \in Proc |-> {}] /\ aged = {}

\* The invocation will not touch its files again.
Over(p) == hsh[p] \in {"pasted", "done", "dead"}
Goto(p, l) == hsh' = [hsh EXCEPT ![p] = l]
Unlink(F)  == dir' = dir \ F /\ old' = old \ F

-----------------------------------------------------------------------------
(* sweepOrphanAskpass                                                      *)

\* Faulty variant: the sweep forgets about tokens.
ListShims(p) ==
  /\ hsh[p] = "start" /\ Goto(p, "sweep")
  /\ doomed' = [doomed EXCEPT ![p] = {f \in dir: ~f.tmp /\ f.part = "shim"}]
  /\ due' = [due EXCEPT ![p] = {f \in old: Over(f.of)}]
  /\ UNCHANGED <<ssh, got, disk, aged>>

\* readdirSync, and the test of the extension: .token and .sh.
ListFiles(p) ==
  /\ hsh[p] = "start" /\ Goto(p, "sweep")
  /\ doomed' = [doomed EXCEPT ![p] = {f \in dir: ~f.tmp}]
  /\ due' = [due EXCEPT ![p] = {f \in old: Over(f.of)}]
  /\ UNCHANGED <<ssh, got, disk, aged>>

\* Faulty variant: the age is not looked at.
SweepAnyFile(p) ==
  /\ hsh[p] = "sweep"
  /\ \E f \in doomed[p]:
       doomed' = [doomed EXCEPT ![p] = @ \ {f}] /\ Unlink({f})
  /\ UNCHANGED <<hsh, ssh, got, history>>

\* statSync and unlinkSync of one file.  A file that is gone is skipped.
SweepFile(p) ==
  /\ hsh[p] = "sweep"
  /\ \E f \in doomed[p]:
       doomed' = [doomed EXCEPT ![p] = @ \ {f}] /\ Unlink({f} \cap old)
  /\ UNCHANGED <<hsh, ssh, got, history>>

\* HSH_SSH_ASKPASS may say no, or the local OpenSSH be too old.
SweepEnds(p) ==
  /\ hsh[p] = "sweep" /\ doomed[p] = {}
  /\ Goto(p, "token") \/ Goto(p, "paste")
  /\ UNCHANGED <<ssh, got, disk, doomed, history>>

-----------------------------------------------------------------------------
(* writeAskpassPair: safeWrite twice, then chmod.                          *)

OpenTemp(p, part) ==
  /\ hsh[p] = part /\ Goto(p, IF part = "token" THEN "tokenTmp" ELSE "shimTmp")
  /\ dir' = dir \cup {TempOf(p, part)}
  /\ UNCHANGED <<ssh, got, old, doomed, history>>

\* The file keeps the age it has.
RenameTemp(p, part) ==
  /\ hsh[p] = (IF part = "token" THEN "tokenTmp" ELSE "shimTmp")
  /\ Goto(p, IF part = "token" THEN "shim" ELSE "chmod")
  /\ dir' = (dir \ {TempOf(p, part)}) \cup {FinalOf(p, part)}
  /\ old' = IF TempOf(p, part) \in old
            THEN (old \ {TempOf(p, part)}) \cup {FinalOf(p, part)} ELSE old
  /\ UNCHANGED <<ssh, got, doomed, history>>

\* A step of the two safeWrites throws; what was written stays.
WriteFails(p) ==
  /\ hsh[p] \in {"token", "tokenTmp", "shim", "shimTmp"} /\ Goto(p, "paste")
  /\ UNCHANGED <<ssh, got, disk, doomed, history>>

\* chmodSync throws when the shim has been swept.
Chmod(p) ==
  /\ hsh[p] = "chmod"
  /\ Goto(p, IF FinalOf(p, "shim") \in dir THEN "spawn" ELSE "paste")
  /\ UNCHANGED <<ssh, got, disk, doomed, history>>

-----------------------------------------------------------------------------
(* runWithAskpass and runWithCopyPaste; the child.                         *)

Spawn(p) ==
  /\ hsh[p] = "spawn"
  /\ \/ Goto(p, "wait") /\ ssh' = [ssh EXCEPT ![p] = "running"]
     \/ Goto(p, "dropToken") /\ UNCHANGED ssh      \* ssh could not be started
  /\ UNCHANGED <<got, disk, doomed, history>>

\* ssh has the user type or paste the token.
Paste(p) ==
  /\ hsh[p] = "paste" /\ Goto(p, "pasted")
  /\ UNCHANGED <<ssh, got, disk, doomed, history>>

\* Faulty variant: the shim fails when the token is gone.
AskAndFail(p) ==
  /\ ssh[p] = "running"
  /\ got' = [got EXCEPT ![p] = @ \cup
       {IF FinalOf(p, "token") \in dir THEN "token" ELSE "failure"}]
  /\ UNCHANGED <<hsh, ssh, disk, doomed, history>>

\* ssh runs the shim: the token, or nothing when a file is missing.
Ask(p) ==
  /\ ssh[p] = "running"
  /\ got' = [got EXCEPT ![p] = @ \cup
       {IF {FinalOf(p, "token"), FinalOf(p, "shim")} \subseteq dir
        THEN "token" ELSE "empty"}]
  /\ UNCHANGED <<hsh, ssh, disk, doomed, history>>

SshExits(p) ==
  /\ ssh[p] = "running" /\ ssh' = [ssh EXCEPT ![p] = "exited"]
  /\ UNCHANGED <<hsh, got, disk, doomed, history>>

\* Faulty variant: only the shim is cleaned up.
SkipToken(p) ==
  /\ hsh[p] = "wait" /\ ssh[p] = "exited" /\ Goto(p, "dropShim")
  /\ UNCHANGED <<ssh, got, disk, doomed, history>>

\* child.on("exit"): cleanupAskpassPair, the token first.
NoticeExit(p) ==
  /\ hsh[p] = "wait" /\ ssh[p] = "exited" /\ Goto(p, "dropToken")
  /\ UNCHANGED <<ssh, got, disk, doomed, history>>

DropToken(p) ==
  /\ hsh[p] = "dropToken" /\ Goto(p, "dropShim")
  /\ Unlink({FinalOf(p, "token")})
  /\ UNCHANGED <<ssh, got, doomed, history>>

DropShim(p) ==
  /\ hsh[p] = "dropShim" /\ Goto(p, "done")
  /\ Unlink({FinalOf(p, "shim")})
  /\ UNCHANGED <<ssh, got, doomed, history>>

\* hsh is killed, for one by the interrupt key while ssh asks; ssh need not be.
Kill(p) ==
  /\ hsh[p] \notin {"start", "pasted", "done", "dead"} /\ Goto(p, "dead")
  /\ doomed' = [doomed EXCEPT ![p] = {}]
  /\ UNCHANGED <<ssh, got, disk, history>>

\* Five minutes pass over a file.
Age(f) ==
  /\ old' = old \cup {f} /\ aged' = aged \cup {f.of}
  /\ UNCHANGED <<hsh, ssh, got, dir, doomed, due>>

Next ==
  \/ \E p \in Proc:
       \/ ListFiles(p) \/ SweepFile(p) \/ SweepEnds(p)
       \/ \E part \in Part: OpenTemp(p, part) \/ RenameTemp(p, part)
       \/ WriteFails(p) \/ Chmod(p)
       \/ Spawn(p) \/ Paste(p) \/ Ask(p) \/ SshExits(p)
       \/ NoticeExit(p) \/ DropToken(p) \/ DropShim(p) \/ Kill(p)
  \/ \E f \in dir \ old: Age(f)

Spec == Init /\ [][Next]_vars

-----------------------------------------------------------------------------
\* ssh gets the token whenever it asks, until five minutes have passed over
\* the files: no sweep, clean-up or death of any invocation takes the pair
\* away from a running ssh before that (ORPHAN_TTL_MS, cleanupAskpassPair).
YoungPairsAnswer == \A p \in Proc: "empty" \in got[p] => p \in aged

\* "Both files are deleted as soon as ssh exits" (docs/troubleshooting.md):
\* when hsh ends after runWithAskpass, nothing of its pair is left, temporary
\* names included, whatever sweeps ran meanwhile.
NothingLeft ==
  \A p \in Proc: hsh[p] = "done" => \A f \in dir: f.of # p

\* What a killed or failed invocation left under a final name, and five minutes
\* have passed over, is gone once a sweep that began after that has ended.
Swept(p) == hsh[p] \notin {"start", "sweep", "dead"}
SweepTakesOrphans ==
  \A p \in Proc: Swept(p) => \A f \in due[p] \cap dir: f.tmp

\* docs/troubleshooting.md: the sweeper "removes anything older than 5
\* minutes".  It does not see the temporary files of safeWrite.
SweepTakesAnything == \A p \in Proc: Swept(p) => due[p] \cap dir = {}
=============================================================================
