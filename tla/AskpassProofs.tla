---------------------------- MODULE AskpassProofs ----------------------------
(***************************************************************************)
(* Askpass for any number of invocations.  The argument: only its owner    *)
(* creates the files of an invocation, and where the owner is in its code  *)
(* says which of them there can be; nobody but the owner removes one that  *)
(* is not old.                                                             *)
(***************************************************************************)
EXTENDS Askpass, TLAPS

\* The files an invocation can have while it is in control of them.
Expected(p) ==
  IF hsh[p] \in {"start", "sweep", "token", "done"} THEN {}
  ELSE IF hsh[p] = "tokenTmp" THEN {TempOf(p, "token")}
  ELSE IF hsh[p] = "shim" THEN {FinalOf(p, "token")}
  ELSE IF hsh[p] = "shimTmp" THEN {FinalOf(p, "token"), TempOf(p, "shim")}
  ELSE IF hsh[p] \in {"chmod", "spawn", "wait", "dropToken"}
  THEN {FinalOf(p, "token"), FinalOf(p, "shim")}
  ELSE IF hsh[p] = "dropShim" THEN {FinalOf(p, "shim")}
  ELSE File

\* The files ssh will want.
Wanted(p) ==
  IF hsh[p] \in {"shim", "shimTmp"} THEN {FinalOf(p, "token")}
  ELSE IF hsh[p] \in {"chmod", "spawn", "wait"} \/ ssh[p] = "running"
  THEN {FinalOf(p, "token"), FinalOf(p, "shim")}
  ELSE {}

PairInv(p) ==
  /\ ssh[p] = "running" => hsh[p] \in {"wait", "dead"}
  /\ \A f \in dir: f.of = p => f \in Expected(p)
  /\ p \in aged \/ Wanted(p) \subseteq dir
  /\ "empty" \in got[p] => p \in aged

\* What a sweep still has to take is listed.
SweepInv(p) ==
  /\ \A f \in due[p]: Over(f.of)
  /\ \A f \in due[p] \cap dir:
       /\ f \in old
       /\ f.tmp \/ hsh[p] = "dead" \/ (hsh[p] = "sweep" /\ f \in doomed[p])

AskpassInv == /\ TypeOK /\ \A f \in old: f.of \in aged
              /\ \A p \in Proc: PairInv(p) /\ SweepInv(p)

USE DEF disk, history, Goto, Unlink

-----------------------------------------------------------------------------
\* The types.
LEMMA TypeStep == ASSUME TypeOK, [Next]_vars PROVE TypeOK'
  <1>. USE DEF TypeOK, Label
  <1>1. ASSUME NEW p \in Proc, ListFiles(p) \/ SweepFile(p) \/ SweepEnds(p) PROVE TypeOK'
    BY <1>1 DEF ListFiles, SweepFile, SweepEnds
  <1>2. ASSUME NEW p \in Proc, NEW part \in Part, OpenTemp(p, part) \/ RenameTemp(p, part)
        PROVE TypeOK'
    <2>1. TempOf(p, part) \in File /\ FinalOf(p, part) \in File
      BY DEF TempOf, FinalOf, File
    <2>. QED
      BY <1>2, <2>1 DEF OpenTemp, RenameTemp
  <1>3. ASSUME NEW p \in Proc, WriteFails(p) \/ Chmod(p) \/ Spawn(p) \/ Paste(p) PROVE TypeOK'
    BY <1>3 DEF WriteFails, Chmod, Spawn, Paste
  <1>4. ASSUME NEW p \in Proc, Ask(p) \/ SshExits(p) \/ NoticeExit(p) PROVE TypeOK'
    BY <1>4 DEF Ask, SshExits, NoticeExit
  <1>5. ASSUME NEW p \in Proc, DropToken(p) \/ DropShim(p) \/ Kill(p) PROVE TypeOK'
    BY <1>5 DEF DropToken, DropShim, Kill
  <1>6. ASSUME NEW f \in dir, Age(f) PROVE TypeOK'
    BY <1>6 DEF Age, File
  <1>7. CASE UNCHANGED vars
    BY <1>7 DEF vars
  <1>. QED
    BY <1>1, <1>2, <1>3, <1>4, <1>5, <1>6, <1>7 DEF Next

LEMMA InitStep == Init => AskpassInv
  BY DEF Init, AskpassInv, TypeOK, Label, PairInv, SweepInv, Expected, Wanted

-----------------------------------------------------------------------------
(* The pair of an invocation.                                              *)

\* Who does not step: its files are touched only by age and by sweeps.
LEMMA PairFrame ==
  ASSUME NEW q \in Proc, PairInv(q), aged \subseteq aged',
         hsh'[q] = hsh[q], ssh'[q] = ssh[q], got'[q] = got[q],
         \A f \in dir': f.of = q => f \in dir,
         \A f \in dir: f.of = q => f \in dir' \/ q \in aged
  PROVE  PairInv(q)'
  <1>1. Expected(q)' = Expected(q) /\ Wanted(q)' = Wanted(q)
    BY DEF Expected, Wanted, TempOf, FinalOf
  <1>2. \A f \in Wanted(q): f.of = q
    BY DEF Wanted, FinalOf
  <1>. QED
    BY <1>1, <1>2 DEF PairInv

LEMMA SweepsKeepPair ==
  ASSUME AskpassInv, NEW p \in Proc, ListFiles(p) \/ SweepFile(p) \/ SweepEnds(p), NEW q \in Proc
  PROVE  PairInv(q)'
  <1>. USE DEF AskpassInv
  <1>1. CASE q # p \/ SweepFile(p)
    <2>1. hsh'[q] = hsh[q] /\ ssh'[q] = ssh[q] /\ got'[q] = got[q] /\ aged' = aged
      BY <1>1 DEF ListFiles, SweepFile, SweepEnds, TypeOK
    <2>2. dir' \subseteq dir /\ \A f \in dir: f \in dir' \/ f.of \in aged
      BY DEF ListFiles, SweepFile, SweepEnds
    <2>. QED
      BY <2>1, <2>2, PairFrame
  <1>2. CASE q = p /\ ~SweepFile(p)
    BY <1>2 DEF ListFiles, SweepEnds, PairInv, Expected, Wanted, TypeOK
  <1>. QED
    BY <1>1, <1>2

LEMMA WritesKeepPair ==
  ASSUME AskpassInv, NEW p \in Proc, NEW part \in Part,
         OpenTemp(p, part) \/ RenameTemp(p, part), NEW q \in Proc
  PROVE  PairInv(q)'
  <1>. USE DEF AskpassInv
  <1>1. CASE q # p
    <2>1. hsh'[q] = hsh[q] /\ ssh'[q] = ssh[q] /\ got'[q] = got[q] /\ aged' = aged
      BY <1>1 DEF OpenTemp, RenameTemp, TypeOK
    <2>2. \A f: f.of = q => (f \in dir' <=> f \in dir)
      BY <1>1 DEF OpenTemp, RenameTemp, TempOf, FinalOf
    <2>. QED
      BY <2>1, <2>2, PairFrame
  <1>2. CASE q = p /\ OpenTemp(p, part)
    BY <1>2 DEF OpenTemp, PairInv, Expected, Wanted, TempOf, FinalOf, TypeOK, Part
  <1>3. CASE q = p /\ RenameTemp(p, part)
    BY <1>3 DEF RenameTemp, PairInv, Expected, Wanted, TempOf, FinalOf, TypeOK, Part
  <1>. QED
    BY <1>1, <1>2, <1>3

LEMMA MovesKeepPair ==
  ASSUME AskpassInv, NEW p \in Proc, NEW q \in Proc,
         \/ WriteFails(p) \/ Chmod(p) \/ Spawn(p) \/ Paste(p)
         \/ Ask(p) \/ SshExits(p) \/ NoticeExit(p) \/ Kill(p)
  PROVE  PairInv(q)'
  <1>. USE DEF AskpassInv
  <1>0. dir' = dir /\ aged' = aged
    BY DEF WriteFails, Chmod, Spawn, Paste, Ask, SshExits, NoticeExit, Kill
  <1>1. CASE q # p
    <2>1. hsh'[q] = hsh[q] /\ ssh'[q] = ssh[q] /\ got'[q] = got[q]
      BY <1>1 DEF WriteFails, Chmod, Spawn, Paste, Ask, SshExits, NoticeExit, Kill, TypeOK
    <2>. QED
      BY <1>0, <2>1, PairFrame
  <1>2. CASE q = p
    <2>. USE DEF PairInv, Expected, Wanted, TypeOK
    <2>1. CASE WriteFails(p)
      BY <1>2, <2>1 DEF WriteFails
    <2>2. CASE Chmod(p)
      BY <1>2, <2>2 DEF Chmod
    <2>3. CASE Spawn(p)
      BY <1>2, <2>3 DEF Spawn
    <2>4. CASE Paste(p)
      BY <1>2, <2>4 DEF Paste
    <2>5. CASE Ask(p)
      BY <1>2, <2>5 DEF Ask
    <2>6. CASE SshExits(p)
      BY <1>2, <2>6 DEF SshExits
    <2>7. CASE NoticeExit(p)
      BY <1>2, <2>7 DEF NoticeExit
    <2>8. CASE Kill(p)
      BY <1>2, <2>8 DEF Kill
    <2>. QED
      BY <2>1, <2>2, <2>3, <2>4, <2>5, <2>6, <2>7, <2>8
  <1>. QED
    BY <1>1, <1>2

LEMMA DropsKeepPair ==
  ASSUME AskpassInv, NEW p \in Proc, NEW q \in Proc, DropToken(p) \/ DropShim(p)
  PROVE  PairInv(q)'
  <1>. USE DEF AskpassInv
  <1>1. CASE q # p
    <2>1. hsh'[q] = hsh[q] /\ ssh'[q] = ssh[q] /\ got'[q] = got[q] /\ aged' = aged
      BY <1>1 DEF DropToken, DropShim, TypeOK
    <2>2. \A f: f.of = q => (f \in dir' <=> f \in dir)
      BY <1>1 DEF DropToken, DropShim, FinalOf
    <2>. QED
      BY <2>1, <2>2, PairFrame
  <1>2. CASE q = p
    BY <1>2 DEF DropToken, DropShim, PairInv, Expected, Wanted, FinalOf, TypeOK
  <1>. QED
    BY <1>1, <1>2

LEMMA AgeKeepsPair ==
  ASSUME AskpassInv, NEW f \in dir, Age(f), NEW q \in Proc
  PROVE  PairInv(q)'
  BY PairFrame DEF AskpassInv, Age

-----------------------------------------------------------------------------
(* What the sweeps owe.                                                    *)

\* Whose sweep does not move on: what is due stays old or goes, and its owner
\* stays away.
LEMMA SweepFrame ==
  ASSUME NEW q \in Proc, SweepInv(q), due'[q] = due[q], doomed'[q] = doomed[q],
         hsh[q] \in {"sweep", "dead"} => hsh'[q] = hsh[q],
         \A f \in due[q]:
           /\ Over(f.of) => Over(f.of)'
           /\ Over(f.of) /\ f \in dir' => f \in dir /\ (f \in old => f \in old')
  PROVE  SweepInv(q)'
  BY DEF SweepInv

LEMMA SweepsKeepDue ==
  ASSUME AskpassInv, NEW p \in Proc, ListFiles(p) \/ SweepFile(p) \/ SweepEnds(p), NEW q \in Proc
  PROVE  SweepInv(q)'
  <1>. USE DEF AskpassInv
  <1>0. \A r \in Proc: Over(r) => Over(r)'
    BY DEF Over, ListFiles, SweepFile, SweepEnds, TypeOK
  <1>00. \A f \in due[q]: f.of \in Proc
    BY DEF TypeOK, File
  <1>1. CASE q # p
    <2>1. hsh'[q] = hsh[q] /\ due'[q] = due[q] /\ doomed'[q] = doomed[q]
      BY <1>1 DEF ListFiles, SweepFile, SweepEnds, TypeOK
    <2>2. \A f \in dir': f \in dir /\ (f \in old => f \in old')
      BY DEF ListFiles, SweepFile, SweepEnds
    <2>. QED
      BY <1>0, <1>00, <2>1, <2>2, SweepFrame
  <1>2. CASE q = p /\ ListFiles(p)
    <2>1. /\ hsh'[p] = "sweep" /\ doomed'[p] = {f \in dir: ~f.tmp}
          /\ due'[p] = {f \in old: Over(f.of)} /\ dir' = dir /\ old' = old
      BY <1>2 DEF ListFiles, TypeOK
    <2>2. \A f \in due'[p]: Over(f.of)'
      BY <2>1, <1>0 DEF TypeOK, File
    <2>. QED
      BY <1>2, <2>1, <2>2 DEF SweepInv
  <1>3. CASE q = p /\ SweepFile(p)
    <2>1. PICK f \in doomed[p]: doomed' = [doomed EXCEPT ![p] = @ \ {f}] /\ Unlink({f} \cap old)
      BY <1>3 DEF SweepFile
    <2>2. hsh' = hsh /\ due' = due /\ doomed'[p] = doomed[p] \ {f} /\ hsh[p] = "sweep"
      BY <1>3, <2>1 DEF SweepFile, TypeOK
    <2>3. \A g \in due[p]: Over(g.of)'
      BY <1>3, <2>2 DEF SweepInv, Over
    <2>. QED
      BY <1>3, <2>1, <2>2, <2>3 DEF SweepInv
  <1>4. CASE q = p /\ SweepEnds(p)
    BY <1>4, <1>0, <1>00 DEF SweepEnds, SweepInv
  <1>. QED
    BY <1>1, <1>2, <1>3, <1>4

LEMMA WritesKeepDue ==
  ASSUME AskpassInv, NEW p \in Proc, NEW part \in Part,
         OpenTemp(p, part) \/ RenameTemp(p, part), NEW q \in Proc
  PROVE  SweepInv(q)'
  <1>. USE DEF AskpassInv
  <1>1. ~Over(p) /\ due' = due /\ doomed' = doomed
    BY DEF Over, OpenTemp, RenameTemp, Part
  <1>2. \A r \in Proc: r # p => hsh'[r] = hsh[r]
    BY DEF OpenTemp, RenameTemp, TypeOK
  <1>3. hsh[p] \notin {"sweep", "dead"}
    BY DEF OpenTemp, RenameTemp, Part
  <1>4. \A f \in File: f.of # p => (f \in dir' => f \in dir) /\ (f \in old => f \in old')
    BY DEF OpenTemp, RenameTemp, TempOf, FinalOf
  <1>5. \A f \in due[q]: f \in File /\ f.of \in Proc
    BY DEF TypeOK, File
  <1>6. \A r \in Proc: Over(r) => Over(r)'
    BY <1>1, <1>2 DEF Over
  <1>. QED
    BY <1>1, <1>2, <1>3, <1>4, <1>5, <1>6, SweepFrame

\* The steps after the sweep, which remove no file.
LEMMA MovesKeepDue ==
  ASSUME AskpassInv, NEW p \in Proc, NEW q \in Proc,
         \/ WriteFails(p) \/ Chmod(p) \/ Spawn(p) \/ Paste(p)
         \/ Ask(p) \/ SshExits(p) \/ NoticeExit(p)
  PROVE  SweepInv(q)'
  <1>. USE DEF AskpassInv
  <1>1. dir' = dir /\ old' = old /\ due' = due /\ doomed' = doomed
    BY DEF WriteFails, Chmod, Spawn, Paste, Ask, SshExits, NoticeExit
  <1>2. \A r \in Proc: hsh[r] \in {"sweep", "dead"} => hsh'[r] = hsh[r]
    BY DEF WriteFails, Chmod, Spawn, Paste, Ask, SshExits, NoticeExit, TypeOK
  <1>3. \A r \in Proc: Over(r) => Over(r)'
    BY DEF Over, WriteFails, Chmod, Spawn, Paste, Ask, SshExits, NoticeExit, TypeOK
  <1>4. \A f \in due[q]: f.of \in Proc
    BY DEF TypeOK, File
  <1>. QED
    BY <1>1, <1>2, <1>3, <1>4, SweepFrame

LEMMA DropsKeepDue ==
  ASSUME AskpassInv, NEW p \in Proc, NEW q \in Proc, DropToken(p) \/ DropShim(p)
  PROVE  SweepInv(q)'
  <1>. USE DEF AskpassInv
  <1>1. due' = due /\ doomed' = doomed /\ dir' \subseteq dir /\ \A f \in dir': f \in old => f \in old'
    BY DEF DropToken, DropShim
  <1>2. \A r \in Proc: hsh[r] \in {"sweep", "dead"} => hsh'[r] = hsh[r]
    BY DEF DropToken, DropShim, TypeOK
  <1>3. \A r \in Proc: Over(r) => Over(r)'
    BY DEF Over, DropToken, DropShim, TypeOK
  <1>4. \A f \in due[q]: f.of \in Proc
    BY DEF TypeOK, File
  <1>. QED
    BY <1>1, <1>2, <1>3, <1>4, SweepFrame

LEMMA KillKeepsDue ==
  ASSUME AskpassInv, NEW p \in Proc, NEW q \in Proc, Kill(p)
  PROVE  SweepInv(q)'
  <1>. USE DEF AskpassInv
  <1>1. dir' = dir /\ old' = old /\ due' = due
    BY DEF Kill
  <1>2. \A r \in Proc: Over(r) => Over(r)'
    BY DEF Over, Kill, TypeOK
  <1>3. \A f \in due[q]: f.of \in Proc
    BY DEF TypeOK, File
  <1>4. IF q = p THEN hsh'[q] = "dead" ELSE hsh'[q] = hsh[q] /\ doomed'[q] = doomed[q]
    BY DEF Kill, TypeOK
  <1>. QED
    BY <1>1, <1>2, <1>3, <1>4 DEF SweepInv

LEMMA AgeKeepsDue ==
  ASSUME AskpassInv, NEW f \in dir, Age(f), NEW q \in Proc
  PROVE  SweepInv(q)'
  BY SweepFrame DEF AskpassInv, Age, Over

-----------------------------------------------------------------------------
(* Together.                                                               *)

LEMMA OldStep == ASSUME AskpassInv, [Next]_vars PROVE (\A f \in old: f.of \in aged)'
  <1>. USE DEF AskpassInv
  <1>1. ASSUME NEW p \in Proc, NEW part \in Part, RenameTemp(p, part)
        PROVE  (\A f \in old: f.of \in aged)'
    BY <1>1 DEF RenameTemp, TempOf, FinalOf
  <1>2. ASSUME NEW f \in dir, Age(f) PROVE (\A g \in old: g.of \in aged)'
    BY <1>2 DEF Age
  <1>3. CASE old' \subseteq old /\ aged' = aged
    BY <1>3
  <1>. QED
    BY <1>1, <1>2, <1>3 DEF Next, vars, ListFiles, SweepFile, SweepEnds, OpenTemp,
       WriteFails, Chmod, Spawn, Paste, Ask, SshExits, NoticeExit, DropToken, DropShim, Kill

LEMMA AskpassStep == ASSUME AskpassInv, [Next]_vars PROVE AskpassInv'
  <1>1. TypeOK' /\ (\A f \in old: f.of \in aged)'
    BY TypeStep, OldStep DEF AskpassInv
  <1>2. ASSUME NEW q \in Proc PROVE PairInv(q)' /\ SweepInv(q)'
    <2>1. CASE UNCHANGED vars
      BY <2>1 DEF vars, AskpassInv, PairInv, SweepInv, Expected, Wanted, Over, TempOf, FinalOf
    <2>2. CASE Next
      BY <2>2, SweepsKeepPair, WritesKeepPair, MovesKeepPair, DropsKeepPair, AgeKeepsPair,
         SweepsKeepDue, WritesKeepDue, MovesKeepDue, DropsKeepDue, KillKeepsDue, AgeKeepsDue
         DEF Next
    <2>. QED
      BY <2>1, <2>2
  <1>. QED
    BY <1>1, <1>2 DEF AskpassInv

\* The inductive invariant holds throughout, for any number of invocations of
\* ssh.ts that share the askpass directory.
THEOREM AskpassInvariant == Spec => []AskpassInv
  BY InitStep, AskpassStep, PTL DEF Spec

\* Types: among others, ssh is never told anything but the token or nothing.
THEOREM TypeInvariant == Spec => []TypeOK
  <1>1. AskpassInv => TypeOK
    BY DEF AskpassInv
  <1>. QED
    BY <1>1, AskpassInvariant, PTL

\* No other invocation takes a pair younger than five minutes from a running
\* ssh (sweepOrphanAskpass), nor does its own before ssh has exited.
THEOREM YoungPairs == Spec => []YoungPairsAnswer
  <1>1. AskpassInv => YoungPairsAnswer
    BY DEF AskpassInv, PairInv, YoungPairsAnswer
  <1>. QED
    BY <1>1, AskpassInvariant, PTL

\* An invocation that saw ssh exit leaves no file of its pair behind
\* (cleanupAskpassPair).
THEOREM CleanExit == Spec => []NothingLeft
  <1>1. AskpassInv => NothingLeft
    BY DEF AskpassInv, PairInv, Expected, NothingLeft
  <1>. QED
    BY <1>1, AskpassInvariant, PTL

\* A sweep that has ended leaves no pair that was orphaned and old when it
\* began (sweepOrphanAskpass).
THEOREM OrphansSwept == Spec => []SweepTakesOrphans
  <1>1. AskpassInv => SweepTakesOrphans
    BY DEF AskpassInv, SweepInv, SweepTakesOrphans, Swept
  <1>. QED
    BY <1>1, AskpassInvariant, PTL
=============================================================================
