---------------------------- MODULE InstallProofs ----------------------------
(***************************************************************************)
(* What Install guarantees for any number of invocations, releases, days   *)
(* and set-backs of the clock.  A file carries the name of the invocation  *)
(* that fetched it, so the argument is always about that invocation: by    *)
(* the time its file is at a path others read, its own verification lies   *)
(* behind it and nothing it knows can change any more.                     *)
(***************************************************************************)
EXTENDS Install, TLAPS

USE DEF machineVars, githubVars, choice, news, download, procVars, GoTo, End, Tell

SetUp(p) == cmd[p] \in {"setup", "setup --force"}

\* Where an invocation can be, given its command and the platform, and what it
\* has behind it there.
InCourse(p) ==
  /\ pc[p] = "idle" => cmd[p] = "none"
  /\ pc[p] \in {"status", "fetch", "checked"} => cmd[p] = "status"
  /\ pc[p] \in {"update", "found", "sum", "dropOld", "aside", "moveIn"} => Updating(p)
  /\ pc[p] \in {"setup", "manifest", "check", "unlink", "chmod", "sudo"} => SetUp(p)
  /\ pc[p] \in {"download", "stream", "verify", "replace"} => Updating(p) \/ SetUp(p)
  /\ pc[p] \in {"dropOld", "aside", "moveIn"} => win
  /\ SetUp(p) /\ pc[p] \notin {"setup", "done"} => ~win
  /\ SetUp(p) /\ pc[p] \notin {"setup", "manifest", "done"} => known[p]
  /\ pc[p] \in {"replace", "dropOld", "aside", "moveIn", "chmod", "sudo"} /\ known[p] =>
       HashMatches(p)
  /\ partial[p] =>
       \/ pc[p] \in {"stream", "verify", "replace", "dropOld", "aside", "moveIn"}
       \/ pc[p] = "done" /\ (ended[p] \in {"refused", "brokenOff", "killed"} \/ (win /\ ended[p] = "exit1"))
Courses == \A p \in Procs : InCourse(p)

\* Whoever fetched what is at a path has done with it.
PathsVerified ==
  \A p \in Procs :
    /\ p \in {bin, old} => pc[p] = "done" /\ (known[p] => HashMatches(p))
    /\ p \in {staged, rootRan} =>
         SetUp(p) /\ HashMatches(p) /\ pc[p] \in {"chmod", "sudo", "done"}

\* On Windows a file that a process runs from stays at one of the two paths; so
\* an .old file that stands in for hsh is in use by whoever could remove it.
ImagesKept ==
  /\ NeverLost
  /\ win => \A p \in Procs : Running(p) => image[p] \in {bin, old}

\* The releases only grow, and a check of today knows those of this morning.
ChecksKnow ==
  /\ latest["stable"] <= latest["prerelease"]
  /\ \A c \in Channels : morning[c] <= latest[c]
  /\ \A p \in Procs : pc[p] \in {"checked", "found"} => morning[channel[p]] <= rel[p]
  /\ setBacks = 0 /\ cache.tag # 0 =>
       /\ cache.at <= today
       /\ cache.at = today => morning[cache.channel] <= cache.tag

-----------------------------------------------------------------------------
(* The steps.                                                              *)

Begins(p) ==
  \E c \in {"status", "update", "setup", "setup --force"}, ch \in Channels : Begin(p, c, ch)

\* Every step is one of an invocation, one of the world, or none.
LEMMA NextCases ==
  ASSUME [Next]_vars
  PROVE  \/ \E p \in Procs : Begins(p) \/ ProcStep(p) \/ Kill(p)
         \/ Publish \/ Midnight \/ SetBack \/ UNCHANGED vars
  BY DEF Next, Begins, Channels

-----------------------------------------------------------------------------
(* Types.                                                                  *)

\* The initial states have the types.
LEMMA InitTyped == Init => TypeOK
  <1>. SUFFICES ASSUME Init PROVE TypeOK
    OBVIOUS
  <1>1. MachineTyped
    BY DEF Init, MachineTyped, Files
  <1>2. NoCheck \in Checks /\ 0 \in 0 .. MaxVersion
    BY InstallAssumption DEF NoCheck, Checks, Channels
  <1>3. GithubTyped
    BY <1>2, InstallAssumption DEF Init, GithubTyped, Channels
  <1>4. CourseTyped
    BY DEF Init, CourseTyped, Files, Channels
  <1>5. MemoryTyped
    BY <1>2 DEF Init, MemoryTyped
  <1>. QED
    BY <1>1, <1>3, <1>4, <1>5 DEF TypeOK

\* What is read of a release or of a check has the type of what it is stored in.
LEMMA ValuesTyped ==
  ASSUME TypeOK, NEW p \in Procs
  PROVE  /\ latest[channel[p]] \in 0 .. MaxVersion
         /\ seen[p].tag \in 0 .. MaxVersion /\ cache.tag \in 0 .. MaxVersion
         /\ rel[p] \in 0 .. MaxVersion /\ channel[p] \in Channels /\ cache \in Checks
         /\ [at |-> today, tag |-> rel[p], channel |-> channel[p]] \in Checks
  BY DEF TypeOK, GithubTyped, CourseTyped, MemoryTyped, Checks

\* A path holds one of the files, or none.
LEMMA MachineStep ==
  ASSUME TypeOK, [Next]_vars PROVE MachineTyped'
  <1>. USE DEF TypeOK, MachineTyped, Files
  <1>1. ASSUME NEW p \in Procs, UnlinkStaged(p)
        PROVE  MachineTyped'
    BY <1>1 DEF UnlinkStaged
  <1>2. ASSUME NEW p \in Procs, Replace(p)
        PROVE  MachineTyped'
    BY <1>2 DEF Replace, MoveIn, Discard
  <1>3. ASSUME NEW p \in Procs, DropOld(p)
        PROVE  MachineTyped'
    BY <1>3 DEF DropOld
  <1>4. ASSUME NEW p \in Procs, MoveAside(p)
        PROVE  MachineTyped'
    BY <1>4 DEF MoveAside
  <1>5. ASSUME NEW p \in Procs, MoveInLast(p)
        PROVE  MachineTyped'
    BY <1>5 DEF MoveInLast, MoveIn
  <1>6. ASSUME NEW p \in Procs, RunPrivileged(p)
        PROVE  MachineTyped'
    BY <1>6 DEF RunPrivileged
  <1>7. ASSUME NEW p \in Procs, Begins(p) \/ LookAtCache(p) \/ AskGitHub(p) \/
               StatusTells(p) \/ UpdateDecides(p) \/ LookUpSum(p) \/ BeginSetup(p) \/
               FetchManifest(p) \/ CheckStaged(p) \/ OpenPartial(p) \/ Stream(p) \/
               Verify(p) \/ ChmodStaged(p) \/ Kill(p)
        PROVE  MachineTyped'
    BY <1>7 DEF Begins, Begin, LookAtCache, AskGitHub, FallBack, StatusTells,
       WriteCheck, UpdateDecides, LookUpSum, BeginSetup, FetchManifest, CheckStaged,
       OpenPartial, Stream, Verify, Discard, ChmodStaged, Kill
  <1>8. ASSUME Publish \/ Midnight \/ SetBack \/ UNCHANGED vars
        PROVE  MachineTyped'
    BY <1>8 DEF Publish, Midnight, SetBack, vars
  <1>. QED
    BY NextCases, <1>1, <1>2, <1>3, <1>4, <1>5, <1>6, <1>7, <1>8 DEF ProcStep

\* A check holds a day, a release and a channel.
LEMMA GithubStep ==
  ASSUME TypeOK, [Next]_vars PROVE GithubTyped'
  <1>. USE DEF TypeOK, GithubTyped
  <1>1. ASSUME NEW p \in Procs, StatusTells(p)
        PROVE  GithubTyped'
    BY <1>1, ValuesTyped DEF StatusTells, WriteCheck, FallBack
  <1>2. ASSUME NEW p \in Procs, UpdateDecides(p)
        PROVE  GithubTyped'
    BY <1>2, ValuesTyped DEF UpdateDecides, WriteCheck
  <1>3. ASSUME Publish
        PROVE  GithubTyped'
    BY <1>3, InstallAssumption DEF Publish, Channels
  <1>4. ASSUME Midnight
        PROVE  GithubTyped'
    BY <1>4, InstallAssumption DEF Midnight, Channels
  <1>5. ASSUME SetBack
        PROVE  GithubTyped'
    BY <1>5, InstallAssumption DEF SetBack, Channels
  <1>6. ASSUME NEW p \in Procs, Begins(p) \/ LookAtCache(p) \/ AskGitHub(p) \/
               LookUpSum(p) \/ BeginSetup(p) \/ FetchManifest(p) \/ CheckStaged(p) \/
               UnlinkStaged(p) \/ OpenPartial(p) \/ Stream(p) \/ Verify(p) \/ Replace(p)
               \/ DropOld(p) \/ MoveAside(p) \/ MoveInLast(p) \/ ChmodStaged(p) \/
               RunPrivileged(p) \/ Kill(p)
        PROVE  GithubTyped'
    BY <1>6 DEF Begins, Begin, LookAtCache, AskGitHub, FallBack, LookUpSum, BeginSetup,
       FetchManifest, CheckStaged, UnlinkStaged, OpenPartial, Stream, Verify, Discard, Replace,
       MoveIn, DropOld, MoveAside, MoveInLast, ChmodStaged, RunPrivileged, Kill
  <1>7. ASSUME UNCHANGED vars
        PROVE  GithubTyped'
    BY <1>7 DEF vars
  <1>. QED
    BY NextCases, <1>1, <1>2, <1>3, <1>4, <1>5, <1>6, <1>7 DEF ProcStep

\* An invocation is at one of its labels.
LEMMA CourseTypeStep ==
  ASSUME TypeOK, [Next]_vars PROVE CourseTyped'
  <1>. USE DEF TypeOK, CourseTyped, Ends
  <1>1. ASSUME NEW p \in Procs, Begins(p)
        PROVE  CourseTyped'
    <2>1. PICK c \in {"status", "update", "setup", "setup --force"}, ch \in Channels : Begin(p, c, ch)
      BY <1>1 DEF Begins
    <2>2. bin \in Files
      BY <2>1 DEF Begin, MachineTyped
    <2>3. /\ cmd' = [cmd EXCEPT ![p] = c] /\ channel' = [channel EXCEPT ![p] = ch]
          /\ image' = [image EXCEPT ![p] = bin] /\ ended' = ended
      BY <2>1 DEF Begin
    <2>4. \E l \in {"status", "update", "setup"} : pc' = [pc EXCEPT ![p] = l]
      BY <2>1 DEF Begin
    <2>. QED
      BY <2>2, <2>3, <2>4
  <1>2. ASSUME NEW p \in Procs, LookAtCache(p)
        PROVE  CourseTyped'
    BY <1>2 DEF LookAtCache
  <1>3. ASSUME NEW p \in Procs, AskGitHub(p)
        PROVE  CourseTyped'
    BY <1>3 DEF AskGitHub, FallBack
  <1>4. ASSUME NEW p \in Procs, StatusTells(p)
        PROVE  CourseTyped'
    BY <1>4 DEF StatusTells, WriteCheck, FallBack
  <1>5. ASSUME NEW p \in Procs, UpdateDecides(p)
        PROVE  CourseTyped'
    BY <1>5 DEF UpdateDecides, WriteCheck
  <1>6. ASSUME NEW p \in Procs, LookUpSum(p)
        PROVE  CourseTyped'
    BY <1>6 DEF LookUpSum
  <1>7. ASSUME NEW p \in Procs, BeginSetup(p)
        PROVE  CourseTyped'
    BY <1>7 DEF BeginSetup
  <1>8. ASSUME NEW p \in Procs, FetchManifest(p)
        PROVE  CourseTyped'
    BY <1>8 DEF FetchManifest
  <1>9. ASSUME NEW p \in Procs, CheckStaged(p)
        PROVE  CourseTyped'
    BY <1>9 DEF CheckStaged
  <1>10. ASSUME NEW p \in Procs, UnlinkStaged(p)
        PROVE  CourseTyped'
    BY <1>10 DEF UnlinkStaged
  <1>11. ASSUME NEW p \in Procs, OpenPartial(p)
        PROVE  CourseTyped'
    BY <1>11 DEF OpenPartial
  <1>12. ASSUME NEW p \in Procs, Stream(p)
        PROVE  CourseTyped'
    BY <1>12 DEF Stream
  <1>13. ASSUME NEW p \in Procs, Verify(p)
        PROVE  CourseTyped'
    BY <1>13 DEF Verify, Discard
  <1>14. ASSUME NEW p \in Procs, Replace(p)
        PROVE  CourseTyped'
    BY <1>14 DEF Replace, MoveIn, Discard
  <1>15. ASSUME NEW p \in Procs, DropOld(p)
        PROVE  CourseTyped'
    BY <1>15 DEF DropOld
  <1>16. ASSUME NEW p \in Procs, MoveAside(p)
        PROVE  CourseTyped'
    BY <1>16 DEF MoveAside
  <1>17. ASSUME NEW p \in Procs, MoveInLast(p)
        PROVE  CourseTyped'
    BY <1>17 DEF MoveInLast, MoveIn
  <1>18. ASSUME NEW p \in Procs, ChmodStaged(p)
        PROVE  CourseTyped'
    BY <1>18 DEF ChmodStaged
  <1>19. ASSUME NEW p \in Procs, RunPrivileged(p)
        PROVE  CourseTyped'
    BY <1>19 DEF RunPrivileged
  <1>20. ASSUME NEW p \in Procs, Kill(p)
        PROVE  CourseTyped'
    BY <1>20 DEF Kill
  <1>21. ASSUME Publish \/ Midnight \/ SetBack \/ UNCHANGED vars
        PROVE  CourseTyped'
    BY <1>21 DEF Publish, Midnight, SetBack, vars
  <1>. QED
    BY NextCases, <1>1, <1>2, <1>3, <1>4, <1>5, <1>6, <1>7, <1>8, <1>9, <1>10, <1>11,
       <1>12, <1>13, <1>14, <1>15, <1>16, <1>17, <1>18, <1>19, <1>20, <1>21 DEF ProcStep

\* It remembers releases and checks.
LEMMA MemoryStep ==
  ASSUME TypeOK, [Next]_vars PROVE MemoryTyped'
  <1>. USE DEF TypeOK, MemoryTyped
  <1>1. ASSUME NEW p \in Procs, LookAtCache(p)
        PROVE  MemoryTyped'
    BY <1>1, ValuesTyped DEF LookAtCache
  <1>2. ASSUME NEW p \in Procs, AskGitHub(p)
        PROVE  MemoryTyped'
    BY <1>2, ValuesTyped DEF AskGitHub, FallBack
  <1>3. ASSUME NEW p \in Procs, StatusTells(p)
        PROVE  MemoryTyped'
    BY <1>3, ValuesTyped DEF StatusTells, WriteCheck, FallBack
  <1>4. ASSUME NEW p \in Procs, UpdateDecides(p)
        PROVE  MemoryTyped'
    BY <1>4, ValuesTyped DEF UpdateDecides, WriteCheck
  <1>5. ASSUME NEW p \in Procs, LookUpSum(p)
        PROVE  MemoryTyped'
    BY <1>5 DEF LookUpSum
  <1>6. ASSUME NEW p \in Procs, FetchManifest(p)
        PROVE  MemoryTyped'
    BY <1>6 DEF FetchManifest
  <1>7. ASSUME NEW p \in Procs, OpenPartial(p)
        PROVE  MemoryTyped'
    BY <1>7 DEF OpenPartial
  <1>8. ASSUME NEW p \in Procs, Stream(p)
        PROVE  MemoryTyped'
    BY <1>8 DEF Stream
  <1>9. ASSUME NEW p \in Procs, Verify(p)
        PROVE  MemoryTyped'
    BY <1>9 DEF Verify, Discard
  <1>10. ASSUME NEW p \in Procs, Replace(p)
        PROVE  MemoryTyped'
    BY <1>10 DEF Replace, MoveIn, Discard
  <1>11. ASSUME NEW p \in Procs, MoveInLast(p)
        PROVE  MemoryTyped'
    BY <1>11 DEF MoveInLast, MoveIn
  <1>12. ASSUME NEW p \in Procs, Begins(p) \/ BeginSetup(p) \/ CheckStaged(p) \/
               UnlinkStaged(p) \/ DropOld(p) \/ MoveAside(p) \/ ChmodStaged(p) \/
               RunPrivileged(p) \/ Kill(p)
        PROVE  MemoryTyped'
    BY <1>12 DEF Begins, Begin, BeginSetup, CheckStaged, UnlinkStaged, DropOld,
       MoveAside, ChmodStaged, RunPrivileged, Kill
  <1>13. ASSUME Publish \/ Midnight \/ SetBack \/ UNCHANGED vars
        PROVE  MemoryTyped'
    BY <1>13 DEF Publish, Midnight, SetBack, vars
  <1>. QED
    BY NextCases, <1>1, <1>2, <1>3, <1>4, <1>5, <1>6, <1>7, <1>8, <1>9, <1>10, <1>11,
       <1>12, <1>13 DEF ProcStep

\* Every step keeps the types.
LEMMA TypeStep == TypeOK /\ [Next]_vars => TypeOK'
  BY MachineStep, GithubStep, CourseTypeStep, MemoryStep DEF TypeOK

-----------------------------------------------------------------------------
(* An invocation that moves.                                               *)

\* It had not ended, it stays on its platform, and it leaves the memory of the
\* others alone.
Alone(p) ==
  /\ pc[p] # "done" /\ win' = win
  /\ \A q \in Procs : q # p =>
       /\ pc'[q] = pc[q] /\ cmd'[q] = cmd[q] /\ channel'[q] = channel[q]
       /\ image'[q] = image[q] /\ ended'[q] = ended[q] /\ rel'[q] = rel[q]
       /\ known'[q] = known[q] /\ bytes'[q] = bytes[q] /\ partial'[q] = partial[q]

\* So does every step.
LEMMA StepsAlone ==
  ASSUME TypeOK, NEW p \in Procs, Begins(p) \/ ProcStep(p) \/ Kill(p)
  PROVE  Alone(p)
  <1>. USE DEF TypeOK, CourseTyped, MemoryTyped, Alone, Running
  <1>1. ASSUME Begins(p) PROVE Alone(p)
    BY <1>1, ZenonT(60) DEF Begins, Begin
  <1>2. ASSUME LookAtCache(p) PROVE Alone(p)
    BY <1>2, ZenonT(60) DEF LookAtCache
  <1>3. ASSUME AskGitHub(p) PROVE Alone(p)
    BY <1>3, ZenonT(60) DEF AskGitHub, FallBack
  <1>4. ASSUME StatusTells(p) PROVE Alone(p)
    BY <1>4, ZenonT(60) DEF StatusTells, WriteCheck, FallBack
  <1>5. ASSUME UpdateDecides(p) PROVE Alone(p)
    BY <1>5, ZenonT(60) DEF UpdateDecides, WriteCheck
  <1>6. ASSUME LookUpSum(p) PROVE Alone(p)
    BY <1>6 DEF LookUpSum
  <1>7. ASSUME BeginSetup(p) PROVE Alone(p)
    BY <1>7 DEF BeginSetup
  <1>8. ASSUME FetchManifest(p) PROVE Alone(p)
    BY <1>8 DEF FetchManifest
  <1>9. ASSUME CheckStaged(p) PROVE Alone(p)
    BY <1>9 DEF CheckStaged
  <1>10. ASSUME UnlinkStaged(p) PROVE Alone(p)
    BY <1>10 DEF UnlinkStaged
  <1>11. ASSUME OpenPartial(p) PROVE Alone(p)
    BY <1>11, ZenonT(60) DEF OpenPartial
  <1>12. ASSUME Stream(p) PROVE Alone(p)
    BY <1>12, ZenonT(60) DEF Stream
  <1>13. ASSUME Verify(p) PROVE Alone(p)
    BY <1>13, ZenonT(60) DEF Verify, Discard
  <1>14. ASSUME Replace(p) PROVE Alone(p)
    BY <1>14, ZenonT(60) DEF Replace, MoveIn, Discard
  <1>15. ASSUME DropOld(p) PROVE Alone(p)
    BY <1>15 DEF DropOld
  <1>16. ASSUME MoveAside(p) PROVE Alone(p)
    BY <1>16 DEF MoveAside
  <1>17. ASSUME MoveInLast(p) PROVE Alone(p)
    BY <1>17, ZenonT(60) DEF MoveInLast, MoveIn
  <1>18. ASSUME ChmodStaged(p) PROVE Alone(p)
    BY <1>18 DEF ChmodStaged
  <1>19. ASSUME RunPrivileged(p) PROVE Alone(p)
    BY <1>19 DEF RunPrivileged
  <1>20. ASSUME Kill(p) PROVE Alone(p)
    BY <1>20 DEF Kill
  <1>. QED
    BY <1>1, <1>2, <1>3, <1>4, <1>5, <1>6, <1>7, <1>8, <1>9, <1>10, <1>11, <1>12, <1>13,
       <1>14, <1>15, <1>16, <1>17, <1>18, <1>19, <1>20 DEF ProcStep

\* Every step of an invocation keeps it on its course.
LEMMA CoursesStep ==
  ASSUME TypeOK, Courses, NEW p \in Procs, Begins(p) \/ ProcStep(p) \/ Kill(p)
  PROVE  InCourse(p)'
  <1>. USE DEF TypeOK, MachineTyped, CourseTyped, MemoryTyped, Courses, InCourse, SetUp,
       Updating, HashMatches, Running
  <1>1. ASSUME Begins(p) PROVE InCourse(p)'
    <2>1. PICK c \in {"status", "update", "setup", "setup --force"}, ch \in Channels : Begin(p, c, ch)
      BY <1>1 DEF Begins
    <2>2. /\ pc[p] = "idle" /\ cmd'[p] = c
          /\ pc'[p] = IF c \in {"status", "update"} THEN c ELSE "setup"
          /\ UNCHANGED <<win, known, bytes, partial>>
      BY <2>1 DEF Begin
    <2>. QED
      BY <2>2
  <1>2. ASSUME LookAtCache(p) PROVE InCourse(p)'
    <2>1. pc[p] = "status" /\ pc'[p] \in {"fetch", "done"}
      BY <1>2 DEF LookAtCache
    <2>2. UNCHANGED <<win, cmd, known, bytes, partial>>
      BY <1>2 DEF LookAtCache
    <2>. QED
      BY <2>1, <2>2
  <1>3. ASSUME AskGitHub(p) PROVE InCourse(p)'
    <2>1. \/ pc[p] = "fetch" /\ pc'[p] \in {"checked", "done"}
          \/ pc[p] = "update" /\ pc'[p] \in {"found", "done"}
      BY <1>3 DEF AskGitHub, FallBack
    <2>2. UNCHANGED <<win, cmd, known, bytes, partial>>
      BY <1>3 DEF AskGitHub, FallBack
    <2>. QED
      BY <2>1, <2>2
  <1>4. ASSUME StatusTells(p) PROVE InCourse(p)'
    <2>1. pc[p] = "checked" /\ pc'[p] = "done"
      BY <1>4 DEF StatusTells, FallBack
    <2>2. UNCHANGED <<win, cmd, known, bytes, partial>>
      BY <1>4 DEF StatusTells, FallBack
    <2>. QED
      BY <2>1, <2>2
  <1>5. ASSUME UpdateDecides(p) PROVE InCourse(p)'
    <2>1. pc[p] = "found" /\ pc'[p] \in {"done", "sum"}
      BY <1>5 DEF UpdateDecides
    <2>2. UNCHANGED <<win, cmd, known, bytes, partial>>
      BY <1>5 DEF UpdateDecides
    <2>. QED
      BY <2>1, <2>2
  <1>6. ASSUME LookUpSum(p) PROVE InCourse(p)'
    <2>1. pc[p] = "sum" /\ pc'[p] = "download"
      BY <1>6 DEF LookUpSum
    <2>2. UNCHANGED <<win, cmd, bytes, partial>>
      BY <1>6 DEF LookUpSum
    <2>. QED
      BY <2>1, <2>2
  <1>7. ASSUME BeginSetup(p) PROVE InCourse(p)'
    <2>1. /\ pc[p] = "setup"
          /\ pc'[p] = "done" \/ (pc'[p] = "manifest" /\ ~win)
      BY <1>7 DEF BeginSetup
    <2>2. UNCHANGED <<win, cmd, known, bytes, partial>>
      BY <1>7 DEF BeginSetup
    <2>. QED
      BY <2>1, <2>2
  <1>8. ASSUME FetchManifest(p) PROVE InCourse(p)'
    <2>1. /\ pc[p] = "manifest"
          /\ pc'[p] = "done" \/ (pc'[p] = "check" /\ known'[p])
      BY <1>8 DEF FetchManifest
    <2>2. UNCHANGED <<win, cmd, bytes, partial>>
      BY <1>8 DEF FetchManifest
    <2>. QED
      BY <2>1, <2>2
  <1>9. ASSUME CheckStaged(p) PROVE InCourse(p)'
    <2>1. pc[p] = "check" /\ pc'[p] \in {"download", "unlink"}
      BY <1>9 DEF CheckStaged
    <2>2. UNCHANGED <<win, cmd, known, bytes, partial>>
      BY <1>9 DEF CheckStaged
    <2>. QED
      BY <2>1, <2>2
  <1>10. ASSUME UnlinkStaged(p) PROVE InCourse(p)'
    <2>1. pc[p] = "unlink" /\ pc'[p] \in {"download", "done"}
      BY <1>10 DEF UnlinkStaged
    <2>2. UNCHANGED <<win, cmd, known, bytes, partial>>
      BY <1>10 DEF UnlinkStaged
    <2>. QED
      BY <2>1, <2>2
  <1>11. ASSUME OpenPartial(p) PROVE InCourse(p)'
    <2>1. /\ pc[p] = "download"
          /\ pc'[p] = "stream" \/ (pc'[p] = "done" /\ partial' = partial)
      BY <1>11 DEF OpenPartial
    <2>2. UNCHANGED <<win, cmd, known, bytes>>
      BY <1>11 DEF OpenPartial
    <2>. QED
      BY <2>1, <2>2
  <1>12. ASSUME Stream(p) PROVE InCourse(p)'
    <2>1. /\ pc[p] = "stream"
          /\ pc'[p] = "verify" \/ (pc'[p] = "done" /\ ended'[p] = "brokenOff")
      BY <1>12 DEF Stream
    <2>2. UNCHANGED <<win, cmd, known, partial>>
      BY <1>12 DEF Stream
    <2>. QED
      BY <2>1, <2>2
  <1>13. ASSUME Verify(p) PROVE InCourse(p)'
    <2>1. /\ pc[p] = "verify"
          /\ \/ pc'[p] = "replace" /\ (known[p] => HashMatches(p)) /\ partial' = partial
             \/ pc'[p] = "done" /\ (~partial'[p] \/ ended'[p] = "refused")
      BY <1>13 DEF Verify, Discard
    <2>2. UNCHANGED <<win, cmd, known, bytes>>
      BY <1>13 DEF Verify, Discard
    <2>. QED
      BY <2>1, <2>2
  <1>14. ASSUME Replace(p) PROVE InCourse(p)'
    <2>1. /\ pc[p] = "replace"
          /\ \/ pc'[p] = "chmod" /\ ~Updating(p) /\ ~partial'[p]
             \/ pc'[p] = "done" /\ (~partial'[p] \/ ended'[p] = "refused")
             \/ pc'[p] = "dropOld" /\ win
      BY <1>14, ZenonT(60) DEF Replace, MoveIn, Discard
    <2>2. UNCHANGED <<win, cmd, known, bytes>>
      BY <1>14, ZenonT(60) DEF Replace, MoveIn, Discard
    <2>. QED
      BY <2>1, <2>2
  <1>15. ASSUME DropOld(p) PROVE InCourse(p)'
    <2>1. pc[p] = "dropOld" /\ pc'[p] = "aside"
      BY <1>15 DEF DropOld
    <2>2. UNCHANGED <<win, cmd, known, bytes, partial>>
      BY <1>15 DEF DropOld
    <2>. QED
      BY <2>1, <2>2
  <1>16. ASSUME MoveAside(p) PROVE InCourse(p)'
    <2>1. /\ pc[p] = "aside"
          /\ pc'[p] = "moveIn" \/ (pc'[p] = "done" /\ ended'[p] = "exit1")
      BY <1>16 DEF MoveAside
    <2>2. UNCHANGED <<win, cmd, known, bytes, partial>>
      BY <1>16 DEF MoveAside
    <2>. QED
      BY <2>1, <2>2
  <1>17. ASSUME MoveInLast(p) PROVE InCourse(p)'
    <2>1. /\ pc[p] = "moveIn"
          /\ \/ pc'[p] = "done" /\ (~partial'[p] \/ (ended'[p] = "exit1" /\ partial' = partial))
             \/ pc'[p] = "chmod" /\ ~Updating(p) /\ ~partial'[p]
      BY <1>17 DEF MoveInLast, MoveIn
    <2>2. UNCHANGED <<win, cmd, known, bytes>>
      BY <1>17 DEF MoveInLast, MoveIn
    <2>. QED
      BY <2>1, <2>2
  <1>18. ASSUME ChmodStaged(p) PROVE InCourse(p)'
    <2>1. pc[p] = "chmod" /\ pc'[p] \in {"sudo", "done"}
      BY <1>18 DEF ChmodStaged
    <2>2. UNCHANGED <<win, cmd, known, bytes, partial>>
      BY <1>18 DEF ChmodStaged
    <2>. QED
      BY <2>1, <2>2
  <1>19. ASSUME RunPrivileged(p) PROVE InCourse(p)'
    <2>1. pc[p] = "sudo" /\ pc'[p] = "done"
      BY <1>19 DEF RunPrivileged
    <2>2. UNCHANGED <<win, cmd, known, bytes, partial>>
      BY <1>19 DEF RunPrivileged
    <2>. QED
      BY <2>1, <2>2
  <1>20. ASSUME Kill(p) PROVE InCourse(p)'
    <2>1. Running(p) /\ pc'[p] = "done" /\ ended'[p] = "killed"
      BY <1>20 DEF Kill
    <2>2. UNCHANGED <<win, cmd, known, bytes, partial>>
      BY <1>20 DEF Kill
    <2>. QED
      BY <2>1, <2>2
  <1>. QED
    BY <1>1, <1>2, <1>3, <1>4, <1>5, <1>6, <1>7, <1>8, <1>9, <1>10, <1>11, <1>12, <1>13,
       <1>14, <1>15, <1>16, <1>17, <1>18, <1>19, <1>20 DEF ProcStep

\* Every step, of an invocation or of the world, keeps all on their courses.
LEMMA CoursesKept == TypeOK /\ Courses /\ [Next]_vars => Courses'
  <1>. SUFFICES ASSUME TypeOK, Courses, [Next]_vars PROVE Courses'
    OBVIOUS
  <1>. USE DEF Courses, InCourse, SetUp, Updating, HashMatches
  <1>1. ASSUME NEW p \in Procs, Begins(p) \/ ProcStep(p) \/ Kill(p) PROVE Courses'
    <2>1. InCourse(p)'
      BY <1>1, CoursesStep
    <2>2. ASSUME NEW q \in Procs, q # p PROVE InCourse(q)'
      <3>1. Alone(p)
        BY <1>1, StepsAlone
      <3>. QED
        BY <2>2, <3>1 DEF Alone
    <2>. QED
      BY <2>1, <2>2
  <1>2. ASSUME Publish \/ Midnight \/ SetBack \/ UNCHANGED vars PROVE Courses'
    <2>1. UNCHANGED <<win, pc, cmd, known, bytes, partial, ended>>
      BY <1>2 DEF Publish, Midnight, SetBack, vars
    <2>. QED
      BY <2>1
  <1>. QED
    BY <1>1, <1>2, NextCases

-----------------------------------------------------------------------------
(* The files.                                                              *)

\* What appears at a path is the file of the invocation that moves, at its
\* rename; from then on that invocation changes nothing it knows of its file.
Placed(p) ==
  /\ \A f \in {bin', old'} :
       \/ f \in {bin, old, "none"}
       \/ f = p /\ pc[p] \in {"replace", "moveIn"} /\ pc'[p] = "done"
  /\ \A f \in {staged', rootRan'} :
       \/ f \in {staged, rootRan, "none"}
       \/ f = p /\ pc[p] \in {"replace", "moveIn"} /\ ~Updating(p) /\ pc'[p] = "chmod"
  /\ pc[p] \in {"chmod", "sudo"} => pc'[p] \in {"sudo", "done"}
  /\ pc[p] \in {"replace", "moveIn", "chmod", "sudo"} =>
       UNCHANGED <<cmd, known, bytes>>

\* So it is with every step.
LEMMA StepsPlace ==
  ASSUME TypeOK, NEW p \in Procs, Begins(p) \/ ProcStep(p) \/ Kill(p)
  PROVE  Placed(p)
  <1>. USE DEF TypeOK, CourseTyped, MemoryTyped, Placed, Running
  <1>1. ASSUME Begins(p) PROVE Placed(p)
    BY <1>1 DEF Begins, Begin
  <1>2. ASSUME LookAtCache(p) PROVE Placed(p)
    BY <1>2 DEF LookAtCache
  <1>3. ASSUME AskGitHub(p) PROVE Placed(p)
    BY <1>3 DEF AskGitHub, FallBack
  <1>4. ASSUME StatusTells(p) PROVE Placed(p)
    BY <1>4 DEF StatusTells, WriteCheck, FallBack
  <1>5. ASSUME UpdateDecides(p) PROVE Placed(p)
    BY <1>5 DEF UpdateDecides, WriteCheck
  <1>6. ASSUME LookUpSum(p) PROVE Placed(p)
    BY <1>6 DEF LookUpSum
  <1>7. ASSUME BeginSetup(p) PROVE Placed(p)
    BY <1>7 DEF BeginSetup
  <1>8. ASSUME FetchManifest(p) PROVE Placed(p)
    BY <1>8 DEF FetchManifest
  <1>9. ASSUME CheckStaged(p) PROVE Placed(p)
    BY <1>9 DEF CheckStaged
  <1>10. ASSUME UnlinkStaged(p) PROVE Placed(p)
    BY <1>10 DEF UnlinkStaged
  <1>11. ASSUME OpenPartial(p) PROVE Placed(p)
    BY <1>11 DEF OpenPartial
  <1>12. ASSUME Stream(p) PROVE Placed(p)
    BY <1>12 DEF Stream
  <1>13. ASSUME Verify(p) PROVE Placed(p)
    BY <1>13 DEF Verify, Discard
  <1>14. ASSUME Replace(p) PROVE Placed(p)
    BY <1>14, ZenonT(60) DEF Replace, MoveIn, Discard
  <1>15. ASSUME DropOld(p) PROVE Placed(p)
    BY <1>15 DEF DropOld
  <1>16. ASSUME MoveAside(p) PROVE Placed(p)
    BY <1>16 DEF MoveAside
  <1>17. ASSUME MoveInLast(p) PROVE Placed(p)
    BY <1>17, ZenonT(60) DEF MoveInLast, MoveIn
  <1>18. ASSUME ChmodStaged(p) PROVE Placed(p)
    BY <1>18 DEF ChmodStaged
  <1>19. ASSUME RunPrivileged(p) PROVE Placed(p)
    BY <1>19 DEF RunPrivileged
  <1>20. ASSUME Kill(p) PROVE Placed(p)
    BY <1>20 DEF Kill
  <1>. QED
    BY <1>1, <1>2, <1>3, <1>4, <1>5, <1>6, <1>7, <1>8, <1>9, <1>10, <1>11, <1>12, <1>13,
       <1>14, <1>15, <1>16, <1>17, <1>18, <1>19, <1>20 DEF ProcStep

\* Every step of an invocation keeps what is at the paths verified.
LEMMA PathsStep ==
  ASSUME TypeOK, Courses, PathsVerified,
         NEW p \in Procs, Begins(p) \/ ProcStep(p) \/ Kill(p)
  PROVE  PathsVerified'
  <1>1. Placed(p) /\ Alone(p)
    BY StepsPlace, StepsAlone
  <1>2. ASSUME NEW q \in Procs, q \in {bin', old'}
        PROVE  pc'[q] = "done" /\ (known'[q] => HashMatches(q)')
    <2>1. CASE q \in {bin, old}
      BY <1>1, <2>1 DEF Alone, PathsVerified, HashMatches
    <2>2. CASE q \notin {bin, old}
      <3>1. q = p /\ pc[p] \in {"replace", "moveIn"} /\ pc'[p] = "done"
        BY <1>1, <1>2, <2>2, InstallAssumption DEF Placed
      <3>2. known[p] => HashMatches(p)
        BY <3>1 DEF Courses, InCourse
      <3>. QED
        BY <1>1, <3>1, <3>2 DEF Placed, HashMatches
    <2>. QED
      BY <2>1, <2>2
  <1>3. ASSUME NEW q \in Procs, q \in {staged', rootRan'}
        PROVE  SetUp(q)' /\ HashMatches(q)' /\ pc'[q] \in {"chmod", "sudo", "done"}
    <2>1. CASE q \in {staged, rootRan}
      <3>1. SetUp(q) /\ HashMatches(q) /\ pc[q] \in {"chmod", "sudo", "done"}
        BY <2>1 DEF PathsVerified
      <3>. QED
        BY <1>1, <3>1 DEF Alone, Placed, SetUp, HashMatches
    <2>2. CASE q \notin {staged, rootRan}
      <3>1. /\ q = p /\ pc[p] \in {"replace", "moveIn"} /\ ~Updating(p)
            /\ pc'[p] = "chmod"
        BY <1>1, <1>3, <2>2, InstallAssumption DEF Placed
      <3>2. SetUp(p) /\ HashMatches(p)
        BY <3>1 DEF Courses, InCourse, SetUp
      <3>. QED
        BY <1>1, <3>1, <3>2 DEF Placed, SetUp, HashMatches
    <2>. QED
      BY <2>1, <2>2
  <1>. QED
    BY <1>2, <1>3 DEF PathsVerified

\* Every step of the world does.
LEMMA PathsKept == TypeOK /\ Courses /\ PathsVerified /\ [Next]_vars => PathsVerified'
  <1>. SUFFICES ASSUME TypeOK, Courses, PathsVerified, [Next]_vars PROVE PathsVerified'
    OBVIOUS
  <1>1. ASSUME Publish \/ Midnight \/ SetBack \/ UNCHANGED vars PROVE PathsVerified'
    <2>1. UNCHANGED <<bin, old, staged, rootRan, pc, cmd, known, bytes>>
      BY <1>1 DEF Publish, Midnight, SetBack, vars
    <2>. QED
      BY <2>1 DEF PathsVerified, SetUp, HashMatches
  <1>. QED
    BY <1>1, PathsStep, NextCases

\* A step that leaves the two paths alone, and starts nobody, keeps that.
LEMMA StayingImages ==
  ASSUME ImagesKept, UNCHANGED <<win, bin, old, image>>,
         \A q \in Procs : Running(q)' => Running(q)
  PROVE  ImagesKept'
  BY DEF ImagesKept, NeverLost

\* The steps of an update that move files keep an hsh at one of its two paths.
LEMMA ImagesMove ==
  ASSUME TypeOK, Courses, ImagesKept, NEW p \in Procs, Replace(p) \/ DropOld(p) \/
         MoveAside(p) \/ MoveInLast(p)
  PROVE  ImagesKept'
  <1>. USE InstallAssumption DEF Alone, TypeOK, MachineTyped, CourseTyped, Courses,
       InCourse, ImagesKept, NeverLost, Files, Updating, SetUp, Running, Mapped
  <1>1. ASSUME Replace(p) PROVE ImagesKept'
    BY <1>1, StepsAlone, ZenonT(60) DEF Replace, MoveIn, Discard
  <1>2. ASSUME DropOld(p) PROVE ImagesKept'
    <2>1. win /\ Running(p) /\ UNCHANGED <<win, bin, image>>
      BY <1>2 DEF DropOld
    <2>2. \A q \in Procs : Running(q)' => Running(q)
      BY <1>2 DEF DropOld
    <2>3. CASE Mapped(old)
      <3>1. old' = old
        BY <1>2, <2>3 DEF DropOld
      <3>. QED
        BY <2>1, <2>2, <3>1, StayingImages
    <2>4. CASE ~Mapped(old)
      <3>1. \A q \in Procs : Running(q) => image[q] = bin
        BY <2>1, <2>4
      <3>2. bin # "none"
        BY <2>1, <3>1
      <3>. QED
        BY ONLY <2>1, <2>2, <3>1, <3>2 DEF ImagesKept, NeverLost
    <2>. QED
      BY <2>3, <2>4
  <1>3. ASSUME MoveAside(p) PROVE ImagesKept'
    <2>1. win /\ pc[p] = "aside" /\ UNCHANGED <<win, image>>
      BY <1>3 DEF MoveAside
    <2>2. \A q \in Procs : Running(q)' => Running(q)
      BY <1>3, <2>1 DEF MoveAside
    <2>3. CASE bin # "none" /\ ~Mapped(old) /\ old' = bin /\ bin' = "none"
      BY <2>1, <2>2, <2>3
    <2>4. CASE UNCHANGED <<bin, old>>
      BY <2>1, <2>2, <2>4
    <2>. QED
      BY <1>3, <2>3, <2>4 DEF MoveAside
  <1>4. ASSUME MoveInLast(p) PROVE ImagesKept'
    BY <1>4, StepsAlone, ZenonT(60) DEF MoveInLast, MoveIn
  <1>. QED
    BY <1>1, <1>2, <1>3, <1>4

\* Every step of an invocation does.
LEMMA ImagesStep ==
  ASSUME TypeOK, Courses, ImagesKept, NEW p \in Procs, Begins(p) \/ ProcStep(p) \/
         Kill(p)
  PROVE  ImagesKept'
  <1>. USE DEF TypeOK, CourseTyped, Running
  <1>1. ASSUME Begins(p) PROVE ImagesKept'
    <2>1. /\ bin # "none" /\ image' = [image EXCEPT ![p] = bin]
          /\ UNCHANGED <<win, bin, old>>
      BY <1>1 DEF Begins, Begin
    <2>. QED
      BY <1>1, <2>1, StepsAlone DEF Alone, ImagesKept, NeverLost
  <1>2. ASSUME LookAtCache(p) PROVE ImagesKept'
    <2>1. UNCHANGED <<win, bin, old, image>>
      BY <1>2 DEF LookAtCache
    <2>2. \A q \in Procs : Running(q)' => Running(q)
      BY <1>2 DEF LookAtCache
    <2>. QED
      BY <2>1, <2>2, StayingImages
  <1>3. ASSUME AskGitHub(p) PROVE ImagesKept'
    <2>1. UNCHANGED <<win, bin, old, image>>
      BY <1>3 DEF AskGitHub, FallBack
    <2>2. \A q \in Procs : Running(q)' => Running(q)
      BY <1>3 DEF AskGitHub, FallBack
    <2>. QED
      BY <2>1, <2>2, StayingImages
  <1>4. ASSUME StatusTells(p) PROVE ImagesKept'
    <2>1. UNCHANGED <<win, bin, old, image>>
      BY <1>4 DEF StatusTells, WriteCheck, FallBack
    <2>2. \A q \in Procs : Running(q)' => Running(q)
      BY <1>4 DEF StatusTells, WriteCheck, FallBack
    <2>. QED
      BY <2>1, <2>2, StayingImages
  <1>5. ASSUME UpdateDecides(p) PROVE ImagesKept'
    <2>1. UNCHANGED <<win, bin, old, image>>
      BY <1>5 DEF UpdateDecides, WriteCheck
    <2>2. \A q \in Procs : Running(q)' => Running(q)
      BY <1>5 DEF UpdateDecides, WriteCheck
    <2>. QED
      BY <2>1, <2>2, StayingImages
  <1>6. ASSUME LookUpSum(p) PROVE ImagesKept'
    <2>1. UNCHANGED <<win, bin, old, image>>
      BY <1>6 DEF LookUpSum
    <2>2. \A q \in Procs : Running(q)' => Running(q)
      BY <1>6 DEF LookUpSum
    <2>. QED
      BY <2>1, <2>2, StayingImages
  <1>7. ASSUME BeginSetup(p) PROVE ImagesKept'
    <2>1. UNCHANGED <<win, bin, old, image>>
      BY <1>7 DEF BeginSetup
    <2>2. \A q \in Procs : Running(q)' => Running(q)
      BY <1>7 DEF BeginSetup
    <2>. QED
      BY <2>1, <2>2, StayingImages
  <1>8. ASSUME FetchManifest(p) PROVE ImagesKept'
    <2>1. UNCHANGED <<win, bin, old, image>>
      BY <1>8 DEF FetchManifest
    <2>2. \A q \in Procs : Running(q)' => Running(q)
      BY <1>8 DEF FetchManifest
    <2>. QED
      BY <2>1, <2>2, StayingImages
  <1>9. ASSUME CheckStaged(p) PROVE ImagesKept'
    <2>1. UNCHANGED <<win, bin, old, image>>
      BY <1>9 DEF CheckStaged
    <2>2. \A q \in Procs : Running(q)' => Running(q)
      BY <1>9 DEF CheckStaged
    <2>. QED
      BY <2>1, <2>2, StayingImages
  <1>10. ASSUME UnlinkStaged(p) PROVE ImagesKept'
    <2>1. UNCHANGED <<win, bin, old, image>>
      BY <1>10 DEF UnlinkStaged
    <2>2. \A q \in Procs : Running(q)' => Running(q)
      BY <1>10 DEF UnlinkStaged
    <2>. QED
      BY <2>1, <2>2, StayingImages
  <1>11. ASSUME OpenPartial(p) PROVE ImagesKept'
    <2>1. UNCHANGED <<win, bin, old, image>>
      BY <1>11 DEF OpenPartial
    <2>2. \A q \in Procs : Running(q)' => Running(q)
      BY <1>11 DEF OpenPartial
    <2>. QED
      BY <2>1, <2>2, StayingImages
  <1>12. ASSUME Stream(p) PROVE ImagesKept'
    <2>1. UNCHANGED <<win, bin, old, image>>
      BY <1>12 DEF Stream
    <2>2. \A q \in Procs : Running(q)' => Running(q)
      BY <1>12 DEF Stream
    <2>. QED
      BY <2>1, <2>2, StayingImages
  <1>13. ASSUME Verify(p) PROVE ImagesKept'
    <2>1. UNCHANGED <<win, bin, old, image>>
      BY <1>13 DEF Verify, Discard
    <2>2. \A q \in Procs : Running(q)' => Running(q)
      BY <1>13 DEF Verify, Discard
    <2>. QED
      BY <2>1, <2>2, StayingImages
  <1>14. ASSUME Replace(p) PROVE ImagesKept'
    BY <1>14, ImagesMove
  <1>15. ASSUME DropOld(p) PROVE ImagesKept'
    BY <1>15, ImagesMove
  <1>16. ASSUME MoveAside(p) PROVE ImagesKept'
    BY <1>16, ImagesMove
  <1>17. ASSUME MoveInLast(p) PROVE ImagesKept'
    BY <1>17, ImagesMove
  <1>18. ASSUME ChmodStaged(p) PROVE ImagesKept'
    <2>1. UNCHANGED <<win, bin, old, image>>
      BY <1>18 DEF ChmodStaged
    <2>2. \A q \in Procs : Running(q)' => Running(q)
      BY <1>18 DEF ChmodStaged
    <2>. QED
      BY <2>1, <2>2, StayingImages
  <1>19. ASSUME RunPrivileged(p) PROVE ImagesKept'
    <2>1. UNCHANGED <<win, bin, old, image>>
      BY <1>19 DEF RunPrivileged
    <2>2. \A q \in Procs : Running(q)' => Running(q)
      BY <1>19 DEF RunPrivileged
    <2>. QED
      BY <2>1, <2>2, StayingImages
  <1>20. ASSUME Kill(p) PROVE ImagesKept'
    <2>1. UNCHANGED <<win, bin, old, image>>
      BY <1>20 DEF Kill
    <2>2. \A q \in Procs : Running(q)' => Running(q)
      BY <1>20 DEF Kill
    <2>. QED
      BY <2>1, <2>2, StayingImages
  <1>. QED
    BY <1>1, <1>2, <1>3, <1>4, <1>5, <1>6, <1>7, <1>8, <1>9, <1>10, <1>11, <1>12, <1>13,
       <1>14, <1>15, <1>16, <1>17, <1>18, <1>19, <1>20 DEF ProcStep

\* Every step of the world does.
LEMMA ImagesStay == TypeOK /\ Courses /\ ImagesKept /\ [Next]_vars => ImagesKept'
  <1>. SUFFICES ASSUME TypeOK, Courses, ImagesKept, [Next]_vars PROVE ImagesKept'
    OBVIOUS
  <1>1. ASSUME Publish \/ Midnight \/ SetBack \/ UNCHANGED vars PROVE ImagesKept'
    <2>1. UNCHANGED <<win, bin, old, pc, image>>
      BY <1>1 DEF Publish, Midnight, SetBack, vars
    <2>. QED
      BY <2>1 DEF ImagesKept, NeverLost, Running
  <1>. QED
    BY <1>1, ImagesStep, NextCases

-----------------------------------------------------------------------------
(* The check for releases.                                                 *)

\* What an invocation that moves does about releases: it asks for the newest of
\* its channel, records what it was answered, and tells that or a fresh check.
Asks(p) ==
  /\ UNCHANGED githubVars
  /\ pc'[p] \in {"checked", "found"} =>
       rel'[p] = latest[channel[p]] /\ channel'[p] = channel[p]
  /\ \/ cache' = cache
     \/ /\ pc[p] \in {"checked", "found"}
        /\ cache' = [at |-> today, tag |-> rel[p], channel |-> channel[p]]
  /\ \A q \in Procs : how'[q] \in {"cache", "github"} =>
       \/ how'[q] = how[q]
       \/ q = p /\ pc[p] \in {"checked", "found"} /\ told'[p] = rel[p]
       \/ q = p /\ Fresh(p) /\ told'[p] = cache.tag

\* So does every step.
LEMMA StepsAsk ==
  ASSUME TypeOK, NEW p \in Procs, Begins(p) \/ ProcStep(p) \/ Kill(p)
  PROVE  Asks(p)
  <1>. USE DEF TypeOK, CourseTyped, MemoryTyped, Asks, Running
  <1>1. ASSUME Begins(p) PROVE Asks(p)
    BY <1>1 DEF Begins, Begin
  <1>2. ASSUME LookAtCache(p) PROVE Asks(p)
    BY <1>2, ZenonT(60) DEF LookAtCache
  <1>3. ASSUME AskGitHub(p) PROVE Asks(p)
    <2>1. githubVars' = githubVars /\ cache' = cache /\ choice' = choice
      BY <1>3 DEF AskGitHub
    <2>2. CASE /\ rel' = [rel EXCEPT ![p] = latest[channel[p]]]
               /\ UNCHANGED news
      BY <2>1, <2>2
    <2>3. CASE pc' = [pc EXCEPT ![p] = "done"] /\ how' = [how EXCEPT ![p] = "fallback"]
      BY <2>1, <2>3
    <2>4. CASE pc' = [pc EXCEPT ![p] = "done"] /\ UNCHANGED news
      BY <2>1, <2>4
    <2>. QED
      BY <1>3, <2>2, <2>3, <2>4 DEF AskGitHub, FallBack
  <1>4. ASSUME StatusTells(p) PROVE Asks(p)
    <2>1. /\ pc[p] = "checked" /\ pc' = [pc EXCEPT ![p] = "done"]
          /\ UNCHANGED <<githubVars, choice, rel>>
      BY <1>4 DEF StatusTells, FallBack
    <2>2. CASE how' = [how EXCEPT ![p] = "fallback"] /\ cache' = cache
      BY <2>1, <2>2
    <2>3. CASE /\ how' = [how EXCEPT ![p] = "github"]
               /\ told' = [told EXCEPT ![p] = rel[p]]
               /\ WriteCheck(p) \/ cache' = cache
      BY <2>1, <2>3 DEF WriteCheck
    <2>. QED
      BY <1>4, <2>2, <2>3 DEF StatusTells, FallBack
  <1>5. ASSUME UpdateDecides(p) PROVE Asks(p)
    BY <1>5 DEF UpdateDecides, WriteCheck
  <1>6. ASSUME LookUpSum(p) PROVE Asks(p)
    BY <1>6 DEF LookUpSum
  <1>7. ASSUME BeginSetup(p) PROVE Asks(p)
    BY <1>7 DEF BeginSetup
  <1>8. ASSUME FetchManifest(p) PROVE Asks(p)
    BY <1>8 DEF FetchManifest
  <1>9. ASSUME CheckStaged(p) PROVE Asks(p)
    BY <1>9 DEF CheckStaged
  <1>10. ASSUME UnlinkStaged(p) PROVE Asks(p)
    BY <1>10 DEF UnlinkStaged
  <1>11. ASSUME OpenPartial(p) PROVE Asks(p)
    BY <1>11 DEF OpenPartial
  <1>12. ASSUME Stream(p) PROVE Asks(p)
    BY <1>12 DEF Stream
  <1>13. ASSUME Verify(p) PROVE Asks(p)
    BY <1>13 DEF Verify, Discard
  <1>14. ASSUME Replace(p) PROVE Asks(p)
    BY <1>14 DEF Replace, MoveIn, Discard
  <1>15. ASSUME DropOld(p) PROVE Asks(p)
    BY <1>15 DEF DropOld
  <1>16. ASSUME MoveAside(p) PROVE Asks(p)
    BY <1>16 DEF MoveAside
  <1>17. ASSUME MoveInLast(p) PROVE Asks(p)
    BY <1>17 DEF MoveInLast, MoveIn
  <1>18. ASSUME ChmodStaged(p) PROVE Asks(p)
    BY <1>18 DEF ChmodStaged
  <1>19. ASSUME RunPrivileged(p) PROVE Asks(p)
    BY <1>19 DEF RunPrivileged
  <1>20. ASSUME Kill(p) PROVE Asks(p)
    BY <1>20 DEF Kill
  <1>. QED
    BY <1>1, <1>2, <1>3, <1>4, <1>5, <1>6, <1>7, <1>8, <1>9, <1>10, <1>11, <1>12, <1>13,
       <1>14, <1>15, <1>16, <1>17, <1>18, <1>19, <1>20 DEF ProcStep

\* Every step keeps what a check of today knows.
LEMMA ChecksStep == TypeOK /\ ChecksKnow /\ [Next]_vars => ChecksKnow'
  <1>. SUFFICES ASSUME TypeOK, ChecksKnow, [Next]_vars PROVE ChecksKnow'
    OBVIOUS
  <1>1. \A c \in Channels : latest[c] \in Nat /\ morning[c] \in Nat
    BY InstallAssumption DEF TypeOK, GithubTyped
  <1>2. today \in Nat /\ setBacks \in Nat /\ cache.at \in Nat /\ cache.tag \in Nat
        /\ cache.channel \in Channels
    BY InstallAssumption DEF TypeOK, GithubTyped, Checks
  <1>3. \A p \in Procs : rel[p] \in Nat /\ channel[p] \in Channels
    <2>. SUFFICES ASSUME NEW p \in Procs PROVE rel[p] \in Nat /\ channel[p] \in Channels
      OBVIOUS
    <2>1. rel[p] \in 0 .. MaxVersion /\ channel[p] \in Channels
      BY ValuesTyped
    <2>. QED
      BY <2>1, InstallAssumption
  <1>4. ASSUME NEW p \in Procs, Begins(p) \/ ProcStep(p) \/ Kill(p) PROVE ChecksKnow'
    <2>1. Asks(p) /\ Alone(p)
      BY <1>4, StepsAsk, StepsAlone
    <2>2. ASSUME NEW q \in Procs, pc'[q] \in {"checked", "found"}
          PROVE  morning[channel'[q]] <= rel'[q]
      <3>1. CASE q = p
        BY <1>3, <2>1, <2>2, <3>1 DEF Asks, ChecksKnow
      <3>2. CASE q # p
        BY <2>1, <2>2, <3>2 DEF Alone, ChecksKnow
      <3>. QED
        BY <3>1, <3>2
    <2>3. setBacks = 0 /\ cache'.tag # 0 =>
            cache'.at <= today /\ (cache'.at = today => morning[cache'.channel] <= cache'.tag)
      <3>1. CASE cache' = cache
        BY <3>1 DEF ChecksKnow
      <3>2. CASE /\ pc[p] \in {"checked", "found"}
                 /\ cache' = [at |-> today, tag |-> rel[p], channel |-> channel[p]]
        BY <1>2, <3>2 DEF ChecksKnow
      <3>. QED
        BY <2>1, <3>1, <3>2 DEF Asks
    <2>4. UNCHANGED <<latest, morning, today, setBacks>>
      BY <2>1 DEF Asks
    <2>. QED
      BY <2>2, <2>3, <2>4 DEF ChecksKnow
  <1>5. ASSUME Publish PROVE ChecksKnow'
    <2>1. \A c \in Channels : latest[c] <= latest'[c]
      BY <1>1, <1>5 DEF Publish, ChecksKnow, Channels
    <2>2. latest'["stable"] <= latest'["prerelease"]
      BY <1>1, <1>5 DEF Publish, ChecksKnow, Channels
    <2>3. UNCHANGED <<morning, today, setBacks, cache, pc, channel, rel>>
      BY <1>5 DEF Publish
    <2>4. \A c \in Channels : latest'[c] \in Nat
      BY <1>5, GithubStep, InstallAssumption DEF GithubTyped
    <2>5. \A c \in Channels : morning[c] <= latest'[c]
      BY <1>1, <2>1, <2>4 DEF ChecksKnow
    <2>. QED
      BY <2>2, <2>3, <2>5 DEF ChecksKnow
  <1>6. ASSUME Midnight PROVE ChecksKnow'
    <2>1. \A p \in Procs : pc[p] \notin {"checked", "found"}
      BY <1>6 DEF Midnight, Checking
    <2>2. /\ today' = today + 1 /\ morning' = latest
          /\ UNCHANGED <<latest, setBacks, cache, pc, channel, rel>>
      BY <1>6 DEF Midnight
    <2>. QED
      BY <1>1, <1>2, <2>1, <2>2 DEF ChecksKnow
  <1>7. ASSUME SetBack PROVE ChecksKnow'
    <2>1. setBacks' # 0 /\ UNCHANGED <<latest, morning, cache, pc, channel, rel>>
      BY <1>2, <1>7 DEF SetBack
    <2>. QED
      BY <2>1 DEF ChecksKnow
  <1>8. ASSUME UNCHANGED vars PROVE ChecksKnow'
    BY <1>8 DEF vars, ChecksKnow
  <1>. QED
    BY <1>4, <1>5, <1>6, <1>7, <1>8, NextCases

-----------------------------------------------------------------------------
(* The theorems.                                                           *)

\* The inductive invariant: types, courses, and what is at the paths and in the
\* check.
IInv == TypeOK /\ Courses /\ PathsVerified /\ ImagesKept /\ ChecksKnow

\* It holds at first: nobody has fetched anything.
LEMMA InitIInv == Init => IInv
  <1>. SUFFICES ASSUME Init PROVE IInv
    OBVIOUS
  <1>1. TypeOK
    BY InitTyped
  <1>2. Courses
    BY DEF Init, Courses, InCourse, SetUp
  <1>3. PathsVerified
    BY InstallAssumption DEF Init, PathsVerified
  <1>4. ImagesKept
    BY DEF Init, ImagesKept, NeverLost, Running
  <1>5. ChecksKnow
    BY <1>1, InstallAssumption
       DEF Init, ChecksKnow, NoCheck, TypeOK, GithubTyped, Channels
  <1>. QED
    BY <1>1, <1>2, <1>3, <1>4, <1>5 DEF IInv

\* In every reachable state, for any number of invocations, releases and days.
THEOREM InstallInvariant == Spec => []IInv
  <1>1. IInv /\ [Next]_vars => IInv'
    BY TypeStep, CoursesKept, PathsKept, ImagesStay, ChecksStep DEF IInv
  <1>. QED
    BY InitIInv, <1>1, PTL DEF Spec

\* Every variable keeps its type.
THEOREM InstallTypes == Spec => []TypeOK
  <1>1. IInv => TypeOK
    BY DEF IInv
  <1>. QED
    BY <1>1, InstallInvariant, PTL

\* However many updates run at once, fail or are killed, there is an hsh at its
\* path, or on Windows at the .old path (downloadAndInstall, step 5).
THEOREM HshNeverLost == Spec => []NeverLost
  <1>1. IInv => NeverLost
    BY DEF IInv, ImagesKept
  <1>. QED
    BY <1>1, InstallInvariant, PTL

\* No update whose checksum was found puts in place what does not match it, by
\* either of the two ways to replace the running binary.
THEOREM UpdatesVerified == Spec => []UpdateVerified
  <1>1. IInv => UpdateVerified
    BY DEF IInv, PathsVerified, UpdateVerified
  <1>. QED
    BY <1>1, InstallInvariant, PTL

\* Nothing runs as root that no set-up verified, although the set-ups share the
\* path and sudo waits for a password in between.
THEOREM RootVerified == Spec => []RootRanVerified
  <1>1. IInv => RootRanVerified
    BY DEF IInv, PathsVerified, RootRanVerified, SetUp
  <1>. QED
    BY <1>1, InstallInvariant, PTL

\* A partial file that stays has a download that broke off, a kill, a chmod or an
\* unlink that the system refused, or a failed rename on Windows behind it: a bad
\* download and a failed rename alone leave none.
THEOREM PartialsAreExplained == Spec => []PartialsExplained
  <1>1. IInv => PartialsExplained
    BY DEF IInv, Courses, InCourse, PartialsExplained
  <1>. QED
    BY <1>1, InstallInvariant, PTL

\* As long as the clock is not set back and GitHub answers, whoever is told of a
\* release hears of none older than what his channel had this morning, whichever
\* invocation wrote the check, and when (checkForUpdate).
THEOREM NewsInTime == Spec => NewsWithinADay
  <1>. DEFINE News == \A p \in Procs :
         how[p] = "untold" /\ how'[p] \in {"cache", "github"} /\ setBacks = 0 =>
           told'[p] >= morning[channel[p]]
  <1>1. ASSUME IInv, [Next]_vars PROVE [News]_vars
    <2>1. ASSUME NEW p \in Procs, Begins(p) \/ ProcStep(p) \/ Kill(p) PROVE News
      <3>. SUFFICES ASSUME NEW q \in Procs, how[q] = "untold",
                           how'[q] \in {"cache", "github"}, setBacks = 0
                    PROVE  told'[q] >= morning[channel[q]]
        OBVIOUS
      <3>1. Asks(p)
        BY <1>1, <2>1, StepsAsk DEF IInv
      <3>2. /\ rel[q] \in Nat /\ channel[q] \in Channels
            /\ today \in Nat /\ cache.at \in Nat /\ cache.tag \in Nat
            /\ morning[channel[q]] \in Nat
        <4>1. /\ rel[q] \in 0 .. MaxVersion /\ channel[q] \in Channels
              /\ morning \in [Channels -> 0 .. MaxVersion]
              /\ today \in 0 .. MaxDay /\ cache \in Checks
          BY <1>1, ValuesTyped DEF IInv, TypeOK, GithubTyped
        <4>. QED
          BY <4>1, InstallAssumption DEF Checks
      <3>3. CASE q = p /\ pc[p] \in {"checked", "found"} /\ told'[p] = rel[p]
        BY <1>1, <3>2, <3>3 DEF IInv, ChecksKnow
      <3>4. CASE q = p /\ Fresh(p) /\ told'[p] = cache.tag
        BY <1>1, <3>2, <3>4 DEF IInv, ChecksKnow, Fresh
      <3>. QED
        BY <3>1, <3>3, <3>4 DEF Asks
    <2>2. ASSUME Publish \/ Midnight \/ SetBack \/ UNCHANGED vars PROVE News
      <3>1. how' = how
        BY <2>2 DEF Publish, Midnight, SetBack, vars
      <3>. QED
        BY <3>1
    <2>. QED
      BY <1>1, <2>1, <2>2, NextCases
  <1>. QED
    BY <1>1, InstallInvariant, PTL DEF Spec, NewsWithinADay
=============================================================================
