------------------------------- MODULE Install -------------------------------
(***************************************************************************)
(* How new binaries reach a machine: hsh update replaces hsh itself, hsh   *)
(* setup fetches hsh-tunneld and runs it as root, hsh status tells of new  *)
(* releases from a cached check.  Both downloads go through                *)
(* downloadAndInstall (src/update/install.ts).  Several invocations run at *)
(* once, on one ~/.hsh, and each may be killed between any two steps.      *)
(***************************************************************************)
EXTENDS Naturals

CONSTANTS
  Procs,       \* the invocations; each also names the file it downloads
  MaxVersion,  \* bound: releases 1 .. MaxVersion, in the order of compareSemver
  MaxDay,      \* bound: days that pass
  MaxSetBacks  \* bound: times the clock is set back

ASSUME InstallAssumption ==
  /\ {"none", "shipped", "earlier"} \cap Procs = {}
  /\ {MaxVersion, MaxDay, MaxSetBacks} \subseteq Nat /\ MaxVersion >= 1

VARIABLES
  win,        \* process.platform is win32
  latest,     \* GitHub: the newest release of each channel
  morning,    \* what it was when the day began
  today,      \* Date.now(), in units of CHECK_TTL_MS
  setBacks,   \* how often the clock has been set back
  cache,      \* update-check.json; NoCheck when absent or unreadable
  bin,        \* the file at process.execPath
  old,        \* the file at <execPath>.old
  staged,     \* the file at ~/.hsh/bin/hsh-tunneld
  daemon,     \* the daemon's control token exists
  rootRan,    \* the file last run by sudo
  pc,         \* where each invocation is
  cmd, channel,
  image,      \* the file it runs from
  seen,       \* update-check.json when it looked
  rel,        \* the release GitHub answered with, 0 for none
  known,      \* it has a checksum to compare with
  bytes,      \* what it has written to its temporary file
  partial,    \* its temporary file exists
  told,       \* the newest version it knew of when it told the user
  how,        \* from where it knew
  ended       \* its end

machineVars == <<win, bin, old, staged, daemon, rootRan>>
githubVars == <<latest, morning, today, setBacks>>
choice == <<cmd, channel, image>>
news == <<told, how>>
download == <<known, bytes, partial>>
procVars == <<choice, seen, rel, news, download>>
vars == <<machineVars, githubVars, cache, pc, procVars, ended>>

Files == Procs \cup {"shipped", "earlier"}
Channels == {"stable", "prerelease"}
Checks == [at : 0..MaxDay, tag : 0..MaxVersion, channel : Channels]
NoCheck == [at |-> 0, tag |-> 0, channel |-> "stable"]

\* "refused" and "brokenOff" are exits with 1, too: the system would not chmod or
\* unlink the temporary file, or the download stopped half-way.
Ends == {"exit0", "exit1", "refused", "brokenOff", "killed"}

\* The version hsh itself reports; what is fetched for an update is a release.
VersionOf(file) == IF file \in Procs THEN rel[file] ELSE 1

Running(p) == pc[p] \notin {"idle", "done"}

Init ==
  /\ win \in BOOLEAN
  /\ latest \in {[c \in Channels |-> 1], [stable |-> 0, prerelease |-> 1]} /\ morning = latest
  /\ today = 0 /\ setBacks = 0
  /\ cache = NoCheck
  /\ bin = "shipped" /\ old = "none"
  /\ staged \in {"none", "earlier"}
  /\ daemon \in BOOLEAN
  /\ rootRan = "none"
  /\ pc = [p \in Procs |-> "idle"]
  /\ cmd = [p \in Procs |-> "none"]
  /\ channel = [p \in Procs |-> "stable"]
  /\ image = [p \in Procs |-> "shipped"]
  /\ seen = [p \in Procs |-> NoCheck]
  /\ rel = [p \in Procs |-> 0]
  /\ known = [p \in Procs |-> FALSE]
  /\ bytes = [p \in Procs |-> "none"]
  /\ partial = [p \in Procs |-> FALSE]
  /\ told = [p \in Procs |-> 0]
  /\ how = [p \in Procs |-> "untold"]
  /\ ended = [p \in Procs |-> "not"]

GoTo(p, label) == pc' = [pc EXCEPT ![p] = label] /\ UNCHANGED ended

End(p, e) ==
  /\ pc' = [pc EXCEPT ![p] = "done"]
  /\ ended' = [ended EXCEPT ![p] = e]

Tell(p, tag, from) ==
  /\ told' = [told EXCEPT ![p] = tag]
  /\ how' = [how EXCEPT ![p] = from]

---------------------------------------------------------------------------
(* hsh status and the first half of hsh update *)

\* Mutant: the check is kept for every channel.
FreshWhatever(p) == cache.tag # 0 /\ today <= cache.at

\* Less than 24 hours old, also when the clock is now behind it.
Fresh(p) == cache.tag # 0 /\ cache.channel = channel[p] /\ today <= cache.at

Begin(p, command, ch) ==
  /\ pc[p] = "idle" /\ bin # "none"
  /\ cmd' = [cmd EXCEPT ![p] = command]
  /\ channel' = [channel EXCEPT ![p] = ch]
  /\ image' = [image EXCEPT ![p] = bin]
  /\ GoTo(p, IF command \in {"status", "update"} THEN command ELSE "setup")
  /\ UNCHANGED <<machineVars, githubVars, cache, seen, rel, download, news>>

\* checkForUpdate looks at the cache before it awaits anything.
LookAtCache(p) ==
  /\ pc[p] = "status"
  /\ seen' = [seen EXCEPT ![p] = cache]
  /\ \/ /\ Fresh(p)
        /\ Tell(p, cache.tag, "cache")
        /\ End(p, "exit0")
     \/ /\ ~Fresh(p)
        /\ GoTo(p, "fetch")
        /\ UNCHANGED news
  /\ UNCHANGED <<machineVars, githubVars, cache, choice, rel, download>>

\* The check failed: whatever was cached has to do, of whatever channel.
FallBack(p) ==
  /\ Tell(p, seen[p].tag, "fallback")
  /\ End(p, "exit0")

\* fetchLatestRelease: GitHub answers, or cannot be reached within ten seconds.
AskGitHub(p) ==
  /\ pc[p] \in {"fetch", "update"}
  /\ \/ /\ rel' = [rel EXCEPT ![p] = latest[channel[p]]]
        /\ GoTo(p, IF pc[p] = "fetch" THEN "checked" ELSE "found")
        /\ UNCHANGED news
     \/ /\ pc[p] = "fetch" /\ FallBack(p)
        /\ UNCHANGED rel
     \/ /\ pc[p] = "update" /\ End(p, "exit1")
        /\ UNCHANGED <<rel, news>>
  /\ UNCHANGED <<machineVars, githubVars, cache, choice, seen, download>>

\* Mutant: the channel is not recorded.
WriteCheckAlone(p) ==
  /\ rel[p] # 0
  /\ cache' = [at |-> today, tag |-> rel[p], channel |-> "undefined"]

WriteCheck(p) ==
  /\ rel[p] # 0
  /\ cache' = [at |-> today, tag |-> rel[p], channel |-> channel[p]]

\* hsh status: a check that cannot be written counts as one that failed.  A
\* channel without a release leaves the check as it was.
StatusTells(p) ==
  /\ pc[p] = "checked"
  /\ \/ /\ WriteCheck(p) \/ (rel[p] = 0 /\ UNCHANGED cache)
        /\ Tell(p, rel[p], "github")
        /\ End(p, "exit0")
     \/ rel[p] # 0 /\ FallBack(p) /\ UNCHANGED cache
  /\ UNCHANGED <<machineVars, githubVars, choice, seen, rel, download>>

\* hsh update: the same file is written as well as it can be.  It ends here when
\* there is nothing newer, with --check, when the user declines, or when the
\* release has no binary for this platform.
UpdateDecides(p) ==
  /\ pc[p] = "found"
  /\ WriteCheck(p) \/ UNCHANGED cache
  /\ Tell(p, rel[p], "github")
  /\ \/ End(p, "exit0")
     \/ rel[p] > VersionOf(image[p]) /\ (End(p, "exit1") \/ GoTo(p, "sum"))
  /\ UNCHANGED <<machineVars, githubVars, choice, seen, rel, download>>

\* findExpectedSha256: none published and none obtained are the same to it.
LookUpSum(p) ==
  /\ pc[p] = "sum"
  /\ \E found \in BOOLEAN : known' = [known EXCEPT ![p] = found]
  /\ GoTo(p, "download")
  /\ UNCHANGED <<machineVars, githubVars, cache, choice, seen, rel, bytes, partial, news>>

---------------------------------------------------------------------------
(* hsh setup up to its download *)

\* Windows is refused, a daemon that is there is left alone without --force.
BeginSetup(p) ==
  /\ pc[p] = "setup"
  /\ \/ win /\ End(p, "exit1")
     \/ ~win /\ daemon /\ cmd[p] = "setup" /\ End(p, "exit0")
     \/ ~win /\ (daemon => cmd[p] = "setup --force") /\ GoTo(p, "manifest")
  /\ UNCHANGED <<machineVars, githubVars, cache, procVars>>

\* Mutant: a manifest that cannot be had is passed over, as for hsh update.
ManifestOptional(p) ==
  /\ pc[p] = "manifest"
  /\ \E found \in BOOLEAN : known' = [known EXCEPT ![p] = found]
  /\ GoTo(p, "check")
  /\ UNCHANGED <<machineVars, githubVars, cache, choice, seen, rel, bytes, partial, news>>

\* fetchExpectedSha256 throws without a manifest or an entry in it.
FetchManifest(p) ==
  /\ pc[p] = "manifest"
  /\ \/ End(p, "exit1") /\ UNCHANGED known
     \/ /\ known' = [known EXCEPT ![p] = TRUE]
        /\ GoTo(p, "check")
  /\ UNCHANGED <<machineVars, githubVars, cache, choice, seen, rel, bytes, partial, news>>

\* existsSync, then unlinkSync, which throws when the file has gone meanwhile.
CheckStaged(p) ==
  /\ pc[p] = "check"
  /\ GoTo(p, IF staged = "none" THEN "download" ELSE "unlink")
  /\ UNCHANGED <<machineVars, githubVars, cache, procVars>>

UnlinkStaged(p) ==
  /\ pc[p] = "unlink"
  /\ \/ staged = "none" /\ End(p, "exit1")
     \/ staged # "none" /\ GoTo(p, "download")
  /\ staged' = "none"
  /\ UNCHANGED <<win, bin, old, daemon, rootRan, githubVars, cache, procVars>>

---------------------------------------------------------------------------
(* downloadAndInstall *)

\* The headers arrive, and the temporary file is opened under a name nobody has.
OpenPartial(p) ==
  /\ pc[p] = "download"
  /\ \/ End(p, "exit1") /\ UNCHANGED partial
     \/ /\ partial' = [partial EXCEPT ![p] = TRUE]
        /\ GoTo(p, "stream")
  /\ UNCHANGED <<machineVars, githubVars, cache, choice, seen, rel, known, bytes, news>>

\* The body ends, right or wrong, or breaks off, by the 60 seconds at the latest;
\* of a right one, a disk that fills up may have taken less ("cut").
Stream(p) ==
  /\ pc[p] = "stream"
  /\ \/ /\ \E b \in {"whole", "wrong", "cut"} : bytes' = [bytes EXCEPT ![p] = b]
        /\ GoTo(p, "verify")
     \/ End(p, "brokenOff") /\ UNCHANGED bytes
  /\ UNCHANGED <<machineVars, githubVars, cache, choice, seen, rel, known, partial, news>>

\* The hash is that of the bytes received, not of the file.
HashMatches(p) == bytes[p] # "wrong"

\* Mutants: a wrong hash is only reported; its file is left behind.
VerifyReports(p) ==
  /\ pc[p] = "verify"
  /\ GoTo(p, "replace")
  /\ UNCHANGED <<machineVars, githubVars, cache, procVars>>

VerifyLeaves(p) ==
  /\ pc[p] = "verify"
  /\ \/ known[p] /\ ~HashMatches(p) /\ End(p, "exit1")
     \/ (known[p] => HashMatches(p)) /\ GoTo(p, "replace")
  /\ UNCHANGED <<machineVars, githubVars, cache, procVars>>

\* The temporary file is unlinked as well as it can be, and the command fails.
Discard(p) ==
  \/ End(p, "exit1") /\ partial' = [partial EXCEPT ![p] = FALSE]
  \/ End(p, "refused") /\ UNCHANGED partial

\* A wrong hash ends the command; POSIX then sets the mode, which may throw.
Verify(p) ==
  /\ pc[p] = "verify"
  /\ \/ known[p] /\ ~HashMatches(p) /\ Discard(p)
     \/ /\ known[p] => HashMatches(p)
        /\ GoTo(p, "replace") \/ (~win /\ End(p, "refused"))
        /\ UNCHANGED partial
  /\ UNCHANGED <<machineVars, githubVars, cache, choice, seen, rel, known, bytes, news>>

Updating(p) == cmd[p] = "update"

\* Windows: nothing can replace or remove a file that a process runs from.
Mapped(file) == \E p \in Procs : Running(p) /\ image[p] = file

\* The rename of the temporary file over its destination.
MoveIn(p) ==
  /\ IF Updating(p) THEN bin' = p /\ UNCHANGED staged
                    ELSE staged' = p /\ UNCHANGED bin
  /\ partial' = [partial EXCEPT ![p] = FALSE]
  /\ IF Updating(p) THEN End(p, "exit0") ELSE GoTo(p, "chmod")
  /\ UNCHANGED old

\* Mutant: the destination is removed first, for the sake of Windows.
MakeRoom(p) ==
  /\ pc[p] = "replace"
  /\ IF bin # "none" /\ Updating(p)
       THEN /\ bin' = "none" /\ UNCHANGED <<old, staged, partial, pc, ended>>
       ELSE MoveIn(p)
  /\ UNCHANGED <<win, daemon, rootRan, githubVars, cache, choice, seen, rel, known, bytes, news>>

Replace(p) ==
  /\ pc[p] = "replace"
  /\ \/ ~(win /\ Mapped(bin)) /\ MoveIn(p)
     \/ ~win /\ Discard(p) /\ UNCHANGED <<bin, old, staged>>
     \/ /\ win /\ GoTo(p, "dropOld")
        /\ UNCHANGED <<bin, old, staged, partial>>
  /\ UNCHANGED <<win, daemon, rootRan, githubVars, cache, choice, seen, rel, known, bytes, news>>

\* Windows: unlink the .old file of an earlier update if that can be done, move
\* hsh aside, move the new one in.  A failure of the last two is thrown.
DropOld(p) ==
  /\ pc[p] = "dropOld"
  /\ old' = IF Mapped(old) THEN old ELSE "none"
  /\ GoTo(p, "aside")
  /\ UNCHANGED <<win, bin, staged, daemon, rootRan, githubVars, cache, procVars>>

MoveAside(p) ==
  /\ pc[p] = "aside"
  /\ \/ /\ bin # "none" /\ ~Mapped(old)
        /\ old' = bin /\ bin' = "none"
        /\ GoTo(p, "moveIn")
     \/ End(p, "exit1") /\ UNCHANGED <<bin, old>>
  /\ UNCHANGED <<win, staged, daemon, rootRan, githubVars, cache, procVars>>

MoveInLast(p) ==
  /\ pc[p] = "moveIn"
  /\ \/ ~Mapped(bin) /\ MoveIn(p)
     \/ End(p, "exit1") /\ UNCHANGED <<bin, old, staged, partial>>
  /\ UNCHANGED <<win, daemon, rootRan, githubVars, cache, choice, seen, rel, known, bytes, news>>

---------------------------------------------------------------------------
(* hsh setup from there on *)

ChmodStaged(p) ==
  /\ pc[p] = "chmod"
  /\ \/ staged = "none" /\ End(p, "exit1")
     \/ staged # "none" /\ GoTo(p, "sudo")
  /\ UNCHANGED <<machineVars, githubVars, cache, procVars>>

\* sudo asks for the password, and runs what is at the path by then: nothing, or
\* a daemon that installs itself or fails to.
RunPrivileged(p) ==
  /\ pc[p] = "sudo"
  /\ \/ End(p, "exit1") /\ UNCHANGED <<rootRan, daemon>>
     \/ /\ staged # "none"
        /\ rootRan' = staged
        /\ \/ End(p, "exit0") /\ daemon' = TRUE
           \/ End(p, "exit1") /\ UNCHANGED daemon
  /\ UNCHANGED <<win, bin, old, staged, githubVars, cache, procVars>>

---------------------------------------------------------------------------
(* The world *)

\* A release for everybody, or a pre-release; the pre-release channel has both.
Publish ==
  /\ latest["prerelease"] < MaxVersion
  /\ \E heads \in {Channels, {"prerelease"}} :
       latest' = [c \in Channels |->
                    IF c \in heads THEN latest["prerelease"] + 1 ELSE latest[c]]
  /\ UNCHANGED <<machineVars, morning, today, setBacks, cache, pc, procVars, ended>>

\* A check lasts ten seconds at most: days do not pass under one.
Checking == \E p \in Procs : pc[p] \in {"fetch", "checked", "update", "found"}

Midnight ==
  /\ ~Checking /\ today < MaxDay
  /\ today' = today + 1 /\ morning' = latest
  /\ UNCHANGED <<machineVars, latest, setBacks, cache, pc, procVars, ended>>

SetBack ==
  /\ ~Checking /\ today > 0 /\ setBacks < MaxSetBacks
  /\ today' = today - 1 /\ setBacks' = setBacks + 1
  /\ UNCHANGED <<machineVars, latest, morning, cache, pc, procVars, ended>>

Kill(p) ==
  /\ Running(p)
  /\ End(p, "killed")
  /\ UNCHANGED <<machineVars, githubVars, cache, procVars>>

ProcStep(p) ==
  \/ LookAtCache(p) \/ AskGitHub(p) \/ StatusTells(p)
  \/ UpdateDecides(p) \/ LookUpSum(p)
  \/ BeginSetup(p) \/ FetchManifest(p) \/ CheckStaged(p) \/ UnlinkStaged(p)
  \/ OpenPartial(p) \/ Stream(p) \/ Verify(p) \/ Replace(p)
  \/ DropOld(p) \/ MoveAside(p) \/ MoveInLast(p)
  \/ ChmodStaged(p) \/ RunPrivileged(p)

Next ==
  \/ \E p \in Procs :
       \/ \E ch \in Channels :
            Begin(p, "status", ch) \/ Begin(p, "update", ch)
       \/ Begin(p, "setup", "stable") \/ Begin(p, "setup --force", "stable")
       \/ ProcStep(p)
       \/ Kill(p)
  \/ Publish \/ Midnight \/ SetBack

Spec == Init /\ [][Next]_vars

---------------------------------------------------------------------------

MachineTyped ==
  /\ win \in BOOLEAN /\ daemon \in BOOLEAN
  /\ bin \in Files \cup {"none"} /\ old \in Files \cup {"none"}
  /\ staged \in Files \cup {"none"} /\ rootRan \in Files \cup {"none"}
GithubTyped ==
  /\ latest \in [Channels -> 0..MaxVersion] /\ morning \in [Channels -> 0..MaxVersion]
  /\ today \in 0..MaxDay /\ setBacks \in 0..MaxSetBacks
  /\ cache \in Checks
CourseTyped ==
  /\ pc \in [Procs -> {"idle", "status", "update", "setup", "fetch", "checked", "found",
                       "sum", "manifest", "check", "unlink", "download", "stream", "verify",
                       "replace", "dropOld", "aside", "moveIn", "chmod", "sudo", "done"}]
  /\ cmd \in [Procs -> {"none", "status", "update", "setup", "setup --force"}]
  /\ channel \in [Procs -> Channels]
  /\ image \in [Procs -> Files]
  /\ ended \in [Procs -> Ends \cup {"not"}]
MemoryTyped ==
  /\ seen \in [Procs -> Checks]
  /\ rel \in [Procs -> 0..MaxVersion] /\ told \in [Procs -> 0..MaxVersion]
  /\ known \in [Procs -> BOOLEAN] /\ partial \in [Procs -> BOOLEAN]
  /\ bytes \in [Procs -> {"none", "whole", "wrong", "cut"}]
  /\ how \in [Procs -> {"untold", "cache", "github", "fallback"}]

\* Every variable keeps its type; the cached check names its channel (CachedCheck in
\* src/update/check.ts).
TypeOK == MachineTyped /\ GithubTyped /\ CourseTyped /\ MemoryTyped

\* Whatever is killed or fails, there is always an hsh at its path; on Windows it
\* may be at the .old path instead (src/update/install.ts, step 5).
NeverLost == bin # "none" \/ (win /\ old # "none")

\* An update whose checksum was found never puts in place a file for which other
\* bytes were received (a disk that fills up may still have cut it); without a
\* checksum it may, having warned (src/commands/update.ts, step 6).
UpdateVerified == \A p \in Procs : p \in {bin, old} /\ known[p] => HashMatches(p)

\* What runs as root has passed the verification of a set-up, whichever of the
\* concurrent set-ups put it at the shared path (src/tunnel/installer.ts).
RootRanVerified ==
  rootRan \in Procs => cmd[rootRan] \in {"setup", "setup --force"} /\ HashMatches(rootRan)

\* A bad download and a failed rename clean up: a partial file is left only by a
\* download that broke off, by a killed process, where the system would not set its
\* mode or unlink it, or on Windows by a rename that failed (src/update/install.ts).
PartialsExplained ==
  \A p \in Procs : partial[p] /\ pc[p] = "done" =>
    ended[p] \in {"refused", "brokenOff", "killed"} \/ (win /\ ended[p] = "exit1")

\* Unless GitHub could not be asked or the clock was set back, nobody is told of
\* less than what was released on his channel before this day (src/update/check.ts).
NewsWithinADay ==
  [][\A p \in Procs :
       how[p] = "untold" /\ how'[p] \in {"cache", "github"} /\ setBacks = 0 =>
         told'[p] >= morning[channel[p]]]_vars
=============================================================================
