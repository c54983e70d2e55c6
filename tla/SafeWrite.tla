------------------------------ MODULE SafeWrite ------------------------------
(***************************************************************************)
(* safeWrite (src/util/safe-write.ts): several calls, in one or in several *)
(* processes, replace the same file.  Each call writes an inode of its own *)
(* under a temporary name, flushes it, renames it over the file and        *)
(* flushes the directory.  Memory and disk are told apart: data and dir    *)
(* are what processes see, diskData and diskDir what survives a power loss.*)
(***************************************************************************)
EXTENDS Naturals

CONSTANTS
  Writer,       \* calls of safeWrite on this file
  Old,          \* the inode that is there before them
  Content,      \* complete contents
  Absent,       \* no file
  Torn,         \* some bytes of a content, not all of them
  FileSync,     \* does fsync of a file take effect on this filesystem?
  DirSync,      \* does fsync of a directory?
  DiskCanFill   \* may writeSync write less than it was given, without an error?

ASSUME SwitchesAreBoolean ==
  FileSync \in BOOLEAN /\ DirSync \in BOOLEAN /\ DiskCanFill \in BOOLEAN
ASSUME NamesAreDistinct ==
  /\ Old \notin Writer /\ Absent \notin Writer \cup {Old}
  /\ Torn \notin Content /\ Absent \notin Content

VARIABLES
  pc, text,   \* where each call is, and what it is to write
  data,       \* bytes of each inode
  dir,        \* the directory: file is the inode under the final name
              \* (or Absent), tmps the calls whose temporary name exists
  diskData, diskDir,
  stamp,      \* auxiliary: the rank of each rename, 0 for Old
  clock       \* auxiliary: renames so far

disk   == <<diskData, diskDir>>
ranks  == <<stamp, clock>>
vars   == <<pc, text, data, dir, disk, ranks>>

Inode  == Writer \cup {Old}
Bytes  == Content \cup {Torn}
Dir    == [file: Inode \cup {Absent}, tmps: SUBSET Writer]
Label  == {"idle", "opened", "written", "synced", "renamed", "returned",
           "thrown", "dead"}

TypeOK ==
  /\ pc \in [Writer -> Label]
  /\ text \in [Writer -> Content]
  /\ data \in [Inode -> Bytes]     /\ dir \in Dir
  /\ diskData \in [Inode -> Bytes] /\ diskDir \in Dir
  /\ stamp \in [Inode -> Nat]      /\ clock \in Nat

Init ==
  /\ pc   = [w \in Writer |-> "idle"]
  /\ text \in [Writer -> Content]
  /\ \E c \in Content: data = [i \in Inode |-> IF i = Old THEN c ELSE Torn]
  /\ dir \in [file: {Old, Absent}, tmps: {{}}]
  /\ diskData = data /\ diskDir = dir
  /\ stamp = [i \in Inode |-> 0] /\ clock = 0

Goto(w, l) == pc' = [pc EXCEPT ![w] = l]

\* openSync(tmp, "wx"): a fresh name (pid and random suffix), an empty inode.
Open(w) ==
  /\ pc[w] = "idle" /\ Goto(w, "opened")
  /\ dir' = [dir EXCEPT !.tmps = @ \cup {w}]
  /\ UNCHANGED <<text, data, disk, ranks>>

\* Faulty variant: the bytes of another inode, not those of the caller.
WriteBytesOfFile(w) ==
  /\ pc[w] = "opened" /\ Goto(w, "written")
  /\ data' = [data EXCEPT ![w] = IF dir.file = Absent THEN Absent ELSE data[dir.file]]
  /\ UNCHANGED <<text, dir, disk, ranks>>

\* writeSync; the number of bytes it returns is not looked at.
WriteBytes(w) ==
  /\ pc[w] = "opened" /\ Goto(w, "written")
  /\ \E b \in {text[w]} \cup IF DiskCanFill THEN {Torn} ELSE {}:
       data' = [data EXCEPT ![w] = b]
  /\ UNCHANGED <<text, dir, disk, ranks>>

\* Faulty variant: no fsync before the rename.
SkipSync(w) ==
  /\ pc[w] = "written" /\ Goto(w, "synced")
  /\ UNCHANGED <<text, data, dir, disk, ranks>>

\* fsyncSync(fd), whose errors are swallowed, and closeSync.
Sync(w) ==
  /\ pc[w] = "written" /\ Goto(w, "synced")
  /\ IF FileSync THEN diskData' = [diskData EXCEPT ![w] = data[w]]
                 ELSE UNCHANGED diskData
  /\ UNCHANGED <<text, data, dir, diskDir, ranks>>

Rename(w) ==
  /\ pc[w] = "synced" /\ Goto(w, "renamed")
  /\ dir' = [file |-> w, tmps |-> dir.tmps \ {w}]
  /\ clock' = clock + 1
  /\ stamp' = [stamp EXCEPT ![w] = clock + 1]
  /\ UNCHANGED <<text, data, disk>>

\* Faulty variant: the call returns without flushing the directory.
SkipSyncDir(w) ==
  /\ pc[w] = "renamed" /\ Goto(w, "returned")
  /\ UNCHANGED <<text, data, dir, disk, ranks>>

\* The directory is opened and flushed, best effort.
SyncDir(w) ==
  /\ pc[w] = "renamed" /\ Goto(w, "returned")
  /\ IF DirSync THEN diskDir' = dir ELSE UNCHANGED diskDir
  /\ UNCHANGED <<text, data, dir, diskData, ranks>>

\* open, write or rename throw; the temporary file stays.
Throw(w) ==
  /\ pc[w] \in {"idle", "opened", "synced"} /\ Goto(w, "thrown")
  /\ UNCHANGED <<text, data, dir, disk, ranks>>

\* The process is killed.
Kill(w) ==
  /\ pc[w] \in {"opened", "written", "synced", "renamed"} /\ Goto(w, "dead")
  /\ UNCHANGED <<text, data, dir, disk, ranks>>

\* The operating system writes back data and directory when it likes.
WriteBackData(i) ==
  /\ diskData' = [diskData EXCEPT ![i] = data[i]]
  /\ UNCHANGED <<pc, text, data, dir, diskDir, ranks>>

WriteBackDir ==
  /\ diskDir' = dir
  /\ UNCHANGED <<pc, text, data, dir, diskData, ranks>>

PowerLoss ==
  /\ data' = diskData /\ dir' = diskDir
  /\ pc' = [w \in Writer |-> IF pc[w] \in {"idle", "returned", "thrown"}
                         THEN pc[w] ELSE "dead"]
  /\ UNCHANGED <<text, disk, ranks>>

Next ==
  \/ \E w \in Writer:
       Open(w) \/ WriteBytes(w) \/ Sync(w) \/ Rename(w) \/ SyncDir(w)
         \/ Throw(w) \/ Kill(w)
  \/ \E i \in Inode: WriteBackData(i)
  \/ WriteBackDir
  \/ PowerLoss

Spec == Init /\ [][Next]_vars

-----------------------------------------------------------------------------
\* What the name resolves to: in memory, and on the disk.
ContentOf(d, bytes) == IF d.file = Absent THEN Absent ELSE bytes[d.file]

\* On a filesystem that flushes files when asked, and with room for the
\* bytes, calls that interleave, fail, are killed or lose power replace the
\* file as one atomic write each (header of safe-write.ts, steps 1 to 3).
Atomic == INSTANCE AtomicFile
            WITH value <- ContentOf(dir, data), stored <- ContentOf(diskDir, diskData)
ImplementsAtomicFile == Atomic!Spec

\* Step 3 of the header: the destination has the old bytes or the new bytes,
\* never a torn write.  It takes a disk with room for the bytes.
NeverTorn == ContentOf(dir, data) # Torn

\* A call that returned is not undone by a power loss, unless by a call that
\* renamed later, and its temporary name does not come back (step 4).
ReturnedSurvives ==
  \A w \in Writer: pc[w] = "returned" =>
    /\ w \notin diskDir.tmps
    /\ diskDir.file # Absent
    /\ stamp[diskDir.file] >= stamp[w]
=============================================================================
