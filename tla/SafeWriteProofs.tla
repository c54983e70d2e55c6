---------------------------- MODULE SafeWriteProofs ----------------------------
(***************************************************************************)
(* safeWrite implements AtomicFile and does not lose what it returned, for *)
(* any number of calls and contents.  The argument: an inode gets its name *)
(* only once all its bytes are on the disk, and is not written afterwards. *)
(***************************************************************************)
EXTENDS SafeWrite, TLAPS

\* An inode that processes or the disk find under the final name is complete,
\* in memory and on the disk.
Complete(i) == data[i] \in Content /\ diskData[i] = data[i]

Linked(d) == d.file # Absent => Complete(d.file)

Unlinked(w) == dir.file # w /\ diskDir.file # w

CallInv(w) ==
  /\ pc[w] \in {"idle", "opened", "written", "synced"} => Unlinked(w)
  /\ pc[w] = "written" => data[w] \in Content
  /\ pc[w] = "synced"  => Complete(w)

WriteInv == /\ TypeOK /\ Linked(dir) /\ Linked(diskDir)
            /\ \A w \in Writer: CallInv(w)

\* The room and the flushes without which nothing can be promised.
Faithful == FileSync /\ ~DiskCanFill

USE DEF Goto, disk, ranks

-----------------------------------------------------------------------------
\* Every variable keeps its type, whatever the disk does.
LEMMA TypeInit == Init => TypeOK
  <1>. SUFFICES ASSUME Init PROVE TypeOK
    OBVIOUS
  <1>1. data \in [Inode -> Bytes] /\ diskData \in [Inode -> Bytes]
    BY DEF Init, Inode, Bytes
  <1>2. dir \in Dir /\ diskDir \in Dir
    BY DEF Init, Dir, Inode
  <1>. QED
    BY <1>1, <1>2 DEF Init, TypeOK, Label

LEMMA TypeStep == TypeOK /\ [Next]_vars => TypeOK'
  <1>. SUFFICES ASSUME TypeOK, [Next]_vars PROVE TypeOK'
    OBVIOUS
  <1>. USE DEF TypeOK, Inode, Bytes, Dir, Label
  <1>1. ASSUME NEW w \in Writer, Open(w) PROVE TypeOK'
    BY <1>1 DEF Open
  <1>2. ASSUME NEW w \in Writer, WriteBytes(w) PROVE TypeOK'
    BY <1>2 DEF WriteBytes
  <1>3. ASSUME NEW w \in Writer, Sync(w) PROVE TypeOK'
    BY <1>3 DEF Sync
  <1>4. ASSUME NEW w \in Writer, Rename(w) PROVE TypeOK'
    BY <1>4 DEF Rename
  <1>5. ASSUME NEW w \in Writer, SyncDir(w) PROVE TypeOK'
    BY <1>5 DEF SyncDir
  <1>6. ASSUME NEW w \in Writer, Throw(w) \/ Kill(w) PROVE TypeOK'
    BY <1>6 DEF Throw, Kill
  <1>7. ASSUME NEW i \in Inode, WriteBackData(i) PROVE TypeOK'
    BY <1>7 DEF WriteBackData
  <1>8. CASE WriteBackDir \/ PowerLoss
    BY <1>8 DEF WriteBackDir, PowerLoss
  <1>9. CASE UNCHANGED vars
    BY <1>9 DEF vars
  <1>. QED
    BY <1>1, <1>2, <1>3, <1>4, <1>5, <1>6, <1>7, <1>8, <1>9 DEF Next

\* The types hold in every reachable state.
THEOREM TypeInvariant == Spec => []TypeOK
  BY TypeInit, TypeStep, PTL DEF Spec

-----------------------------------------------------------------------------
\* Names are given to complete inodes only.
LEMMA WriteInit == Init => WriteInv
  <1>. SUFFICES ASSUME Init PROVE WriteInv
    OBVIOUS
  <1>1. Linked(dir) /\ Linked(diskDir)
    BY DEF Init, Linked, Complete, Inode
  <1>2. \A w \in Writer: CallInv(w)
    BY NamesAreDistinct DEF Init, CallInv, Unlinked
  <1>. QED
    BY <1>1, <1>2, TypeInit DEF WriteInv

LEMMA WriteStep ==
  ASSUME Faithful, WriteInv, [Next]_vars PROVE WriteInv'
  <1>. USE DEF Faithful, WriteInv, Linked, Complete, CallInv, Unlinked
  <1>. DEFINE Goal == /\ Linked(dir)' /\ Linked(diskDir)'
                      /\ \A u \in Writer: CallInv(u)'
  <1>1. ASSUME NEW w \in Writer, Open(w) PROVE Goal
    BY <1>1 DEF Open, TypeOK, Dir
  <1>2. ASSUME NEW w \in Writer, WriteBytes(w) PROVE Goal
    BY <1>2 DEF WriteBytes, TypeOK, Dir, Inode
  <1>3. ASSUME NEW w \in Writer, Sync(w) PROVE Goal
    BY <1>3 DEF Sync, TypeOK, Dir, Inode
  <1>4. ASSUME NEW w \in Writer, Rename(w) PROVE Goal
    BY <1>4 DEF Rename, TypeOK, Dir, Inode
  <1>5. ASSUME NEW w \in Writer, SyncDir(w) PROVE Goal
    BY <1>5 DEF SyncDir, TypeOK
  <1>6. ASSUME NEW w \in Writer, Throw(w) \/ Kill(w) PROVE Goal
    BY <1>6 DEF Throw, Kill, TypeOK
  <1>7. ASSUME NEW i \in Inode, WriteBackData(i) PROVE Goal
    BY <1>7 DEF WriteBackData, TypeOK, Dir, Inode
  <1>8. ASSUME WriteBackDir PROVE Goal
    BY <1>8 DEF WriteBackDir
  <1>9. ASSUME PowerLoss PROVE Goal
    BY <1>9 DEF PowerLoss, TypeOK
  <1>10. ASSUME UNCHANGED vars PROVE Goal
    BY <1>10 DEF vars
  <1>11. Goal
    BY <1>1, <1>2, <1>3, <1>4, <1>5, <1>6, <1>7, <1>8, <1>9, <1>10 DEF Next
  <1>. QED
    BY <1>11, TypeStep

\* The inductive invariant: what a directory names is complete, in memory and
\* on the disk, so that no step of a call, and no power loss, shows a reader
\* less than a whole content (steps 1 to 3 of safe-write.ts).
THEOREM NamedInodesComplete == Faithful => (Spec => []WriteInv)
  <1>. SUFFICES ASSUME Faithful PROVE Spec => []WriteInv
    OBVIOUS
  <1>1. WriteInv /\ [Next]_vars => WriteInv'
    BY WriteStep
  <1>. QED
    BY WriteInit, <1>1, PTL DEF Spec

\* On a filesystem that flushes files when asked and does not fill up,
\* concurrent calls of safeWrite that may fail, be killed or lose power are
\* atomic writes of one file.
THEOREM AtomicFileImplemented == Faithful => (Spec => ImplementsAtomicFile)
  <1>. SUFFICES ASSUME Faithful PROVE Spec => ImplementsAtomicFile
    OBVIOUS
  <1>. USE DEF ContentOf
  <1>1. Init => Atomic!Init
    <2>. SUFFICES ASSUME Init PROVE Atomic!Init
      OBVIOUS
    <2>1. Linked(dir) /\ diskDir = dir /\ diskData = data
      BY WriteInit DEF Init, WriteInv
    <2>. QED
      BY <2>1 DEF Atomic!Init, Linked, Complete
  <1>2. ASSUME WriteInv, WriteInv', [Next]_vars PROVE [Atomic!Next]_(Atomic!fileVars)
    <2>. USE DEF WriteInv, CallInv, Unlinked, Linked, Complete, TypeOK, Dir, Inode
    <2>1. ASSUME NEW w \in Writer, Rename(w) PROVE Atomic!Write
      BY <1>2, <2>1, NamesAreDistinct DEF Rename, Atomic!Write
    <2>2. ASSUME WriteBackDir PROVE Atomic!Persist
      BY <1>2, <2>2 DEF WriteBackDir, Atomic!Persist
    <2>3. ASSUME NEW w \in Writer, SyncDir(w)
          PROVE  Atomic!Persist \/ UNCHANGED Atomic!fileVars
      BY <1>2, <2>3 DEF SyncDir, Atomic!Persist, Atomic!fileVars
    <2>4. ASSUME PowerLoss PROVE Atomic!PowerLoss
      BY <1>2, <2>4 DEF PowerLoss, Atomic!PowerLoss
    <2>5. ASSUME NEW w \in Writer, Open(w) \/ WriteBytes(w) \/ Sync(w) \/ Throw(w) \/ Kill(w)
          PROVE  UNCHANGED Atomic!fileVars
      BY <1>2, <2>5 DEF Open, WriteBytes, Sync, Throw, Kill, Atomic!fileVars
    <2>6. ASSUME NEW i \in Inode, WriteBackData(i) PROVE UNCHANGED Atomic!fileVars
      BY <1>2, <2>6 DEF WriteBackData, Atomic!fileVars
    <2>7. ASSUME UNCHANGED vars PROVE UNCHANGED Atomic!fileVars
      BY <2>7 DEF vars, Atomic!fileVars
    <2>. QED
      BY <1>2, <2>1, <2>2, <2>3, <2>4, <2>5, <2>6, <2>7 DEF Next, Atomic!Next
  <1>3. Spec => []WriteInv
    BY NamedInodesComplete
  <1>. QED
    BY <1>1, <1>2, <1>3, PTL DEF Spec, ImplementsAtomicFile, Atomic!Spec

-----------------------------------------------------------------------------
\* The last to rename is the one the disk must hold: in memory from the rename
\* on, on the disk from the return on.
Holds(d, w) == w \notin d.tmps /\ d.file # Absent /\ stamp[d.file] >= stamp[w]

RankInv == /\ WriteInv
           /\ \A i \in Inode: stamp[i] <= clock
           /\ \A w \in Writer:
                /\ pc[w] \in {"renamed", "returned"} => Holds(dir, w)
                /\ pc[w] = "returned" => Holds(diskDir, w)

LEMMA RankInit == Init => RankInv
  BY WriteInit DEF Init, RankInv, WriteInv, TypeOK

LEMMA RankStep ==
  ASSUME Faithful, DirSync, RankInv, [Next]_vars PROVE RankInv'
  <1>. USE DEF RankInv, Holds
  <1>. DEFINE Goal == /\ (\A i \in Inode: stamp[i] <= clock)'
                      /\ \A u \in Writer:
                           /\ (pc[u] \in {"renamed", "returned"} => Holds(dir, u))'
                           /\ (pc[u] = "returned" => Holds(diskDir, u))'
  <1>1. ASSUME NEW w \in Writer, Open(w) PROVE Goal
    BY <1>1 DEF Open, WriteInv, TypeOK, Dir
  <1>2. ASSUME NEW w \in Writer, WriteBytes(w) \/ Sync(w) \/ Throw(w) \/ Kill(w) PROVE Goal
    BY <1>2 DEF WriteBytes, Sync, Throw, Kill, WriteInv, TypeOK
  <1>3. ASSUME NEW w \in Writer, Rename(w) PROVE Goal
    <2>1. Unlinked(w) /\ pc[w] = "synced"
      BY <1>3 DEF Rename, WriteInv, CallInv
    <2>. QED
      BY <1>3, <2>1, NamesAreDistinct DEF Rename, Unlinked, WriteInv, TypeOK, Dir, Inode
  <1>4. ASSUME NEW w \in Writer, SyncDir(w) PROVE Goal
    BY <1>4 DEF SyncDir, WriteInv, TypeOK
  <1>5. ASSUME (\E i \in Inode: WriteBackData(i)) \/ WriteBackDir PROVE Goal
    BY <1>5 DEF WriteBackData, WriteBackDir
  <1>6. ASSUME PowerLoss PROVE Goal
    BY <1>6 DEF PowerLoss, WriteInv, TypeOK
  <1>7. ASSUME UNCHANGED vars PROVE Goal
    BY <1>7 DEF vars
  <1>8. Goal
    BY <1>1, <1>2, <1>3, <1>4, <1>5, <1>6, <1>7 DEF Next
  <1>. QED
    BY <1>8, WriteStep

\* Where directories are flushed when asked as well, a write that returned
\* survives a power loss unless a later one replaced it.
THEOREM ReturnedWritesSurvive ==
  Faithful /\ DirSync => (Spec => []ReturnedSurvives)
  <1>. SUFFICES ASSUME Faithful, DirSync PROVE Spec => []ReturnedSurvives
    OBVIOUS
  <1>1. RankInv /\ [Next]_vars => RankInv'
    BY RankStep
  <1>2. RankInv => ReturnedSurvives
    BY DEF RankInv, Holds, ReturnedSurvives
  <1>. QED
    BY RankInit, <1>1, <1>2, PTL DEF Spec
=============================================================================
