------------------------ MODULE SaveOwnershipProofs ------------------------
(***************************************************************************)
(* Proofs about SaveOwnership, for any number of instances and paths and   *)
(* any regions: no save file is torn, a write owner knows what is on disk, *)
(* no update is lost, a flush that succeeds is complete, and copies that   *)
(* start together do not all end up read-only.                             *)
(***************************************************************************)
EXTENDS SaveOwnership, TLAPS

\* A write owner holds the lock of every path it manages, and only an
\* instance past the locking phase is a write owner.
LockInv ==
  \A i \in Instances : write_owner[i] =>
    /\ phase[i] \in {"loading", "running", "flushing"}
    /\ \A p \in Managed(i) : locks[p] = i

\* A temporary file belongs to a flush of a write owner and holds the memory
\* of the region being flushed.
WriteInv ==
  \A i \in Instances :
    /\ phase[i] = "flushing" => write_owner[i]
    /\ writing[i] # NoWrite =>
         /\ phase[i] = "flushing" /\ at[i] \in 1..Len(Regions[i])
         /\ writing[i].path = Current(i)
         /\ writing[i].data = mem[i][Current(i)]

\* The regions a flush has passed are tracked as they are in memory.
PassedInv ==
  \A i \in Instances : phase[i] = "flushing" =>
    \A k \in 1..Len(Regions[i]) :
      k < at[i] => mem[i][Regions[i][k]] = tracked[i][Regions[i][k]]

\* No torn contents anywhere.
WholeInv ==
  /\ NeverTorn
  /\ \A i \in Instances : \A p \in Paths :
       mem[i][p] # Torn /\ tracked[i][p] # Torn

SaveInv ==
  TypeOK /\ LockInv /\ WriteInv /\ PassedInv /\ WholeInv /\ OwnerIsCurrent

----------------------------------------------------------------------------
\* A region of a session is a path.
LEMMA RegionIsPath ==
  ASSUME NEW i \in Instances
  PROVE  /\ Len(Regions[i]) \in Nat
         /\ \A k \in 1..Len(Regions[i]) : Regions[i][k] \in Paths
         /\ Managed(i) \subseteq Paths
  BY RegionsAssumption DEF Managed

\* The marker of no write in progress has the type of a write.
LEMMA NoWriteType ==
  NoWrite \in [path : Paths \cup {None}, data : Contents, synced : BOOLEAN]
  BY DEF NoWrite, Contents

\* A flush ends in deinit or back in the frame loop.
LEMMA LeftCases ==
  ASSUME NEW i \in Instances, Left(i)
  PROVE  \/ Close(i)
         \/ /\ phase' = [phase EXCEPT ![i] = "running"]
            /\ writing' = [writing EXCEPT ![i] = NoWrite]
            /\ UNCHANGED <<locks, write_owner, leaving, contested>>
  BY DEF Left

\* Closing releases no lock of another instance.
LEMMA ReleasedKeeps ==
  ASSUME NEW i \in Instances, NEW j \in Instances, j # i, NEW p \in Paths,
         locks[p] = j
  PROVE  Released(i)[p] = j
  BY DEF Released

\* Closing a copy releases its locks and keeps those of the others.
LEMMA CloseKeepsLockInv ==
  ASSUME TypeOK, LockInv, NEW i \in Instances, Close(i)
  PROVE  LockInv'
  BY ReleasedKeeps, RegionIsPath DEF TypeOK, LockInv, Close

\* Leaving a flush keeps the locks.
LEMMA LeftKeepsLockInv ==
  ASSUME TypeOK, LockInv, WriteInv, NEW i \in Instances,
         phase[i] = "flushing", Left(i)
  PROVE  LockInv'
<1>1. CASE Close(i)
  BY <1>1, CloseKeepsLockInv
<1>2. CASE ~Close(i)
  BY <1>2, LeftCases DEF TypeOK, LockInv, WriteInv
<1> QED
  BY <1>1, <1>2

\* Leaving a flush ends what it had passed.
LEMMA LeftKeepsPassed ==
  ASSUME TypeOK, PassedInv, NEW i \in Instances, Left(i),
         UNCHANGED <<at, mem, tracked>>
  PROVE  PassedInv'
  BY LeftCases DEF PassedInv, TypeOK, Close

\* The region being renamed is then tracked as it is in memory.
LEMMA RenameKeepsPassed ==
  ASSUME TypeOK, WriteInv, PassedInv, NEW i \in Instances, Rename(i)
  PROVE  PassedInv'
<1>1. /\ Current(i) \in Paths /\ at[i] \in 1..Len(Regions[i])
      /\ writing[i].path = Current(i)
      /\ writing[i].data = mem[i][Current(i)]
  BY RegionIsPath DEF WriteInv, Current, Rename, MayRename
<1>2. tracked' = [tracked EXCEPT ![i][Current(i)] = mem[i][Current(i)]]
  BY <1>1 DEF Rename
<1>3. \A k \in 1..Len(Regions[i]) :
        k < at'[i] => k < at[i] \/ Regions[i][k] = Current(i)
  BY <1>1 DEF TypeOK, Rename, Current
<1>4. \A k \in 1..Len(Regions[i]) :
        k < at'[i] => mem[i][Regions[i][k]] = tracked'[i][Regions[i][k]]
  BY <1>1, <1>2, <1>3, RegionIsPath
  DEF TypeOK, PassedInv, Rename, WriteInv, MayRename
<1>5. \A j \in Instances : j # i => tracked'[j] = tracked[j] /\ at'[j] = at[j]
  BY <1>2 DEF TypeOK, Rename
<1>6. mem' = mem /\ phase' = phase
  BY DEF Rename
<1> QED
  BY <1>4, <1>5, <1>6, RegionIsPath DEF PassedInv

\* The data of a temporary file comes from memory.
LEMMA TemporaryIsWhole ==
  ASSUME WriteInv, WholeInv, NEW i \in Instances, writing[i] # NoWrite
  PROVE  writing[i].data # Torn
  BY RegionIsPath DEF WriteInv, WholeInv, Current

\* The invariant holds before any copy is opened.
LEMMA InitEstablishes == Init => SaveInv
<1> SUFFICES ASSUME Init PROVE SaveInv
  OBVIOUS
<1>1. TypeOK
  <2>1. disk \in [Paths -> Contents] /\ durable \in [Paths -> Contents]
    BY DEF Init, Contents
  <2>2. /\ mem \in [Instances -> [Paths -> Contents]]
        /\ tracked \in [Instances -> [Paths -> Contents]]
    BY DEF Init, Contents
  <2>3. writing \in [Instances -> [path : Paths \cup {None},
                                 data : Contents, synced : BOOLEAN]]
    BY NoWriteType DEF Init
  <2>4. /\ locks \in [Paths -> Instances \cup {None}]
        /\ phase \in [Instances -> {"closed", "locking", "releasing",
                                    "loading", "running", "flushing"}]
        /\ at \in [Instances -> Nat \ {0}]
    BY DEF Init
  <2>5. /\ write_owner \in [Instances -> BOOLEAN]
        /\ leaving \in [Instances -> BOOLEAN]
        /\ writes \in Nat /\ faults \in Nat /\ contested \in BOOLEAN
    BY DEF Init
  <2> QED
    BY <2>1, <2>2, <2>3, <2>4, <2>5 DEF TypeOK
<1>2. LockInv /\ WriteInv /\ PassedInv
  BY DEF Init, LockInv, WriteInv, PassedInv
<1>3. WholeInv
  BY NamesAssumption DEF Init, WholeInv, NeverTorn
<1>4. OwnerIsCurrent
  BY DEF Init, OwnerIsCurrent, Loaded
<1> QED
  BY <1>1, <1>2, <1>3, <1>4 DEF SaveInv

----------------------------------------------------------------------------
(* One lemma for each part of the invariant                                *)

\* Every step keeps the types.
LEMMA TypesPreserved ==
  ASSUME TypeOK, [Next]_vars
  PROVE  TypeOK'
<1> USE DEF TypeOK
<1>1. ASSUME NEW i \in Instances, Step(i) PROVE TypeOK'
  <2>1. CASE Open(i)
    BY <2>1 DEF Open, engineVars
  <2>2. CASE LockNext(i)
    BY <2>2 DEF LockNext, NextLock, Missing, engineVars
  <2>3. CASE LockBusy(i)
    BY <2>3 DEF LockBusy, engineVars
  <2>4. CASE BackOut(i)
    BY <2>4 DEF BackOut, Released, engineVars
  <2>5. CASE LocksTaken(i)
    BY <2>5 DEF LocksTaken, Missing, engineVars
  <2>6. CASE LoadNext(i)
    BY <2>6, RegionIsPath DEF LoadNext
  <2>7. CASE LoadDone(i)
    BY <2>7 DEF LoadDone, engineVars
  <2>8. CASE InitFails(i)
    <3>1. locks' \in [Paths -> Instances \cup {None}]
      BY <2>8 DEF InitFails, Close, Released
    <3> QED
      BY <2>8, <3>1, NoWriteType DEF InitFails, Close
  <2>9. CASE Play(i)
    <3>1. mem' \in [Instances -> [Paths -> Contents]]
      BY <2>9, RegionIsPath DEF Play, Contents
    <3> QED
      BY <2>9, <3>1 DEF Play
  <2>10. ASSUME NEW leave \in BOOLEAN, Flush(i, leave) PROVE TypeOK'
    BY <2>10 DEF Flush, MayFlush
  <2>11. CASE SkipRegion(i)
    BY <2>11 DEF SkipRegion, Unchanged, engineVars
  <2>12. CASE WriteTemporary(i)
    <3>1. Current(i) \in Paths
      BY <2>12, RegionIsPath DEF WriteTemporary, Current
    <3> QED
      BY <2>12, <3>1 DEF WriteTemporary
  <2>13. CASE SyncTemporary(i)
    <3>1. writing' \in [Instances -> [path : Paths \cup {None},
                                     data : Contents, synced : BOOLEAN]]
      BY <2>13 DEF SyncTemporary
    <3> QED
      BY <2>13, <3>1 DEF SyncTemporary
  <2>14. CASE Rename(i)
    <3>1. disk' \in [Paths -> Contents]
      BY <2>14 DEF Rename, Contents
    <3>2. durable' \in [Paths -> Contents]
      BY <2>14 DEF Rename, Contents
    <3>3. tracked' \in [Instances -> [Paths -> Contents]]
      BY <2>14 DEF Rename
    <3> QED
      BY <2>14, <3>1, <3>2, <3>3, NoWriteType DEF Rename
  <2>15. CASE WriteFails(i)
    <3>1. /\ locks' \in [Paths -> Instances \cup {None}]
          /\ leaving' \in [Instances -> BOOLEAN]
          /\ write_owner' \in [Instances -> BOOLEAN]
          /\ contested' \in BOOLEAN
      BY <2>15 DEF WriteFails, Left, Close, Released
    <3>2. /\ phase' \in [Instances -> {"closed", "locking", "releasing",
                                       "loading", "running", "flushing"}]
      BY <2>15 DEF WriteFails, Left, Close
    <3>3. writing' = [writing EXCEPT ![i] = NoWrite]
      BY <2>15 DEF WriteFails, Left, Close
    <3> QED
      BY <2>15, <3>1, <3>2, <3>3, NoWriteType DEF WriteFails
  <2>16. CASE FlushDone(i)
    <3>1. /\ locks' \in [Paths -> Instances \cup {None}]
          /\ leaving' \in [Instances -> BOOLEAN]
          /\ write_owner' \in [Instances -> BOOLEAN]
          /\ contested' \in BOOLEAN
      BY <2>16 DEF FlushDone, Left, Close, Released
    <3>2. /\ phase' \in [Instances -> {"closed", "locking", "releasing",
                                       "loading", "running", "flushing"}]
      BY <2>16 DEF FlushDone, Left, Close
    <3>3. writing' = [writing EXCEPT ![i] = NoWrite]
      BY <2>16 DEF FlushDone, Left, Close
    <3> QED
      BY <2>16, <3>1, <3>2, <3>3, NoWriteType DEF FlushDone
  <2>17. CASE Discard(i)
    <3>1. locks' \in [Paths -> Instances \cup {None}]
      BY <2>17 DEF Discard, Close, Released
    <3> QED
      BY <2>17, <3>1, NoWriteType DEF Discard, Close
  <2>18. CASE Killed(i)
    <3>1. locks' \in [Paths -> Instances \cup {None}]
      BY <2>18 DEF Killed, Close, Released
    <3> QED
      BY <2>18, <3>1, NoWriteType DEF Killed, Close
  <2> QED
    BY <1>1, <2>1, <2>2, <2>3, <2>4, <2>5, <2>6, <2>7, <2>8, <2>9, <2>10,
    <2>11, <2>12, <2>13, <2>14, <2>15, <2>16, <2>17, <2>18
    DEF Step
<1>2. ASSUME NEW q \in Paths, DirectorySettles(q) PROVE TypeOK'
  BY <1>2 DEF DirectorySettles, engineVars
<1>3. CASE PowerLoss
  BY <1>3, NoWriteType DEF PowerLoss
<1>4. CASE UNCHANGED vars
  BY <1>4 DEF vars
<1> QED
  BY <1>1, <1>2, <1>3, <1>4 DEF Next

\* Only LocksTaken makes a write owner, with every lock in hand; a lock changes
\* hands only when it is free or when its holder closes.
LEMMA LocksPreserved ==
  ASSUME TypeOK, LockInv, WriteInv, [Next]_vars
  PROVE  LockInv'
<1> USE DEF TypeOK, LockInv
<1>1. ASSUME NEW i \in Instances, Step(i) PROVE LockInv'
  <2>1. CASE Open(i)
    BY <2>1 DEF Open, engineVars
  <2>2. CASE LockNext(i)
    BY <2>2, RegionIsPath, NamesAssumption DEF LockNext, NextLock
  <2>3. CASE LockBusy(i)
    BY <2>3 DEF LockBusy, engineVars
  <2>4. CASE BackOut(i)
    BY <2>4, RegionIsPath, ReleasedKeeps DEF BackOut
  <2>5. CASE LocksTaken(i)
    BY <2>5 DEF LocksTaken, Missing, engineVars
  <2>6. CASE LoadNext(i)
    BY <2>6 DEF LoadNext
  <2>7. CASE LoadDone(i)
    BY <2>7 DEF LoadDone, engineVars
  <2>8. CASE InitFails(i)
    BY <2>8, CloseKeepsLockInv DEF InitFails
  <2>9. CASE Play(i)
    BY <2>9 DEF Play
  <2>10. ASSUME NEW leave \in BOOLEAN, Flush(i, leave) PROVE LockInv'
    BY <2>10 DEF Flush, MayFlush
  <2>11. CASE SkipRegion(i)
    BY <2>11 DEF SkipRegion, Unchanged, engineVars
  <2>12. CASE WriteTemporary(i)
    BY <2>12 DEF WriteTemporary, Unchanged, Current
  <2>13. CASE SyncTemporary(i)
    BY <2>13 DEF SyncTemporary
  <2>14. CASE Rename(i)
    BY <2>14 DEF Rename, MayRename
  <2>15. CASE WriteFails(i)
    BY <2>15, CloseKeepsLockInv, LeftKeepsLockInv DEF WriteFails, WriteInv
  <2>16. CASE FlushDone(i)
    BY <2>16, CloseKeepsLockInv, LeftKeepsLockInv DEF FlushDone, WriteInv
  <2>17. CASE Discard(i)
    BY <2>17, CloseKeepsLockInv DEF Discard
  <2>18. CASE Killed(i)
    BY <2>18, CloseKeepsLockInv DEF Killed
  <2> QED
    BY <1>1, <2>1, <2>2, <2>3, <2>4, <2>5, <2>6, <2>7, <2>8, <2>9, <2>10,
    <2>11, <2>12, <2>13, <2>14, <2>15, <2>16, <2>17, <2>18
    DEF Step
<1>2. ASSUME NEW q \in Paths, DirectorySettles(q) PROVE LockInv'
  BY <1>2 DEF DirectorySettles, engineVars
<1>3. CASE PowerLoss
  BY <1>3, NoWriteType DEF PowerLoss
<1>4. CASE UNCHANGED vars
  BY <1>4 DEF vars
<1> QED
  BY <1>1, <1>2, <1>3, <1>4 DEF Next

\* A temporary file is created by a flush and gone when it ends.
LEMMA WritesPreserved ==
  ASSUME TypeOK, LockInv, WriteInv, [Next]_vars
  PROVE  WriteInv'
<1> USE DEF TypeOK, LockInv, WriteInv, Current
<1>1. ASSUME NEW i \in Instances, Step(i) PROVE WriteInv'
  <2>1. CASE Open(i)
    BY <2>1 DEF Open, engineVars
  <2>2. CASE LockNext(i)
    BY <2>2 DEF LockNext, NextLock, Missing, engineVars
  <2>3. CASE LockBusy(i)
    BY <2>3 DEF LockBusy, engineVars
  <2>4. CASE BackOut(i)
    BY <2>4 DEF BackOut, Released, engineVars
  <2>5. CASE LocksTaken(i)
    BY <2>5 DEF LocksTaken, Missing, engineVars
  <2>6. CASE LoadNext(i)
    BY <2>6 DEF LoadNext
  <2>7. CASE LoadDone(i)
    BY <2>7 DEF LoadDone, engineVars
  <2>8. CASE InitFails(i)
    BY <2>8 DEF InitFails, Close, Released
  <2>9. CASE Play(i)
    BY <2>9 DEF Play
  <2>10. ASSUME NEW leave \in BOOLEAN, Flush(i, leave) PROVE WriteInv'
    BY <2>10 DEF Flush, MayFlush
  <2>11. CASE SkipRegion(i)
    BY <2>11 DEF SkipRegion, Unchanged, engineVars
  <2>12. CASE WriteTemporary(i)
    BY <2>12 DEF WriteTemporary, Unchanged
  <2>13. CASE SyncTemporary(i)
    BY <2>13 DEF SyncTemporary
  <2>14. CASE Rename(i)
    BY <2>14 DEF Rename, MayRename
  <2>15. CASE WriteFails(i)
    BY <2>15 DEF WriteFails, Left, Close, Released
  <2>16. CASE FlushDone(i)
    BY <2>16 DEF FlushDone, Left, Close, Released
  <2>17. CASE Discard(i)
    BY <2>17 DEF Discard, Close, Released
  <2>18. CASE Killed(i)
    BY <2>18 DEF Killed, Close, Released
  <2> QED
    BY SMTT(30), <1>1, <2>1, <2>2, <2>3, <2>4, <2>5, <2>6, <2>7, <2>8, <2>9, <2>10,
    <2>11, <2>12, <2>13, <2>14, <2>15, <2>16, <2>17, <2>18
    DEF Step
<1>2. ASSUME NEW q \in Paths, DirectorySettles(q) PROVE WriteInv'
  BY <1>2 DEF DirectorySettles, engineVars
<1>3. CASE PowerLoss
  BY <1>3, NoWriteType DEF PowerLoss
<1>4. CASE UNCHANGED vars
  BY <1>4 DEF vars
<1> QED
  BY <1>1, <1>2, <1>3, <1>4 DEF Next

\* The index passes a region that is unchanged or has just been renamed.
LEMMA PassedPreserved ==
  ASSUME TypeOK, WriteInv, PassedInv, [Next]_vars
  PROVE  PassedInv'
<1> USE DEF TypeOK, WriteInv, PassedInv, Current
<1>1. ASSUME NEW i \in Instances, Step(i) PROVE PassedInv'
  <2>1. CASE Open(i)
    BY <2>1 DEF Open, engineVars
  <2>2. CASE LockNext(i)
    BY <2>2 DEF LockNext, NextLock, Missing, engineVars
  <2>3. CASE LockBusy(i)
    BY <2>3 DEF LockBusy, engineVars
  <2>4. CASE BackOut(i)
    BY <2>4 DEF BackOut, Released, engineVars
  <2>5. CASE LocksTaken(i)
    BY <2>5 DEF LocksTaken, Missing, engineVars
  <2>6. CASE LoadNext(i)
    BY <2>6 DEF LoadNext
  <2>7. CASE LoadDone(i)
    BY <2>7 DEF LoadDone, engineVars
  <2>8. CASE InitFails(i)
    BY <2>8 DEF InitFails, Close, Released
  <2>9. CASE Play(i)
    BY <2>9 DEF Play
  <2>10. ASSUME NEW leave \in BOOLEAN, Flush(i, leave) PROVE PassedInv'
    BY <2>10 DEF Flush, MayFlush
  <2>11. CASE SkipRegion(i)
    BY <2>11 DEF SkipRegion, Unchanged, engineVars
  <2>12. CASE WriteTemporary(i)
    BY <2>12 DEF WriteTemporary, Unchanged
  <2>13. CASE SyncTemporary(i)
    BY <2>13 DEF SyncTemporary
  <2>14. CASE Rename(i)
    BY <2>14, RenameKeepsPassed
  <2>15. CASE WriteFails(i)
    BY <2>15, LeftKeepsPassed DEF WriteFails
  <2>16. CASE FlushDone(i)
    BY <2>16, LeftKeepsPassed DEF FlushDone
  <2>17. CASE Discard(i)
    BY <2>17 DEF Discard, Close, Released
  <2>18. CASE Killed(i)
    BY <2>18 DEF Killed, Close, Released
  <2> QED
    BY <1>1, <2>1, <2>2, <2>3, <2>4, <2>5, <2>6, <2>7, <2>8, <2>9, <2>10,
    <2>11, <2>12, <2>13, <2>14, <2>15, <2>16, <2>17, <2>18
    DEF Step
<1>2. ASSUME NEW q \in Paths, DirectorySettles(q) PROVE PassedInv'
  BY <1>2 DEF DirectorySettles, engineVars
<1>3. CASE PowerLoss
  BY <1>3, NoWriteType DEF PowerLoss
<1>4. CASE UNCHANGED vars
  BY <1>4 DEF vars
<1> QED
  BY <1>1, <1>2, <1>3, <1>4 DEF Next

\* Only synced data is renamed.
LEMMA WholePreserved ==
  ASSUME TypeOK, WriteInv, WholeInv, [Next]_vars
  PROVE  WholeInv'
<1> USE DEF TypeOK, WriteInv, WholeInv, NeverTorn, Current
<1>1. ASSUME NEW i \in Instances, Step(i) PROVE WholeInv'
  <2>1. CASE Open(i)
    BY <2>1 DEF Open, engineVars
  <2>2. CASE LockNext(i)
    BY <2>2 DEF LockNext, NextLock, Missing, engineVars
  <2>3. CASE LockBusy(i)
    BY <2>3 DEF LockBusy, engineVars
  <2>4. CASE BackOut(i)
    BY <2>4 DEF BackOut, Released, engineVars
  <2>5. CASE LocksTaken(i)
    BY <2>5 DEF LocksTaken, Missing, engineVars
  <2>6. CASE LoadNext(i)
    BY <2>6 DEF LoadNext
  <2>7. CASE LoadDone(i)
    BY <2>7 DEF LoadDone, engineVars
  <2>8. CASE InitFails(i)
    BY <2>8 DEF InitFails, Close, Released
  <2>9. CASE Play(i)
    <3>1. \A j \in Instances, p \in Paths :
            mem'[j][p] \in {mem[j][p], writes + 1}
      BY <2>9, RegionIsPath DEF Play
    <3>2. writes + 1 # Torn
      BY NamesAssumption
    <3>3. UNCHANGED <<disk, durable, tracked>>
      BY <2>9 DEF Play
    <3> QED
      BY <3>1, <3>2, <3>3
  <2>10. ASSUME NEW leave \in BOOLEAN, Flush(i, leave) PROVE WholeInv'
    BY <2>10 DEF Flush, MayFlush
  <2>11. CASE SkipRegion(i)
    BY <2>11 DEF SkipRegion, Unchanged, engineVars
  <2>12. CASE WriteTemporary(i)
    BY <2>12 DEF WriteTemporary, Unchanged
  <2>13. CASE SyncTemporary(i)
    BY <2>13 DEF SyncTemporary
  <2>14. CASE Rename(i)
    <3>1. writing[i].data # Torn
      BY <2>14, TemporaryIsWhole DEF Rename, MayRename
    <3>2. \A p \in Paths : /\ disk'[p] \in {disk[p], writing[i].data}
                           /\ durable'[p] \in {durable[p], writing[i].data}
      BY <2>14 DEF Rename, MayRename
    <3>3. \A j \in Instances, p \in Paths :
            tracked'[j][p] \in {tracked[j][p], writing[i].data}
      BY <2>14 DEF Rename
    <3>4. mem' = mem
      BY <2>14 DEF Rename
    <3> QED
      BY <3>1, <3>2, <3>3, <3>4
  <2>15. CASE WriteFails(i)
    BY <2>15 DEF WriteFails, Left, Close, Released
  <2>16. CASE FlushDone(i)
    BY <2>16 DEF FlushDone, Left, Close, Released
  <2>17. CASE Discard(i)
    BY <2>17 DEF Discard, Close, Released
  <2>18. CASE Killed(i)
    BY <2>18 DEF Killed, Close, Released
  <2> QED
    BY <1>1, <2>1, <2>2, <2>3, <2>4, <2>5, <2>6, <2>7, <2>8, <2>9, <2>10,
    <2>11, <2>12, <2>13, <2>14, <2>15, <2>16, <2>17, <2>18
    DEF Step
<1>2. ASSUME NEW q \in Paths, DirectorySettles(q) PROVE WholeInv'
  BY <1>2 DEF DirectorySettles, engineVars
<1>3. CASE PowerLoss
  BY <1>3, NoWriteType DEF PowerLoss
<1>4. CASE UNCHANGED vars
  BY <1>4 DEF vars
<1> QED
  BY <1>1, <1>2, <1>3, <1>4 DEF Next

----------------------------------------------------------------------------
(* OwnerIsCurrent                                                          *)

\* Most steps make no region loaded and change neither tracking nor disk.
LEMMA LoadedShrinks ==
  ASSUME OwnerIsCurrent, UNCHANGED <<tracked, disk>>,
         \A j \in Instances, p \in Paths : Loaded(j, p)' => Loaded(j, p)
  PROVE  OwnerIsCurrent'
  BY DEF OwnerIsCurrent

\* Loading a region tracks it as it is on disk.
LEMMA LoadNextKeepsOwners ==
  ASSUME TypeOK, OwnerIsCurrent, NEW i \in Instances, LoadNext(i)
  PROVE  OwnerIsCurrent'
<1> DEFINE p == Regions[i][at[i]]
<1>1. p \in Paths
  BY RegionIsPath DEF LoadNext, TypeOK
<1>2. \A j \in Instances, q \in Paths :
        Loaded(j, q)' => Loaded(j, q) \/ (j = i /\ q = p)
  BY DEF TypeOK, Loaded, LoadNext
<1>3. \A j \in Instances, q \in Paths :
        j # i \/ q # p => tracked'[j][q] = tracked[j][q]
  BY <1>1 DEF LoadNext, TypeOK
<1>4. tracked'[i][p] = disk[p] /\ disk' = disk
  BY <1>1 DEF LoadNext, TypeOK
<1> QED
  BY <1>1, <1>2, <1>3, <1>4 DEF OwnerIsCurrent

\* What a rename does: the path is one the instance manages and has loaded.
LEMMA RenameFacts ==
  ASSUME SaveInv, NEW i \in Instances, Rename(i)
  PROVE  LET w == writing[i] IN
         /\ w.path \in Managed(i) /\ w.path \in Paths /\ Loaded(i, w.path)
         /\ disk'[w.path] = w.data /\ tracked'[i][w.path] = w.data
         /\ \A q \in Paths : q # w.path => disk'[q] = disk[q]
         /\ \A j \in Instances, q \in Paths :
              j # i \/ q # w.path => tracked'[j][q] = tracked[j][q]
<1> DEFINE w == writing[i]
<1>1. /\ w.path \in Managed(i) /\ w.path \in Paths /\ write_owner[i]
      /\ phase[i] = "flushing"
  BY RegionIsPath DEF SaveInv, WriteInv, Rename, MayRename, Managed, Current
<1>2. Loaded(i, w.path)
  BY <1>1 DEF Loaded
<1>3. /\ disk'[w.path] = w.data /\ tracked'[i][w.path] = w.data
      /\ \A q \in Paths : q # w.path => disk'[q] = disk[q]
      /\ \A j \in Instances, q \in Paths :
           j # i \/ q # w.path => tracked'[j][q] = tracked[j][q]
  BY <1>1 DEF Rename, SaveInv, TypeOK
<1> QED
  BY <1>1, <1>2, <1>3

\* A rename changes a path whose lock the renaming instance holds, so that no
\* other write owner has loaded it.
LEMMA RenameKeepsOwners ==
  ASSUME SaveInv, NEW i \in Instances, Rename(i)
  PROVE  OwnerIsCurrent'
<1> DEFINE w == writing[i]
<1>1. \A j \in Instances, q \in Paths : Loaded(j, q)' => Loaded(j, q)
  BY DEF SaveInv, TypeOK, Loaded, Rename, WriteInv, MayRename
<1>2. \A j \in Instances : j # i => ~Loaded(j, w.path)
  BY RenameFacts DEF SaveInv, LockInv, Loaded
<1> QED
  BY <1>1, <1>2, RenameFacts DEF SaveInv, OwnerIsCurrent

\* Every step keeps owners current.
LEMMA OwnersPreserved ==
  ASSUME SaveInv, [Next]_vars
  PROVE  OwnerIsCurrent'
<1> DEFINE Fewer == \A j \in Instances, p \in Paths :
                      Loaded(j, p)' => Loaded(j, p)
<1> USE DEF SaveInv, TypeOK, Loaded
<1>1. ASSUME NEW i \in Instances, Step(i) PROVE OwnerIsCurrent'
  <2>1. CASE Open(i) \/ LockNext(i) \/ LockBusy(i) \/ BackOut(i)
    <3>1. Fewer
      BY <2>1 DEF LockInv, Open, LockNext, LockBusy, BackOut, engineVars
    <3> QED
      BY <2>1, <3>1, LoadedShrinks
      DEF Open, LockNext, LockBusy, BackOut, engineVars
  <2>2. CASE LocksTaken(i)
    <3>1. Fewer
      BY <2>2 DEF LockInv, LocksTaken
    <3> QED
      BY <2>2, <3>1, LoadedShrinks DEF LocksTaken, engineVars
  <2>3. CASE LoadNext(i)
    BY <2>3, LoadNextKeepsOwners
  <2>4. CASE LoadDone(i)
    <3>1. Fewer
      BY <2>4, RegionIsPath DEF LoadDone, Managed
    <3> QED
      BY <2>4, <3>1, LoadedShrinks DEF LoadDone, engineVars
  <2>5. CASE Play(i) \/ SkipRegion(i) \/ WriteTemporary(i)
             \/ SyncTemporary(i)
    <3>1. Fewer
      BY <2>5 DEF Play, SkipRegion, WriteTemporary, SyncTemporary
    <3> QED
      BY <2>5, <3>1, LoadedShrinks
      DEF Play, SkipRegion, WriteTemporary, SyncTemporary, engineVars
  <2>6. ASSUME NEW leave \in BOOLEAN, Flush(i, leave) PROVE OwnerIsCurrent'
    <3>1. Fewer
      BY <2>6 DEF Flush
    <3> QED
      BY <2>6, <3>1, LoadedShrinks DEF Flush
  <2>7. CASE Rename(i)
    BY <2>7, RenameKeepsOwners
  <2>8. CASE WriteFails(i) \/ FlushDone(i) \/ InitFails(i) \/ Discard(i)
             \/ Killed(i)
    <3>1. Left(i) \/ Close(i)
      BY <2>8 DEF WriteFails, FlushDone, InitFails, Discard, Killed
    <3>2. UNCHANGED <<at, tracked, disk>>
      BY <2>8 DEF WriteFails, FlushDone, InitFails, Discard, Killed
    <3>3. ~Close(i) => phase[i] = "flushing"
      BY <2>8 DEF WriteInv, WriteFails, FlushDone, InitFails, Discard, Killed
    <3>4. CASE Close(i)
      BY <3>2, <3>4, LoadedShrinks DEF Close
    <3>5. CASE ~Close(i)
      <4>1. Fewer
        BY <3>1, <3>2, <3>3, <3>5, LeftCases
      <4> QED
        BY <3>2, <4>1, LoadedShrinks
    <3> QED
      BY <3>4, <3>5
  <2> QED
    BY <1>1, <2>1, <2>2, <2>3, <2>4, <2>5, <2>6, <2>7, <2>8 DEF Step
<1>2. ASSUME NEW q \in Paths, DirectorySettles(q) PROVE OwnerIsCurrent'
  <2>1. Fewer
    BY <1>2 DEF DirectorySettles
  <2> QED
    BY <1>2, <2>1, LoadedShrinks DEF DirectorySettles, engineVars
<1>3. CASE PowerLoss
  BY <1>3 DEF PowerLoss, OwnerIsCurrent
<1>4. CASE UNCHANGED vars
  <2>1. Fewer
    BY <1>4 DEF vars
  <2> QED
    BY <1>4, <2>1, LoadedShrinks DEF vars
<1> QED
  BY <1>1, <1>2, <1>3, <1>4 DEF Next

----------------------------------------------------------------------------
\* Every step keeps the inductive invariant.
LEMMA SaveInvInductive ==
  ASSUME SaveInv, [Next]_vars
  PROVE  SaveInv'
<1>1. TypeOK' /\ LockInv' /\ WriteInv'
  BY TypesPreserved, LocksPreserved, WritesPreserved DEF SaveInv
<1>2. PassedInv' /\ WholeInv' /\ OwnerIsCurrent'
  BY PassedPreserved, WholePreserved, OwnersPreserved DEF SaveInv
<1> QED
  BY <1>1, <1>2 DEF SaveInv

\* The inductive invariant holds in every state.
LEMMA SaveInvAlways == Spec => []SaveInv
<1>1. Init => SaveInv
  BY InitEstablishes
<1>2. SaveInv /\ [Next]_vars => SaveInv'
  BY SaveInvInductive
<1> QED
  BY <1>1, <1>2, PTL DEF Spec

\* No interruption of dualboy_write_file_atomic leaves a torn save file.
THEOREM SaveFilesAreWhole == Spec => []NeverTorn
<1>1. SaveInv => NeverTorn
  BY DEF SaveInv, WholeInv
<1> QED
  BY <1>1, SaveInvAlways, PTL

\* A session that owns its saves always knows what is on disk.
THEOREM OwnersAreCurrent == Spec => []OwnerIsCurrent
<1>1. SaveInv => OwnerIsCurrent
  BY DEF SaveInv
<1> QED
  BY <1>1, SaveInvAlways, PTL

\* A file is replaced only by a process that knew the contents it replaces:
\* only Rename changes the disk of a running system, and it changes a path
\* its instance has loaded.
THEOREM UpdatesAreNotLost == Spec => NoLostUpdate
<1> DEFINE Keeps ==
      \A p \in Paths :
        disk'[p] # disk[p] /\ (\E i \in Instances : phase'[i] # "closed") =>
          \E i \in Instances :
            tracked[i][p] = disk[p] /\ tracked'[i][p] = disk'[p]
<1>1. ASSUME SaveInv, [Next]_vars PROVE [Keeps]_vars
  <2>1. ASSUME NEW i \in Instances, Rename(i) PROVE Keeps
    BY <1>1, <2>1, RenameFacts DEF SaveInv, OwnerIsCurrent
  <2>2. ASSUME NEW i \in Instances, Step(i), ~Rename(i) PROVE disk' = disk
    BY <2>2
    DEF Step, Open, LockNext, LockBusy, BackOut, LocksTaken, LoadNext,
        LoadDone, InitFails, Play, Flush, SkipRegion, WriteTemporary,
        SyncTemporary, WriteFails, FlushDone, Discard, Killed
  <2>3. ASSUME NEW q \in Paths, DirectorySettles(q) PROVE disk' = disk
    BY <2>3 DEF DirectorySettles
  <2>4. CASE PowerLoss
    BY <2>4 DEF PowerLoss
  <2>5. disk' = disk => Keeps
    OBVIOUS
  <2> QED
    BY <1>1, <2>1, <2>2, <2>3, <2>4, <2>5 DEF Next
<1> QED
  BY <1>1, SaveInvAlways, PTL DEF Spec, NoLostUpdate

\* A flush that ends without an error leaves every region on disk as it is in
\* memory: each region it passed was unchanged or has been renamed.
THEOREM FlushesAreComplete == Spec => FlushIsComplete
<1> DEFINE Complete ==
      \A i \in Instances :
        /\ phase[i] = "flushing" /\ phase'[i] # "flushing"
        /\ faults' = faults
        => \A p \in Managed(i) : disk[p] = mem[i][p]
<1>1. ASSUME SaveInv, [Next]_vars PROVE Complete
  <2> SUFFICES ASSUME NEW i \in Instances, phase[i] = "flushing",
                      phase'[i] # "flushing", faults' = faults
               PROVE  \A p \in Managed(i) : disk[p] = mem[i][p]
    OBVIOUS
  <2> USE DEF SaveInv
  <2>1. ASSUME NEW j \in Instances, Step(j) PROVE FlushDone(i)
    <3>1. i = j
      BY <1>1, <2>1
      DEF TypeOK, Step, Open, LockNext, LockBusy, BackOut, LocksTaken,
          LoadNext, LoadDone, InitFails, Play, Flush, SkipRegion,
          WriteTemporary, SyncTemporary, Rename, WriteFails, FlushDone,
          Discard, Killed, Left, Close
    <3> QED
      BY <1>1, <2>1, <3>1
      DEF TypeOK, Step, Open, LockNext, LockBusy, BackOut, LocksTaken,
          LoadNext, LoadDone, InitFails, Play, Flush, SkipRegion,
          WriteTemporary, SyncTemporary, Rename, WriteFails, Discard, Killed
  <2>2. FlushDone(i)
    <3>1. ~PowerLoss
      BY <1>1 DEF PowerLoss, TypeOK
    <3>2. \A q \in Paths : ~DirectorySettles(q)
      BY DEF DirectorySettles
    <3>3. ~UNCHANGED vars
      BY DEF vars
    <3> QED
      BY <1>1, <2>1, <3>1, <3>2, <3>3 DEF Next
  <2>3. \A k \in 1..Len(Regions[i]) :
          mem[i][Regions[i][k]] = tracked[i][Regions[i][k]]
    BY <1>1, <2>2, RegionIsPath DEF FlushDone, PassedInv, TypeOK
  <2>4. \A p \in Managed(i) : mem[i][p] = tracked[i][p] /\ Loaded(i, p)
    BY <1>1, <2>3, RegionIsPath DEF Managed, Loaded, WriteInv
  <2> QED
    BY <1>1, <2>4, RegionIsPath DEF OwnerIsCurrent
<1>2. SaveInv /\ [Next]_vars => [Complete]_vars
  BY <1>1
<1> QED
  BY <1>2, SaveInvAlways, PTL DEF Spec, FlushIsComplete

----------------------------------------------------------------------------
(* The race for the locks                                                  *)

\* An instance that is still after its locks, or has got them all.
Active(i) == i \in Instances /\ (phase[i] = "locking" \/ write_owner[i])

\* Locks taken so far by an instance are below those it still needs.
OrderOf(i) ==
  /\ phase[i] = "closed" => \A p \in Paths : locks[p] # i
  /\ phase[i] = "locking" =>
       \A p \in Paths, q \in Missing(i) : locks[p] = i => p < q
  /\ phase[i] \notin Opening /\ ~write_owner[i] => \A p \in Paths : locks[p] # i

\* q is a lock of an active instance, above all locks of instance i.
Above(i, q) ==
  /\ q \in Paths /\ Active(locks[q])
  /\ \A p \in Paths : locks[p] = i => p < q

\* An instance that gave up has lost to one that holds a higher lock and has
\* not given up, and somebody stays that has not, while nobody closes.
RaceOf(i) ==
  /\ phase[i] = "releasing" => \E q \in Paths : Above(i, q)
  /\ phase[i] \notin Opening => \E j \in Instances : Active(j)

RaceInv == ~contested => \A i \in Instances : OrderOf(i) /\ RaceOf(i)

\* Numbers of paths are compared as numbers.
LEMMA PathIsNumber == \A p \in Paths : p \in Nat
  BY PathsAssumption

\* Steps of instances that have settled change nothing of the race.
LEMMA SettledKeepsRace ==
  ASSUME RaceInv, UNCHANGED <<locks, write_owner, contested>>,
         \A j \in Instances :
           \/ phase'[j] = phase[j]
           \/ phase[j] \notin Opening /\ phase'[j] \notin Opening
  PROVE  RaceInv'
<1> SUFFICES ASSUME ~contested, NEW i \in Instances
             PROVE  OrderOf(i)' /\ RaceOf(i)'
  BY DEF RaceInv
<1>1. OrderOf(i) /\ RaceOf(i)
  BY DEF RaceInv
<1>2. OrderOf(i)'
  BY <1>1 DEF OrderOf, Missing, Managed, Opening
<1>3. \A j : Active(j) => Active(j)'
  BY DEF Active, Opening
<1>4. RaceOf(i)'
  BY <1>1, <1>3 DEF RaceOf, Above, Opening
<1> QED
  BY <1>2, <1>4

\* An instance that enters the race holds nothing.
LEMMA OpenKeepsRace ==
  ASSUME TypeOK, RaceInv, NEW c \in Instances, Open(c)
  PROVE  RaceInv'
<1> SUFFICES ASSUME ~contested, NEW i \in Instances
             PROVE  OrderOf(i)' /\ RaceOf(i)'
  BY DEF RaceInv, Open
<1>1. OrderOf(i) /\ RaceOf(i)
  BY DEF RaceInv
<1>2. /\ phase[c] = "closed" /\ phase' = [phase EXCEPT ![c] = "locking"]
      /\ UNCHANGED <<locks, write_owner>>
      /\ phase'[c] = "locking"
      /\ \A j \in Instances \ {c} : phase'[j] = phase[j]
  BY DEF Open, TypeOK
<1>3. OrderOf(i)'
  BY <1>1, <1>2 DEF OrderOf, Missing, Managed, Opening
<1>4. \A j : Active(j) => Active(j)'
  BY <1>2 DEF Active
<1>5. RaceOf(i)'
  BY <1>1, <1>2, <1>4 DEF RaceOf, Above, Opening
<1> QED
  BY <1>3, <1>5

\* The lock that is taken next is above those taken before.
LEMMA LockNextKeepsRace ==
  ASSUME TypeOK, RaceInv, NEW c \in Instances, LockNext(c)
  PROVE  RaceInv'
<1> SUFFICES ASSUME ~contested, NEW i \in Instances
             PROVE  OrderOf(i)' /\ RaceOf(i)'
  BY DEF RaceInv, LockNext
<1>1. OrderOf(i) /\ RaceOf(i)
  BY DEF RaceInv
<1> PICK l \in Paths : /\ NextLock(c, l) /\ locks[l] = None
                       /\ locks' = [locks EXCEPT ![l] = c]
  BY DEF LockNext
<1>2. /\ phase[c] = "locking" /\ UNCHANGED <<phase, write_owner>>
      /\ locks'[l] = c /\ \A p \in Paths \ {l} : locks'[p] = locks[p]
  BY DEF LockNext, TypeOK
<1>3. None \notin Instances
  BY NamesAssumption
<1>4. \A q \in Missing(i)' : q \in Missing(i) /\ q \in Paths
  BY <1>2, <1>3, RegionIsPath DEF Missing, Managed
<1>5. i = c => \A q \in Missing(i)' : l < q
  BY <1>2, <1>4, PathIsNumber DEF NextLock, Missing
<1>6. OrderOf(i)'
  BY <1>1, <1>2, <1>4, <1>5 DEF OrderOf, Opening
<1>7. \A j : Active(j) => Active(j)'
  BY <1>2 DEF Active
<1>8. RaceOf(i)'
  BY <1>1, <1>2, <1>3, <1>7 DEF RaceOf, Above, Opening, Active
<1> QED
  BY <1>6, <1>8

\* Who loses to another has one above it that does not give up with it.
LEMMA LockBusyKeepsRace ==
  ASSUME TypeOK, LockInv, RaceInv, NEW c \in Instances, LockBusy(c)
  PROVE  RaceInv'
<1> SUFFICES ASSUME ~contested PROVE \A i \in Instances : OrderOf(i)' /\ RaceOf(i)'
  BY DEF RaceInv, LockBusy
<1>1. \A i \in Instances : OrderOf(i) /\ RaceOf(i)
  BY DEF RaceInv
<1> PICK l \in Paths : NextLock(c, l) /\ locks[l] # None
  BY DEF LockBusy
<1>2. /\ phase[c] = "locking" /\ phase'[c] = "releasing"
      /\ \A j \in Instances \ {c} : phase'[j] = phase[j]
      /\ UNCHANGED <<locks, write_owner>>
  BY DEF LockBusy, TypeOK
<1>3. /\ locks[l] \in Instances /\ locks[l] # c
      /\ \A p \in Paths : locks[p] = c => p < l
  BY <1>1, <1>2 DEF NextLock, Missing, TypeOK, OrderOf
<1>4. PICK q \in Paths : l <= q /\ Active(locks[q])
  <2>1. CASE Active(locks[l])
    BY <2>1, PathIsNumber
  <2>2. CASE ~Active(locks[l])
    <3>1. phase[locks[l]] = "releasing"
      BY <1>1, <1>3, <2>2 DEF OrderOf, Opening, Active
    <3>2. PICK q \in Paths : Above(locks[l], q)
      BY <1>1, <1>3, <3>1 DEF RaceOf
    <3> QED
      BY <3>2, PathIsNumber DEF Above
  <2> QED
    BY <2>1, <2>2
<1>5. locks[q] # c
  BY <1>3, <1>4, PathIsNumber
<1>6. Active(locks[q])' /\ \A p \in Paths : locks[p] = c => p < q
  BY <1>2, <1>3, <1>4, <1>5, PathIsNumber DEF Active
<1>7. ASSUME NEW i \in Instances PROVE OrderOf(i)'
  BY <1>1, <1>2 DEF OrderOf, Missing, Managed, Opening
<1>8. ASSUME NEW i \in Instances, phase'[i] = "releasing"
      PROVE  \E r \in Paths : Above(i, r)'
  <2>1. CASE i = c
    BY <1>2, <1>6, <2>1 DEF Above
  <2>2. CASE i # c
    <3>1. PICK r \in Paths : Above(i, r)
      BY <1>1, <1>2, <1>8, <2>2 DEF RaceOf
    <3>2. CASE locks[r] = c
      <4>1. \A p \in Paths : locks[p] = i => p < q
        BY <1>6, <3>1, <3>2, PathIsNumber DEF Above
      <4> QED
        BY <1>2, <1>6, <4>1 DEF Above
    <3>3. CASE locks[r] # c
      BY <1>2, <3>1, <3>3 DEF Above, Active
    <3> QED
      BY <3>2, <3>3
  <2> QED
    BY <2>1, <2>2
<1>9. \E j \in Instances : Active(j)'
  BY <1>2, <1>6 DEF Active
<1> QED
  BY <1>7, <1>8, <1>9 DEF RaceOf

\* The locks that are given back are not those another one has lost to.
LEMMA BackOutKeepsRace ==
  ASSUME TypeOK, LockInv, RaceInv, NEW c \in Instances, BackOut(c)
  PROVE  RaceInv'
<1> SUFFICES ASSUME ~contested, NEW i \in Instances
             PROVE  OrderOf(i)' /\ RaceOf(i)'
  BY DEF RaceInv, BackOut
<1>1. OrderOf(i) /\ RaceOf(i) /\ RaceOf(c)
  BY DEF RaceInv
<1>2. /\ phase[c] = "releasing" /\ phase'[c] = "loading" /\ ~write_owner[c]
      /\ \A j \in Instances \ {c} : phase'[j] = phase[j]
      /\ UNCHANGED write_owner
      /\ \A p \in Paths :
           locks'[p] = IF locks[p] = c THEN None ELSE locks[p]
      /\ None \notin Instances
  BY NamesAssumption DEF BackOut, Released, TypeOK, LockInv
<1>3. \A j : Active(j) => Active(j)' /\ j # c
  BY <1>2 DEF Active
<1>4. i # c => Missing(i)' = Missing(i)
  BY <1>2, RegionIsPath DEF Missing, Managed
<1>5. OrderOf(i)'
  BY <1>1, <1>2, <1>4 DEF OrderOf, Opening
<1>6. \E j \in Instances : Active(j)
  BY <1>1, <1>2 DEF RaceOf, Above, Active
<1>7. phase'[i] = "releasing" => \E q \in Paths : Above(i, q)'
  <2> SUFFICES ASSUME phase'[i] = "releasing" PROVE \E q \in Paths : Above(i, q)'
    OBVIOUS
  <2>1. PICK q \in Paths : Above(i, q)
    BY <1>1, <1>2 DEF RaceOf
  <2> QED
    BY <1>2, <1>3, <2>1 DEF Above
<1> QED
  BY <1>3, <1>5, <1>6, <1>7 DEF RaceOf

\* Who has all locks stays active.
LEMMA LocksTakenKeepsRace ==
  ASSUME TypeOK, RaceInv, NEW c \in Instances, LocksTaken(c)
  PROVE  RaceInv'
<1> SUFFICES ASSUME ~contested, NEW i \in Instances
             PROVE  OrderOf(i)' /\ RaceOf(i)'
  BY DEF RaceInv, LocksTaken
<1>1. OrderOf(i) /\ RaceOf(i)
  BY DEF RaceInv
<1>2. /\ phase[c] = "locking" /\ phase'[c] = "loading" /\ write_owner'[c]
      /\ \A j \in Instances \ {c} :
           phase'[j] = phase[j] /\ write_owner'[j] = write_owner[j]
      /\ UNCHANGED locks
  BY DEF LocksTaken, TypeOK
<1>3. OrderOf(i)'
  BY <1>1, <1>2 DEF OrderOf, Missing, Managed, Opening
<1>4. \A j : Active(j) => Active(j)'
  BY <1>2 DEF Active
<1>5. Active(c)'
  BY <1>2 DEF Active
<1>6. RaceOf(i)'
  BY <1>1, <1>2, <1>4, <1>5 DEF RaceOf, Above
<1> QED
  BY <1>3, <1>6

\* Every step keeps the state of the race.
LEMMA RacePreserved ==
  ASSUME TypeOK, LockInv, WriteInv, RaceInv, [Next]_vars
  PROVE  RaceInv'
<1>1. ASSUME NEW i \in Instances, Step(i) PROVE RaceInv'
  <2>1. CASE Open(i) \/ LockNext(i) \/ LockBusy(i) \/ BackOut(i)
             \/ LocksTaken(i)
    BY <2>1, OpenKeepsRace, LockNextKeepsRace, LockBusyKeepsRace,
       BackOutKeepsRace, LocksTakenKeepsRace
  <2>2. CASE \/ LoadNext(i) \/ LoadDone(i) \/ Play(i)
             \/ (\E leave \in BOOLEAN : Flush(i, leave))
             \/ SkipRegion(i) \/ WriteTemporary(i) \/ SyncTemporary(i)
             \/ Rename(i)
    <3>1. UNCHANGED <<locks, write_owner, contested>>
      BY <2>2 DEF LoadNext, LoadDone, Play, Flush, SkipRegion, WriteTemporary,
           SyncTemporary, Rename, engineVars
    <3>2. \A j \in Instances :
            \/ phase'[j] = phase[j]
            \/ phase[j] \notin Opening /\ phase'[j] \notin Opening
      BY <2>2 DEF LoadNext, LoadDone, Play, Flush, SkipRegion, WriteTemporary,
           SyncTemporary, Rename, TypeOK, Opening
    <3> QED
      BY <3>1, <3>2, SettledKeepsRace
  <2>3. CASE WriteFails(i) \/ FlushDone(i) \/ InitFails(i) \/ Discard(i)
             \/ Killed(i)
    <3>1. CASE Close(i)
      BY <3>1 DEF Close, RaceInv
    <3>2. CASE ~Close(i)
      <4>1. Left(i) /\ phase[i] = "flushing"
        BY <2>3, <3>2 DEF WriteFails, FlushDone, InitFails, Discard, Killed,
             WriteInv
      <4>2. /\ phase' = [phase EXCEPT ![i] = "running"]
            /\ UNCHANGED <<locks, write_owner, contested>>
        BY <3>2, <4>1, LeftCases
      <4>3. \A j \in Instances :
              \/ phase'[j] = phase[j]
              \/ phase[j] \notin Opening /\ phase'[j] \notin Opening
        BY <4>1, <4>2 DEF TypeOK, Opening
      <4> QED
        BY <4>2, <4>3, SettledKeepsRace
    <3> QED
      BY <3>1, <3>2
  <2> QED
    BY <1>1, <2>1, <2>2, <2>3 DEF Step
<1>2. ASSUME NEW p \in Paths, DirectorySettles(p) PROVE RaceInv'
  BY <1>2, SettledKeepsRace DEF DirectorySettles
<1>3. CASE PowerLoss
  BY <1>3 DEF PowerLoss, RaceInv
<1>4. CASE UNCHANGED vars
  BY <1>4, SettledKeepsRace DEF vars
<1> QED
  BY <1>1, <1>2, <1>3, <1>4 DEF Next

\* Copies of the core that start together cannot all end up read-only: every
\* one that backed out had lost a lock to one that holds a higher lock, and
\* the highest of all is never refused.
THEOREM SomeCopyOwns == Spec => []SomeoneOwns
<1>1. Init => RaceInv
  BY NamesAssumption DEF Init, RaceInv, OrderOf, RaceOf, Opening
<1>2. SaveInv /\ RaceInv /\ [Next]_vars => RaceInv'
  BY RacePreserved DEF SaveInv
<1>3. RaceInv => SomeoneOwns
  BY InstancesAssumption DEF RaceInv, RaceOf, SomeoneOwns, Opening, Active
<1> QED
  BY <1>1, <1>2, <1>3, SaveInvAlways, PTL DEF Spec
============================================================================
