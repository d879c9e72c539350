--------------------------- MODULE SaveOwnership ---------------------------
(***************************************************************************)
(* Core-managed save files shared by several running copies of the core   *)
(* (src/src/frontend/save_manager.c and persistence.c): the advisory locks *)
(* taken before any region is read, the load of every region, the periodic *)
(* and the final flush, and the write through a temporary file, fsync and  *)
(* rename.  A copy may be killed and the machine may lose power between    *)
(* any two steps.                                                          *)
(*                                                                         *)
(* The contents of a region is the number of the game write that produced  *)
(* it, so that two contents written by different copies never look alike.  *)
(* The bytes and lengths of one region are the subject of SaveRegion.      *)
(***************************************************************************)
EXTENDS Naturals, Sequences, FiniteSets

CONSTANTS
  Instances,   \* running copies of the core
  Paths,       \* save paths, numbered in the order of strcmp
  Regions,     \* [Instances -> Seq(Paths)]: the core-managed paths of each
               \* copy by machine and kind
  None,        \* no lock holder, and no path being written
  Torn,        \* contents of a file whose data did not reach the disk
  MaxWrites,   \* bound on changes the games make, for model checking
  MaxFaults    \* bound on failed calls, kills and power losses

ASSUME InstancesAssumption == Instances # {}
ASSUME PathsAssumption == Paths \subseteq Nat /\ IsFiniteSet(Paths)
ASSUME RegionsAssumption == Regions \in [Instances -> Seq(Paths)]
ASSUME NamesAssumption ==
  /\ None \notin Instances /\ None \notin Paths /\ Torn \notin Nat
  /\ MaxWrites \in Nat /\ MaxFaults \in Nat

VARIABLES
  disk,        \* path -> contents every process reads
  durable,     \* path -> contents that survives a loss of power
  locks,       \* path -> instance that holds the advisory lock
  phase,       \* instance -> where it is
  at,          \* instance -> index of the next region
  write_owner, \* instance -> BOOLEAN
  mem,         \* instance -> path -> contents in the engine's memory
  tracked,     \* instance -> path -> contents recorded as on disk
  writing,     \* instance -> [path, data, synced]: the temporary file
  leaving,     \* instance -> the flush is that of an unload
  writes,      \* game writes so far
  faults,      \* failed calls, kills and power losses so far
  contested    \* ghost: an instance released its locks other than by BUSY

vars == <<disk, durable, locks, phase, at, write_owner, mem, tracked,
          writing, leaving, writes, faults, contested>>

engineVars == <<mem, tracked, writing, leaving>>

NoWrite == [path |-> None, data |-> 0, synced |-> FALSE]

Init ==
  /\ disk = [p \in Paths |-> 0] /\ durable = disk
  /\ locks = [p \in Paths |-> None]
  /\ phase = [i \in Instances |-> "closed"]
  /\ at = [i \in Instances |-> 1]
  /\ write_owner = [i \in Instances |-> FALSE]
  /\ mem = [i \in Instances |-> [p \in Paths |-> 0]] /\ tracked = mem
  /\ writing = [i \in Instances |-> NoWrite]
  /\ leaving = [i \in Instances |-> FALSE]
  /\ writes = 0 /\ faults = 0 /\ contested = FALSE

----------------------------------------------------------------------------
(* Opening: acquire_write_ownership and the loading loop                   *)

\* The paths an instance manages, each once, and the locks it still needs.
Managed(i) == {Regions[i][k] : k \in 1..Len(Regions[i])}
Missing(i) == {p \in Managed(i) : locks[p] # i}

\* A bug: the locks are taken in the order of the regions.
NextLock_Unsorted(i, p) ==
  \E k \in 1..Len(Regions[i]) :
    /\ p = Regions[i][k] /\ p \in Missing(i)
    /\ \A j \in 1..(k - 1) : Regions[i][j] \notin Missing(i)

\* The locks are taken in the order of the sorted paths.
NextLock(i, p) == p \in Missing(i) /\ \A q \in Missing(i) : p <= q

\* The locks left when instance i closes its descriptors.
Released(i) == [p \in Paths |-> IF locks[p] = i THEN None ELSE locks[p]]

\* dualboy_save_manager_init after the paths are built.
Open(i) ==
  /\ phase[i] = "closed"
  /\ phase' = [phase EXCEPT ![i] = "locking"]
  /\ UNCHANGED <<disk, durable, locks, at, write_owner, engineVars, writes,
                 faults, contested>>

\* flock succeeds.
LockNext(i) ==
  /\ phase[i] = "locking"
  /\ \E p \in Paths : /\ NextLock(i, p) /\ locks[p] = None
                      /\ locks' = [locks EXCEPT ![p] = i]
  /\ UNCHANGED <<disk, durable, phase, at, write_owner, engineVars, writes,
                 faults, contested>>

\* flock reports EWOULDBLOCK.
LockBusy(i) ==
  /\ phase[i] = "locking"
  /\ \E p \in Paths : NextLock(i, p) /\ locks[p] # None
  /\ phase' = [phase EXCEPT ![i] = "releasing"]
  /\ UNCHANGED <<disk, durable, locks, at, write_owner, engineVars, writes,
                 faults, contested>>

\* The locks already taken are dropped, after the failed call and not with
\* it; the session is read-only for good.
BackOut(i) ==
  /\ phase[i] = "releasing"
  /\ locks' = Released(i)
  /\ phase' = [phase EXCEPT ![i] = "loading"]
  /\ at' = [at EXCEPT ![i] = 1]
  /\ UNCHANGED <<disk, durable, write_owner, engineVars, writes, faults,
                 contested>>

\* Every path is locked.
LocksTaken(i) ==
  /\ phase[i] = "locking" /\ Missing(i) = {}
  /\ write_owner' = [write_owner EXCEPT ![i] = TRUE]
  /\ phase' = [phase EXCEPT ![i] = "loading"]
  /\ at' = [at EXCEPT ![i] = 1]
  /\ UNCHANGED <<disk, durable, locks, engineVars, writes, faults, contested>>

\* One iteration of the loading loop; the regions are tracked as read.
LoadNext(i) ==
  /\ phase[i] = "loading" /\ at[i] <= Len(Regions[i])
  /\ LET p == Regions[i][at[i]] IN
       /\ mem' = [mem EXCEPT ![i][p] = disk[p]]
       /\ tracked' = [tracked EXCEPT ![i][p] = disk[p]]
  /\ at' = [at EXCEPT ![i] = @ + 1]
  /\ UNCHANGED <<disk, durable, locks, phase, write_owner, writing, leaving,
                 writes, faults, contested>>

LoadDone(i) ==
  /\ phase[i] = "loading" /\ at[i] > Len(Regions[i])
  /\ phase' = [phase EXCEPT ![i] = "running"]
  /\ UNCHANGED <<disk, durable, locks, at, write_owner, engineVars, writes,
                 faults, contested>>

\* deinit, and the failure label of init.
Close(i) ==
  /\ locks' = Released(i)
  /\ phase' = [phase EXCEPT ![i] = "closed"]
  /\ write_owner' = [write_owner EXCEPT ![i] = FALSE]
  /\ writing' = [writing EXCEPT ![i] = NoWrite]
  /\ leaving' = [leaving EXCEPT ![i] = FALSE]
  /\ contested' = TRUE

\* A lock cannot be opened, or a region cannot be read: the load is rejected.
InitFails(i) ==
  /\ phase[i] \in {"locking", "loading"} /\ faults < MaxFaults
  /\ faults' = faults + 1
  /\ Close(i)
  /\ UNCHANGED <<disk, durable, at, mem, tracked, writes>>

----------------------------------------------------------------------------
(* Running: game writes and flushes                                        *)

\* A bug: a read-only session flushes as well.
MayFlush_Always(i) == TRUE

\* A frame in which the game changes one of its regions.
Play(i) ==
  /\ phase[i] = "running" /\ writes < MaxWrites
  /\ \E k \in 1..Len(Regions[i]) :
       mem' = [mem EXCEPT ![i][Regions[i][k]] = writes + 1]
  /\ writes' = writes + 1
  /\ UNCHANGED <<disk, durable, locks, phase, at, write_owner, tracked,
                 writing, leaving, faults, contested>>

MayFlush(i) == write_owner[i]

\* dualboy_save_manager_flush, from tick (leave = FALSE) or from
\* unload_current (leave = TRUE).
Flush(i, leave) ==
  /\ phase[i] = "running"
  /\ MayFlush(i)
  /\ phase' = [phase EXCEPT ![i] = "flushing"]
  /\ at' = [at EXCEPT ![i] = 1]
  /\ leaving' = [leaving EXCEPT ![i] = leave]
  /\ UNCHANGED <<disk, durable, locks, write_owner, mem, tracked, writing,
                 writes, faults, contested>>

\* The end of a flush: back to the frame loop, or deinit.
Left(i) ==
  \/ /\ ~leaving[i]
     /\ phase' = [phase EXCEPT ![i] = "running"]
     /\ writing' = [writing EXCEPT ![i] = NoWrite]
     /\ UNCHANGED <<locks, write_owner, leaving, contested>>
  \/ leaving[i] /\ Close(i)

Current(i) == Regions[i][at[i]]

\* A bug: the hash of another region is compared.
Unchanged_First(i) == mem[i][Regions[i][1]] = tracked[i][Regions[i][1]]

\* The hash of the region is the tracked one.
Unchanged(i) == mem[i][Current(i)] = tracked[i][Current(i)]

SkipRegion(i) ==
  /\ phase[i] = "flushing" /\ at[i] <= Len(Regions[i])
  /\ writing[i] = NoWrite
  /\ Unchanged(i)
  /\ at' = [at EXCEPT ![i] = @ + 1]
  /\ UNCHANGED <<disk, durable, locks, phase, write_owner, engineVars, writes,
                 faults, contested>>

\* mkstemp and write: the data is in the page cache only.
WriteTemporary(i) ==
  /\ phase[i] = "flushing" /\ at[i] <= Len(Regions[i])
  /\ writing[i] = NoWrite
  /\ ~Unchanged(i)
  /\ writing' = [writing EXCEPT ![i] =
       [path |-> Current(i), data |-> mem[i][Current(i)], synced |-> FALSE]]
  /\ UNCHANGED <<disk, durable, locks, phase, at, write_owner, mem, tracked,
                 leaving, writes, faults, contested>>

\* sync_descriptor: the data of the temporary file is on the disk.
SyncTemporary(i) ==
  /\ writing[i] # NoWrite /\ ~writing[i].synced
  /\ writing' = [writing EXCEPT ![i].synced = TRUE]
  /\ UNCHANGED <<disk, durable, locks, phase, at, write_owner, mem, tracked,
                 leaving, writes, faults, contested>>

\* A bug: rename before fsync.
MayRename_Unsynced(i) == writing[i] # NoWrite

\* When the temporary file may be renamed.
MayRename(i) == writing[i] # NoWrite /\ writing[i].synced

\* rename, and the best-effort fsync of the directory, which may not happen:
\* the new name is visible at once and durable at once or later.  The tracking
\* is updated in the same call of flush.
Rename(i) ==
  /\ MayRename(i)
  /\ LET w == writing[i] IN
       /\ disk' = [disk EXCEPT ![w.path] = w.data]
       /\ \/ durable' = [durable EXCEPT ![w.path] =
                           IF w.synced THEN w.data ELSE Torn]
          \/ durable' = durable
       /\ tracked' = [tracked EXCEPT ![i][w.path] = w.data]
  /\ writing' = [writing EXCEPT ![i] = NoWrite]
  /\ at' = [at EXCEPT ![i] = @ + 1]
  /\ UNCHANGED <<locks, phase, write_owner, mem, leaving, writes, faults,
                 contested>>

\* The system writes a directory back by itself.
DirectorySettles(p) ==
  /\ durable[p] # disk[p]
  /\ durable' = [durable EXCEPT ![p] = disk[p]]
  /\ UNCHANGED <<disk, locks, phase, at, write_owner, engineVars, writes,
                 faults, contested>>

\* A write, fsync or rename fails: the temporary file is removed and flush
\* returns with the remaining regions untouched.
WriteFails(i) ==
  /\ writing[i] # NoWrite /\ faults < MaxFaults
  /\ faults' = faults + 1
  /\ Left(i)
  /\ UNCHANGED <<disk, durable, at, mem, tracked, writes>>

FlushDone(i) ==
  /\ phase[i] = "flushing" /\ at[i] > Len(Regions[i])
  /\ Left(i)
  /\ UNCHANGED <<disk, durable, at, mem, tracked, writes, faults>>

\* discard_current, and the unload of a read-only session: no flush.
Discard(i) ==
  /\ phase[i] = "running"
  /\ Close(i)
  /\ UNCHANGED <<disk, durable, at, mem, tracked, writes, faults>>

----------------------------------------------------------------------------
(* The environment                                                         *)

\* The process is killed: its descriptors are closed, its files stay.
Killed(i) ==
  /\ phase[i] # "closed" /\ faults < MaxFaults
  /\ faults' = faults + 1
  /\ Close(i)
  /\ UNCHANGED <<disk, durable, at, mem, tracked, writes>>

\* Power is lost: every process is gone and what was not durable is lost.
PowerLoss ==
  /\ faults < MaxFaults
  /\ faults' = faults + 1
  /\ disk' = durable
  /\ locks' = [p \in Paths |-> None]
  /\ phase' = [i \in Instances |-> "closed"]
  /\ write_owner' = [i \in Instances |-> FALSE]
  /\ writing' = [i \in Instances |-> NoWrite]
  /\ leaving' = [i \in Instances |-> FALSE]
  /\ contested' = TRUE
  /\ UNCHANGED <<durable, at, mem, tracked, writes>>

Step(i) ==
  \/ Open(i) \/ LockNext(i) \/ LockBusy(i) \/ BackOut(i)
  \/ LocksTaken(i) \/ LoadNext(i) \/ LoadDone(i) \/ InitFails(i) \/ Play(i)
  \/ \E leave \in BOOLEAN : Flush(i, leave)
  \/ SkipRegion(i) \/ WriteTemporary(i) \/ SyncTemporary(i) \/ Rename(i)
  \/ WriteFails(i) \/ FlushDone(i) \/ Discard(i) \/ Killed(i)

Next ==
  \/ \E i \in Instances : Step(i)
  \/ \E p \in Paths : DirectorySettles(p)
  \/ PowerLoss

Spec == Init /\ [][Next]_vars

----------------------------------------------------------------------------
(* Properties                                                              *)

\* The contents of a region: the number of a game write, or a torn file.
Contents == Nat \cup {Torn}

\* The types of the variables.
TypeOK ==
  /\ disk \in [Paths -> Contents] /\ durable \in [Paths -> Contents]
  /\ locks \in [Paths -> Instances \cup {None}]
  /\ phase \in [Instances -> {"closed", "locking", "releasing", "loading",
                              "running", "flushing"}]
  /\ at \in [Instances -> Nat \ {0}]
  /\ write_owner \in [Instances -> BOOLEAN]
  /\ mem \in [Instances -> [Paths -> Contents]]
  /\ tracked \in [Instances -> [Paths -> Contents]]
  /\ writing \in [Instances -> [path : Paths \cup {None}, data : Contents,
                                synced : BOOLEAN]]
  /\ leaving \in [Instances -> BOOLEAN]
  /\ writes \in Nat /\ faults \in Nat /\ contested \in BOOLEAN

\* A save file is never torn: whatever is interrupted, by a kill or by a loss
\* of power, every path holds contents that was written completely
\* (dualboy_write_file_atomic syncs before it renames).
NeverTorn == \A p \in Paths : disk[p] # Torn /\ durable[p] # Torn

\* The region of a write-owning instance has been loaded.
Loaded(i, p) ==
  /\ write_owner[i] /\ p \in Managed(i)
  /\ \/ phase[i] \in {"running", "flushing"}
     \/ /\ phase[i] = "loading"
        /\ \E k \in 1..Len(Regions[i]) : k < at[i] /\ Regions[i][k] = p

\* What a write owner believes to be on disk is on disk: no other process has
\* changed a path it loaded, because the locks are taken before the first
\* region is read and are kept until deinit.
OwnerIsCurrent ==
  \A i \in Instances, p \in Paths : Loaded(i, p) => tracked[i][p] = disk[p]

\* No lost update: the process that replaces a save file had read or written
\* the very contents it replaces, so the progress of another running copy is
\* never overwritten.
NoLostUpdate ==
  [][\A p \in Paths :
       disk'[p] # disk[p] /\ (\E i \in Instances : phase'[i] # "closed") =>
         \E i \in Instances :
           tracked[i][p] = disk[p] /\ tracked'[i][p] = disk'[p]]_vars

\* A flush that ends without an error has brought every region of the session
\* to disk, the final one of an unload included.
FlushIsComplete ==
  [][\A i \in Instances :
       /\ phase[i] = "flushing" /\ phase'[i] # "flushing"
       /\ faults' = faults
       => \A p \in Managed(i) : disk[p] = mem[i][p]]_vars

\* An instance that has not settled on being a writer or a reader.
Opening == {"closed", "locking", "releasing"}

\* Copies that start together cannot all end up read-only: with the locks
\* taken in sorted order, somebody gets all of them.
SomeoneOwns ==
  ~contested /\ (\A i \in Instances : phase[i] \notin Opening)
    => \E i \in Instances : write_owner[i]
============================================================================
