----------------------------- MODULE NdsMemory -----------------------------
(***************************************************************************)
(* What a pair of DS consoles keeps: cartridge saves and firmware images   *)
(* (src/src/engines/melonds/nds_adapter.cpp), from the load of the files   *)
(* to the flush, under both renderers.  With software renderers the        *)
(* consoles run on the threads of NdsFrame; with OpenGL every frame and    *)
(* every reset is a pair of tasks of the context thread (EglWorker).       *)
(*                                                                         *)
(* A game writes its save in SPI transactions of one to SaveSize bytes     *)
(* that wrap at the end of the memory and may last over several frames;    *)
(* the adapter hears of one when it ends.  Of a firmware image only the    *)
(* MAC address is kept, as a prefix and its lowest bit.  Lengths of files  *)
(* are covered by SaveRegion, ownership by SaveOwnership; transactions     *)
(* longer than the memory are left out.                                    *)
(***************************************************************************)
EXTENDS EglWorker, Sequences, FiniteSetsExt

CONSTANTS
  SaveSize,    \* per game: the size of its save memory, 0 without one
  Bytes,       \* bytes that the games write
  FF,          \* the fill byte 0xff
  NoFile,      \* no such file
  Bad,         \* a firmware file that is not one of ours, or not whole
  Disks,       \* [game -> [save, firmware]] before the first session
  MaxWrites    \* bound on bytes written by the games

ASSUME MemoryAssumption ==
  /\ Slots = {0, 1}
  /\ SaveSize \in [Slots -> Nat]
  /\ \A g \in Slots : SaveSize[g] \in {0} \cup {2^k : k \in 0 .. 20}
  /\ MaxWrites \in Nat

\* The save memory of game g, and the addresses of consoles.
Image(g) == [0 .. SaveSize[g] - 1 -> Bytes \cup {FF}]
Macs == {"default", "chosen", "foreign"} \X {0, 1}

ASSUME FilesAssumption ==
  /\ NoFile \notin Macs /\ Bad \notin Macs \cup {NoFile}
  /\ \A files \in Disks :
       /\ files = [g \in Slots |-> [save |-> files[g].save,
                                    firmware |-> files[g].firmware]]
       /\ \A g \in Slots : /\ files[g].save \in Image(g) \cup {NoFile}
                           /\ files[g].firmware \in Macs \cup {NoFile, Bad}

VARIABLES
  open,        \* a session is loaded and its files are read
  swapped,     \* game 0 is in console 1
  retired,     \* frame_state is Poisoned
  job, left,   \* the frame or reset under way, and the consoles it has left
  live,        \* the save memory of each cartridge
  shadow,      \* save_shadow
  spi,         \* the open transaction: its first address and its bytes
  mac,         \* the address in the firmware of each console
  tracked,     \* what the save manager believes to be on disk
  disk,        \* the files of each game
  written,     \* bytes written so far
  committed    \* history: save memory when its last transaction ended

memory == <<live, shadow, spi, mac, tracked, committed>>
memoryVars == <<open, swapped, retired, job, left, memory, disk, written>>
allVars == <<vars, memoryVars>>

Game(m) == IF swapped THEN 1 - m ELSE m
Each(f(_)) == [m \in Slots |-> f(m)]
NoTransaction == [first |-> 0, count |-> 0]
Empty(m) == << >>
Nowhere(m) == NoTransaction

MemoryInit ==
  /\ Init
  /\ open = FALSE /\ swapped = FALSE /\ retired = FALSE
  /\ job = "none" /\ left = {}
  /\ live = Each(Empty) /\ shadow = Each(Empty) /\ committed = Each(Empty)
  /\ spi = Each(Nowhere) /\ mac = Each(Empty) /\ tracked = Each(Empty)
  /\ disk \in Disks /\ written = 0

Idle == open /\ caller = "idle" /\ job = "none"
----------------------------------------------------------------------------
(* Loading                                                                 *)

DefaultMac(m) == <<"default", m>>

\* IsValidPairMac: locally administered and unicast.
IsValidPairMac(a) == a[1] # "foreign"

\* Mutant: an address is repaired, a pair of equal ones is not.
Repaired_Alone(macs) ==
  [m \in Slots |-> IF IsValidPairMac(macs[m]) THEN macs[m] ELSE DefaultMac(m)]

\* PersistentMemoryLoaded: both consoles need addresses, and different ones.
Repaired(macs) ==
  LET valid(m) == IF IsValidPairMac(macs[m]) THEN macs[m] ELSE DefaultMac(m)
  IN [m \in Slots |->
        IF m = 1 /\ valid(1) = valid(0) THEN <<valid(0)[1], 1 - valid(0)[2]>>
        ELSE valid(m)]

\* load_nds_firmware: without a file the console keeps the generated one.
FirmwareMac(file, m) == IF file = NoFile THEN DefaultMac(m) ELSE file

\* A save file, or the erased memory of a game that has none.
SaveMemory(file, size) ==
  IF file = NoFile THEN [i \in 0 .. size - 1 |-> FF] ELSE file

\* LoadRom of both consoles, dualboy_save_manager_init, which reads the files
\* and may reject them, and PersistentMemoryLoaded with its reset.
LoadPair ==
  /\ ~open /\ caller = "idle"
  /\ swapped' \in BOOLEAN
  /\ \A g \in Slots : disk[g].firmware # Bad
  /\ LET file(m) == disk[Game(m)']
         save(m) == SaveMemory(file(m).save, SaveSize[Game(m)'])
         address(m) == FirmwareMac(file(m).firmware, m)
     IN /\ shadow' = Each(save) /\ live' = Each(save) /\ committed' = Each(save)
        /\ mac' = Repaired(Each(address))
        /\ tracked' = [m \in Slots |-> [save |-> save(m),
                                        firmware |-> address(m)]]
  /\ open' = TRUE
  /\ UNCHANGED <<vars, retired, job, left, spi, disk, written>>

\* A load that rejects a file leaves every file as it is; it can only succeed
\* after the player has taken the file away.
LoadRejected ==
  /\ ~open /\ caller = "idle"
  /\ \E g \in Slots :
       /\ disk[g].firmware = Bad
       /\ disk' = [disk EXCEPT ![g].firmware = NoFile]
  /\ UNCHANGED <<vars, open, swapped, retired, job, left, memory, written>>
----------------------------------------------------------------------------
(* A game writes its save                                                  *)

\* The consoles whose processors run.
Running(m) ==
  \/ job = "software"
  \/ job = "frame" /\ worker = "run" /\ task_slot = m

\* One byte of a transaction, new or going on.
SpiByte(m) ==
  LET size == SaveSize[Game(m)]
  IN /\ Running(m) /\ written < MaxWrites /\ spi[m].count < size
     /\ \E b \in Bytes, a \in 0 .. size - 1 :
          LET first == IF spi[m].count = 0 THEN a ELSE spi[m].first
          IN /\ a = first   \* an open transaction keeps its first address
             /\ live' = [live EXCEPT ![m][(a + spi[m].count) % size] = b]
             /\ spi' = [spi EXCEPT ![m] = [first |-> a, count |-> @.count + 1]]
     /\ written' = written + 1
     /\ UNCHANGED <<vars, open, swapped, retired, job, left, shadow, mac,
                    tracked, committed, disk>>

\* Mutant: a count of zero means that there is nothing to do.
Committed_Length(length, size) == length

\* A count is masked, so zero stands for the whole memory.
Committed(length, size) == IF length = 0 THEN size ELSE length

\* WriteNDSSave: the bytes up to the end of the memory, and those that
\* wrapped to its beginning.
WriteNDSSave(old, data, offset, length) ==
  LET size == Cardinality(DOMAIN old)
      count == Committed(length, size)
      tail == Min({count, size - offset})
  IN [i \in DOMAIN old |->
        IF i \in offset .. offset + tail - 1 \/ i < count - tail
        THEN data[i] ELSE old[i]]

\* The end of a transaction: the masked count is reported.
SpiRelease(m) ==
  /\ Running(m) /\ spi[m].count > 0
  /\ shadow' = [shadow EXCEPT ![m] =
                  WriteNDSSave(@, live[m], spi[m].first,
                               spi[m].count % SaveSize[Game(m)])]
  /\ committed' = [committed EXCEPT ![m] = live[m]]
  /\ spi' = [spi EXCEPT ![m] = NoTransaction]
  /\ UNCHANGED <<vars, open, swapped, retired, job, left, live, mac, tracked,
                 disk, written>>
----------------------------------------------------------------------------
(* Frames and resets                                                       *)

\* ResetMachine of the consoles ms: the cartridge gets the shadow back.
ResetMachine(ms) ==
  /\ live' = [m \in Slots |-> IF m \in ms THEN shadow[m] ELSE live[m]]
  /\ spi' = [m \in Slots |-> IF m \in ms THEN NoTransaction ELSE spi[m]]
  /\ UNCHANGED <<shadow, mac, tracked, committed>>

\* A frame with software renderers begins; it ends, perhaps too late.
SoftwareFrame ==
  /\ Idle /\ ~implementation /\ ~retired
  /\ job' = "software"
  /\ UNCHANGED <<vars, open, swapped, retired, left, memory, disk, written>>

SoftwareFrameEnds ==
  /\ job = "software" /\ job' = "none" /\ retired' \in BOOLEAN
  /\ UNCHANGED <<vars, open, swapped, left, memory, disk, written>>

SoftwareReset ==
  /\ Idle /\ ~implementation /\ ~retired
  /\ ResetMachine(Slots)
  /\ UNCHANGED <<vars, open, swapped, retired, job, left, disk, written>>

\* With OpenGL the first console gets its task, or one that has nothing to do
\* with this memory (renderers, reports) is run.
FirstTask ==
  /\ Idle /\ Execute
  /\ \/ /\ ~retired /\ call + Cardinality(Slots) <= MaxCalls
        /\ job' \in {"frame", "reset"}
        /\ task_slot' = Min(Slots) /\ left' = Slots \ {task_slot'}
     \/ job' = "other" /\ UNCHANGED left
  /\ UNCHANGED <<open, swapped, retired, memory, disk, written>>

NextTask ==
  /\ caller = "idle" /\ left # {} /\ Execute
  /\ task_slot' = Min(left) /\ left' = left \ {task_slot'}
  /\ UNCHANGED <<open, swapped, retired, job, memory, disk, written>>

\* The task returns: the next console, or the end.  A frame or reset that
\* fails, and a frame that is late, retire the pair and skip the rest.
TaskReturns ==
  /\ AwaitTask
  /\ \/ /\ caller' = "idle"
        /\ \/ /\ result' = "ok"
              /\ job' = IF left = {} THEN "none" ELSE job
              /\ UNCHANGED <<left, retired>>
           \/ /\ result' = "failed" \/ job = "frame"
              /\ job' = "none" /\ left' = {}
              /\ retired' = (retired \/ job # "other")
     \/ /\ caller' # "idle" /\ UNCHANGED <<job, left, retired>>
  /\ UNCHANGED <<open, swapped, memory, disk, written>>

\* The end of a task.  One that resets a console may fail before or after.
TaskRuns ==
  /\ RunTask
  /\ \/ job = "reset" /\ ResetMachine({task_slot})
     \/ (job = "reset" => ~success') /\ UNCHANGED memory
  /\ UNCHANGED <<open, swapped, retired, job, left, disk, written>>
----------------------------------------------------------------------------
(* Flushing and unloading                                                  *)

\* The regions of a session, in the order of a flush.
Order == <<<<0, "save">>, <<0, "firmware">>, <<1, "save">>, <<1, "firmware">>>>
Data(m, kind) == IF kind = "save" THEN shadow[m] ELSE mac[m]

\* dualboy_save_manager_flush reaches the first n regions, before one fails:
\* what differs from the file is written.
Writes(n, m, kind) ==
  /\ \E i \in 1 .. n : Order[i] = <<m, kind>>
  /\ Data(m, kind) # tracked[m][kind]

FlushedDisk(n) ==
  [g \in Slots |->
     LET m == Game(g)   \* its own inverse
     IN [kind \in {"save", "firmware"} |->
           IF Writes(n, m, kind) THEN Data(m, kind) ELSE disk[g][kind]]]

FlushedTracking(n) ==
  [m \in Slots |->
     [kind \in {"save", "firmware"} |->
        IF Writes(n, m, kind) THEN Data(m, kind) ELSE tracked[m][kind]]]

\* tick_saves after a frame that succeeded.
Tick ==
  /\ Idle /\ ~retired
  /\ \E n \in 0 .. Len(Order) :
       disk' = FlushedDisk(n) /\ tracked' = FlushedTracking(n)
  /\ UNCHANGED <<vars, open, swapped, retired, job, left, live, shadow, spi,
                 mac, committed, written>>

\* unload_current with a last flush, or discard_current without one.  The
\* contexts have been destroyed by then, which leaves this memory alone.
UnloadPair ==
  /\ Idle /\ ~implementation
  /\ \E n \in 0 .. Len(Order) : disk' = FlushedDisk(n)
  /\ open' = FALSE /\ swapped' = FALSE /\ retired' = FALSE
  /\ live' = Each(Empty) /\ shadow' = Each(Empty) /\ committed' = Each(Empty)
  /\ spi' = Each(Nowhere) /\ mac' = Each(Empty) /\ tracked' = Each(Empty)
  /\ UNCHANGED <<vars, job, left, written>>
----------------------------------------------------------------------------
\* The steps of EglWorker that leave the memory of the consoles alone.
OpenGL ==
  /\ \/ Idle /\ ((~retired /\ Create) \/ Destroy)
     \/ AwaitStart \/ Join
     \/ Start \/ Wake \/ MakeCurrent \/ Release \/ Report \/ Exit
     \/ SpuriousWakeup
  /\ UNCHANGED memoryVars

Frames == SoftwareFrame \/ SoftwareFrameEnds \/ SoftwareReset
Tasks == FirstTask \/ NextTask \/ TaskReturns \/ TaskRuns
Files == LoadPair \/ LoadRejected \/ Tick \/ UnloadPair

MemoryNext ==
  \/ OpenGL \/ Frames \/ Tasks \/ Files
  \/ \E m \in Slots : SpiByte(m) \/ SpiRelease(m)

\* Both threads are scheduled, and EGL calls and tasks return.
MemorySpec ==
  /\ MemoryInit /\ [][MemoryNext]_allVars
  /\ WF_allVars(OpenGL /\ Calling)
  /\ WF_allVars(OpenGL /\ Working)
  /\ WF_allVars(TaskReturns) /\ WF_allVars(TaskRuns)
----------------------------------------------------------------------------
\* What a session saves is what its games have completed: the shadow holds
\* every transaction that ended, wherever it wrapped and of any length up to
\* the memory's, and no part of one that is still open or was cut off by a
\* reset; between transactions it is what the game reads.
CommittedOnly ==
  open => \A m \in Slots :
            /\ shadow[m] = committed[m]
            /\ spi[m].count = 0 => live[m] = shadow[m]

\* The two consoles of a session always have addresses of their own, whatever
\* firmware their games were last played with, in whichever seat.
MacsDiffer ==
  open => /\ mac[0] # mac[1]
          /\ \A m \in Slots : IsValidPairMac(mac[m])

\* What the save manager believes to be on disk is there, unless it is what
\* a new game starts with.
FilesTracked ==
  open => \A m \in Slots, kind \in {"save", "firmware"} :
            disk[Game(m)][kind] \in {tracked[m][kind], NoFile}

\* The memory of the consoles is kept as the games and the files have it.
ConsoleMemory == CommittedOnly /\ MacsDiffer /\ FilesTracked
=============================================================================
