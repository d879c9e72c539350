----------------------------- MODULE SaveRegion -----------------------------
(***************************************************************************)
(* One core-managed battery save, byte by byte: how much of the engine's   *)
(* stable buffer belongs in the file (src/src/frontend/save_manager.c and  *)
(* the extent and save-type code of src/src/engines/mgba/mgba_adapter.c),  *)
(* and the import of a legacy .sav file with a clock at its end.           *)
(*                                                                         *)
(* The buffer always has Capacity cells; the cartridge's save type says    *)
(* how many of them the game can write, and is unknown until the game      *)
(* touches its save.  The session owns its files (SaveOwnership), a write  *)
(* is all or nothing, and a hash stands for the bytes it was made of.      *)
(***************************************************************************)
EXTENDS Naturals, Sequences

CONSTANTS
  Capacity,     \* MGBA_MAX_SAVE_SIZE, in cells
  FF,           \* the fill byte 0xff
  Bytes,        \* the other values of a cell
  Autodetect,         \* GBA_SAVEDATA_AUTODETECT
  Types,        \* the save types that have a size
  SizeOf,       \* [Types -> 0..Capacity], GBASavedataSize
  Family,       \* [Types -> _]: FLASH, EEPROM, SRAM...
  BatterySizes, \* is_supported_gba_battery_size
  NoFile,       \* no such file
  Disks,        \* <<canonical, legacy>> before the first session
  SavedTypes,   \* save types in states the user may load
  Interval,     \* DUALBOY_SAVE_FLUSH_INTERVAL_FRAMES
  MaxFaults     \* bound on failed writes

Cell == Bytes \cup {FF}

ASSUME SizeAssumption ==
  /\ Capacity \in Nat \ {0} /\ Interval \in Nat \ {0} /\ MaxFaults \in Nat
  /\ SizeOf \in [Types -> 0..Capacity] /\ Autodetect \notin Types
  /\ BatterySizes \subseteq 0..Capacity
  /\ FF \notin Bytes /\ NoFile \notin Seq(Cell)
  /\ \A d \in Disks : {d[1], d[2]} \subseteq Seq(Cell) \cup {NoFile}
  /\ SavedTypes \subseteq Types \cup {Autodetect}

VARIABLES
  file,         \* the canonical .srm file
  legacy,       \* the legacy .sav file, which is only read
  clock,        \* the .rtc file: the last cell of an imported .sav
  cartridge,    \* [type, rtc]: what mGBA knows of the ROM after a reset
  phase,        \* closed, or a place in dualboy_save_manager_init, or running
  mem,          \* 1..Capacity -> Cell: the stable buffer
  type,         \* savedata->type
  dirty,        \* savedata->dirty: a game write not yet reported
  memory_dirty, \* machine->memory_dirty
  tracking,     \* struct dualboy_save_region_tracking
  frames,       \* frames_since_flush
  faults,       \* failed writes so far
  image,        \* history: the buffer at the last flush that succeeded
  wrote,        \* history: the game has written since the load
  imported      \* history: the canonical file was made from the legacy one

region  == <<file, legacy, clock, cartridge>>
engine  == <<mem, type, dirty, memory_dirty>>
history == <<image, wrote, imported>>
vars == <<region, phase, engine, tracking, frames, faults, history>>

Buffer == [1..Capacity -> Cell]
Blank == [k \in 1..Capacity |-> FF]

\* A short file in a buffer filled with 0xff (read_region), and the first n
\* cells of a buffer (what is hashed, and what is written).
Filled(s) == [k \in 1..Capacity |-> IF k <= Len(s) THEN s[k] ELSE FF]
Prefix(b, n) == [k \in 1..n |-> b[k]]

NoTracking == [size |-> 0, hash |-> << >>, loaded |-> 0, preserved |-> 0,
               known |-> FALSE, valid |-> FALSE, baseline |-> Blank]

\* The last cell of the legacy file is a clock: the cartridge has one and the
\* rest has the detected size, or a supported one.
HasClock ==
  /\ cartridge.rtc /\ Len(legacy) >= 1
  /\ IF cartridge.type = Autodetect THEN Len(legacy) - 1 \in BatterySizes
     ELSE Len(legacy) - 1 = SizeOf[cartridge.type]

Battery == IF HasClock THEN Len(legacy) - 1 ELSE Len(legacy)

\* What the next load would put into the buffer.
OnDisk ==
  CASE file # NoFile -> Filled(file)
    [] file = NoFile /\ legacy # NoFile -> Filled(Prefix(legacy, Battery))
    [] OTHER -> Blank

\* No session: the manager is zeroed and the cores are gone.
Closed ==
  /\ phase' = "closed" /\ mem' = Blank /\ type' = Autodetect
  /\ dirty' = FALSE /\ memory_dirty' = FALSE
  /\ tracking' = NoTracking /\ frames' = 0 /\ wrote' = FALSE

Init ==
  /\ \E d \in Disks : file = d[1] /\ legacy = d[2]
  /\ clock = NoFile
  /\ cartridge \in [type : Types \cup {Autodetect}, rtc : BOOLEAN]
  /\ phase = "closed" /\ mem = Blank /\ type = Autodetect
  /\ dirty = FALSE /\ memory_dirty = FALSE /\ tracking = NoTracking
  /\ frames = 0 /\ faults = 0
  /\ image = OnDisk /\ wrote = FALSE /\ imported = FALSE

----------------------------------------------------------------------------
(* Extents                                                                 *)

\* merge_savedata_type
MergeType(current, restored) ==
  IF \/ current = Autodetect
     \/ /\ restored # Autodetect /\ Family[restored] = Family[current]
        /\ SizeOf[restored] > SizeOf[current]
  THEN restored ELSE current

\* A bug: an oversized file is always cut to the extent.
Preserved_Never(t, data, extent) == t.preserved

\* A tail that the device cannot reach is kept unless it is blank.
Preserved(t, data, extent) ==
  IF t.loaded > extent
     /\ (extent = 0 \/ \E k \in (extent + 1)..t.loaded : data[k] # FF)
  THEN t.loaded ELSE t.preserved

Longer(a, b) == IF a > b THEN a ELSE b

\* initialize_extent_tracking
ExtentTracking(t, data, extent) ==
  LET kept == Preserved(t, data, extent)
      n == Longer(extent, kept)
      fits == t.loaded <= n
  IN  [t EXCEPT !.preserved = kept, !.known = TRUE, !.valid = TRUE,
                !.size = IF fits THEN n ELSE @,
                !.hash = IF fits THEN Prefix(data, n) ELSE @]

\* The tracking at the end of a load of n cells.
LoadedTracking(data, n) ==
  LET t == [NoTracking EXCEPT !.size = n, !.loaded = n, !.valid = TRUE,
                              !.hash = Prefix(data, n), !.baseline = data]
  IN  IF type = Autodetect THEN t ELSE ExtentTracking(t, data, SizeOf[type])

----------------------------------------------------------------------------
(* Loading: load_sram                                                      *)

\* The session's cores have been created and reset.
Open ==
  /\ phase = "closed"
  /\ phase' = "choose" /\ type' = cartridge.type
  /\ UNCHANGED <<region, mem, dirty, memory_dirty, tracking, frames, faults,
                 history>>

\* The load is over: the region is tracked and the frames may run.
Loaded(data, n) ==
  /\ phase' = "running" /\ mem' = data /\ frames' = 0
  /\ tracking' = LoadedTracking(data, n)
  /\ UNCHANGED <<type, dirty, memory_dirty, wrote>>

\* dualboy_choose_sav_import: KEEP_CANONICAL and NO_SOURCE.  A file that is
\* too large rejects the load.
LoadCanonical ==
  /\ phase = "choose" /\ file # NoFile
  /\ \/ Len(file) <= Capacity /\ Loaded(Filled(file), Len(file))
     \/ Len(file) > Capacity /\ Closed
  /\ UNCHANGED <<region, faults, image, imported>>

LoadNothing ==
  /\ phase = "choose" /\ file = NoFile /\ legacy = NoFile
  /\ Loaded(mem, 0)
  /\ UNCHANGED <<region, faults, image, imported>>

\* The files an import writes, in order.
ImportOrder == IF HasClock THEN <<"clock", "copy">> ELSE <<"copy">>

\* COPY_LEGACY: the buffer is filled, or the file has an unsupported size.
ImportLegacy ==
  /\ phase = "choose" /\ file = NoFile /\ legacy # NoFile
  /\ \/ /\ Battery <= Capacity
        /\ mem' = Filled(Prefix(legacy, Battery))
        /\ phase' = Head(ImportOrder)
        /\ UNCHANGED <<type, dirty, memory_dirty, tracking, frames, wrote>>
     \/ Battery > Capacity /\ Closed
  /\ UNCHANGED <<region, faults, image, imported>>

\* One of the writes of an import fails, and with it the load.
ImportFails ==
  /\ phase \in {"clock", "copy"} /\ faults < MaxFaults
  /\ faults' = faults + 1
  /\ Closed
  /\ UNCHANGED <<region, image, imported>>

\* The clock goes to its own file.
WriteClock ==
  /\ clock' = legacy[Len(legacy)]
  /\ UNCHANGED <<file, imported>>

WriteSave ==
  /\ file' = Prefix(mem, Battery) /\ imported' = TRUE
  /\ UNCHANGED clock

\* The next write of the import; after the last one the load is over.
ImportWrite ==
  /\ phase \in {"clock", "copy"}
  /\ \E k \in 1..Len(ImportOrder) :
       /\ phase = ImportOrder[k]
       /\ IF phase = "clock" THEN WriteClock ELSE WriteSave
       /\ IF k = Len(ImportOrder) THEN Loaded(mem, Battery)
          ELSE /\ phase' = ImportOrder[k + 1]
               /\ UNCHANGED <<engine, tracking, frames, wrote>>
  /\ UNCHANGED <<legacy, cartridge, faults, image>>

----------------------------------------------------------------------------
(* Running                                                                 *)

\* A game access resolves autodetection.
Detect ==
  /\ phase = "running" /\ type = Autodetect
  /\ type' \in Types
  /\ UNCHANGED <<region, phase, mem, dirty, memory_dirty, tracking, frames,
                 faults, history>>

\* The game writes a cell its save device has.
GameWrite ==
  /\ phase = "running" /\ type # Autodetect
  /\ \E k \in 1..SizeOf[type], b \in Cell : mem' = [mem EXCEPT ![k] = b]
  /\ dirty' = TRUE /\ wrote' = TRUE
  /\ UNCHANGED <<region, phase, type, memory_dirty, tracking, frames, faults,
                 image, imported>>

\* mGBA reports a write after a quiet period (savedata_updated).
SavedataUpdated ==
  /\ phase = "running" /\ dirty
  /\ dirty' = FALSE /\ memory_dirty' = TRUE
  /\ UNCHANGED <<region, phase, mem, type, tracking, frames, faults, history>>

\* A state is loaded: the battery stays, the save type is merged.
LoadState ==
  /\ phase = "running"
  /\ \E saved \in SavedTypes : type' = MergeType(type, saved)
  /\ UNCHANGED <<region, phase, mem, dirty, memory_dirty, tracking, frames,
                 faults, history>>

\* The extent is known for the first time: what was tracked as a load is now
\* tracked to the extent, and is stale if the game was quicker.
Tracked ==
  IF tracking.known THEN tracking
  ELSE LET t == ExtentTracking(tracking, mem, SizeOf[type])
           n == Longer(SizeOf[type], t.preserved)
       IN  [t EXCEPT !.valid =
              ~(\/ dirty \/ memory_dirty
                \/ Prefix(mem, n) # Prefix(tracking.baseline, n))]

\* A bug: detection alone makes the file grow.
Deferred_Never(t, n) == FALSE

\* Growth alone is not a write.
Deferred(t, n) ==
  t.valid /\ n > t.size /\ Prefix(mem, n) = Prefix(t.baseline, n)

\* The hash says that the file is up to date.
Current(t, n) == t.valid /\ t.size = n /\ t.hash = Prefix(mem, n)

Extent == Longer(SizeOf[type], Tracked.preserved)

NeedsWrite ==
  type # Autodetect /\ ~Deferred(Tracked, Extent) /\ ~Current(Tracked, Extent)

\* What a failed write leaves of the tracking.
TrackedOnFailure == Tracked

\* A bug: only the frame that completes the interval flushes.
Due_Once(n) == n = Interval

\* dualboy_save_manager_tick: when a frame flushes.
Due(n) == n >= Interval

\* retro_run: a frame, in which a cartridge clock advances, and the tick.
Frame ==
  /\ phase = "running"
  /\ frames' = IF frames > Interval THEN frames ELSE frames + 1
  /\ phase' = IF Due(frames') THEN "ticking" ELSE "running"
  /\ memory_dirty' = (memory_dirty \/ cartridge.rtc)
  /\ UNCHANGED <<region, mem, type, dirty, tracking, faults, history>>

\* The file holds the first n cells of the buffer, and is tracked so.
Written(n) ==
  [Tracked EXCEPT !.hash = Prefix(mem, n), !.size = n, !.loaded = n,
                  !.valid = TRUE, !.baseline = mem]

\* A tick that reaches this region: there is nothing to write, or the file is
\* replaced.  Only when the other regions of the machine and of the session
\* succeed as well are the dirty flag and the frame count cleared.
FlushRegion ==
  /\ phase = "ticking"
  /\ \/ /\ NeedsWrite
        /\ file' = Prefix(mem, Extent) /\ tracking' = Written(Extent)
     \/ /\ ~NeedsWrite /\ file' = file
        /\ tracking' = IF type = Autodetect THEN tracking ELSE Tracked
  /\ \/ memory_dirty' = FALSE /\ frames' = 0 /\ faults' = faults
     \/ /\ faults < MaxFaults /\ faults' = faults + 1
        /\ memory_dirty' \in {memory_dirty, FALSE} /\ frames' = frames
  /\ image' = mem /\ phase' = "running"
  /\ UNCHANGED <<legacy, clock, cartridge, mem, type, dirty, wrote, imported>>

\* The write fails, or one of an earlier region does.
FlushFails ==
  /\ phase = "ticking" /\ faults < MaxFaults
  /\ \/ NeedsWrite /\ tracking' = TrackedOnFailure
     \/ tracking' = tracking
  /\ faults' = faults + 1 /\ phase' = "running"
  /\ UNCHANGED <<region, engine, frames, history>>

\* unload_current: a last flush, and the end of the session.
Unload ==
  /\ phase = "running"
  /\ file' = IF NeedsWrite THEN Prefix(mem, Extent) ELSE file
  /\ image' = mem
  /\ Closed
  /\ UNCHANGED <<legacy, clock, cartridge, faults, imported>>

\* The session ends without a flush: the process dies, the final flush fails,
\* or discard_current drops the session.
Killed ==
  /\ phase # "closed"
  /\ Closed
  /\ UNCHANGED <<region, faults, image, imported>>

Next ==
  \/ Open \/ LoadCanonical \/ LoadNothing \/ ImportLegacy \/ ImportFails
  \/ ImportWrite \/ Detect \/ GameWrite \/ SavedataUpdated \/ LoadState
  \/ Frame \/ FlushRegion \/ FlushFails \/ Unload \/ Killed

\* The frontend keeps calling retro_run, and a tick completes.
Fairness == WF_vars(Frame) /\ WF_vars(FlushRegion)

Spec == Init /\ [][Next]_vars /\ Fairness

----------------------------------------------------------------------------
(* Properties                                                              *)

InSession == phase \in {"running", "ticking"}

\* Values have their types, and in a session loaded_size is the length of the
\* canonical file: initialize_extent_tracking decides by it what to preserve.
TypeOK ==
  /\ file \in Seq(Cell) \cup {NoFile} /\ legacy \in Seq(Cell) \cup {NoFile}
  /\ clock \in Cell \cup {NoFile}
  /\ phase \in {"closed", "choose", "clock", "copy", "running", "ticking"}
  /\ mem \in Buffer /\ image \in Buffer /\ tracking.baseline \in Buffer
  /\ type \in Types \cup {Autodetect}
  /\ {dirty, memory_dirty, wrote, imported} \subseteq BOOLEAN
  /\ {tracking.size, tracking.loaded, tracking.preserved} \subseteq 0..Capacity
  /\ frames \in 0..(Interval + 1) /\ faults \in 0..MaxFaults
  /\ InSession =>
       tracking.loaded = IF file = NoFile THEN 0 ELSE Len(file)

\* An imported save has its clock, whatever interrupted the import.
ImportKeepsClock == imported /\ HasClock => clock = legacy[Len(legacy)]

\* The file always stands for the buffer of the last flush that said it
\* succeeded, the tail beyond the game's reach included, and a load returns
\* it: extents that become known late, promotion by a loaded state, blank and
\* foreign tails, skipped, failed and interrupted writes in any order.  A
\* canonical file made from a legacy one, which stops every later import, is
\* there only when the clock of the legacy file has been written too.
SavedImage ==
  /\ TypeOK
  /\ ImportKeepsClock
  /\ OnDisk = image
  /\ InSession /\ ~wrote => mem = image

\* A session in which the game wrote nothing never creates, grows or alters a
\* save file: it may only cut off a blank tail.  (A cartridge clock marks the
\* machine dirty on every frame, and is excluded.)
NoSpontaneousWrite ==
  [][file' # file /\ InSession /\ ~wrote /\ ~cartridge.rtc =>
       /\ file # NoFile /\ Len(file') < Len(file)
       /\ Filled(file') = Filled(file)]_vars

\* Flushing is never given up: after a failed write a later tick tries again.
FlushRecurs == []<>(frames = 0 \/ phase = "closed")
============================================================================
