-------------------------- MODULE SaveRegionProofs --------------------------
(***************************************************************************)
(* Proofs about SaveRegion, for any capacity, save types, files and number *)
(* of failed writes: the file always stands for the buffer of the last     *)
(* flush, and a session in which the game writes nothing leaves it alone.  *)
(***************************************************************************)
EXTENDS SaveRegion, TLAPS

\* The cells that the save device has, as far as it is known.
Reach == IF type = Autodetect THEN 0 ELSE SizeOf[type]

\* A file of this many cells holds all that must be kept.
Kept(t) == Longer(Reach, t.preserved)

Size == 0..Capacity
Tracking ==
  [size : Size, hash : Seq(Cell), loaded : Size, preserved : Size,
   known : BOOLEAN, valid : BOOLEAN, baseline : Buffer]

\* All cells of b beyond the first n are blank.
BlankBeyond(b, n) == \A k \in 1..Capacity : k > n => b[k] = FF

FileLength == IF file = NoFile THEN 0 ELSE Len(file)

\* What the tracking of a session says of a file of some length that stands
\* for the buffer disk: the baseline is that buffer, a valid hash is that of
\* the baseline, and once the extent is known nothing is lost beyond it.
Tracks(t, disk, length) ==
  /\ t \in Tracking
  /\ t.loaded = length
  /\ t.baseline = disk
  /\ BlankBeyond(t.baseline, t.loaded)
  /\ t.valid => t.hash = Prefix(t.baseline, t.size)
  /\ t.known => type # Autodetect /\ BlankBeyond(t.baseline, Kept(t))
  /\ ~t.known => t.valid /\ t.preserved = 0
  /\ t.size = t.loaded \/ (t.known /\ t.size <= Kept(t))

TracksFile(t) == Tracks(t, OnDisk, FileLength)

\* The game changes the buffer only where the device has cells, and the
\* flags and the tracking tell whether it has changed anything.
BufferInv ==
  /\ \A k \in 1..Capacity : k > Reach => mem[k] = tracking.baseline[k]
  /\ ~wrote => mem = tracking.baseline
  /\ ~wrote /\ ~cartridge.rtc => ~dirty /\ ~memory_dirty /\ tracking.valid

RunInv == InSession => TracksFile(tracking) /\ BufferInv

\* Before the session runs nothing has been written by the game, and during an
\* import the buffer holds the battery of the legacy file.
LoadInv ==
  ~InSession =>
    /\ ~dirty /\ ~memory_dirty /\ ~wrote
    /\ phase \in {"closed", "choose"} => mem = Blank
    /\ phase \in {"clock", "copy"} =>
         /\ file = NoFile /\ legacy # NoFile /\ Battery <= Capacity
         /\ mem = Filled(Prefix(legacy, Battery))
    /\ phase = "clock" => HasClock
    /\ phase = "copy" /\ HasClock => clock = legacy[Len(legacy)]

\* Types.
FilesInv ==
  /\ file \in Seq(Cell) \cup {NoFile} /\ legacy \in Seq(Cell) \cup {NoFile}
  /\ clock \in Cell \cup {NoFile}
  /\ cartridge \in [type : Types \cup {Autodetect}, rtc : BOOLEAN]

EngineInv ==
  /\ phase \in {"closed", "choose", "clock", "copy", "running", "ticking"}
  /\ mem \in Buffer /\ type \in Types \cup {Autodetect} /\ tracking \in Tracking
  /\ dirty \in BOOLEAN /\ memory_dirty \in BOOLEAN /\ wrote \in BOOLEAN
  /\ imported \in BOOLEAN
  /\ frames \in 0..(Interval + 1) /\ faults \in 0..MaxFaults

RegionInv ==
  /\ FilesInv /\ EngineInv /\ RunInv /\ LoadInv
  /\ ImportKeepsClock /\ image = OnDisk

-----------------------------------------------------------------------------
(* Files and buffers.                                                      *)

LEMMA FilledType ==
  ASSUME NEW s \in Seq(Cell)
  PROVE  Filled(s) \in Buffer /\ BlankBeyond(Filled(s), Len(s))
<1>1. \A k \in 1..Len(s) : s[k] \in Cell
  OBVIOUS
<1>2. Len(s) \in Nat
  OBVIOUS
<1> QED
  BY <1>1, <1>2, SizeAssumption DEF Filled, Buffer, BlankBeyond, Cell

LEMMA PrefixType ==
  ASSUME NEW n \in Nat, NEW b, \A k \in 1..n : b[k] \in Cell
  PROVE  /\ Prefix(b, n) \in Seq(Cell) /\ Len(Prefix(b, n)) = n
         /\ Prefix(b, n) # NoFile
         /\ \A k \in 1..n : Prefix(b, n)[k] = b[k]
         /\ Filled(Prefix(b, n)) =
              [k \in 1..Capacity |-> IF k <= n THEN b[k] ELSE FF]
<1>1. Prefix(b, n) \in [1..n -> Cell]
  BY DEF Prefix
<1>2. Prefix(b, n) \in Seq(Cell) /\ Len(Prefix(b, n)) = n
  BY <1>1
<1>3. \A k \in 1..n : Prefix(b, n)[k] = b[k]
  BY DEF Prefix
<1>4. Prefix(b, n) # NoFile
  BY <1>2, SizeAssumption
<1>5. Filled(Prefix(b, n)) =
        [k \in 1..Capacity |-> IF k <= n THEN b[k] ELSE FF]
  BY <1>2, <1>3, SizeAssumption DEF Filled
<1> QED
  BY <1>2, <1>3, <1>4, <1>5

LEMMA BufferEqual ==
  ASSUME NEW a \in Buffer, NEW b \in Buffer,
         \A k \in 1..Capacity : a[k] = b[k]
  PROVE  a = b
<1>1. a = [k \in 1..Capacity |-> a[k]] /\ b = [k \in 1..Capacity |-> b[k]]
  BY DEF Buffer
<1>2. [k \in 1..Capacity |-> a[k]] = [k \in 1..Capacity |-> b[k]]
  OBVIOUS
<1> QED
  BY <1>1, <1>2

\* A buffer survives in a file that is long enough.
LEMMA FilledPrefix ==
  ASSUME NEW b \in Buffer, NEW n \in Size, BlankBeyond(b, n)
  PROVE  Filled(Prefix(b, n)) = b
<1>1. \A k \in 1..n : b[k] \in Cell
  BY SizeAssumption DEF Buffer, Size
<1>2. Filled(Prefix(b, n)) =
        [k \in 1..Capacity |-> IF k <= n THEN b[k] ELSE FF]
  BY <1>1, PrefixType, SizeAssumption DEF Size
<1>3. Filled(Prefix(b, n)) \in Buffer
  BY <1>1, PrefixType, FilledType, SizeAssumption DEF Size
<1>4. \A k \in 1..Capacity : Filled(Prefix(b, n))[k] = b[k]
  BY <1>2, SizeAssumption DEF BlankBeyond, Size
<1> QED
  BY <1>3, <1>4, BufferEqual

\* Two buffers with the same first n cells.
LEMMA SamePrefix ==
  ASSUME NEW a \in Buffer, NEW b \in Buffer, NEW n \in Size,
         Prefix(a, n) = Prefix(b, n),
         \A k \in 1..Capacity : k > n => a[k] = b[k]
  PROVE  a = b
<1>1. \A k \in 1..n : a[k] \in Cell /\ b[k] \in Cell
  BY SizeAssumption DEF Buffer, Size
<1>2. ASSUME NEW k \in 1..Capacity PROVE a[k] = b[k]
  <2>1. CASE k <= n
    BY <2>1, <1>1, PrefixType, SizeAssumption DEF Size
  <2>2. CASE k > n
    BY <2>2
  <2> QED
    BY <2>1, <2>2, SizeAssumption DEF Size
<1> QED
  BY <1>2, BufferEqual

LEMMA BlankBuffer == Blank \in Buffer
BY DEF Blank, Buffer, Cell

LEMMA BatteryType ==
  ASSUME legacy \in Seq(Cell)
  PROVE  /\ Battery \in Nat /\ Battery <= Len(legacy)
         /\ \A k \in 1..Battery : legacy[k] \in Cell
         /\ HasClock => legacy[Len(legacy)] \in Cell
<1>1. Len(legacy) \in Nat /\ \A k \in 1..Len(legacy) : legacy[k] \in Cell
  OBVIOUS
<1>2. HasClock => Len(legacy) >= 1
  BY DEF HasClock
<1> QED
  BY <1>1, <1>2 DEF Battery

LEMMA OnDiskType ==
  ASSUME FilesInv
  PROVE  OnDisk \in Buffer
<1>1. CASE file # NoFile
  BY <1>1, FilledType DEF FilesInv, OnDisk
<1>2. CASE file = NoFile /\ legacy # NoFile
  <2>1. legacy \in Seq(Cell)
    BY <1>2 DEF FilesInv
  <2>2. Prefix(legacy, Battery) \in Seq(Cell)
    BY <2>1, BatteryType, PrefixType
  <2> QED
    BY <1>2, <2>2, FilledType DEF OnDisk
<1>3. CASE file = NoFile /\ legacy = NoFile
  BY <1>3, BlankBuffer DEF OnDisk
<1> QED
  BY <1>1, <1>2, <1>3

\* The sizes of the device.
LEMMA ReachType ==
  ASSUME EngineInv PROVE Reach \in Size
<1>1. CASE type = Autodetect
  BY <1>1, SizeAssumption DEF Reach, Size
<1>2. CASE type # Autodetect
  <2>1. SizeOf[type] \in 0..Capacity
    BY <1>2, SizeAssumption DEF EngineInv
  <2> QED
    BY <2>1, <1>2 DEF Reach, Size
<1> QED
  BY <1>1, <1>2

LEMMA KeptType ==
  ASSUME EngineInv, NEW t \in Tracking
  PROVE  /\ Kept(t) \in Size
         /\ Kept(t) >= Reach /\ Kept(t) >= t.preserved
<1>1. Reach \in Nat /\ t.preserved \in Nat
      /\ Reach <= Capacity /\ t.preserved <= Capacity
  BY ReachType, SizeAssumption DEF Tracking, Size
<1> QED
  BY <1>1, SizeAssumption DEF Kept, Longer, Size
-----------------------------------------------------------------------------
(* The extent of the file.                                                 *)

\* initialize_extent_tracking keeps all that is not blank, and hashes the
\* extent or leaves the hash of the load.
LEMMA ExtentKnown ==
  ASSUME EngineInv, type # Autodetect,
         NEW t, NEW disk, NEW length, Tracks(t, disk, length), ~t.known,
         NEW data \in Buffer,
         \A k \in 1..Capacity : k > Reach => data[k] = t.baseline[k],
         NEW u, u = ExtentTracking(t, data, SizeOf[type])
  PROVE  /\ u \in Tracking /\ u.loaded = t.loaded /\ u.baseline = t.baseline
         /\ u.known /\ u.valid /\ Kept(u) \in Size
         /\ BlankBeyond(u.baseline, Kept(u))
         /\ \/ u.size = t.loaded /\ u.hash = t.hash
            \/ u.size = Kept(u) /\ u.hash = Prefix(data, u.size)
<1> DEFINE kept == Preserved(t, data, SizeOf[type])
           n == Longer(SizeOf[type], kept)
           fits == t.loaded <= n
<1>1. t \in Tracking /\ t.preserved = 0 /\ t.size = t.loaded
      /\ BlankBeyond(t.baseline, t.loaded)
  BY DEF Tracks
<1>2. Reach = SizeOf[type] /\ Reach \in Size
  BY ReachType DEF Reach
<1>3. t.loaded \in Size /\ t.preserved \in Size /\ Capacity \in Nat
  BY <1>1, SizeAssumption DEF Tracking
<1>4. kept \in {0, t.loaded} /\ kept \in Size
  BY <1>1, <1>3 DEF Preserved
<1>5. n \in Size /\ n >= Reach /\ n >= kept
  BY <1>2, <1>3, <1>4 DEF Longer, Size
<1>6. Prefix(data, n) \in Seq(Cell)
  BY <1>3, <1>5, PrefixType DEF Buffer, Size
<1>7. /\ u = [t EXCEPT !.preserved = kept, !.known = TRUE, !.valid = TRUE,
                       !.size = IF fits THEN n ELSE t.size,
                       !.hash = IF fits THEN Prefix(data, n) ELSE t.hash]
  BY DEF ExtentTracking
<1> HIDE DEF kept, n, fits
<1>8. /\ u \in Tracking /\ u.loaded = t.loaded /\ u.baseline = t.baseline
      /\ u.known /\ u.valid /\ u.preserved = kept
      /\ u.size = IF fits THEN n ELSE t.size
      /\ u.hash = IF fits THEN Prefix(data, n) ELSE t.hash
  BY <1>1, <1>4, <1>5, <1>6, <1>7 DEF Tracking
<1>9. Kept(u) = n
  BY <1>2, <1>8 DEF Kept, n
<1>10. BlankBeyond(u.baseline, n)
  <2> SUFFICES ASSUME NEW k \in 1..Capacity, k > n
               PROVE  t.baseline[k] = FF
    BY <1>8 DEF BlankBeyond
  <2>1. CASE k > t.loaded
    BY <2>1, <1>1 DEF BlankBeyond
  <2>2. CASE k <= t.loaded
    <3>1. t.loaded > SizeOf[type] /\ kept # t.loaded
      BY <2>2, <1>2, <1>3, <1>4, <1>5 DEF Size
    <3>2. ~(\E j \in (SizeOf[type] + 1)..t.loaded : data[j] # FF)
      BY <3>1 DEF kept, Preserved
    <3>3. k \in (SizeOf[type] + 1)..t.loaded
      BY <2>2, <1>2, <1>3, <1>5 DEF Size
    <3>4. data[k] = FF /\ k > Reach
      BY <3>2, <3>3, <1>2, <1>5 DEF Size
    <3> QED
      BY <3>4
  <2> QED
    BY <2>1, <2>2, <1>3 DEF Size
<1> QED
  BY <1>1, <1>5, <1>8, <1>9, <1>10

\* The same, with the check of a late discovery: Tracked is tracking that says
\* of the file what TracksFile says, and knows the extent.
LEMMA TrackedOK ==
  ASSUME EngineInv, type # Autodetect, TracksFile(tracking), BufferInv
  PROVE  /\ TracksFile(Tracked) /\ Tracked.known
         /\ ~wrote /\ ~cartridge.rtc => Tracked.valid
<1>1. CASE tracking.known
  BY <1>1 DEF Tracked, BufferInv
<1>2. CASE ~tracking.known
  <2> DEFINE u == ExtentTracking(tracking, mem, SizeOf[type])
             n == Longer(SizeOf[type], u.preserved)
             changed == \/ dirty \/ memory_dirty
                        \/ Prefix(mem, n) # Prefix(tracking.baseline, n)
  <2>1. Tracked = [u EXCEPT !.valid = ~changed]
    BY <1>2 DEF Tracked
  <2>2. /\ u \in Tracking /\ u.loaded = tracking.loaded
        /\ u.baseline = tracking.baseline
        /\ u.known /\ u.valid /\ Kept(u) \in Size
        /\ BlankBeyond(u.baseline, Kept(u))
        /\ \/ u.size = tracking.loaded /\ u.hash = tracking.hash
           \/ u.size = Kept(u) /\ u.hash = Prefix(mem, u.size)
    BY <1>2, ExtentKnown DEF TracksFile, BufferInv, EngineInv
  <2>3. n = Kept(u)
    BY DEF Kept, Reach
  <2> HIDE DEF u, n
  <2>4. changed \in BOOLEAN
    BY DEF EngineInv
  <2> HIDE DEF changed
  <2>5. /\ Tracked \in Tracking /\ Tracked.valid = ~changed
        /\ Tracked.loaded = u.loaded /\ Tracked.baseline = u.baseline
        /\ Tracked.known /\ Tracked.size = u.size /\ Tracked.hash = u.hash
        /\ Tracked.preserved = u.preserved
    BY <2>1, <2>2, <2>4 DEF Tracking
  <2>6. Kept(Tracked) = Kept(u)
    BY <2>5 DEF Kept
  <2>7. tracking.valid /\ tracking.size = tracking.loaded
        /\ tracking.hash = Prefix(tracking.baseline, tracking.size)
    BY <1>2 DEF TracksFile, Tracks
  <2>8. Tracked.valid => Tracked.hash = Prefix(Tracked.baseline, Tracked.size)
    BY <2>2, <2>3, <2>5, <2>7 DEF changed
  <2>9. Tracked.size = Tracked.loaded \/ Tracked.size <= Kept(Tracked)
    BY <2>2, <2>5, <2>6 DEF Size
  <2>10. TracksFile(Tracked)
    BY <2>2, <2>5, <2>6, <2>8, <2>9 DEF TracksFile, Tracks
  <2>11. ~wrote /\ ~cartridge.rtc => ~changed
    BY DEF BufferInv, changed
  <2> QED
    BY <2>5, <2>10, <2>11
<1> QED
  BY <1>1, <1>2

LEMMA NoTrackingType ==
  NoTracking \in Tracking /\ NoTracking.preserved = 0 /\ ~NoTracking.known
<1>1. << >> \in Seq(Cell)
  OBVIOUS
<1>2. 0 \in Size /\ Blank \in Buffer
  BY BlankBuffer, SizeAssumption DEF Size
<1> QED
  BY <1>1, <1>2 DEF NoTracking, Tracking

\* What a load tracks.
LEMMA LoadedOK ==
  ASSUME EngineInv, NEW n \in Size, NEW data \in Buffer, BlankBeyond(data, n)
  PROVE  Tracks(LoadedTracking(data, n), data, n)
         /\ LoadedTracking(data, n).valid
         /\ LoadedTracking(data, n).baseline = data
<1> DEFINE start == [NoTracking EXCEPT !.size = n, !.loaded = n, !.valid = TRUE,
                                       !.hash = Prefix(data, n),
                                       !.baseline = data]
           u == ExtentTracking(start, data, SizeOf[type])
<1>1. Prefix(data, n) \in Seq(Cell)
  BY PrefixType, SizeAssumption DEF Buffer, Size
<1>2. NoTracking \in Tracking /\ NoTracking.preserved = 0 /\ ~NoTracking.known
  BY NoTrackingType
<1>3. /\ start \in Tracking /\ start.size = n /\ start.hash = Prefix(data, n)
      /\ start.loaded = n /\ start.preserved = 0 /\ ~start.known /\ start.valid
      /\ start.baseline = data
  BY <1>1, <1>2, SizeAssumption DEF Tracking
<1>7. LoadedTracking(data, n) = IF type = Autodetect THEN start ELSE u
  BY DEF LoadedTracking
<1> HIDE DEF start
<1>4. Tracks(start, data, n) /\ ~start.known
  BY <1>3 DEF Tracks
<1>5. CASE type = Autodetect
  BY <1>3, <1>4, <1>5, <1>7
<1>6. CASE type # Autodetect
  <2>1. LoadedTracking(data, n) = u
    BY <1>6, <1>7
  <2>2. /\ u \in Tracking /\ u.loaded = start.loaded /\ u.baseline = start.baseline
        /\ u.known /\ u.valid /\ Kept(u) \in Size
        /\ BlankBeyond(u.baseline, Kept(u))
        /\ \/ u.size = start.loaded /\ u.hash = start.hash
           \/ u.size = Kept(u) /\ u.hash = Prefix(data, u.size)
    BY <1>3, <1>4, <1>6, ExtentKnown
  <2> HIDE DEF u
  <2>3. u.size = u.loaded \/ u.size <= Kept(u)
    BY <2>2, SizeAssumption DEF Size
  <2>4. Tracks(u, data, n)
    BY <2>2, <2>3, <1>3, <1>4, <1>6 DEF Tracks
  <2> QED
    BY <2>1, <2>2, <2>4, <1>3
<1> QED
  BY <1>5, <1>6
-----------------------------------------------------------------------------
(* The end and the beginning of a session.                                 *)

LEMMA InitRegion == Init => RegionInv
<1> SUFFICES ASSUME Init PROVE RegionInv
  OBVIOUS
<1>1. file \in Seq(Cell) \cup {NoFile} /\ legacy \in Seq(Cell) \cup {NoFile}
  BY SizeAssumption DEF Init
<1>2. FilesInv
  BY <1>1 DEF Init, FilesInv
<1>3. EngineInv
  <2>1. frames \in 0..(Interval + 1) /\ faults \in 0..MaxFaults
    BY SizeAssumption DEF Init
  <2>2. mem \in Buffer /\ tracking \in Tracking
    BY NoTrackingType, BlankBuffer DEF Init
  <2> QED
    BY <2>1, <2>2 DEF Init, EngineInv
<1>4. RunInv /\ LoadInv
  BY DEF Init, RunInv, LoadInv, InSession
<1>5. ImportKeepsClock /\ image = OnDisk
  BY DEF Init, ImportKeepsClock
<1> QED
  BY <1>2, <1>3, <1>4, <1>5 DEF RegionInv

\* The end of a session, whatever it leaves on disk.
LEMMA ClosedKeeps ==
  ASSUME RegionInv, Closed, UNCHANGED <<legacy, clock, cartridge, imported>>,
         file' \in Seq(Cell) \cup {NoFile}, faults' \in 0..MaxFaults,
         image' = OnDisk'
  PROVE  RegionInv'
<1>1. FilesInv'
  BY DEF RegionInv, FilesInv
<1>2. EngineInv'
  <2>1. frames' \in 0..(Interval + 1)
    BY SizeAssumption DEF Closed
  <2>2. mem' \in Buffer /\ tracking' \in Tracking
    BY NoTrackingType, BlankBuffer DEF Closed
  <2> QED
    BY <2>1, <2>2 DEF RegionInv, EngineInv, Closed
<1>3. RunInv' /\ LoadInv'
  BY DEF Closed, RunInv, LoadInv, InSession
<1>4. ImportKeepsClock'
  BY DEF RegionInv, ImportKeepsClock, HasClock
<1> QED
  BY <1>1, <1>2, <1>3, <1>4 DEF RegionInv

\* The end of a load that has put data into the buffer: n cells of it are on
\* disk.
LEMMA LoadedKeeps ==
  ASSUME RegionInv, ~InSession, NEW data \in Buffer, NEW n \in Size,
         Loaded(data, n), UNCHANGED <<legacy, cartridge, faults, image>>,
         FilesInv', imported' \in BOOLEAN, ImportKeepsClock',
         OnDisk' = data, FileLength' = n, BlankBeyond(data, n), image = data
  PROVE  RegionInv'
<1>1. Tracks(LoadedTracking(data, n), data, n)
      /\ LoadedTracking(data, n).valid
      /\ LoadedTracking(data, n).baseline = data
  BY LoadedOK DEF RegionInv
<1>2. /\ phase' = "running" /\ mem' = data /\ frames' = 0
      /\ tracking' = LoadedTracking(data, n)
      /\ UNCHANGED <<type, dirty, memory_dirty, wrote>>
  BY DEF Loaded
<1>3. ~dirty /\ ~memory_dirty /\ ~wrote
  BY DEF RegionInv, LoadInv
<1>4. EngineInv'
  <2>1. tracking' \in Tracking
    BY <1>1, <1>2 DEF Tracks
  <2> QED
    BY <2>1, <1>2, SizeAssumption DEF RegionInv, EngineInv
<1>5. TracksFile(tracking)'
  BY <1>1, <1>2 DEF TracksFile, Tracks, Kept, Reach
<1>6. BufferInv'
  BY <1>1, <1>2, <1>3 DEF BufferInv
<1>7. RunInv' /\ LoadInv'
  BY <1>2, <1>5, <1>6 DEF RunInv, LoadInv, InSession
<1> QED
  BY <1>4, <1>7 DEF RegionInv
-----------------------------------------------------------------------------
(* Loading.                                                                *)

\* The buffer that an import fills.
LEMMA BatteryBuffer ==
  ASSUME FilesInv, legacy # NoFile, Battery <= Capacity
  PROVE  /\ Battery \in Size
         /\ Filled(Prefix(legacy, Battery)) \in Buffer
         /\ BlankBeyond(Filled(Prefix(legacy, Battery)), Battery)
<1>1. legacy \in Seq(Cell)
  BY DEF FilesInv
<1>2. /\ Prefix(legacy, Battery) \in Seq(Cell)
      /\ Len(Prefix(legacy, Battery)) = Battery
  BY <1>1, BatteryType, PrefixType
<1> QED
  BY <1>1, <1>2, BatteryType, FilledType, SizeAssumption DEF Size

LEMMA OpenKeeps == ASSUME RegionInv, Open PROVE RegionInv'
<1>1. FilesInv' /\ ImportKeepsClock' /\ OnDisk' = OnDisk
  BY DEF Open, region, history, RegionInv, FilesInv, ImportKeepsClock, HasClock,
         OnDisk, Battery
<1>2. EngineInv'
  BY DEF Open, history, RegionInv, EngineInv, FilesInv
<1>3. RunInv' /\ LoadInv'
  BY DEF Open, history, RegionInv, RunInv, LoadInv, InSession
<1> QED
  BY <1>1, <1>2, <1>3 DEF RegionInv, Open, history

LEMMA LoadCanonicalKeeps == ASSUME RegionInv, LoadCanonical PROVE RegionInv'
<1>1. file \in Seq(Cell) /\ ~InSession /\ file # NoFile
  BY DEF RegionInv, FilesInv, LoadCanonical, InSession
<1>2. OnDisk' = OnDisk
  BY DEF LoadCanonical, region, OnDisk, Battery, HasClock
<1>3. CASE Len(file) <= Capacity /\ Loaded(Filled(file), Len(file))
  <2>1. OnDisk = Filled(file) /\ Len(file) \in Size
        /\ FileLength' = Len(file)
    BY <1>1, <1>3, SizeAssumption
    DEF OnDisk, FileLength, LoadCanonical, region, Size
  <2>2. FilesInv' /\ ImportKeepsClock' /\ imported' \in BOOLEAN
    BY DEF LoadCanonical, region, RegionInv, FilesInv, ImportKeepsClock,
           HasClock, EngineInv
  <2> QED
    BY <1>1, <1>2, <1>3, <2>1, <2>2, FilledType, LoadedKeeps
    DEF LoadCanonical, region, RegionInv
<1>4. CASE Closed
  BY <1>2, <1>4, ClosedKeeps
  DEF LoadCanonical, region, RegionInv, FilesInv, EngineInv
<1> QED
  BY <1>3, <1>4 DEF LoadCanonical

LEMMA LoadNothingKeeps == ASSUME RegionInv, LoadNothing PROVE RegionInv'
<1>1. /\ ~InSession /\ mem = Blank /\ file = NoFile /\ legacy = NoFile
      /\ Loaded(mem, 0)
  BY DEF RegionInv, LoadInv, LoadNothing, InSession
<1>2. OnDisk = Blank /\ OnDisk' = Blank /\ FileLength' = 0 /\ 0 \in Size
      /\ BlankBeyond(Blank, 0)
  BY <1>1, SizeAssumption
  DEF OnDisk, LoadNothing, region, FileLength, Size, BlankBeyond, Blank
<1>3. FilesInv' /\ ImportKeepsClock' /\ imported' \in BOOLEAN
  BY DEF LoadNothing, region, RegionInv, FilesInv, ImportKeepsClock,
         HasClock, EngineInv
<1> QED
  BY <1>1, <1>2, <1>3, BlankBuffer, LoadedKeeps
  DEF LoadNothing, region, RegionInv

LEMMA ImportLegacyKeeps == ASSUME RegionInv, ImportLegacy PROVE RegionInv'
<1>1. OnDisk' = OnDisk /\ HasClock' = HasClock /\ Battery' = Battery
  BY DEF ImportLegacy, region, OnDisk, Battery, HasClock
<1>2. CASE Battery <= Capacity /\ ~Closed
  <2>1. /\ mem' = Filled(Prefix(legacy, Battery))
        /\ phase' = IF HasClock THEN "clock" ELSE "copy"
        /\ UNCHANGED <<type, dirty, memory_dirty, tracking, frames, wrote,
                       faults, image, imported, file, legacy, clock,
                       cartridge>>
        /\ phase = "choose" /\ file = NoFile /\ legacy # NoFile
    BY <1>2, SizeAssumption DEF ImportLegacy, region, ImportOrder
  <2>2. FilesInv' /\ ImportKeepsClock'
    BY <2>1, <1>1 DEF RegionInv, FilesInv, ImportKeepsClock
  <2>3. EngineInv'
    BY <2>1, <1>2, BatteryBuffer DEF RegionInv, EngineInv
  <2>4. RunInv' /\ LoadInv'
    BY <2>1, <1>1, <1>2 DEF RegionInv, RunInv, LoadInv, InSession
  <2> QED
    BY <1>1, <2>1, <2>2, <2>3, <2>4 DEF RegionInv
<1>3. CASE Closed
  BY <1>1, <1>3, ClosedKeeps
  DEF ImportLegacy, region, RegionInv, FilesInv, EngineInv
<1> QED
  BY <1>2, <1>3 DEF ImportLegacy, RegionInv

LEMMA ImportFailsKeeps == ASSUME RegionInv, ImportFails PROVE RegionInv'
<1>1. OnDisk' = OnDisk
  BY DEF ImportFails, region, OnDisk, Battery, HasClock
<1>2. faults' \in 0..MaxFaults
  BY SizeAssumption DEF ImportFails, RegionInv, EngineInv
<1> QED
  BY <1>1, <1>2, ClosedKeeps DEF ImportFails, region, RegionInv, FilesInv

LEMMA ImportWriteKeeps == ASSUME RegionInv, ImportWrite PROVE RegionInv'
<1>1. /\ ~InSession /\ file = NoFile /\ legacy # NoFile /\ Battery <= Capacity
      /\ mem = Filled(Prefix(legacy, Battery))
      /\ phase = "clock" => HasClock
      /\ phase = "copy" /\ HasClock => clock = legacy[Len(legacy)]
  BY DEF RegionInv, LoadInv, ImportWrite, InSession
<1>2. /\ UNCHANGED <<legacy, cartridge, faults, image>>
      /\ HasClock' = HasClock /\ Battery' = Battery
  BY DEF ImportWrite, HasClock, Battery
<1>3. legacy \in Seq(Cell)
  BY <1>1 DEF RegionInv, FilesInv
<1>4. CASE phase = "clock"
  <2>1. ImportOrder = <<"clock", "copy">>
    BY <1>1, <1>4 DEF ImportOrder
  <2>2. phase' = "copy" /\ WriteClock /\ UNCHANGED <<engine, tracking, frames, wrote>>
    <3>1. PICK k \in 1..Len(ImportOrder) :
            /\ phase = ImportOrder[k]
            /\ IF phase = "clock" THEN WriteClock ELSE WriteSave
            /\ IF k = Len(ImportOrder) THEN Loaded(mem, Battery)
               ELSE /\ phase' = ImportOrder[k + 1]
                    /\ UNCHANGED <<engine, tracking, frames, wrote>>
      BY DEF ImportWrite
    <3>2. k = 1 /\ Len(ImportOrder) = 2 /\ ImportOrder[2] = "copy"
      BY <1>4, <2>1, <3>1
    <3> QED
      BY <1>4, <3>1, <3>2
  <2>3. clock' = legacy[Len(legacy)] /\ UNCHANGED <<file, imported>>
    BY <2>2 DEF WriteClock
  <2>4. clock' \in Cell
    BY <1>1, <1>3, <1>4, <2>3, BatteryType
  <2>5. FilesInv' /\ ImportKeepsClock'
    BY <1>2, <2>3, <2>4 DEF RegionInv, FilesInv, ImportKeepsClock
  <2>6. EngineInv'
    BY <1>2, <2>2, <2>3 DEF RegionInv, EngineInv, engine
  <2>7. RunInv' /\ LoadInv'
    BY <1>1, <1>2, <1>4, <2>2, <2>3 DEF RegionInv, RunInv, LoadInv, InSession,
       engine
  <2>8. OnDisk' = OnDisk
    BY <1>2, <2>3 DEF OnDisk
  <2> QED
    BY <1>2, <2>5, <2>6, <2>7, <2>8 DEF RegionInv
<1>5. CASE phase = "copy"
  <2>1. WriteSave /\ Loaded(mem, Battery)
    <3>1. PICK k \in 1..Len(ImportOrder) :
            /\ phase = ImportOrder[k]
            /\ IF phase = "clock" THEN WriteClock ELSE WriteSave
            /\ IF k = Len(ImportOrder) THEN Loaded(mem, Battery)
               ELSE /\ phase' = ImportOrder[k + 1]
                    /\ UNCHANGED <<engine, tracking, frames, wrote>>
      BY DEF ImportWrite
    <3>2. k = Len(ImportOrder)
      BY <1>5, <3>1 DEF ImportOrder
    <3> QED
      BY <1>5, <3>1, <3>2
  <2>2. /\ file' = Prefix(mem, Battery) /\ imported' = TRUE
        /\ UNCHANGED clock
    BY <2>1 DEF WriteSave
  <2>3. Battery \in Size /\ mem \in Buffer /\ BlankBeyond(mem, Battery)
    BY <1>1, BatteryBuffer DEF RegionInv
  <2>4. /\ file' \in Seq(Cell) /\ file' # NoFile /\ Len(file') = Battery
        /\ Filled(file') = mem
    <3>1. \A k \in 1..Battery : mem[k] \in Cell
      BY <2>3, SizeAssumption DEF Buffer, Size
    <3> QED
      BY <2>2, <2>3, <3>1, PrefixType, FilledPrefix, SizeAssumption DEF Size
  <2>5. OnDisk' = mem /\ FileLength' = Battery
    BY <2>4 DEF OnDisk, FileLength
  <2>6. image = mem
    BY <1>1 DEF RegionInv, OnDisk
  <2>7. FilesInv' /\ ImportKeepsClock'
    BY <1>1, <1>2, <1>5, <2>2, <2>4 DEF RegionInv, FilesInv, ImportKeepsClock
  <2> QED
    BY <1>1, <1>2, <2>1, <2>2, <2>3, <2>5, <2>6, <2>7, LoadedKeeps
<1> QED
  BY <1>4, <1>5 DEF ImportWrite
-----------------------------------------------------------------------------
(* The session runs.                                                       *)

\* A step that leaves the file and its tracking alone.
LEMMA PlayKeeps ==
  ASSUME RegionInv, InSession, InSession', EngineInv', BufferInv',
         UNCHANGED <<region, tracking, image, imported>>,
         Reach' >= Reach, type # Autodetect => type' # Autodetect
  PROVE  RegionInv'
<1>1. FilesInv' /\ ImportKeepsClock' /\ OnDisk' = OnDisk
      /\ FileLength' = FileLength
  BY DEF region, RegionInv, FilesInv, ImportKeepsClock, HasClock, OnDisk,
         Battery, FileLength
<1>2. TracksFile(tracking) /\ tracking' = tracking
  BY DEF RegionInv, RunInv
<1>3. tracking \in Tracking /\ EngineInv
  BY DEF RegionInv, EngineInv
<1>4. Kept(tracking) \in Nat /\ Kept(tracking)' \in Nat
      /\ Kept(tracking)' >= Kept(tracking)
  <2>1. Reach \in Nat /\ tracking.preserved \in Nat
    BY <1>3, ReachType, SizeAssumption DEF Tracking, Size
  <2>2. Reach' \in Nat
    <3>1. CASE type' = Autodetect
      BY <3>1 DEF Reach
    <3>2. CASE type' # Autodetect
      <4>1. SizeOf[type'] \in 0..Capacity
        BY <3>2, SizeAssumption DEF EngineInv
      <4> QED
        BY <3>2, <4>1, SizeAssumption DEF Reach
    <3> QED
      BY <3>1, <3>2
  <2> QED
    BY <2>1, <2>2, <1>2 DEF Kept, Longer
<1>5. TracksFile(tracking)'
  <2>1. BlankBeyond(tracking.baseline, Kept(tracking)) =>
          BlankBeyond(tracking.baseline, Kept(tracking)')
    BY <1>4, SizeAssumption DEF BlankBeyond
  <2>2. tracking.size \in Nat
    BY <1>3, SizeAssumption DEF Tracking, Size
  <2>3. tracking.size <= Kept(tracking) => tracking.size <= Kept(tracking)'
    BY <1>4, <2>2
  <2> QED
    BY <1>1, <1>2, <2>1, <2>3 DEF TracksFile, Tracks, BlankBeyond
<1>6. RunInv' /\ LoadInv'
  BY <1>5 DEF RunInv, LoadInv
<1> QED
  BY <1>1, <1>6 DEF RegionInv

LEMMA DetectKeeps == ASSUME RegionInv, Detect PROVE RegionInv'
<1>1. InSession /\ InSession' /\ EngineInv /\ Reach = 0
  BY DEF RegionInv, Detect, InSession, Reach
<1>2. EngineInv' /\ type' # Autodetect
  BY <1>1, SizeAssumption DEF Detect, EngineInv, history
<1>3. Reach' \in Nat
  BY <1>2, SizeAssumption DEF Reach, Detect
<1>4. BufferInv'
  BY <1>1, <1>3 DEF RegionInv, RunInv, BufferInv, Detect, region, history
<1> QED
  BY <1>1, <1>2, <1>3, <1>4, PlayKeeps DEF Detect, history

LEMMA GameWriteKeeps == ASSUME RegionInv, GameWrite PROVE RegionInv'
<1>1. InSession /\ InSession' /\ EngineInv /\ BufferInv
  BY DEF RegionInv, RunInv, GameWrite, InSession
<1>2. PICK k \in 1..SizeOf[type], b \in Cell : mem' = [mem EXCEPT ![k] = b]
  BY DEF GameWrite
<1>3. Reach = SizeOf[type] /\ Reach' = Reach /\ Reach \in Nat
  BY <1>1, ReachType, SizeAssumption DEF GameWrite, Reach, Size
<1>4. EngineInv'
  BY <1>1, <1>2 DEF GameWrite, EngineInv, Buffer
<1>5. BufferInv'
  <2>1. \A j \in 1..Capacity : j > Reach => mem'[j] = mem[j]
    BY <1>1, <1>2, <1>3 DEF EngineInv, Buffer
  <2> QED
    BY <1>1, <1>3, <2>1 DEF BufferInv, GameWrite
<1> QED
  BY <1>1, <1>3, <1>4, <1>5, PlayKeeps DEF GameWrite

LEMMA SavedataUpdatedKeeps ==
  ASSUME RegionInv, SavedataUpdated PROVE RegionInv'
<1>1. InSession /\ InSession' /\ EngineInv /\ BufferInv
  BY DEF RegionInv, RunInv, SavedataUpdated, InSession
<1>2. EngineInv'
  BY <1>1 DEF SavedataUpdated, EngineInv, history
<1>3. Reach' = Reach /\ Reach \in Nat
  BY <1>1, ReachType, SizeAssumption DEF SavedataUpdated, Reach, Size
<1>4. BufferInv'
  BY <1>1, <1>3 DEF BufferInv, SavedataUpdated, region, history
<1> QED
  BY <1>1, <1>2, <1>3, <1>4, PlayKeeps DEF SavedataUpdated, history

\* merge_savedata_type never takes cells away.
LEMMA MergeGrows ==
  ASSUME EngineInv, NEW saved \in SavedTypes, type' = MergeType(type, saved)
  PROVE  /\ type' \in Types \cup {Autodetect}
         /\ type # Autodetect => type' # Autodetect
         /\ Reach' >= Reach
<1>1. saved \in Types \cup {Autodetect} /\ type \in Types \cup {Autodetect}
  BY SizeAssumption DEF EngineInv
<1>2. type' \in {type, saved} /\ (type # Autodetect => type' # Autodetect)
  BY DEF MergeType
<1>3. \A t \in Types : SizeOf[t] \in Nat
  BY SizeAssumption
<1>4. CASE type = Autodetect
  BY <1>1, <1>2, <1>3, <1>4 DEF Reach
<1>5. CASE type # Autodetect
  BY <1>1, <1>2, <1>3, <1>5 DEF Reach, MergeType
<1> QED
  BY <1>1, <1>2, <1>4, <1>5

LEMMA LoadStateKeeps == ASSUME RegionInv, LoadState PROVE RegionInv'
<1>1. InSession /\ InSession' /\ EngineInv /\ BufferInv
  BY DEF RegionInv, RunInv, LoadState, InSession
<1>2. PICK saved \in SavedTypes : type' = MergeType(type, saved)
  BY DEF LoadState
<1>3. /\ type' \in Types \cup {Autodetect}
      /\ type # Autodetect => type' # Autodetect
      /\ Reach' >= Reach
  BY <1>1, <1>2, MergeGrows
<1>4. EngineInv'
  BY <1>1, <1>3 DEF LoadState, EngineInv, history
<1>5. Reach \in Nat /\ Reach' \in Nat
  <2>1. Reach \in Nat
    BY <1>1, ReachType, SizeAssumption DEF Size
  <2>2. CASE type' = Autodetect
    BY <2>1, <2>2 DEF Reach
  <2>3. CASE type' # Autodetect
    BY <2>1, <2>3, <1>3, SizeAssumption DEF Reach
  <2> QED
    BY <2>1, <2>2, <2>3
<1>6. BufferInv'
  BY <1>1, <1>3, <1>5, SizeAssumption
  DEF BufferInv, LoadState, region, history
<1> QED
  BY <1>1, <1>3, <1>4, <1>6, PlayKeeps DEF LoadState, history

LEMMA FrameKeeps == ASSUME RegionInv, Frame PROVE RegionInv'
<1>1. InSession /\ EngineInv /\ BufferInv
  BY DEF RegionInv, RunInv, Frame, InSession
<1>2. InSession'
  BY DEF Frame, InSession
<1>3. frames' \in 0..(Interval + 1)
  BY <1>1, SizeAssumption DEF Frame, EngineInv
<1>4. cartridge.rtc \in BOOLEAN
  BY DEF RegionInv, FilesInv
<1>5. EngineInv'
  BY <1>1, <1>3, <1>4 DEF Frame, EngineInv, history
<1>6. Reach' = Reach /\ Reach \in Nat
  BY <1>1, ReachType, SizeAssumption DEF Frame, Reach, Size
<1>7. BufferInv'
  BY <1>1, <1>6 DEF BufferInv, Frame, region, history
<1> QED
  BY <1>1, <1>2, <1>5, <1>6, <1>7, PlayKeeps DEF Frame, history
-----------------------------------------------------------------------------
(* Flushing.                                                               *)

LEMMA ExtentKept ==
  ASSUME RegionInv, InSession, type # Autodetect
  PROVE  /\ TracksFile(Tracked) /\ Tracked.known
         /\ Tracked.baseline = tracking.baseline
         /\ Extent = Kept(Tracked) /\ Extent \in Size
         /\ Extent >= Reach /\ BlankBeyond(mem, Extent)
<1>1. TracksFile(tracking) /\ BufferInv /\ EngineInv
  BY DEF RegionInv, RunInv
<1>2. TracksFile(Tracked) /\ Tracked.known
  BY <1>1, TrackedOK
<1>3. Tracked.baseline = tracking.baseline
  BY <1>1, <1>2 DEF TracksFile, Tracks
<1>4. Extent = Kept(Tracked)
  BY DEF Extent, Kept, Reach
<1>5. Extent \in Size /\ Extent >= Reach
  BY <1>1, <1>2, <1>4, KeptType DEF TracksFile, Tracks
<1>6. BlankBeyond(tracking.baseline, Extent)
  BY <1>2, <1>3, <1>4 DEF TracksFile, Tracks
<1>7. Reach \in Nat /\ Extent \in Nat
  BY <1>1, <1>5, ReachType, SizeAssumption DEF Size
<1>8. BlankBeyond(mem, Extent)
  BY <1>1, <1>5, <1>6, <1>7 DEF BlankBeyond, BufferInv
<1> QED
  BY <1>2, <1>3, <1>4, <1>5, <1>8

\* A write puts the whole buffer on disk.
LEMMA WrittenOK ==
  ASSUME RegionInv, InSession, type # Autodetect
  PROVE  /\ Prefix(mem, Extent) \in Seq(Cell) /\ Prefix(mem, Extent) # NoFile
         /\ Len(Prefix(mem, Extent)) = Extent
         /\ Filled(Prefix(mem, Extent)) = mem
         /\ Tracks(Written(Extent), mem, Extent) /\ Written(Extent).valid
<1>1. mem \in Buffer /\ EngineInv
  BY DEF RegionInv, EngineInv
<1>2. /\ TracksFile(Tracked) /\ Tracked.known
      /\ Extent = Kept(Tracked) /\ Extent \in Size
      /\ BlankBeyond(mem, Extent)
  BY ExtentKept
<1>3. \A k \in 1..Extent : mem[k] \in Cell
  BY <1>1, <1>2, SizeAssumption DEF Buffer, Size
<1>4. /\ Prefix(mem, Extent) \in Seq(Cell) /\ Prefix(mem, Extent) # NoFile
      /\ Len(Prefix(mem, Extent)) = Extent
      /\ Filled(Prefix(mem, Extent)) = mem
  BY <1>1, <1>2, <1>3, PrefixType, FilledPrefix, SizeAssumption DEF Size
<1> DEFINE t == Tracked
           u == Written(Extent)
<1>5. t \in Tracking
  BY <1>2 DEF TracksFile, Tracks
<1>6. u = [t EXCEPT !.hash = Prefix(mem, Extent), !.size = Extent,
                    !.loaded = Extent, !.valid = TRUE, !.baseline = mem]
  BY DEF Written
<1> HIDE DEF t, u
<1>7. /\ u \in Tracking /\ u.hash = Prefix(mem, Extent) /\ u.size = Extent
      /\ u.loaded = Extent /\ u.valid /\ u.baseline = mem
      /\ u.known = t.known /\ u.preserved = t.preserved
  BY <1>1, <1>2, <1>4, <1>5, <1>6 DEF Tracking
<1>8. Kept(u) = Extent /\ u.known
  BY <1>2, <1>7 DEF Kept, t
<1>9. Tracks(u, mem, Extent)
  BY <1>2, <1>7, <1>8 DEF Tracks
<1> QED
  BY <1>4, <1>7, <1>9 DEF u

\* Where nothing is written the file stands for the buffer already.
LEMMA CurrentOK ==
  ASSUME RegionInv, InSession, ~NeedsWrite
  PROVE  mem = tracking.baseline
<1>1. TracksFile(tracking) /\ BufferInv /\ EngineInv
  BY DEF RegionInv, RunInv
<1>2. mem \in Buffer /\ tracking.baseline \in Buffer
  BY <1>1 DEF EngineInv, TracksFile, Tracks, Tracking
<1>3. CASE type = Autodetect
  <2>1. Reach = 0
    BY <1>3 DEF Reach
  <2> QED
    BY <1>1, <1>2, <2>1, BufferEqual DEF BufferInv
<1>4. CASE type # Autodetect
  <2>1. /\ TracksFile(Tracked) /\ Tracked.baseline = tracking.baseline
        /\ Extent \in Size /\ Extent >= Reach
    BY <1>4, ExtentKept
  <2>2. Deferred(Tracked, Extent) \/ Current(Tracked, Extent)
    BY <1>4 DEF NeedsWrite
  <2>3. Prefix(mem, Extent) = Prefix(tracking.baseline, Extent)
    BY <2>1, <2>2 DEF Deferred, Current, TracksFile, Tracks
  <2>4. \A k \in 1..Capacity : k > Extent => mem[k] = tracking.baseline[k]
    <3>1. Reach \in Nat /\ Extent \in Nat
      BY <1>1, <2>1, ReachType, SizeAssumption DEF Size
    <3> QED
      BY <1>1, <2>1, <3>1 DEF BufferInv
  <2> QED
    BY <1>2, <2>1, <2>3, <2>4, SamePrefix
<1> QED
  BY <1>3, <1>4

LEMMA FlushRegionKeeps == ASSUME RegionInv, FlushRegion PROVE RegionInv'
<1>1. InSession /\ InSession' /\ EngineInv /\ TracksFile(tracking) /\ BufferInv
  BY DEF RegionInv, RunInv, FlushRegion, InSession
<1>2. /\ UNCHANGED <<legacy, clock, cartridge, mem, type, dirty, wrote, imported>>
      /\ image' = mem
      /\ memory_dirty' \in {FALSE, memory_dirty}
      /\ frames' \in {0, frames} /\ faults' \in 0..MaxFaults
      /\ phase' = "running"
  <2>1. faults' = faults \/ (faults < MaxFaults /\ faults' = faults + 1)
    BY DEF FlushRegion
  <2>2. faults' \in 0..MaxFaults
    BY <1>1, <2>1, SizeAssumption DEF EngineInv
  <2>3. memory_dirty' \in {FALSE, memory_dirty} /\ frames' \in {0, frames}
    BY DEF FlushRegion
  <2> QED
    BY <2>2, <2>3 DEF FlushRegion
<1>3. mem \in Buffer /\ EngineInv
  BY DEF RegionInv, EngineInv
<1>4. HasClock' = HasClock /\ Battery' = Battery
  BY <1>2 DEF HasClock, Battery
<1>5. /\ file' \in Seq(Cell) \cup {NoFile}
      /\ TracksFile(tracking)' /\ OnDisk' = mem
      /\ tracking'.baseline = mem
      /\ ~wrote /\ ~cartridge.rtc => tracking'.valid
  <2>1. CASE NeedsWrite
    <3>1. type # Autodetect
      BY <2>1 DEF NeedsWrite
    <3>2. file' = Prefix(mem, Extent) /\ tracking' = Written(Extent)
      BY <2>1 DEF FlushRegion
    <3>3. /\ Prefix(mem, Extent) \in Seq(Cell) /\ Prefix(mem, Extent) # NoFile
          /\ Len(Prefix(mem, Extent)) = Extent
          /\ Filled(Prefix(mem, Extent)) = mem
          /\ Tracks(Written(Extent), mem, Extent) /\ Written(Extent).valid
      BY <1>1, <3>1, WrittenOK
    <3>4. OnDisk' = mem /\ FileLength' = Extent
      BY <3>2, <3>3 DEF OnDisk, FileLength
    <3>5. Tracks(tracking', mem, Extent)
      BY <3>2, <3>3
    <3>6. TracksFile(tracking)'
      BY <1>2, <3>4, <3>5 DEF TracksFile, Tracks, Kept, Reach
    <3>7. tracking'.baseline = mem
      BY <3>5 DEF Tracks
    <3> QED
      BY <3>2, <3>3, <3>4, <3>6, <3>7
  <2>2. CASE ~NeedsWrite
    <3>1. /\ file' = file
          /\ tracking' = IF type = Autodetect THEN tracking ELSE Tracked
      BY <2>2 DEF FlushRegion
    <3>2. mem = tracking.baseline
      BY <1>1, <2>2, CurrentOK
    <3>3. OnDisk' = OnDisk /\ FileLength' = FileLength
      BY <1>2, <1>4, <3>1 DEF OnDisk, FileLength
    <3>4. TracksFile(tracking') /\ (~wrote /\ ~cartridge.rtc => tracking'.valid)
      BY <1>1, <3>1, TrackedOK DEF BufferInv
    <3>5. TracksFile(tracking)'
      BY <1>2, <3>3, <3>4 DEF TracksFile, Tracks, Kept, Reach
    <3>6. OnDisk = mem /\ tracking'.baseline = mem
      BY <1>1, <3>2, <3>4 DEF TracksFile, Tracks
    <3> QED
      BY <3>1, <3>3, <3>4, <3>5, <3>6 DEF RegionInv, FilesInv
  <2> QED
    BY <2>1, <2>2
<1>6. FilesInv' /\ ImportKeepsClock'
  BY <1>2, <1>4, <1>5 DEF RegionInv, FilesInv, ImportKeepsClock
<1>7. EngineInv'
  <2>1. tracking' \in Tracking
    BY <1>5 DEF TracksFile, Tracks
  <2>2. frames' \in 0..(Interval + 1)
    BY <1>1, <1>2, SizeAssumption DEF EngineInv
  <2> QED
    BY <1>1, <1>2, <2>1, <2>2 DEF EngineInv
<1>8. BufferInv'
  <2>1. ~wrote /\ ~cartridge.rtc => ~dirty' /\ ~memory_dirty'
    BY <1>1, <1>2 DEF BufferInv
  <2>2. mem' = tracking'.baseline
    BY <1>2, <1>5
  <2> QED
    BY <1>2, <1>5, <2>1, <2>2 DEF BufferInv
<1>9. RunInv' /\ LoadInv'
  BY <1>1, <1>5, <1>8 DEF RunInv, LoadInv
<1> QED
  BY <1>2, <1>5, <1>6, <1>7, <1>9 DEF RegionInv

LEMMA FlushFailsKeeps == ASSUME RegionInv, FlushFails PROVE RegionInv'
<1>1. InSession /\ InSession' /\ EngineInv /\ TracksFile(tracking) /\ BufferInv
  BY DEF RegionInv, RunInv, FlushFails, InSession
<1>2. /\ UNCHANGED <<file, legacy, clock, cartridge, mem, type, dirty,
                     memory_dirty, frames, image, wrote, imported>>
      /\ faults' \in 0..MaxFaults /\ phase' = "running"
      /\ tracking' = tracking \/ (type # Autodetect /\ tracking' = Tracked)
  BY <1>1, SizeAssumption
  DEF FlushFails, EngineInv, region, engine, history, TrackedOnFailure,
      NeedsWrite
<1>3. HasClock' = HasClock /\ Battery' = Battery
  BY <1>2 DEF HasClock, Battery
<1>4. OnDisk' = OnDisk /\ FileLength' = FileLength
  BY <1>2, <1>3 DEF OnDisk, FileLength
<1>5. TracksFile(tracking') /\ (~wrote /\ ~cartridge.rtc => tracking'.valid)
  BY <1>1, <1>2, TrackedOK DEF BufferInv
<1>6. TracksFile(tracking)' /\ tracking'.baseline = tracking.baseline
  BY <1>1, <1>2, <1>4, <1>5 DEF TracksFile, Tracks, Kept, Reach
<1>7. BufferInv'
  BY <1>1, <1>2, <1>5, <1>6 DEF BufferInv, Reach
<1>8. FilesInv' /\ ImportKeepsClock'
  BY <1>2, <1>3 DEF RegionInv, FilesInv, ImportKeepsClock
<1>9. EngineInv'
  BY <1>1, <1>2, <1>6 DEF EngineInv, TracksFile, Tracks
<1>10. RunInv' /\ LoadInv'
  BY <1>1, <1>6, <1>7 DEF RunInv, LoadInv
<1> QED
  BY <1>2, <1>4, <1>8, <1>9, <1>10 DEF RegionInv

LEMMA UnloadKeeps == ASSUME RegionInv, Unload PROVE RegionInv'
<1>1. InSession /\ EngineInv /\ TracksFile(tracking) /\ BufferInv
  BY DEF RegionInv, RunInv, Unload, InSession
<1>2. UNCHANGED <<legacy, clock, cartridge, faults, imported>> /\ image' = mem
      /\ Closed /\ file' = IF NeedsWrite THEN Prefix(mem, Extent) ELSE file
  BY DEF Unload
<1>3. HasClock' = HasClock /\ Battery' = Battery
  BY <1>2 DEF HasClock, Battery
<1>4. file' \in Seq(Cell) \cup {NoFile} /\ OnDisk' = mem
  <2>1. CASE NeedsWrite
    BY <1>1, <1>2, <2>1, WrittenOK DEF NeedsWrite, OnDisk
  <2>2. CASE ~NeedsWrite
    <3>1. OnDisk' = OnDisk
      BY <1>2, <1>3, <2>2 DEF OnDisk
    <3> QED
      BY <1>1, <1>2, <2>2, <3>1, CurrentOK
      DEF TracksFile, Tracks, RegionInv, FilesInv
  <2> QED
    BY <2>1, <2>2
<1> QED
  BY <1>1, <1>2, <1>4, ClosedKeeps DEF EngineInv

LEMMA KilledKeeps == ASSUME RegionInv, Killed PROVE RegionInv'
<1>1. OnDisk' = OnDisk
  BY DEF Killed, region, OnDisk, Battery, HasClock
<1> QED
  BY <1>1, ClosedKeeps DEF Killed, region, RegionInv, FilesInv, EngineInv

LEMMA NextRegion == RegionInv /\ [Next]_vars => RegionInv'
<1> SUFFICES ASSUME RegionInv, [Next]_vars PROVE RegionInv'
  OBVIOUS
<1>1. CASE UNCHANGED vars
  BY <1>1 DEF vars, region, engine, history, RegionInv, FilesInv, EngineInv,
     RunInv, LoadInv, ImportKeepsClock, OnDisk, HasClock, Battery, InSession,
     TracksFile, Tracks, BufferInv, FileLength, Kept, Reach
<1> QED
  BY <1>1, OpenKeeps, LoadCanonicalKeeps, LoadNothingKeeps, ImportLegacyKeeps,
     ImportFailsKeeps, ImportWriteKeeps, DetectKeeps, GameWriteKeeps,
     SavedataUpdatedKeeps, LoadStateKeeps, FrameKeeps, FlushRegionKeeps,
     FlushFailsKeeps, UnloadKeeps, KilledKeeps
  DEF Next

-----------------------------------------------------------------------------
(* Theorems.                                                               *)

\* The file always stands for the buffer of the last flush, for any files,
\* save types and failed writes (load_sram, initialize_extent_tracking and
\* dualboy_save_manager_flush): RegionInv is inductive.
THEOREM SaveStandsForBuffer == Spec => []SavedImage
<1>1. Spec => []RegionInv
  BY InitRegion, NextRegion, PTL DEF Spec
<1>2. RegionInv => SavedImage
  <2> SUFFICES ASSUME RegionInv PROVE SavedImage
    OBVIOUS
  <2>1. OnDisk \in Buffer
    BY OnDiskType DEF RegionInv
  <2>2. tracking \in Tracking
    BY DEF RegionInv, EngineInv
  <2>3. tracking.baseline \in Buffer
        /\ {tracking.size, tracking.loaded, tracking.preserved} \subseteq 0..Capacity
    BY <2>2 DEF Tracking, Size
  <2>4. InSession =>
          tracking.loaded = IF file = NoFile THEN 0 ELSE Len(file)
    BY DEF RegionInv, RunInv, TracksFile, Tracks, FileLength
  <2>5. TypeOK
    BY <2>1, <2>3, <2>4 DEF TypeOK, RegionInv, FilesInv, EngineInv
  <2>6. InSession /\ ~wrote => mem = image
    BY DEF RegionInv, RunInv, BufferInv, TracksFile, Tracks
  <2> QED
    BY <2>5, <2>6 DEF SavedImage, RegionInv
<1> QED
  BY <1>1, <1>2, PTL
\* A session in which the game wrote nothing never creates, grows or alters a
\* save file (Deferred and Current of dualboy_save_manager_flush).
THEOREM NothingIsWrittenUnasked == Spec => NoSpontaneousWrite
<1> DEFINE Quiet ==
      file' # file /\ InSession /\ ~wrote /\ ~cartridge.rtc =>
        /\ file # NoFile /\ Len(file') < Len(file)
        /\ Filled(file') = Filled(file)
<1>1. Spec => []RegionInv
  BY InitRegion, NextRegion, PTL DEF Spec
<1>2. RegionInv /\ [Next]_vars => [Quiet]_vars
  <2> SUFFICES ASSUME RegionInv, Next, file' # file, InSession, ~wrote,
                      ~cartridge.rtc
               PROVE  /\ file # NoFile /\ Len(file') < Len(file)
                      /\ Filled(file') = Filled(file)
    OBVIOUS
  <2>1. FlushRegion \/ Unload
    BY DEF Next, Open, LoadCanonical, LoadNothing, ImportLegacy, ImportFails,
       ImportWrite, Detect, GameWrite, SavedataUpdated, LoadState, Frame,
       FlushFails, Killed, region, InSession
  <2>2. NeedsWrite /\ type # Autodetect /\ file' = Prefix(mem, Extent)
    BY <2>1 DEF FlushRegion, Unload, NeedsWrite
  <2>3. TracksFile(tracking) /\ BufferInv /\ EngineInv
    BY DEF RegionInv, RunInv
  <2>4. /\ TracksFile(Tracked) /\ Tracked.known /\ Tracked.valid
        /\ Tracked.baseline = tracking.baseline
        /\ Extent = Kept(Tracked) /\ Extent \in Size
    BY <2>2, <2>3, ExtentKept, TrackedOK
  <2>5. mem = Tracked.baseline /\ Tracked.baseline = OnDisk
    BY <2>3, <2>4 DEF BufferInv, TracksFile, Tracks
  <2>6. ~(Extent > Tracked.size) /\ Tracked.size # Extent
    BY <2>2, <2>4, <2>5 DEF NeedsWrite, Deferred, Current, TracksFile, Tracks
  <2>7. Tracked.size \in Nat /\ Extent \in Nat
    BY <2>4, SizeAssumption DEF TracksFile, Tracks, Tracking, Size
  <2>8. Tracked.size = FileLength
    BY <2>4, <2>6, <2>7 DEF TracksFile, Tracks
  <2>9. file # NoFile /\ FileLength = Len(file) /\ Extent < Len(file)
    BY <2>6, <2>7, <2>8 DEF FileLength
  <2>10. Len(file') = Extent /\ Filled(file') = mem
    BY <2>2, WrittenOK
  <2> QED
    BY <2>5, <2>9, <2>10 DEF OnDisk
<1> QED
  BY <1>1, <1>2, PTL DEF Spec, NoSpontaneousWrite
=============================================================================
