---------------------------- MODULE FrameOutput -----------------------------
(***************************************************************************)
(* What a frame takes from and gives to the frontend: touch input, the     *)
(* composed picture, its geometry and the sound of a Game Boy pair         *)
(* (src/src/libretro/libretro_core.c, src/src/frontend/compositor.c and    *)
(* touch_cursor.c, src/src/engines/sameboy/sameboy_adapter.c).             *)
(*                                                                         *)
(* A pixel is named <<machine, x, y>>; a picture maps the points of the    *)
(* composite to pixels.  Coordinates that the frontend reports lie in      *)
(* 0 .. Scale - 1.  The microsecond clock enters only through the time     *)
(* since the last activity of a cursor, so each frame reads how far it has *)
(* moved since the frame before, or that there is no clock.                *)
(***************************************************************************)
EXTENDS Integers, Sequences, FiniteSets

CONSTANTS
  ScreenWidth, ScreenHeight,   \* DUALBOY_NDS_SCREEN_WIDTH, _HEIGHT
  OtherWidth, OtherHeight,     \* the one screen of the other platforms
  Displays,                    \* [mode, layout, swap] the options may give
  Sticks,                      \* per machine: [at, pressed, trigger], or Off
  Contacts,                    \* sequences of touched points, in 0..Scale-1
  Scale,                       \* the range of a coordinate
  Ticks, NoClock,              \* how far the clock moves in a frame, or none
  MotionPixels, FallbackFrames, TimeoutUsec,   \* DUALBOY_TOUCH_CURSOR_*
  FifoFrames,                  \* SAMEBOY_AUDIO_FIFO_FRAMES
  BufferFrames, DrainLimit,    \* DUALBOY_AUDIO_BUFFER_FRAMES, _DRAIN_LIMIT
  MaxSamples                   \* bound on the samples of a session

Consoles == {0, 1}

ASSUME ScreenAssumption ==
  /\ {ScreenWidth, ScreenHeight, OtherWidth, OtherHeight, Scale}
       \subseteq Nat \ {0}
  /\ \A contacts \in Contacts :
       contacts \in Seq((0 .. Scale - 1) \X (0 .. Scale - 1))
  /\ \A c \in Consoles : \A s \in Sticks[c] :
       s.at \in (0 .. Scale - 1) \X (0 .. Scale - 1)

ASSUME SoundAssumption ==
  /\ {FifoFrames, BufferFrames} \subseteq Nat \ {0}
  /\ {DrainLimit, MaxSamples} \subseteq Nat

Off == [at |-> <<0, 0>>, pressed |-> FALSE, trigger |-> FALSE, on |-> FALSE]
NoPoint == <<-1, -1>>
NoPicture == [size |-> <<0, 0>>, pixels |-> << >>]

VARIABLES
  option,      \* the display that the options ask for
  display,     \* session.display: the one the composite was made with
  composite,   \* session.composite
  announced,   \* the geometry the frontend was told last
  last,        \* core.last_geometry, NoPoint when it is not valid
  cursor,      \* core.touch_cursors
  stick,       \* the inputs and the clock of the last frame
  clock,
  touch,       \* where each console is touched
  finger,      \* the point of the composite that a contact touched
  video,       \* what the frontend shows: a picture and its cursors
  fifo,        \* the queue of sound
  made,        \* the samples made so far
  taken        \* the last sample taken from the queue or thrown away by a reset

pictureVars == <<option, display, composite, announced, last, finger, video>>
touchVars == <<cursor, stick, clock, touch>>
soundVars == <<fifo, made, taken>>
outputVars == <<pictureVars, touchVars, soundVars>>

NoCursor ==
  [sampled |-> FALSE, at |-> <<0, 0>>, activity |-> <<0, 0>>,
   pressed |-> FALSE, visible |-> FALSE, using_clock |-> FALSE,
   inactive |-> 0, elapsed |-> 0]

EmptyFifo ==
  [read |-> 0, count |-> 0, samples |-> [i \in 0 .. FifoFrames - 1 |-> 0]]
NoTouch == [c \in Consoles |-> NoPoint]
NoVideo == [picture |-> NoPicture, cursors |-> NoTouch]

OutputInit ==
  /\ option \in Displays /\ display = option
  /\ composite = NoPicture /\ announced = NoPoint /\ last = NoPoint
  /\ cursor = [c \in Consoles |-> NoCursor]
  /\ stick = [c \in Consoles |-> Off] /\ clock = NoClock
  /\ touch = NoTouch /\ finger = NoTouch /\ video = NoVideo
  /\ fifo = EmptyFifo /\ made = 0 /\ taken = 0
-----------------------------------------------------------------------------
(* The compositor.                                                         *)

FrameSize(nds) == IF nds THEN <<ScreenWidth, 2 * ScreenHeight>>
                         ELSE <<OtherWidth, OtherHeight>>

MachineForScreen(screen, d) == IF d.swap THEN 1 - screen ELSE screen
ScreenForMachine(m, d) == IF d.swap THEN 1 - m ELSE m
Selected(d) == IF d.mode = "player2" THEN 1 ELSE 0

Geometry(d, size) ==
  IF d.mode # "dual" THEN size
  ELSE IF d.layout = "top" THEN <<size[1], 2 * size[2]>>
  ELSE <<2 * size[1], size[2]>>

Points(size) == (0 .. size[1] - 1) \X (0 .. size[2] - 1)

\* Mutant: the swap of the screens is forgotten.
MapPoint_Unswapped(p, d, size) ==
  LET second == d.mode = "dual" /\ p[IF d.layout = "top" THEN 2 ELSE 1]
                                     >= size[IF d.layout = "top" THEN 2 ELSE 1]
  IN <<IF d.mode # "dual" THEN Selected(d) ELSE IF second THEN 1 ELSE 0,
       IF second /\ d.layout # "top" THEN p[1] - size[1] ELSE p[1],
       IF second /\ d.layout = "top" THEN p[2] - size[2] ELSE p[2]>>

\* dualboy_compositor_map_point: the pixel at a point of the composite.
MapPoint(p, d, size) ==
  LET second == d.mode = "dual" /\ p[IF d.layout = "top" THEN 2 ELSE 1]
                                     >= size[IF d.layout = "top" THEN 2 ELSE 1]
  IN <<IF d.mode # "dual" THEN Selected(d)
       ELSE MachineForScreen(IF second THEN 1 ELSE 0, d),
       IF second /\ d.layout # "top" THEN p[1] - size[1] ELSE p[1],
       IF second /\ d.layout = "top" THEN p[2] - size[2] ELSE p[2]>>

\* dualboy_compositor_project_point: the point where a pixel is shown.
ProjectPoint(m, p, d, size) ==
  IF d.mode # "dual"
  THEN IF m = Selected(d) THEN p ELSE NoPoint
  ELSE IF ScreenForMachine(m, d) = 0 THEN p
  ELSE IF d.layout = "top" THEN <<p[1], p[2] + size[2]>>
  ELSE <<p[1] + size[1], p[2]>>

\* copy_row: row y of machine m, from the column x of the composite on.
Row(m, x, size) == [i \in x .. x + size[1] - 1 |-> <<m, i - x>>]

\* dualboy_compose_frame, row by row.
Compose(d, size) ==
  LET first == MachineForScreen(0, d)
      second == MachineForScreen(1, d)
      row(y) ==
        IF d.mode # "dual" THEN [m |-> Selected(d), y |-> y]
        ELSE IF d.layout = "top" /\ y >= size[2]
        THEN [m |-> second, y |-> y - size[2]]
        ELSE [m |-> first, y |-> y]
      at(x, y) ==
        IF d.mode = "dual" /\ d.layout # "top" /\ x >= size[1]
        THEN <<second, Row(second, size[1], size)[x][2], y>>
        ELSE <<row(y).m, Row(row(y).m, 0, size)[x][2], row(y).y>>
      whole == Geometry(d, size)
  IN [size |-> whole, pixels |-> [p \in Points(whole) |-> at(p[1], p[2])]]
-----------------------------------------------------------------------------
(* Touch.                                                                  *)

\* normalized_coordinate.
Scaled(c, extent) == IF extent <= 1 THEN 0 ELSE (c * extent) \div Scale
ScaledPoint(p, size) == <<Scaled(p[1], size[1]), Scaled(p[2], size[2])>>
Screen == <<ScreenWidth, ScreenHeight>>

Distance(a, b) == IF a >= b THEN a - b ELSE b - a
Moved(p, q) == \E i \in 1..2 : Distance(p[i], q[i]) >= MotionPixels

\* initially_deflected: the stick is not near the middle.
Deflected(p) ==
  \E i \in 1..2 : \/ p[i] + MotionPixels <= Screen[i] \div 2
                  \/ p[i] >= Screen[i] \div 2 + MotionPixels

Activity(c, p, pressed) ==
  IF c.sampled
  THEN Moved(p, c.activity) \/ (pressed /\ ~c.pressed)
  ELSE Deflected(p) \/ pressed

\* Mutant: frames without a clock are not counted.
Waited_Frames(c, t) ==
  IF ~c.visible THEN c
  ELSE IF t # NoClock
  THEN IF ~c.using_clock \/ c.elapsed + t < 0
       THEN [c EXCEPT !.elapsed = 0, !.inactive = 0, !.using_clock = TRUE]
       ELSE IF c.elapsed + t >= TimeoutUsec
       THEN [c EXCEPT !.visible = FALSE, !.elapsed = 0]
       ELSE [c EXCEPT !.elapsed = @ + t]
  ELSE [c EXCEPT !.inactive = 0, !.using_clock = FALSE, !.elapsed = 0]

\* The rest of an update without activity: the cursor is hidden when nothing
\* has happened for long enough, by the clock or else by frames; a clock that
\* appears, disappears or goes back starts the wait again.
Waited(c, t) ==
  IF ~c.visible THEN c
  ELSE IF t # NoClock
  THEN IF ~c.using_clock \/ c.elapsed + t < 0
       THEN [c EXCEPT !.elapsed = 0, !.inactive = 0, !.using_clock = TRUE]
       ELSE IF c.elapsed + t >= TimeoutUsec
       THEN [c EXCEPT !.visible = FALSE, !.elapsed = 0]
       ELSE [c EXCEPT !.elapsed = @ + t]
  ELSE IF c.using_clock
  THEN [c EXCEPT !.inactive = 0, !.using_clock = FALSE, !.elapsed = 0]
  ELSE IF c.inactive + 1 >= FallbackFrames
  THEN [c EXCEPT !.visible = FALSE, !.inactive = 0]
  ELSE [c EXCEPT !.inactive = @ + 1]

\* dualboy_touch_cursor_update.
CursorUpdate(c, p, pressed, t) ==
  LET active == Activity(c, p, pressed)
      moved == [c EXCEPT !.sampled = TRUE, !.at = p, !.pressed = pressed,
                         !.activity = IF active \/ ~c.sampled THEN p ELSE @]
  IN IF active
     THEN [moved EXCEPT !.visible = TRUE, !.using_clock = (t # NoClock),
                        !.inactive = 0, !.elapsed = 0]
     ELSE Waited(moved, t)

\* read_machine_input: the right stick aims, R3 touches, R2 only where the
\* player sees the cursor.
CursorAfter(c, s, nds, t) ==
  IF nds /\ s.on THEN CursorUpdate(c, ScaledPoint(s.at, Screen), s.pressed, t)
  ELSE NoCursor

StickTouch(c, s, nds) ==
  IF nds /\ s.on /\ (s.pressed \/ (s.trigger /\ c.visible))
  THEN ScaledPoint(s.at, Screen) ELSE NoPoint

\* apply_pointer_contacts: the contacts that land on the touch screen of m, in
\* their order; the first one counts.
Landed(contacts, m, d, size) ==
  LET point(i) == ScaledPoint(contacts[i], Geometry(d, size))
      lands(i) == LET pixel == MapPoint(point(i), d, size)
                  IN pixel[1] = m /\ pixel[3] >= ScreenHeight
      hits == {i \in 1 .. Len(contacts) : lands(i)}
  IN IF hits = {} THEN NoPoint
     ELSE point(CHOOSE i \in hits : \A j \in hits : i <= j)

TouchOf(point, d, size) ==
  LET pixel == MapPoint(point, d, size)
  IN <<pixel[2], pixel[3] - ScreenHeight>>

\* The inputs of a frame.  Other platforms have no use for touch and clock.
StickInputs(nds) ==
  IF nds THEN {f \in [Consoles -> UNION {Sticks[c] : c \in Consoles}] :
                 \A c \in Consoles : f[c] \in Sticks[c]}
  ELSE {[c \in Consoles |-> Off]}
ContactInputs(nds) == IF nds THEN Contacts ELSE {<< >>}
ClockInputs(nds) == IF nds THEN Ticks \cup {NoClock} ELSE {NoClock}

\* retro_run up to the frame: options, sticks and contacts.
PollInputs(nds) ==
  \E d \in Displays, t \in ClockInputs(nds), contacts \in ContactInputs(nds) :
    \E s \in StickInputs(nds) :
      LET landed(c) == Landed(contacts, c, d, FrameSize(nds))
          after(c) == CursorAfter(cursor[c], s[c], nds, t)
      IN /\ option' = d /\ stick' = s /\ clock' = t
         /\ cursor' = [c \in Consoles |-> after(c)]
         /\ finger' = [c \in Consoles |-> landed(c)]
         /\ touch' = [c \in Consoles |->
                        IF landed(c) # NoPoint
                        THEN TouchOf(landed(c), d, FrameSize(nds))
                        ELSE StickTouch(after(c), s[c], nds)]
         /\ UNCHANGED <<display, composite, announced, last, video, soundVars>>

\* publish_video_with_touch_cursors: cursors are drawn on a copy, unless a
\* finger is on that console.
Published(picture, d, nds) ==
  IF picture = NoPicture THEN video
  ELSE [picture |-> picture,
        cursors |-> [c \in Consoles |->
          IF nds /\ cursor[c].visible /\ finger[c] = NoPoint
          THEN ProjectPoint(c, <<cursor[c].at[1], ScreenHeight + cursor[c].at[2]>>,
                            d, FrameSize(nds))
          ELSE NoPoint]]
-----------------------------------------------------------------------------
(* Sound of the first machine of a Game Boy pair.                          *)

\* Mutant: the oldest frame of a full queue is overwritten where it is.
Push_Full(f, sample) ==
  [f EXCEPT !.samples[(f.read + f.count) % FifoFrames] = sample,
            !.count = IF @ = FifoFrames THEN @ ELSE @ + 1]

\* audio_fifo_push: a full queue loses its oldest frame.
Push(f, sample) ==
  LET full == f.count = FifoFrames
      read == IF full THEN (f.read + 1) % FifoFrames ELSE f.read
      count == IF full THEN f.count - 1 ELSE f.count
  IN [read |-> read, count |-> count + 1,
      samples |-> [f.samples EXCEPT ![(read + count) % FifoFrames] = sample]]

\* sameboy_audio_sample, for the n samples of a frame.
Pushes[n \in 0 .. MaxSamples] ==
  IF n = 0 THEN fifo ELSE Push(Pushes[n - 1], made + n)

\* sameboy_read_audio: at most max frames, the oldest first.
ReadAudio(f, max) ==
  LET frames == IF f.count < max THEN f.count ELSE max
  IN [fifo |-> [f EXCEPT !.read = (@ + frames) % FifoFrames,
                         !.count = @ - frames],
      heard |-> [i \in 1 .. frames |-> f.samples[(f.read + i - 1) % FifoFrames]]]

\* drain_audio: batches until one is not full, at most DrainLimit.
Drained(f) ==
  LET pass[n \in 0 .. DrainLimit] ==
        IF n = 0 THEN [fifo |-> f, heard |-> << >>, more |-> TRUE]
        ELSE LET done == pass[n - 1]
                 batch == ReadAudio(done.fifo, BufferFrames)
             IN IF ~done.more THEN done
                ELSE [fifo |-> batch.fifo, heard |-> done.heard \o batch.heard,
                      more |-> Len(batch.heard) = BufferFrames]
  IN pass[DrainLimit]

\* A frame of the engine makes n samples.
Samples(gb) == IF gb THEN 0 .. MaxSamples - made ELSE {0}

\* retro_run when the frame fails: the last picture again, no sound.
FrameFails(nds, gb) ==
  \E n \in Samples(gb) :
    /\ fifo' = Pushes[n] /\ made' = made + n
    /\ video' = Published(composite, display, nds)
    /\ UNCHANGED <<option, display, composite, announced, last, finger, taken,
                   touchVars>>

\* retro_run when it succeeds: compose, announce a new geometry, publish, drain.
FrameDone(nds, gb) ==
  LET picture == Compose(option, FrameSize(nds))
  IN \E n \in Samples(gb) :
       /\ composite' = picture /\ display' = option
       /\ announced' = IF last = picture.size THEN announced ELSE picture.size
       /\ last' = picture.size
       /\ video' = Published(picture, option, nds)
       /\ made' = made + n
       /\ LET audio == Drained(Pushes[n])
          IN /\ fifo' = audio.fifo
             /\ taken' = IF audio.heard = << >> THEN taken
                         ELSE audio.heard[Len(audio.heard)]
       /\ UNCHANGED <<option, finger, touchVars>>

\* sameboy_reset, and the restore of the first machine: the sound is dropped.
SoundDropped == fifo' = [fifo EXCEPT !.read = 0, !.count = 0] /\ taken' = made

\* retro_reset.
ResetOutput ==
  /\ cursor' = [c \in Consoles |-> NoCursor] /\ SoundDropped
  /\ UNCHANGED <<pictureVars, stick, clock, touch, made>>

\* retro_unserialize when it succeeds.
RestoreOutput ==
  /\ last' = NoPoint /\ SoundDropped
  /\ UNCHANGED <<option, display, composite, announced, finger, video,
                 touchVars, made>>

\* unload_current and discard_current.  (session.display keeps its value, which
\* nothing reads before the next load replaces it.)
DropOutput ==
  /\ composite' = NoPicture /\ last' = NoPoint /\ video' = NoVideo
  /\ cursor' = [c \in Consoles |-> NoCursor]
  /\ stick' = [c \in Consoles |-> Off] /\ clock' = NoClock
  /\ touch' = NoTouch /\ finger' = NoTouch /\ announced' = NoPoint
  /\ fifo' = EmptyFifo /\ made' = 0 /\ taken' = 0
  /\ display' = option /\ UNCHANGED option

\* The end of a successful load, and the frontend's retro_get_system_av_info.
OpenOutput(nds) ==
  /\ display' = option /\ last' = NoPoint
  /\ announced' = Geometry(option, FrameSize(nds))
  /\ UNCHANGED <<option, composite, finger, video, touchVars, soundVars>>
-----------------------------------------------------------------------------
\* The sound queue holds the newest samples in their order, each once, and a
\* sample that nobody took is lost only when the queue has filled up with
\* newer ones.
SoundInOrder ==
  /\ fifo.count = IF made - taken < FifoFrames THEN made - taken ELSE FifoFrames
  /\ \A i \in 0 .. fifo.count - 1 :
       fifo.samples[(fifo.read + i) % FifoFrames] = made - fifo.count + 1 + i
=============================================================================
