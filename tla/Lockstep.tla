------------------------------ MODULE Lockstep ------------------------------
(***************************************************************************)
(* The link of the mGBA pair: the lockstep coordinator and its two drivers *)
(* (src/src/engines/mgba/mgba_lockstep.c) under the cooperative scheduler  *)
(* run_linked_frame (src/src/engines/mgba/mgba_adapter.c).                 *)
(*                                                                         *)
(* One thread runs everything.  It gives each machine that is not blocked  *)
(* a slice of CPU time (mCore.runLoop); inside a slice the machine may     *)
(* write the serial registers, which calls the driver's setMode and start, *)
(* and when the slice reaches a scheduled cycle mGBA calls _lockstepEvent  *)
(* or the completion of a serial transfer.  The variable ctl says where    *)
(* that thread is, cur which machine it runs.                              *)
(*                                                                         *)
(* Player 0 owns the clock.  A barrier (waiting) blocks it until player 1  *)
(* has handled an event it can acknowledge.  Times are lockstep times      *)
(* (machine time minus cycleOffset) and never wrap here: CycleArithmetic   *)
(* covers the modular arithmetic.  A data word stands for the transfer     *)
(* that sampled it.  The user's flag blocked is asleep: only the sleep and *)
(* wake callbacks write it.  Detaching, crashes, resets and save states    *)
(* are in LockstepSession.                                                 *)
(***************************************************************************)
EXTENDS Integers, Sequences, SequencesExt

CONSTANTS
  LOCKSTEP_INTERVAL,   \* cycles between two synchronisations (4096)
  UNLOCKED_INTERVAL,   \* the same before synchronisation is armed (4096)
  HARD_SYNC_INTERVAL,  \* cycles between two forced barriers (0x80000)
  MIN_SLEEP,           \* least delay of a sleeping secondary (4)
  Capacity,            \* DUALBOY_MAX_LOCKSTEP_EVENTS (8)
  MultiCycles,         \* length of a MULTI transfer
  NormalCycles,        \* length of a NORMAL transfer
  FrameCycles,         \* length of a video frame
  GameModes,           \* serial modes the two games switch to
  MaxLate,             \* bound: cycles an instruction overshoots an event
  MaxFrames,           \* bound: frames the frontend asks for
  MaxWrites,           \* bound: serial register writes of the two games
  MaxTime              \* bound: lockstep time

ASSUME IntervalAssumption ==
  /\ {LOCKSTEP_INTERVAL, UNLOCKED_INTERVAL, HARD_SYNC_INTERVAL, MIN_SLEEP,
      Capacity, MultiCycles, NormalCycles, FrameCycles} \subseteq Nat \ {0}
  /\ {MaxLate, MaxFrames, MaxWrites, MaxTime} \subseteq Nat
  /\ GameModes \subseteq {"GPIO", "MULTI", "NORMAL"}

\* An instruction is over long before the shortest MULTI transfer is: tens of
\* cycles against thousands.
ASSUME LatenessAssumption == MaxLate < MultiCycles

Players == {0, 1}
Modes == {"GPIO", "MULTI", "NORMAL"}
TransferModes == {"MULTI", "NORMAL"}
NoMode == "none"           \* otherModes[i] = -1
Nothing == 0               \* no data, no transfer, not scheduled
Peer(m) == 1 - m

VARIABLES
  time, when, complete,    \* per machine: clock, lockstep event, completion
  mode, other,             \* own SIO mode, the peer's mode as last heard
  queue,                   \* per machine: events not handled yet
  asleep, dataReceived,    \* per machine
  cycle, waiting, transferActive, syncArmed, transferMode, nextHardSync,
  dropped,                 \* an event found a full queue (droppedEvents > 0)
  multiData, normalData,   \* words of the transfer: per player, and player 0's
  transfers, pending,      \* history: transfers started, the one completing
  clean,                   \* history: MULTI transfers TransferExact is about
  ctl, cur, early,         \* control, machine in its slice, its earlyExit
  next,                    \* nextEvent of the running _lockstepEvent
  blocked_count, ran_any, start_frames,   \* locals of run_linked_frame
  writes                   \* serial writes so far

clockVars == <<time, when, complete>>
modeVars  == <<mode, other, transferMode>>
wireVars  == <<queue, dropped>>
syncVars  == <<asleep, cycle, waiting, nextHardSync, syncArmed>>
dataVars  == <<dataReceived, transferActive, multiData, normalData,
               transfers, pending, clean>>
loopVars  == <<blocked_count, ran_any, start_frames>>
lockstepVars == <<clockVars, modeVars, wireVars, syncVars, dataVars, loopVars,
                  ctl, cur, early, next, writes>>

\* Both drivers are attached and both cores reset (set_link, reset_cores):
\* player 1 announced itself to player 0, whose zeroed table still shows it
\* in mode 0.
Init ==
  /\ time = [m \in Players |-> 0]
  /\ when = [m \in Players |-> UNLOCKED_INTERVAL]
  /\ complete = [m \in Players |-> Nothing]
  /\ mode = [m \in Players |-> "GPIO"]
  /\ other = [m \in Players |-> IF m = 0 THEN "NORMAL" ELSE "GPIO"]
  /\ queue = [m \in Players |->
                IF m = 0 THEN <<[type |-> "ATTACH", from |-> 1, ts |-> 0,
                                 mode |-> NoMode, finish |-> 0, txn |-> 0]>>
                         ELSE << >>]
  /\ asleep = [m \in Players |-> FALSE]
  /\ dataReceived = [m \in Players |-> FALSE]
  /\ cycle = 0
  /\ waiting = FALSE
  /\ transferActive = FALSE
  /\ syncArmed = FALSE
  /\ transferMode = "GPIO"
  /\ nextHardSync = HARD_SYNC_INTERVAL
  /\ dropped = FALSE
  /\ multiData = [m \in Players |-> Nothing]
  /\ normalData = Nothing
  /\ transfers = 0
  /\ pending = [m \in Players |-> Nothing]
  /\ clean = {}
  /\ ctl = "idle"
  /\ cur = 0
  /\ early = FALSE
  /\ next = 0
  /\ blocked_count = 0
  /\ ran_any = FALSE
  /\ start_frames = [m \in Players |-> 0]
  /\ writes = 0
-----------------------------------------------------------------------------
(* Event queues.                                                           *)

\* An event of player m, stamped with its lockstep time.
Event(type, m, md, finish, txn) ==
  [type |-> type, from |-> m, ts |-> time[m], mode |-> md, finish |-> finish,
   txn |-> txn]

\* Where _enqueueEvent links a new event in: before the first later one.
InsertPoints(q, e) ==
  {i \in 1..(Len(q) + 1) : /\ \A j \in 1..(i - 1) : q[j].ts <= e.ts
                           /\ i <= Len(q) => e.ts < q[i].ts}

\* Mutant: the receiver keeps its old wake-up time.
WhenForHead_Keep(m, q) == when[m]

\* _rescheduleForQueueHead: the timing event of m once its queue is q.
WhenForHead(m, q) ==
  IF when[m] <= time[m]
  THEN when[m]
  ELSE Min({when[m], Max({time[m] + 1, q[1].ts})})

\* The free list of a queue is not empty.
Room(q) == Len(q) < Capacity

\* _enqueueEvent succeeds for the target m; qs are the queues before it.
Deliver(qs, m, e) ==
  /\ Room(qs[m])
  /\ \E i \in InsertPoints(qs[m], e) :
       queue' = [qs EXCEPT ![m] = InsertAt(@, i, e)]
  /\ when' = [when EXCEPT ![m] = WhenForHead(m, queue'[m])]
  /\ UNCHANGED dropped

\* _enqueueEvent finds no free entry at the target m.
Lose(qs, m) ==
  /\ ~Room(qs[m])
  /\ queue' = qs
  /\ dropped' = TRUE
  /\ UNCHANGED when
-----------------------------------------------------------------------------
(* The barrier.                                                            *)

\* WaitOnPlayers with the hard-sync budget hs: the primary publishes its
\* time, sleeps until acknowledged, and the secondary wakes.  A failed
\* mASSERT aborts.
WaitOnPlayers(hs, place) ==
  /\ cycle' = time[0]
  /\ nextHardSync' = hs - (time[0] - cycle)
  /\ waiting' = TRUE
  /\ asleep' = [m \in Players |-> m = 0]
  /\ early' = TRUE
  /\ ctl' = IF waiting \/ asleep[0] \/ time[0] < cycle THEN "abort" ELSE place

\* Mutant: the acknowledgement forgets to wake the primary.
AckPlayer_NoWake ==
  IF waiting
  THEN /\ waiting' = FALSE
       /\ dataReceived' = [m \in Players |-> dataReceived[m] \/ transferActive]
       /\ transferActive' = FALSE
       /\ asleep' = [m \in Players |-> TRUE]
       /\ early' = TRUE
  ELSE UNCHANGED <<waiting, dataReceived, transferActive, asleep, early>>

\* AckPlayer for the secondary; an acknowledgement nobody waits for is
\* ignored, and does not put it to sleep.
AckPlayer ==
  IF waiting
  THEN /\ waiting' = FALSE
       /\ dataReceived' = [m \in Players |-> dataReceived[m] \/ transferActive]
       /\ transferActive' = FALSE
       /\ asleep' = [m \in Players |-> m = 1]
       /\ early' = TRUE
  ELSE UNCHANGED <<waiting, dataReceived, transferActive, asleep, early>>

\* _untilNextSync, once the shared clock shows c.
UntilNextSync(m, c) ==
  IF ~syncArmed THEN UNLOCKED_INTERVAL
  ELSE c - time[m] + (IF m = 0 THEN LOCKSTEP_INTERVAL ELSE 0)
-----------------------------------------------------------------------------
(* run_linked_frame.                                                       *)

FrameOf(t) == t \div FrameCycles

\* frameCounter moved since the frame began.
Done(m) == FrameOf(time[m]) # start_frames[m]

HasPendingEvents(m) == queue[m] # << >>

FrameStart ==
  /\ ctl = "idle"
  /\ FrameOf(time[0]) < MaxFrames
  /\ start_frames' = [m \in Players |-> FrameOf(time[m])]
  /\ ctl' = "round"
  /\ UNCHANGED <<clockVars, modeVars, wireVars, syncVars, dataVars,
                 blocked_count, ran_any, cur, early, next, writes>>

\* One pass of the scheduling loop begins: count the blocked machines.
Round ==
  /\ ctl = "round"
  /\ blocked_count' = Cardinality({m \in Players : asleep[m]})
  /\ ran_any' = FALSE
  /\ cur' = 0
  /\ ctl' = "turn"
  /\ UNCHANGED <<clockVars, modeVars, wireVars, syncVars, dataVars,
                 start_frames, early, next, writes>>

NextTurn == IF cur = 0 THEN cur' = 1 /\ ctl' = "turn"
                       ELSE ctl' = "check" /\ UNCHANGED cur

\* A blocked machine does not run, nor one that finished its frame unless it
\* has events to handle or somebody may be waiting for it.
SkipTurn(m) == \/ asleep[m]
               \/ Done(m) /\ blocked_count = 0 /\ ~HasPendingEvents(m)

Turn ==
  /\ ctl = "turn"
  /\ IF SkipTurn(cur)
     THEN NextTurn /\ UNCHANGED ran_any
     ELSE ctl' = "run" /\ ran_any' = TRUE /\ UNCHANGED cur
  /\ UNCHANGED <<clockVars, modeVars, wireVars, syncVars, dataVars,
                 blocked_count, start_frames, early, next, writes>>

\* Mutant: the frame is over with link events still queued.
FrameComplete_Undrained == \A m \in Players : Done(m)

\* Both frame counters moved and both queues are empty.
FrameComplete == \A m \in Players : Done(m) /\ ~HasPendingEvents(m)

\* The end of the pass: nobody could run, the frame is complete, or again.
Check ==
  /\ ctl = "check"
  /\ ctl' = IF ~ran_any THEN "blocked"
            ELSE IF FrameComplete THEN "idle" ELSE "round"
  /\ UNCHANGED <<clockVars, modeVars, wireVars, syncVars, dataVars, loopVars,
                 cur, early, next, writes>>
-----------------------------------------------------------------------------
(* A slice of the machine cur: mGBA's runLoop, modelled from its use.       *)

\* The next cycle at which mGBA calls back: the lockstep event, a transfer's
\* completion, or the end of the video frame.
Horizon(m) ==
  Min({when[m], (FrameOf(time[m]) + 1) * FrameCycles}
        \cup (IF complete[m] = Nothing THEN {} ELSE {complete[m]}))

\* The CPU executes up to a serial register write or up to a timing event,
\* which it may overshoot.  The end of a video frame leaves the loop.
CpuRuns ==
  /\ ctl = "run"
  /\ \E t \in (time[cur] + 1)..(Horizon(cur) + MaxLate) :
       /\ t <= MaxTime
       /\ time' = [time EXCEPT ![cur] = t]
       /\ early' = (early \/ FrameOf(t) # FrameOf(time[cur]))
       /\ \/ /\ t < Horizon(cur)
             /\ writes < MaxWrites
             /\ writes' = writes + 1
             /\ ctl' = "write"
          \/ ctl' = "tick" /\ UNCHANGED writes
  /\ UNCHANGED <<when, complete, modeVars, wireVars, syncVars, dataVars,
                 loopVars, cur, next>>

\* The write is done.  A yielding machine finishes its instruction only.
InstructionEnds ==
  /\ ctl \in {"mode", "started"}
  /\ IF early
     THEN /\ \E late \in 0..MaxLate : time' = [time EXCEPT ![cur] = @ + late]
          /\ ctl' = "tick"
     ELSE ctl' = "run" /\ UNCHANGED time
  /\ UNCHANGED <<when, complete, modeVars, wireVars, syncVars, dataVars,
                 loopVars, cur, early, next, writes>>

LockstepDue == when[cur] <= time[cur]
CompletionDue == complete[cur] # Nothing /\ complete[cur] <= time[cur]

\* A halted CPU sleeps on to the next timing event within the same slice.
Halted ==
  /\ ctl = "tick"
  /\ ~LockstepDue /\ ~CompletionDue /\ ~early
  /\ Horizon(cur) \in time[cur]..MaxTime
  /\ time' = [time EXCEPT ![cur] = Horizon(cur)]
  /\ early' = (FrameOf(Horizon(cur)) # FrameOf(time[cur]))
  /\ UNCHANGED <<when, complete, modeVars, wireVars, syncVars, dataVars,
                 loopVars, ctl, cur, next, writes>>

SliceEnds ==
  /\ ctl = "tick"
  /\ ~LockstepDue /\ ~CompletionDue
  /\ NextTurn
  /\ early' = FALSE
  /\ UNCHANGED <<clockVars, modeVars, wireVars, syncVars, dataVars, loopVars,
                 next, writes>>
-----------------------------------------------------------------------------
(* The driver's callbacks from a serial register write.                    *)

\* SetMode: announce the new mode and yield; the primary also waits for the
\* secondary to notice, unless a barrier is up already or the event is lost.
SetMode(md) ==
  /\ ctl = "write"
  /\ md # mode[cur]
  /\ mode' = [mode EXCEPT ![cur] = md]
  /\ transferMode' = IF cur = 0 THEN md ELSE transferMode
  /\ \/ /\ Lose(queue, Peer(cur))
        /\ ctl' = IF cur = 0 /\ transferActive THEN "abort" ELSE "mode"
        /\ UNCHANGED <<cycle, nextHardSync, waiting, asleep, early>>
     \/ /\ Deliver(queue, Peer(cur), Event("MODE_SET", cur, md, 0, 0))
        /\ IF cur = 0 /\ ~waiting
           THEN WaitOnPlayers(nextHardSync, "mode")
           ELSE /\ early' = TRUE
                /\ ctl' = IF cur = 0 /\ transferActive THEN "abort" ELSE "mode"
                /\ UNCHANGED <<cycle, nextHardSync, waiting, asleep>>
  /\ clean' = IF cur = 0 THEN {} ELSE clean
  /\ UNCHANGED <<time, complete, other, syncArmed, dataReceived,
                 transferActive, multiData, normalData, transfers, pending,
                 loopVars, cur, next, writes>>

TransferCycles(md) == IF md = "MULTI" THEN MultiCycles ELSE NormalCycles

\* mGBA starts a transfer the write asks for when none is under way, or when
\* the same write changed the mode.
MayStart ==
  \/ ctl = "write" /\ complete[cur] = Nothing
  \/ ctl = "mode"

\* History only: the attach handshake is over and the secondary has handled
\* every older event of the primary, so the next acknowledgement is for the
\* next barrier.
Settled == /\ \A i \in 1..Len(queue[0]) : queue[0][i].type # "ATTACH"
           /\ \A i \in 1..Len(queue[1]) : queue[1][i].ts = time[0]

\* Start on the primary: sample its word, tell the secondary, arm the
\* synchronisation on the first MULTI transfer, and wait unless a barrier is
\* up.  On success mGBA schedules its completion.  Elsewhere it is refused
\* and changes nothing.
Start ==
  /\ MayStart
  /\ cur = 0
  /\ mode[0] \in TransferModes
  /\ ~transferActive
  /\ transfers' = transfers + 1
  /\ clean' = IF Settled /\ mode[0] = "MULTI" THEN clean \cup {transfers'}
                                              ELSE clean
  /\ multiData' = [m \in Players |-> IF m = 0 /\ transferMode = "MULTI"
                                     THEN transfers' ELSE Nothing]
  /\ normalData' = IF transferMode = "NORMAL" THEN transfers' ELSE normalData
  /\ LET finish == time[0] + TransferCycles(mode[0])
         arm == mode[0] = "MULTI" /\ ~syncArmed
         hs == IF arm THEN HARD_SYNC_INTERVAL ELSE nextHardSync
     IN \/ /\ Lose(queue, 1)
           /\ ctl' = "started"
           /\ UNCHANGED <<complete, pending, syncVars, transferActive, early>>
        \/ /\ Deliver(queue, 1, Event("TRANSFER_START", 0, NoMode, finish,
                                      transfers'))
           /\ transferActive' = TRUE
           /\ syncArmed' = (syncArmed \/ arm)
           /\ IF waiting
              THEN /\ nextHardSync' = hs
                   /\ ctl' = "started"
                   /\ UNCHANGED <<cycle, waiting, asleep, early>>
              ELSE WaitOnPlayers(hs, "started")
           /\ complete' = [complete EXCEPT ![0] = finish]
           /\ pending' = [pending EXCEPT ![0] = transfers']
  /\ UNCHANGED <<time, modeVars, dataReceived, loopVars, cur, next, writes>>
-----------------------------------------------------------------------------
(* Callbacks of timing events.                                             *)

\* _hardSync: the event is queued and the primary waits, going on at place.
HardSync(hs, place) ==
  /\ Deliver(queue, 1, Event("HARD_SYNC", 0, NoMode, 0, 0))
  /\ WaitOnPlayers(hs, place)

\* What FinishMultiplayer and FinishNormal hand to the machine m: the words
\* of player 0 and player 1, or nothing.
Received(m) ==
  IF ~dataReceived[m] THEN <<Nothing, Nothing>>
  ELSE IF mode[m] = "MULTI" THEN <<multiData[0], multiData[1]>>
  ELSE <<IF m = 1 THEN normalData ELSE Nothing, Nothing>>

\* Mutant: no barrier after a transfer.
SyncAfter_Never(m) == FALSE

\* Does the end of a transfer on m call for a barrier?
SyncAfter(m) == m = 0 /\ syncArmed

\* The transfer completes; the primary then synchronises, if armed, at once
\* or at its next lockstep event.
Finish ==
  /\ ctl = "tick"
  /\ CompletionDue
  /\ LockstepDue => complete[cur] <= when[cur]
  /\ complete' = [complete EXCEPT ![cur] = Nothing]
  /\ pending' = [pending EXCEPT ![cur] = Nothing]
  /\ LET handled == mode[cur] \in TransferModes /\ transferMode = mode[cur]
     IN /\ dataReceived' = [dataReceived EXCEPT ![cur] = @ /\ ~handled]
        /\ LET sync == handled /\ SyncAfter(cur)
           IN \/ /\ sync /\ ~waiting
                 /\ HardSync(nextHardSync, "tick")
              \/ /\ IF sync /\ ~waiting THEN Lose(queue, 1)
                                        ELSE UNCHANGED <<queue, dropped, when>>
                 /\ nextHardSync' = IF sync /\ waiting THEN -1
                                                       ELSE nextHardSync
                 /\ UNCHANGED <<cycle, waiting, asleep, early, ctl>>
  /\ UNCHANGED <<time, modeVars, syncArmed, transferActive, multiData,
                 normalData, transfers, clean, loopVars, cur, next, writes>>

\* _lockstepEvent begins on the secondary.
SecondaryEvent ==
  /\ ctl = "tick" /\ cur = 1
  /\ LockstepDue
  /\ CompletionDue => when[1] <= complete[1]
  /\ next' = UntilNextSync(1, cycle)
  /\ ctl' = "callback"
  /\ UNCHANGED <<clockVars, modeVars, wireVars, syncVars, dataVars, loopVars,
                 cur, early, writes>>

\* Who sleeps once the clock owner's event woke the secondary, unless a
\* transfer holds it.
Woken == [asleep EXCEPT ![1] = @ /\ transferActive]

\* _lockstepEvent begins on the clock owner: advance the shared clock, wake
\* the secondary unless a transfer holds it, synchronise when it is time.
PrimaryEvent ==
  /\ ctl = "tick" /\ cur = 0
  /\ LockstepDue
  /\ CompletionDue => when[0] <= complete[0]
  /\ next' = UntilNextSync(0, time[0])
  /\ LET hs == nextHardSync - (time[0] - cycle)
         due == syncArmed /\ hs < 0
     IN \/ /\ due /\ ~waiting
           /\ HardSync(nextHardSync + HARD_SYNC_INTERVAL, "callback")
        \/ /\ IF due /\ ~waiting THEN Lose(queue, 1)
                                 ELSE UNCHANGED <<queue, dropped, when>>
           /\ nextHardSync' = IF due THEN hs + HARD_SYNC_INTERVAL ELSE hs
           /\ cycle' = time[0]
           /\ asleep' = Woken
           /\ ctl' = "callback"
           /\ UNCHANGED <<waiting, early>>
  /\ UNCHANGED <<time, complete, modeVars, syncArmed, dataVars, loopVars, cur,
                 writes>>

\* The queues once the running callback took the head of its own.
Popped == [queue EXCEPT ![cur] = Tail(@)]

\* The head of the queue is an event of this type whose time has come.
Takes(type) ==
  /\ ctl = "callback"
  /\ HasPendingEvents(cur)
  /\ Head(queue[cur]).type = type
  /\ Head(queue[cur]).ts <= time[cur]

\* The primary forgets what it knew of the newcomer and tells it its mode.
HandleAttach ==
  /\ Takes("ATTACH")
  /\ other' = [other EXCEPT ![cur] = NoMode]
  /\ LET to == Head(queue[cur]).from
     IN \/ Deliver(Popped, to, Event("MODE_SET", cur, mode[cur], 0, 0))
        \/ Lose(Popped, to)
  /\ UNCHANGED <<time, complete, mode, transferMode, syncVars, dataVars,
                 loopVars, ctl, cur, early, next, writes>>

\* Only an event of the primary is acknowledged.
HandleModeSet ==
  /\ Takes("MODE_SET")
  /\ other' = [other EXCEPT ![cur] = Head(queue[cur]).mode]
  /\ IF Head(queue[cur]).from = 0
     THEN AckPlayer
     ELSE UNCHANGED <<waiting, dataReceived, transferActive, asleep, early>>
  /\ queue' = Popped
  /\ UNCHANGED <<clockVars, mode, transferMode, dropped, cycle, nextHardSync,
                 syncArmed, multiData, normalData, transfers, pending, clean,
                 loopVars, ctl, cur, next, writes>>

HandleHardSync ==
  /\ Takes("HARD_SYNC")
  /\ AckPlayer
  /\ queue' = Popped
  /\ UNCHANGED <<clockVars, modeVars, dropped, cycle, nextHardSync, syncArmed,
                 multiData, normalData, transfers, pending, clean, loopVars,
                 ctl, cur,
                 next, writes>>

\* The secondary samples its word, schedules its own completion for the
\* announced cycle, less the lateness of this callback, and acknowledges.
HandleTransferStart ==
  /\ Takes("TRANSFER_START")
  /\ LET e == Head(queue[cur])
         late == time[cur] - when[cur]
         delay == Max({1, e.finish - time[cur] - late})
     IN /\ multiData' = IF transferMode = "MULTI"
                        THEN [multiData EXCEPT ![cur] = e.txn] ELSE multiData
        /\ complete' = [complete EXCEPT ![cur] = time[cur] + delay]
        /\ pending' = [pending EXCEPT ![cur] = e.txn]
        /\ next' = delay
  /\ AckPlayer
  /\ queue' = Popped
  /\ UNCHANGED <<time, when, modeVars, dropped, cycle, nextHardSync, syncArmed,
                 normalData, transfers, clean, loopVars, ctl, cur, writes>>

\* Does the callback, next due in n cycles, put its machine to sleep?
Sleeps(n) == /\ syncArmed /\ cur = 1 /\ n <= LOCKSTEP_INTERVAL
             /\ ~HasPendingEvents(cur)

\* _lockstepEvent ends: an armed secondary with nothing to do sleeps, and
\* the timing event is scheduled again.
EventEnds ==
  /\ ctl = "callback"
  /\ HasPendingEvents(cur) => Head(queue[cur]).ts > time[cur]
  /\ LET n == IF HasPendingEvents(cur)
              THEN Min({next, Head(queue[cur]).ts - time[cur]}) ELSE next
         sleeps == Sleeps(n)
     IN /\ asleep' = [asleep EXCEPT ![cur] = @ \/ sleeps]
        /\ early' = (early \/ sleeps)
        /\ when' = [when EXCEPT ![cur] =
                      time[cur] + Max({n, IF sleeps THEN MIN_SLEEP ELSE 1})]
        /\ ctl' = IF sleeps /\ asleep[0] THEN "abort" ELSE "tick"
  /\ next' = 0
  /\ UNCHANGED <<time, complete, modeVars, wireVars, cycle, waiting,
                 nextHardSync, syncArmed, dataVars, loopVars, cur, writes>>
-----------------------------------------------------------------------------
Scheduler == FrameStart \/ Round \/ Turn \/ Check \/ SliceEnds
Cpu == CpuRuns \/ InstructionEnds \/ Halted
SerialWrite == Start \/ \E md \in GameModes : SetMode(md)
Handle == HandleAttach \/ HandleModeSet \/ HandleHardSync
            \/ HandleTransferStart
LockstepEvent == PrimaryEvent \/ SecondaryEvent \/ Handle \/ EventEnds

Next == Scheduler \/ Cpu \/ SerialWrite \/ Finish \/ LockstepEvent

Spec == Init /\ [][Next]_lockstepVars
-----------------------------------------------------------------------------
\* Where the thread is: in a machine's slice, in the scheduling loop, in a
\* reset (LockstepSession), or nowhere any more.
SlicePlaces == {"run", "write", "mode", "started", "tick", "callback"}
Places == SlicePlaces \cup {"idle", "round", "turn", "check"}
            \cup {"reset", "port", "audio"} \cup {"blocked", "abort"}

EventRecords ==
  [type : {"ATTACH", "MODE_SET", "HARD_SYNC", "TRANSFER_START"},
   from : Players, ts : Int, mode : Modes \cup {NoMode}, finish : Int,
   txn : Nat]

\* Types of the state.  A reset of LockstepSession makes older times negative.
TypeOK ==
  /\ time \in [Players -> Int] /\ when \in [Players -> Int]
  /\ complete \in [Players -> Int] /\ cycle \in Int /\ nextHardSync \in Int
  /\ mode \in [Players -> Modes] /\ transferMode \in Modes
  /\ other \in [Players -> Modes \cup {NoMode}]
  /\ queue \in [Players -> Seq(EventRecords)]
  /\ \A m \in Players : Len(queue[m]) <= Capacity
  /\ asleep \in [Players -> BOOLEAN] /\ dataReceived \in [Players -> BOOLEAN]
  /\ waiting \in BOOLEAN /\ transferActive \in BOOLEAN
  /\ syncArmed \in BOOLEAN /\ dropped \in BOOLEAN
  /\ early \in BOOLEAN /\ ran_any \in BOOLEAN
  /\ multiData \in [Players -> Nat] /\ normalData \in Nat
  /\ transfers \in Nat /\ pending \in [Players -> Nat]
  /\ clean \subseteq Nat
  /\ ctl \in Places /\ cur \in Players /\ next \in Int
  /\ blocked_count \in 0..2 /\ start_frames \in [Players -> Int]
  /\ writes \in 0..MaxWrites
-----------------------------------------------------------------------------
\* An event whose handling acknowledges a barrier.
Ackable(e) == e.from = 0 /\ e.type # "ATTACH"

\* A barrier is always up for a reason: while the primary waits, it and only
\* it sleeps, and the secondary still has an event whose handling lets it go;
\* a transfer is in flight only under a barrier.
BarrierInv ==
  /\ waiting <=> asleep[0]
  /\ waiting => ~asleep[1]
  /\ waiting => \E i \in 1..Len(queue[1]) : Ackable(queue[1][i])
  /\ transferActive => waiting

\* run_linked_frame never finds both machines blocked, and no assertion of
\* the coordinator fails.
NeverStuck == ctl \notin {"blocked", "abort"}

\* The events that may wait for the machine m: all come from its peer, only
\* the primary is told of a newcomer, only the secondary of a transfer.
EventsFor(m) ==
  {e \in EventRecords :
     /\ e.from = Peer(m)
     /\ e.type \in IF m = 0 THEN {"ATTACH", "MODE_SET"}
                  ELSE {"MODE_SET", "HARD_SYNC", "TRANSFER_START"}}

\* What the scheduler knows of the machines at each place of its loop: a
\* machine that executes is awake, and a pass in which nobody ran so far
\* began with an unfinished frame and an exact count of sleepers.
SchedulerInv ==
  /\ ctl \in {"run", "write"} => ~asleep[cur]
  /\ (ctl \in {"mode", "started"} /\ ~early) => ~asleep[cur]
  /\ ctl = "round" => ~FrameComplete
  /\ (ctl = "turn" /\ ~ran_any) =>
       /\ ~FrameComplete
       /\ blocked_count = 0 <=> \A m \in Players : ~asleep[m]
       /\ cur = 1 => SkipTurn(0)
  /\ ctl \in SlicePlaces \cup {"check"} => ran_any

\* The inductive form of BarrierInv and NeverStuck, with the primary's clock
\* never behind the shared one.
LinkInv ==
  /\ \A m \in Players : queue[m] \in Seq(EventsFor(m))
  /\ BarrierInv
  /\ cycle <= time[0]
  /\ SchedulerInv
  /\ NeverStuck

\* Places where the machine m is not in its slice or its slice has not begun.
AtRest(m) == cur # m \/ ctl \in {"idle", "round", "turn", "check"}

\* Queues are ordered by time and the machine's own timing event is never
\* later than the first event it has to handle.  (The announcement ATTACH
\* was queued before the reset scheduled the timing events afresh.)
WakeCoversQueue ==
  \A m \in Players :
    /\ \A i, j \in 1..Len(queue[m]) :
         i < j => queue[m][i].ts <= queue[m][j].ts
    /\ (AtRest(m) /\ HasPendingEvents(m) /\ queue[m][1].type # "ATTACH") =>
         when[m] <= Max({time[m] + 1, queue[m][1].ts})

\* A completed MULTI transfer hands each machine the words both players
\* sampled for that very transfer, provided the attach handshake was over
\* when it started (the acknowledgement of the handshake's own MODE_SET
\* releases whatever barrier is up) and the primary kept its mode.
TransferExact ==
  [][(Finish /\ mode[cur] = "MULTI" /\ pending[cur] \in clean) =>
       Received(cur) = <<pending[cur], pending[cur]>>]_lockstepVars

\* Every call of run_linked_frame comes back.
FrameReturns == (ctl # "idle") ~> (ctl = "idle")
=============================================================================
