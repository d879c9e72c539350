--------------------------- MODULE LockstepSession ---------------------------
(***************************************************************************)
(* The GBA link over a whole session: what the frontend does to it between *)
(* two frames, and a machine that crashes in the middle of one.  The       *)
(* protocol itself is Lockstep's; this module adds set_link, reset, the    *)
(* saving and loading of the link (mgba_adapter.c, mgba_lockstep.c) and    *)
(* the early return of run_linked_frame.                                   *)
(*                                                                         *)
(* A frame that fails leaves the link where it was, barrier up and events  *)
(* queued, and retro_run goes on calling.  The code that runs next must    *)
(* cope with that.                                                         *)
(*                                                                         *)
(* A core reset restarts the clock of a machine and the driver's reset     *)
(* makes its lockstep time the shared one.  Here that instant becomes time *)
(* 0 for everything, which a protocol that only compares times does not    *)
(* notice.                                                                 *)
(* The reset of mGBA's serial port is external: it returns the port to     *)
(* general purpose mode through setMode, after the driver's own reset.     *)
(* Assertions of debug builds are compiled out of that call.               *)
(***************************************************************************)
EXTENDS Lockstep

CONSTANTS
  MaxOps,      \* bound: link changes, resets and loads
  MaxFailures  \* bound: frames that fail

ASSUME SessionAssumption == {MaxOps, MaxFailures} \subseteq Nat

NoState == [linked |-> FALSE, machines |-> << >>, drivers |-> << >>,
            stale |-> FALSE]

VARIABLES
  linked,      \* link_enabled: the drivers are attached
  crashed,     \* per machine
  saved,       \* the state the frontend keeps, with stale as it was then
  stale,       \* history: a reset found events of a failed frame
  ops, failures \* operations and failed frames so far

sessionVars == <<linked, crashed, saved, stale, ops, failures>>
\* What only the scheduler and the game write.
runVars == <<loopVars, next, writes>>
allVars == <<lockstepVars, sessionVars>>

SessionInit ==
  /\ Init
  /\ linked = TRUE
  /\ crashed = [m \in Players |-> FALSE]
  /\ saved = NoState
  /\ stale = FALSE
  /\ ops = 0
  /\ failures = 0
-----------------------------------------------------------------------------
(* Crashes.                                                                *)

\* mGBA reports a crash from inside the slice, which goes on to its end.
Crash ==
  /\ ctl = "tick"
  /\ failures < MaxFailures
  /\ crashed' = [crashed EXCEPT ![cur] = TRUE]
  /\ UNCHANGED <<lockstepVars, linked, saved, stale, ops, failures>>

\* run_linked_frame gives up as soon as the slice of a crashed machine ends.
SliceReturns ==
  /\ IF crashed[cur]
     THEN /\ ctl = "tick"
          /\ ~LockstepDue /\ ~CompletionDue
          /\ ctl' = "idle"
          /\ early' = FALSE
          /\ failures' = failures + 1
          /\ UNCHANGED <<clockVars, modeVars, wireVars, syncVars, dataVars,
                         runVars, cur>>
     ELSE SliceEnds /\ UNCHANGED failures
  /\ UNCHANGED <<linked, crashed, saved, stale, ops>>
-----------------------------------------------------------------------------
(* Link changes and resets.                                                *)

\* The frontend asks for one more operation between two frames.
Operation ==
  /\ ctl = "idle"
  /\ ops < MaxOps
  /\ ops' = ops + 1

\* detach_link: both drivers, the coordinator and the blocked flags are gone;
\* what the variables keep is never read before the next attach.
Detached ==
  /\ linked' = FALSE
  /\ ctl' = "idle"
  /\ time' = [m \in Players |-> 0]
  /\ when' = [m \in Players |-> UNLOCKED_INTERVAL]
  /\ complete' = [m \in Players |-> Nothing]
  /\ pending' = [m \in Players |-> Nothing]
  /\ queue' = [m \in Players |-> << >>]
  /\ asleep' = [m \in Players |-> FALSE]
  /\ other' = [m \in Players |-> "GPIO"]
  /\ mode' = [m \in Players |-> "GPIO"]
  /\ dataReceived' = [m \in Players |-> FALSE]
  /\ multiData' = [m \in Players |-> Nothing]
  /\ normalData' = Nothing
  /\ transferMode' = "GPIO"
  /\ nextHardSync' = 0 /\ cycle' = 0
  /\ waiting' = FALSE /\ transferActive' = FALSE /\ syncArmed' = FALSE

\* set_link(false): the cores are reset without drivers.
Unlink ==
  /\ Operation
  /\ linked
  /\ Detached
  /\ crashed' = [m \in Players |-> FALSE]
  /\ stale' = FALSE
  /\ UNCHANGED <<dropped, transfers, clean, runVars, cur, early, saved,
                 failures>>

\* attach_link: a fresh coordinator; player 0 alone sets its clock and its
\* mode, then player 1 joins and announces itself.  The games left their
\* ports in any mode.
Attach ==
  /\ linked' = TRUE
  /\ ctl' = "reset"
  /\ cur' = 1
  /\ \E md \in [Players -> GameModes \cup {"GPIO"}] :
       /\ mode' = md
       /\ transferMode' = md[0]
       /\ other' = [m \in Players |-> IF m = 0 THEN "NORMAL" ELSE md[0]]
  /\ time' = [m \in Players |-> 0]
  /\ queue' = [m \in Players |->
                 IF m = 0 THEN <<[type |-> "ATTACH", from |-> 1, ts |-> 0,
                                  mode |-> NoMode, finish |-> 0, txn |-> 0]>>
                          ELSE << >>]
  /\ when' = [m \in Players |-> IF m = 0 THEN 1 ELSE UNLOCKED_INTERVAL]
  /\ nextHardSync' = HARD_SYNC_INTERVAL
  /\ UNCHANGED <<complete, pending, asleep, dataReceived, multiData,
                 normalData, cycle, waiting, transferActive, syncArmed>>

\* set_link(true): attach, which may fail for lack of memory and then leaves
\* the pair unlinked, and reset the cores.
Relink ==
  /\ Operation
  /\ ~linked
  /\ Attach
  /\ UNCHANGED <<dropped, transfers, clean, runVars, early, crashed, saved,
                 stale, failures>>

\* Everything measured from the shared clock's present value.
Rebased(e) == [e EXCEPT !.ts = @ - cycle, !.finish = @ - cycle]

\* mgba_reset: both machines, the second one first; no driver state other
\* than what the driver's reset rewrites is touched.
Reset ==
  /\ Operation
  /\ linked
  /\ ctl' = "reset"
  /\ cur' = 1
  /\ cycle' = 0
  /\ time' = [m \in Players |-> time[m] - cycle]
  /\ when' = [m \in Players |-> when[m] - cycle]
  /\ queue' = [m \in Players |->
                 [i \in DOMAIN queue[m] |-> Rebased(queue[m][i])]]
  /\ stale' = (stale \/ \E m \in Players : HasPendingEvents(m))
  /\ UNCHANGED <<complete, modeVars, dropped, asleep, waiting, nextHardSync,
                 syncArmed, dataVars, runVars, early, linked, crashed, saved,
                 failures>>

\* A core restarts: its timing events are gone and the driver's reset takes
\* the shared clock's time, disarms and schedules itself.
DriverReset ==
  /\ ctl = "reset"
  /\ ctl' = "port"
  /\ time' = [time EXCEPT ![cur] = cycle]
  /\ syncArmed' = FALSE
  /\ other' = [other EXCEPT ![cur] = IF cur = 1 THEN transferMode ELSE @]
  /\ when' = [when EXCEPT ![cur] = cycle + UNLOCKED_INTERVAL]
  /\ complete' = [complete EXCEPT ![cur] = Nothing]
  /\ pending' = [pending EXCEPT ![cur] = Nothing]
  /\ crashed' = [crashed EXCEPT ![cur] = FALSE]
  /\ UNCHANGED <<mode, transferMode, wireVars, asleep, cycle, waiting,
                 nextHardSync, dataReceived, transferActive, multiData,
                 normalData, transfers, clean, runVars, cur, early, linked,
                 saved, stale, ops, failures>>

\* After the port of cur: the other core, or the end.
AfterPort == IF cur = 1 THEN "reset" ELSE "audio"

\* Mutant: the primary waits though a barrier is up already.
WaitsForPeer_Again == cur = 0

\* Does the mode change make its machine wait?
WaitsForPeer == cur = 0 /\ ~waiting

\* The reset of the serial port: setMode announces general purpose mode, and
\* the primary waits for the secondary to notice unless it waits already.
PortReset ==
  /\ ctl = "port"
  /\ mode' = [mode EXCEPT ![cur] = "GPIO"]
  /\ transferMode' = IF cur = 0 THEN "GPIO" ELSE transferMode
  /\ cur' = 0
  /\ \/ /\ mode[cur] = "GPIO"
        /\ ctl' = AfterPort
        /\ UNCHANGED <<wireVars, when, asleep, cycle, waiting, nextHardSync,
                       early>>
     \/ /\ mode[cur] # "GPIO"
        /\ Lose(queue, Peer(cur))
        /\ ctl' = AfterPort
        /\ UNCHANGED <<asleep, cycle, waiting, nextHardSync, early>>
     \/ /\ mode[cur] # "GPIO"
        /\ Deliver(queue, Peer(cur), Event("MODE_SET", cur, "GPIO", 0, 0))
        /\ IF WaitsForPeer
           THEN WaitOnPlayers(nextHardSync, AfterPort)
           ELSE /\ ctl' = AfterPort
                /\ UNCHANGED <<asleep, cycle, waiting, nextHardSync, early>>
  /\ UNCHANGED <<time, complete, other, syncArmed, dataVars, runVars,
                 sessionVars>>

\* reset_cores ends with the audio pipeline.  No machine is in its slice, so
\* an early exit asked for meanwhile ends none.
ResetEnds ==
  /\ ctl = "audio"
  /\ ctl' = "idle"
  /\ early' = FALSE
  /\ UNCHANGED <<clockVars, modeVars, wireVars, syncVars, dataVars, runVars,
                 cur, sessionVars>>
-----------------------------------------------------------------------------
(* Saving and loading.                                                     *)

\* The part of a machine's own state the link depends on.
MachineState(m) ==
  [time |-> time[m], complete |-> complete[m], pending |-> pending[m]]

\* The coordinator's part of player 0's driver state; waiting is a mask.
Coordinator ==
  [cycle |-> cycle, waiting |-> IF waiting THEN {1} ELSE {},
   nextHardSync |-> nextHardSync, multiData |-> multiData,
   normalData |-> normalData, transferMode |-> transferMode,
   transferActive |-> transferActive, syncArmed |-> syncArmed]

\* In player 1's state those bytes are zero.
NoCoordinator == [cycle |-> 0, waiting |-> {}]

\* DriverSaveState: the timing event as a delay, the flags, the queue.
DriverState(m) ==
  [player |-> m, nextEvent |-> when[m] - time[m], asleep |-> asleep[m],
   dataReceived |-> dataReceived[m], mode |-> mode[m], other |-> other[m],
   events |-> queue[m],
   coordinator |-> IF m = 0 THEN Coordinator ELSE NoCoordinator]

\* Mutant: a mode change of the secondary is not accepted back.
EventValid_Primary(e) == e.type # "ATTACH" => e.from = 0

\* Barriers and transfers come from player 0, the rest from either.
EventValid(e) ==
  /\ e.from \in Players
  /\ e.type \in {"HARD_SYNC", "TRANSFER_START"} => e.from = 0

\* DriverValidateState of player m.
ValidateState(m, s) ==
  /\ s.player = m
  /\ Len(s.events) <= Capacity
  /\ \A i \in 1..Len(s.events) : EventValid(s.events[i])
  /\ IF m = 0 THEN s.coordinator.waiting \subseteq Players \ {0}
              ELSE s.coordinator = NoCoordinator

\* serialize_machine of both, and serialize_link; the frontend keeps one state.
SaveState ==
  /\ ctl = "idle"
  /\ saved = NoState
  /\ saved' = [linked |-> linked,
               machines |-> [m \in Players |-> MachineState(m)],
               drivers |-> IF linked THEN [m \in Players |-> DriverState(m)]
                                     ELSE << >>,
               stale |-> stale]
  /\ UNCHANGED <<lockstepVars, linked, crashed, stale, ops, failures>>

\* Mutant: the queue head is not looked at.
LoadedWhen_Delay(t, s) == t + s.nextEvent

\* DriverLoadState schedules the saved delay, at least one cycle, and brings
\* it forward for the head of the loaded queue.
LoadedWhen(t, s) ==
  LET delay == Max({1, s.nextEvent})
      head == IF s.events = << >> THEN delay ELSE s.events[1].ts - t
  IN t + Min({delay, Max({1, head})})

\* Mutant: the sleep flag of the live player survives the load.
LoadedAsleep_Live(s) == asleep[s.player]

\* The sleep and wake callbacks follow the saved flag.
LoadedAsleep(s) == s.asleep

\* The two machines, then the drivers, the secondary first because player 0
\* brings the coordinator.  Both were validated before either was loaded.
LoadDrivers(machines, drivers) ==
  LET c == drivers[0].coordinator
  IN /\ time' = [m \in Players |-> machines[m].time]
     /\ complete' = [m \in Players |-> machines[m].complete]
     /\ pending' = [m \in Players |-> machines[m].pending]
     /\ when' = [m \in Players |-> LoadedWhen(machines[m].time, drivers[m])]
     /\ asleep' = [m \in Players |-> LoadedAsleep(drivers[m])]
     /\ dataReceived' = [m \in Players |-> drivers[m].dataReceived]
     /\ mode' = [m \in Players |-> drivers[m].mode]
     /\ other' = [m \in Players |-> drivers[m].other]
     /\ queue' = [m \in Players |-> drivers[m].events]
     /\ cycle' = c.cycle
     /\ waiting' = (c.waiting # {})
     /\ nextHardSync' = c.nextHardSync
     /\ multiData' = c.multiData
     /\ normalData' = c.normalData
     /\ transferMode' = c.transferMode
     /\ transferActive' = c.transferActive
     /\ syncArmed' = c.syncArmed

\* A state saved without a link is loaded: set_link(false) comes first.
LoadUnlinked ==
  /\ Operation
  /\ saved # NoState /\ ~saved.linked
  /\ Detached
  /\ crashed' = [m \in Players |-> FALSE]
  /\ stale' = FALSE
  /\ UNCHANGED <<dropped, transfers, clean, runVars, cur, early, saved,
                 failures>>

\* A linked state is loaded: set_link(true) when the link is down, whose
\* fresh players and resets the load overwrites, the machines, the drivers.
LoadLinked ==
  /\ Operation
  /\ saved.linked
  /\ \A m \in Players : ValidateState(m, saved.drivers[m])
  /\ LoadDrivers(saved.machines, saved.drivers)
  /\ linked' = TRUE
  /\ crashed' = [m \in Players |-> FALSE]
  /\ stale' = saved.stale
  /\ UNCHANGED <<dropped, transfers, clean, runVars, ctl, cur, early, saved,
                 failures>>
-----------------------------------------------------------------------------
\* The frontend runs a linked frame, the machines crashed or not.
LinkedFrame ==
  /\ linked
  /\ failures < MaxFailures \/ \A m \in Players : ~crashed[m]
  /\ FrameStart

Frame == \/ LinkedFrame
         \/ Round \/ Turn \/ Check
         \/ Cpu \/ SerialWrite \/ Finish \/ LockstepEvent

ResetStep == DriverReset \/ PortReset \/ ResetEnds
Between == Unlink \/ Relink \/ Reset \/ SaveState \/ LoadUnlinked \/ LoadLinked

SessionNext == \/ Frame /\ UNCHANGED sessionVars
               \/ Crash \/ SliceReturns \/ ResetStep \/ Between

SessionSpec == SessionInit /\ [][SessionNext]_allVars

\* One thread: a call that has begun keeps executing.
FairSessionSpec == SessionSpec /\ WF_allVars(SessionNext)
-----------------------------------------------------------------------------
\* Whatever the frontend does after a failed frame, every state it saves is
\* one it can load: ValidateState accepts what DriverSaveState writes.
SavedStateLoads ==
  saved.linked => \A m \in Players : ValidateState(m, saved.drivers[m])

\* A load brings back the saved protocol state of both players, whatever
\* happened in between; only a wake-up may come earlier than it did, never
\* later, and never after the first event that waits.
RestoreResumes ==
  [][LoadLinked =>
       \A m \in Players :
         LET s == DriverState(m)'
         IN /\ s = [saved.drivers[m] EXCEPT !.nextEvent = s.nextEvent]
            /\ s.nextEvent <= saved.drivers[m].nextEvent
            /\ s.events # << >> =>
                 s.nextEvent <= Max({1, s.events[1].ts - time'[m]})
    ]_allVars

\* After a frame that completed each player knows the other's mode, unless
\* an event was dropped or a reset met the events of a failed frame (in this
\* session or in the one the loaded state was saved in).
SessionModesConverge ==
  (linked /\ ~stale /\ ctl = "check" /\ ran_any /\ FrameComplete /\ ~dropped) =>
    /\ other[1] = mode[0]
    /\ other[0] = mode[1] \/ (other[0] = NoMode /\ mode[1] = "GPIO")
=============================================================================
