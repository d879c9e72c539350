---------------------------- MODULE PairedState ----------------------------
(***************************************************************************)
(* Saving and restoring the state of a linked pair of GBA machines:        *)
(* dualboy_state_serialize and dualboy_state_unserialize_ex of             *)
(* src/src/frontend/state.c, retro_unserialize of                          *)
(* src/src/libretro/libretro_core.c, and the engine operations they call   *)
(* in src/src/engines/mgba/mgba_adapter.c, any of which may fail.          *)
(*                                                                         *)
(* The state of a machine, of its link driver and of its battery is a      *)
(* stamp: the number of the frame that produced it.  Save types, dirty     *)
(* flags and flush intervals are SaveRegion's.                             *)
(***************************************************************************)
EXTENDS Naturals

CONSTANTS
  MaxFrames,    \* bound on frames
  MaxFaults,    \* bound on failures
  Closed        \* no session, no saved state

ASSUME BoundAssumption == MaxFrames \in Nat /\ MaxFaults \in Nat

Machines == {0, 1}

States == [link : BOOLEAN, attached : BOOLEAN,
           core : [Machines -> Nat], driver : [Machines -> Nat]]

ASSUME ClosedAssumption == Closed \notin States

VARIABLES
  loaded,       \* session->loaded
  link,         \* session->link_enabled
  link_enabled, \* pair->link_enabled
  core,         \* the emulated machines
  driver,       \* the link drivers, 0 after attach and reset
  live,         \* battery contents of the emulated cartridges
  stable,       \* the stable buffers the frontend sees
  imported,     \* memory_imported: live has been filled from stable
  restore_failed, \* persistent_restore_failed
  disk,         \* the save files
  slot,         \* the saved state
  slot_battery, \* the battery contents it carries along
  pc,           \* a place in dualboy_state_unserialize_ex, or idle
  rolling,      \* inside rollback_state
  rollback_ok,
  snapshot,     \* the state before the restore
  snapshot_battery, \* what it carries along
  copies,       \* copy_battery
  result,       \* the last restore returned this
  frame,        \* frames so far
  faults        \* failures so far

pair   == <<link_enabled, core, driver>>
storage == <<live, stable, imported, restore_failed>>
saved  == <<slot, slot_battery>>
restore == <<pc, rolling, rollback_ok, snapshot, snapshot_battery, copies>>
vars == <<loaded, link, pair, storage, disk, saved, restore, result, frame,
          faults>>

All(x) == [m \in Machines |-> x]

\* What memory_info shows, after sync_machine_storage.
Battery == [m \in Machines |-> IF imported[m] THEN live[m] ELSE stable[m]]

\* The part of a session that a state stands for: the header has the link
\* setting of the session, the link payload that of the pair.
State == [link |-> link, attached |-> link_enabled, core |-> core,
          driver |-> driver]

\* Outside dualboy_state_unserialize_ex its locals are gone.
NoRestore ==
  /\ pc' = "idle" /\ rolling' = FALSE /\ rollback_ok' = TRUE
  /\ snapshot' = Closed /\ snapshot_battery' = All(0) /\ copies' = All(0)

\* dualboy_session_unload: the pair is destroyed.
NoSession ==
  /\ loaded' = FALSE /\ link' = FALSE /\ link_enabled' = FALSE
  /\ core' = All(0) /\ driver' = All(0) /\ live' = All(0) /\ stable' = All(0)
  /\ imported' = All(FALSE) /\ restore_failed' = All(FALSE)

Init ==
  /\ loaded = FALSE /\ link = FALSE /\ link_enabled = FALSE
  /\ core = All(0) /\ driver = All(0) /\ live = All(0) /\ stable = All(0)
  /\ imported = All(FALSE) /\ restore_failed = All(FALSE)
  /\ disk = All(0) /\ slot = Closed /\ slot_battery = All(0)
  /\ pc = "idle" /\ rolling = FALSE /\ rollback_ok = TRUE
  /\ snapshot = Closed /\ snapshot_battery = All(0) /\ copies = All(0)
  /\ result = "none" /\ frame = 0 /\ faults = 0

Ready == loaded /\ pc = "idle"
Fault == faults < MaxFaults /\ faults' = faults + 1

----------------------------------------------------------------------------
(* Engine operations                                                       *)

\* mgba_set_link succeeds: a change detaches or attaches, and resets.
SetLinkWorks(enabled) ==
  /\ link_enabled' = enabled
  /\ IF link_enabled = enabled THEN UNCHANGED <<core, driver>>
     ELSE core' = All(0) /\ driver' = All(0)

\* attach_link fails, and leaves the machines detached and not reset.
SetLinkFails(enabled) ==
  /\ enabled /\ ~link_enabled
  /\ driver' = All(0)
  /\ UNCHANGED <<core, link_enabled>>

\* A bug: what the state carries along stays in the cartridge.
Rehydrated_Never(m, carried) == [live EXCEPT ![m] = carried[m]]

\* restore_persistent_storage, after loadState has overwritten the battery
\* with what the state carries along: one that has been imported is put back,
\* any other will be filled by the import.
Rehydrated(m, carried) ==
  IF imported[m] THEN live ELSE [live EXCEPT ![m] = carried[m]]

\* sync_machine_storage.
Synced(m) ==
  stable' = IF imported[m] THEN [stable EXCEPT ![m] = live'[m]] ELSE stable

Loaded(m, state) == [core EXCEPT ![m] = state.core[m]]

\* mgba_unserialize_machine.
MachineLoads(m, state, carried) ==
  /\ ~restore_failed[m]
  /\ core' = Loaded(m, state) /\ live' = Rehydrated(m, carried) /\ Synced(m)
  /\ UNCHANGED <<driver, link_enabled, imported, restore_failed, faults>>

\* It fails: at once after an earlier loss of storage; before or in the middle
\* of loadState; or in the recovery of the battery, for good.
MachineFails(m, state, carried) ==
  /\ UNCHANGED <<driver, link_enabled, imported>>
  /\ \/ /\ restore_failed[m]
        /\ UNCHANGED <<core, live, stable, restore_failed, faults>>
     \/ /\ ~restore_failed[m] /\ Fault
        /\ core' \in {core, Loaded(m, state)}
        /\ live' \in {live, Rehydrated(m, carried)} /\ Synced(m)
        /\ UNCHANGED restore_failed
     \/ /\ ~restore_failed[m] /\ imported[m] /\ Fault
        /\ core' \in {core, Loaded(m, state)}
        /\ live' = [live EXCEPT ![m] = carried[m]] /\ Synced(m)
        /\ restore_failed' = [restore_failed EXCEPT ![m] = TRUE]

\* mgba_unserialize_link: the drivers are loaded, the secondary first.
DriversLoad(state) ==
  /\ state.attached = link_enabled
  /\ driver' = IF link_enabled THEN state.driver ELSE driver
  /\ UNCHANGED <<core, link_enabled, faults>>

DriversFail(state) ==
  /\ UNCHANGED <<core, link_enabled>>
  /\ \/ state.attached # link_enabled /\ UNCHANGED <<driver, faults>>
     \/ /\ state.attached /\ link_enabled /\ Fault
        /\ driver' \in {driver, [driver EXCEPT ![1] = state.driver[1]]}

----------------------------------------------------------------------------
(* The session                                                             *)

\* retro_load_game: the pair is created, linked as the option says, reset,
\* and the saves are loaded.
Load ==
  /\ ~loaded
  /\ \E enabled \in BOOLEAN : link' = enabled /\ link_enabled' = enabled
  /\ loaded' = TRUE /\ stable' = disk
  /\ result' = "none"
  /\ UNCHANGED <<core, driver, live, imported, restore_failed, disk, saved,
                 restore, frame, faults>>

\* import_pair_storage.
Import == imported' = All(TRUE) /\ live' = Battery

\* It fails for machine m: the frame, or the reset, is given up.
ImportFails ==
  /\ Ready /\ Fault
  /\ \E m \in Machines :
       /\ ~imported[m]
       /\ imported' = [k \in Machines |-> imported[k] \/ k < m]
       /\ live' = [k \in Machines |-> IF k < m THEN Battery[k] ELSE live[k]]
  /\ result' = "none"
  /\ UNCHANGED <<loaded, link, pair, stable, restore_failed, disk, saved,
                 restore, frame>>

\* The machines in ran run, and the games on those in writers save.
Run(ran, writers) ==
  /\ frame < MaxFrames /\ frame' = frame + 1
  /\ core' = [m \in Machines |-> IF m \in ran THEN frame' ELSE core[m]]
  /\ driver' = [m \in Machines |->
                  IF m \in ran /\ link_enabled THEN frame' ELSE driver[m]]
  /\ imported' = All(TRUE)
  /\ live' = [m \in Machines |-> IF m \in writers THEN frame' ELSE Battery[m]]

\* A flush that is not due, stops at a failure, or completes.
Flush(b) ==
  \E flushed \in {{}, {0}, Machines} :
    disk' = [m \in Machines |-> IF m \in flushed THEN b[m] ELSE disk[m]]

\* retro_run: a frame and the tick, which may find that a flush is due.
Frame ==
  /\ Ready /\ restore_failed = All(FALSE)
  /\ \E writers \in SUBSET Machines : Run(Machines, writers)
  /\ Flush(live')
  /\ result' = "none"
  /\ UNCHANGED <<loaded, link, link_enabled, stable, restore_failed, saved,
                 restore, faults>>

\* A machine crashes, or the link makes no progress: there is no tick.
FrameFails ==
  /\ Ready /\ restore_failed = All(FALSE) /\ Fault
  /\ \E ran \in SUBSET Machines : \E writers \in SUBSET ran :
       Run(ran, writers)
  /\ result' = "none"
  /\ UNCHANGED <<loaded, link, link_enabled, stable, restore_failed, disk,
                 saved, restore>>

\* dualboy_session_reset.
Reset ==
  /\ Ready
  /\ core' = All(0) /\ driver' = All(0)
  /\ Import
  /\ result' = "none"
  /\ UNCHANGED <<loaded, link, link_enabled, stable, restore_failed, disk,
                 saved, restore, frame, faults>>

\* dualboy_session_set_link.
SetLink ==
  /\ Ready
  /\ \E enabled \in BOOLEAN :
       \/ SetLinkWorks(enabled) /\ link' = enabled /\ faults' = faults
       \/ SetLinkFails(enabled) /\ link' = link /\ Fault
  /\ result' = "none"
  /\ UNCHANGED <<loaded, storage, disk, saved, restore, frame>>

\* unload_current: a last flush, which may fail.
Unload ==
  /\ Ready
  /\ Flush(Battery)
  /\ NoSession
  /\ result' = "none"
  /\ UNCHANGED <<saved, restore, frame, faults>>

----------------------------------------------------------------------------
(* Saving and restoring                                                    *)

\* retro_serialize.
Serialize ==
  /\ Ready
  /\ slot' = State /\ slot_battery' = live
  /\ result' = "none"
  /\ UNCHANGED <<loaded, link, pair, storage, disk, restore, frame, faults>>

\* The checks of the header and payload, the snapshot or the copy of the
\* batteries fail: nothing has been touched.
UnserializeRejected ==
  /\ Ready /\ result' = "REJECTED"
  /\ \E seen \in SUBSET Machines :
       stable' = [m \in Machines |-> IF m \in seen THEN Battery[m]
                                     ELSE stable[m]]
  /\ UNCHANGED <<loaded, link, pair, live, imported, restore_failed, disk,
                 saved, restore, frame, faults>>

\* The checks pass; the machines, the link and the batteries are copied.
UnserializeBegins ==
  /\ Ready /\ slot # Closed
  /\ snapshot' = State /\ snapshot_battery' = live
  /\ copies' = Battery /\ stable' = Battery
  /\ pc' = "set_link" /\ rolling' = FALSE /\ rollback_ok' = TRUE
  /\ UNCHANGED <<loaded, link, pair, live, imported, restore_failed, disk,
                 saved, result, frame, faults>>

\* The state being applied: the saved one, or the snapshot on the way back.
Goal == IF rolling THEN snapshot ELSE slot
Carried == IF rolling THEN snapshot_battery ELSE slot_battery

\* The order of the calls, the same on the way back.
After == [set_link |-> "first", first |-> "second", second |-> "drivers",
          drivers |-> "done"]
MachineAt == [first |-> 0, second |-> 1]

\* A bug: the rollback leaves the drivers alone.
Passed_NoDrivers ==
  /\ pc' = IF rolling /\ pc = "second" THEN "done" ELSE After[pc]
  /\ UNCHANGED <<rolling, rollback_ok>>

Passed == pc' = After[pc] /\ UNCHANGED <<rolling, rollback_ok>>

\* A bug: a rollback that fails is not noticed.
Failed_Silently ==
  /\ pc' = IF rolling THEN After[pc] ELSE "set_link"
  /\ rolling' = TRUE /\ rollback_ok' = rollback_ok

\* A first failure starts the rollback, which goes on whatever fails in it.
Failed ==
  /\ pc' = IF rolling THEN After[pc] ELSE "set_link"
  /\ rolling' = TRUE /\ rollback_ok' = ~rolling

Within == UNCHANGED <<loaded, link, disk, saved, snapshot, snapshot_battery,
                      copies, result, frame>>

RestoreLink ==
  /\ pc = "set_link"
  /\ \/ SetLinkWorks(Goal.link) /\ Passed /\ faults' = faults
     \/ SetLinkFails(Goal.link) /\ Failed /\ Fault
  /\ Within /\ UNCHANGED storage

\* The first machine, then the second.
RestoreMachine ==
  /\ pc \in {"first", "second"}
  /\ \/ MachineLoads(MachineAt[pc], Goal, Carried) /\ Passed
     \/ MachineFails(MachineAt[pc], Goal, Carried) /\ Failed
  /\ Within

RestoreDrivers ==
  /\ pc = "drivers"
  /\ \/ DriversLoad(Goal) /\ Passed
     \/ DriversFail(Goal) /\ Failed
  /\ Within /\ UNCHANGED storage

Result == IF ~rolling THEN "OK"
          ELSE IF rollback_ok THEN "REJECTED" ELSE "FATAL"

\* The batteries are copied back, and retro_unserialize looks at the result:
\* discard_current, unlike unload_current, does not flush.
UnserializeEnds ==
  /\ pc = "done"
  /\ result' = Result
  /\ \/ /\ Result # "FATAL"
        /\ stable' = copies
        /\ link' = IF rolling THEN link ELSE slot.link
        /\ UNCHANGED <<loaded, pair, live, imported, restore_failed, disk>>
     \/ Result = "FATAL" /\ NoSession /\ disk' = disk
  /\ NoRestore
  /\ UNCHANGED <<saved, frame, faults>>

Next ==
  \/ Load \/ ImportFails \/ Frame \/ FrameFails \/ Reset \/ SetLink \/ Unload
  \/ Serialize \/ UnserializeRejected \/ UnserializeBegins \/ RestoreLink
  \/ RestoreMachine \/ RestoreDrivers \/ UnserializeEnds

Spec == Init /\ [][Next]_vars

----------------------------------------------------------------------------
(* Properties                                                              *)

\* Values have their types; there is a snapshot exactly during a restore.
TypeOK ==
  /\ loaded \in BOOLEAN /\ link \in BOOLEAN /\ link_enabled \in BOOLEAN
  /\ rolling \in BOOLEAN /\ rollback_ok \in BOOLEAN
  /\ core \in [Machines -> Nat] /\ driver \in [Machines -> Nat]
  /\ live \in [Machines -> Nat] /\ stable \in [Machines -> Nat]
  /\ imported \in [Machines -> BOOLEAN]
  /\ restore_failed \in [Machines -> BOOLEAN]
  /\ disk \in [Machines -> Nat] /\ copies \in [Machines -> Nat]
  /\ slot \in States \cup {Closed}
  /\ slot_battery \in [Machines -> Nat]
  /\ snapshot_battery \in [Machines -> Nat]
  /\ pc \in {"idle", "set_link", "first", "second", "drivers", "done"}
  /\ snapshot \in IF pc = "idle" THEN {Closed} ELSE States
  /\ result \in {"none", "OK", "REJECTED", "FATAL"}
  /\ frame \in Nat /\ faults \in Nat

\* Outside a restore the session's link setting is the engine's, and link
\* drivers have state only while attached: a state that is saved then can be
\* restored, and serialize_link never meets a pair that contradicts it.
LinkAgrees ==
  /\ Ready => link = link_enabled
  /\ Ready /\ ~link_enabled => driver = All(0)

\* A machine that could not get its battery back never plays on: the session
\* it belongs to ends with the restore.
NoPoisonedSession == Ready => restore_failed = All(FALSE)

\* No save file ever goes back to older progress, whatever states are loaded,
\* fail to load, or carry an older battery.
BatteryForward == [][\A m \in Machines : disk'[m] >= disk[m]]_vars

Session ==
  IF ~loaded THEN Closed
  ELSE IF pc = "idle" THEN State ELSE snapshot

SessionBattery ==
  IF ~loaded THEN disk ELSE IF pc = "idle" THEN Battery ELSE copies

Contract == INSTANCE StateContract
  WITH session <- Session, battery <- SessionBattery

\* Restoring a state, with all its calls and their failures, is one atomic
\* step of the contract: complete, without effect, or the end of the session.
ImplementsContract == Contract!Spec
============================================================================
