------------------------- MODULE PairedStateProofs -------------------------
(***************************************************************************)
(* A restore is atomic: PairedState implements StateContract.              *)
(***************************************************************************)
EXTENDS PairedState, TLAPS

\* Without a session there is no link, nothing imported and nothing lost.
ClosedInv ==
  ~loaded => /\ pc = "idle" /\ driver = All(0)
             /\ imported = All(FALSE) /\ restore_failed = All(FALSE)

\* A state knows one link setting, and an unlinked one has no driver state.
Consistent(s) == s.link = s.attached /\ (~s.attached => s.driver = All(0))

SlotInv == slot # Closed => Consistent(slot)

\* A restore runs in a session, and its snapshot has the session's setting.
SnapshotInv ==
  pc # "idle" => /\ loaded /\ slot # Closed
                 /\ Consistent(snapshot) /\ snapshot.link = link

\* The copied batteries are those of the machines that have not lost theirs.
CopiesInv ==
  pc # "idle" =>
    \A m \in Machines : restore_failed[m] \/ Battery[m] = copies[m]

\* The places of a pass after the call for machine m, and after set_link.
PastMachine(m) ==
  pc \in IF m = 0 THEN {"second", "drivers", "done"} ELSE {"drivers", "done"}
PastLink == pc \in {"first", "second", "drivers", "done"}

\* A pass that has not failed has reached its goal as far as it has come.
ProgressInv ==
  pc # "idle" /\ (rolling => rollback_ok) =>
    /\ PastLink => link_enabled = Goal.link
    /\ \A m \in Machines : PastMachine(m) => core[m] = Goal.core[m]
    /\ pc = "done" => driver = Goal.driver

\* Machines that are not linked have fresh drivers.
DriverInv == ~link_enabled => driver = All(0)

\* A lost battery makes the rollback fail when it gets to that machine.
LossInv ==
  pc # "idle" => \A m \in Machines : restore_failed[m] =>
                   rolling /\ (PastMachine(m) => ~rollback_ok)

\* Files are never ahead of the session, nor the session of the frames.
StampInv ==
  \A m \in Machines : disk[m] <= SessionBattery[m]
                      /\ SessionBattery[m] <= frame

RestoreInv ==
  /\ TypeOK /\ ClosedInv /\ LinkAgrees /\ NoPoisonedSession
  /\ SlotInv /\ SnapshotInv /\ CopiesInv /\ ProgressInv /\ DriverInv
  /\ LossInv /\ StampInv

----------------------------------------------------------------------------
(* Types                                                                   *)

\* The places of a pass follow each other as the calls do in the code.
LEMMA Places ==
  /\ After["set_link"] = "first" /\ After["first"] = "second"
  /\ After["second"] = "drivers" /\ After["drivers"] = "done"
  /\ MachineAt["first"] = 0 /\ MachineAt["second"] = 1
  BY DEF After, MachineAt

\* A call that returns moves the pass forward, or starts the rollback.
LEMMA PassTypes ==
  ASSUME TypeOK, pc \notin {"idle", "done"}, Passed \/ Failed
  PROVE  /\ pc' \in {"set_link", "first", "second", "drivers", "done"}
         /\ rolling' \in BOOLEAN /\ rollback_ok' \in BOOLEAN
<1>1. After[pc] \in {"first", "second", "drivers", "done"}
  BY Places DEF TypeOK
<1>2. rollback_ok' \in BOOLEAN /\ rolling' \in BOOLEAN
  <2>1. rolling \in BOOLEAN /\ rollback_ok \in BOOLEAN
    BY DEF TypeOK
  <2>2. (~rolling) \in BOOLEAN
    OBVIOUS
  <2> QED
    BY <2>1, <2>2, Zenon DEF Passed, Failed
<1> QED
  BY <1>1, <1>2 DEF Passed, Failed

\* The state a pass applies, and the batteries it carries, have their types.
LEMMA GoalTypes ==
  ASSUME TypeOK, SnapshotInv, pc # "idle"
  PROVE  Goal \in States /\ Carried \in [Machines -> Nat]
  BY ClosedAssumption DEF TypeOK, SnapshotInv, Goal, Carried

\* Every step of the restore, and of the session around it, keeps the types.
LEMMA TypeStep ==
  ASSUME RestoreInv, Next
  PROVE  TypeOK'
<1> USE BoundAssumption, ClosedAssumption
<1>1. CASE Load
  BY <1>1 DEF RestoreInv, TypeOK, All, Machines, pair, storage, saved,
      restore, Load
<1>2. CASE ImportFails
  BY <1>2 DEF RestoreInv, TypeOK, All, Machines, pair, storage, saved,
      restore, ImportFails, Ready, Fault, Battery
<1>3. CASE Frame
  BY <1>3 DEF RestoreInv, TypeOK, All, Machines, pair, storage, saved,
      restore, Frame, Run, Flush, Ready, Battery
<1>4. CASE FrameFails
  BY <1>4 DEF RestoreInv, TypeOK, All, Machines, pair, storage, saved,
      restore, FrameFails, Run, Ready, Fault, Battery
<1>5. CASE Reset
  BY <1>5 DEF RestoreInv, TypeOK, All, Machines, pair, storage, saved,
      restore, Reset, Import, Ready, Battery
<1>6. CASE SetLink
  BY <1>6 DEF RestoreInv, TypeOK, All, Machines, pair, storage, saved,
      restore, SetLink, SetLinkWorks, SetLinkFails, Ready, Fault
<1>7. CASE Unload
  BY ZenonT(30), <1>7 DEF RestoreInv, TypeOK, All, Machines, pair, storage, saved,
      restore, Unload, Flush, NoSession, Ready, Battery
<1>8. CASE Serialize
  BY <1>8 DEF RestoreInv, TypeOK, All, Machines, pair, storage, saved,
      restore, Serialize, Ready, State, States
<1>9. CASE UnserializeRejected
  BY <1>9 DEF RestoreInv, TypeOK, All, Machines, pair, storage, saved,
      restore, UnserializeRejected, Ready, Battery
<1>10. CASE UnserializeBegins
  BY <1>10 DEF RestoreInv, TypeOK, All, Machines, pair, storage, saved,
      restore, UnserializeBegins, Ready, State, States, Battery
<1>11. CASE RestoreLink
  <2>1. pc \notin {"idle", "done"} /\ (Passed \/ Failed)
    BY <1>11 DEF RestoreLink
  <2>2. Goal \in States
    BY <2>1, GoalTypes DEF RestoreInv
  <2>3. link_enabled' \in BOOLEAN /\ faults' \in Nat
    BY <1>11, <2>2 DEF RestoreInv, TypeOK, RestoreLink, SetLinkWorks,
        SetLinkFails, Fault, States
  <2>4. core' \in [Machines -> Nat] /\ driver' \in [Machines -> Nat]
    BY <1>11 DEF RestoreInv, TypeOK, RestoreLink, SetLinkWorks, SetLinkFails,
        All
  <2> QED
    BY <1>11, <2>1, <2>3, <2>4, PassTypes DEF RestoreInv, TypeOK,
        RestoreLink, Within, storage, saved
<1>12. CASE RestoreMachine
  <2>1. pc \notin {"idle", "done"} /\ (Passed \/ Failed)
    BY <1>12 DEF RestoreMachine
  <2>2. Goal \in States /\ Carried \in [Machines -> Nat]
    BY <2>1, GoalTypes DEF RestoreInv
  <2>3. PICK m \in Machines : \/ MachineLoads(m, Goal, Carried)
                             \/ MachineFails(m, Goal, Carried)
    BY <1>12, Places DEF RestoreMachine, Machines
  <2>4. /\ Goal.core[m] \in Nat /\ Carried[m] \in Nat
        /\ Loaded(m, Goal) \in [Machines -> Nat]
        /\ Rehydrated(m, Carried) \in [Machines -> Nat]
    BY <2>2 DEF RestoreInv, TypeOK, Loaded, Rehydrated, States
  <2>5. core' \in [Machines -> Nat] /\ live' \in [Machines -> Nat]
    BY <2>3, <2>4 DEF RestoreInv, TypeOK, MachineLoads, MachineFails
  <2>6. stable' \in [Machines -> Nat]
    BY <2>3, <2>5 DEF RestoreInv, TypeOK, MachineLoads, MachineFails, Synced
  <2>7. UNCHANGED <<driver, link_enabled, imported>> /\ faults' \in Nat
    BY <2>3 DEF RestoreInv, TypeOK, MachineLoads, MachineFails, Fault
  <2>8. restore_failed' \in [Machines -> BOOLEAN]
    <3>1. restore_failed \in [Machines -> BOOLEAN]
      BY DEF RestoreInv, TypeOK
    <3>2. [restore_failed EXCEPT ![m] = TRUE] \in [Machines -> BOOLEAN]
      BY <3>1
    <3>3. restore_failed' \in {restore_failed,
                               [restore_failed EXCEPT ![m] = TRUE]}
      BY <2>3 DEF MachineLoads, MachineFails
    <3> QED
      BY <3>1, <3>2, <3>3
  <2> QED
    BY <1>12, <2>1, <2>5, <2>6, <2>7, <2>8, PassTypes DEF RestoreInv, TypeOK,
        RestoreMachine, Within, saved
<1>13. CASE RestoreDrivers
  <2>1. pc \notin {"idle", "done"} /\ (Passed \/ Failed)
    BY <1>13 DEF RestoreDrivers
  <2>2. Goal \in States
    BY <2>1, GoalTypes DEF RestoreInv
  <2>3. driver' \in [Machines -> Nat] /\ faults' \in Nat
    BY <1>13, <2>2 DEF RestoreInv, TypeOK, RestoreDrivers, DriversLoad,
        DriversFail, Fault, States, Machines
  <2>4. UNCHANGED <<core, link_enabled>>
    BY <1>13 DEF RestoreDrivers, DriversLoad, DriversFail
  <2> QED
    BY <1>13, <2>1, <2>3, <2>4, PassTypes DEF RestoreInv, TypeOK,
        RestoreDrivers, Within, storage, saved
<1>14. CASE UnserializeEnds
  <2>1. Result \in {"OK", "REJECTED", "FATAL"}
    BY DEF Result
  <2>2. rolling' \in BOOLEAN /\ rollback_ok' \in BOOLEAN /\ pc' = "idle"
    BY <1>14 DEF UnserializeEnds, NoRestore
  <2>3. slot \in States
    BY <1>14 DEF RestoreInv, TypeOK, SnapshotInv, UnserializeEnds
  <2>4. link' \in BOOLEAN /\ loaded' \in BOOLEAN /\ link_enabled' \in BOOLEAN
    BY <1>14, <2>3 DEF RestoreInv, TypeOK, UnserializeEnds, NoSession,
        States, pair
  <2>5. /\ core' \in [Machines -> Nat] /\ driver' \in [Machines -> Nat]
        /\ live' \in [Machines -> Nat] /\ stable' \in [Machines -> Nat]
        /\ disk' \in [Machines -> Nat]
    BY <1>14 DEF RestoreInv, TypeOK, UnserializeEnds, NoSession, All, pair
  <2>6. /\ imported' \in [Machines -> BOOLEAN]
        /\ restore_failed' \in [Machines -> BOOLEAN]
    <3>1. All(FALSE) \in [Machines -> BOOLEAN]
      BY DEF All
    <3> QED
      BY <1>14, <3>1 DEF RestoreInv, TypeOK, UnserializeEnds, NoSession
  <2>7. /\ snapshot' = Closed /\ result' = Result
        /\ snapshot_battery' = All(0) /\ copies' = All(0)
        /\ UNCHANGED <<slot, slot_battery, frame, faults>>
    BY <1>14 DEF UnserializeEnds, NoRestore, saved
  <2> QED
    BY <2>1, <2>2, <2>4, <2>5, <2>6, <2>7 DEF RestoreInv, TypeOK, All
<1> QED
  BY <1>1, <1>2, <1>3, <1>4, <1>5, <1>6, <1>7, <1>8, <1>9, <1>10, <1>11,
      <1>12, <1>13, <1>14 DEF Next

----------------------------------------------------------------------------
(* The inductive invariant                                                 *)

\* The parts that speak of a restore in progress.
PassInv == SnapshotInv /\ CopiesInv /\ ProgressInv /\ LossInv

\* The parts that speak of a session.
SessionInv ==
  ClosedInv /\ LinkAgrees /\ NoPoisonedSession /\ SlotInv /\ DriverInv

\* The steps outside a restore.
SessionNext ==
  \/ Load \/ ImportFails \/ Frame \/ FrameFails \/ Reset \/ SetLink \/ Unload
  \/ Serialize \/ UnserializeRejected

\* The calls of a restore.
PassNext == RestoreLink \/ RestoreMachine \/ RestoreDrivers

\* Frames, resets, link changes, loads and unloads keep the session sound.
LEMMA SessionSteps ==
  ASSUME RestoreInv, SessionNext
  PROVE  SessionInv' /\ pc = "idle" /\ pc' = "idle"
<1> USE DEF SessionInv, ClosedInv, LinkAgrees, NoPoisonedSession, SlotInv,
            DriverInv, Ready, restore, saved, pair, storage, RestoreInv
<1>1. CASE Load
  BY <1>1 DEF Load, TypeOK, All, Consistent
<1>2. CASE ImportFails
  BY <1>2 DEF ImportFails, Fault, Battery, TypeOK, All, Consistent
<1>3. CASE Frame
  BY <1>3 DEF Frame, Run, Flush, Battery, TypeOK, All, Consistent
<1>4. CASE FrameFails
  BY <1>4 DEF FrameFails, Run, Fault, Battery, TypeOK, All, Consistent
<1>5. CASE Reset
  BY <1>5 DEF Reset, Import, Battery, TypeOK, All, Consistent
<1>6. CASE SetLink
  BY <1>6 DEF SetLink, SetLinkWorks, SetLinkFails, Fault, TypeOK, All,
      Consistent
<1>7. CASE Unload
  BY <1>7 DEF Unload, Flush, NoSession, Battery, TypeOK, All, Consistent
<1>8. CASE Serialize
  BY <1>8 DEF Serialize, State, TypeOK, All, Consistent
<1>9. CASE UnserializeRejected
  BY <1>9 DEF UnserializeRejected, Battery, TypeOK, All, Consistent
<1> QED
  BY <1>1, <1>2, <1>3, <1>4, <1>5, <1>6, <1>7, <1>8, <1>9 DEF SessionNext

\* A restore starts with a snapshot and copies that are those of the session.
LEMMA BeginStep ==
  ASSUME RestoreInv, UnserializeBegins
  PROVE  SessionInv' /\ PassInv'
<1> USE DEF RestoreInv, UnserializeBegins, Ready
<1>1. SessionInv'
  BY DEF SessionInv, ClosedInv, LinkAgrees, NoPoisonedSession, SlotInv,
      DriverInv, saved, pair
<1>2. SnapshotInv'
  BY DEF SnapshotInv, Consistent, LinkAgrees, State, pair, saved
<1>3. CopiesInv'
  BY DEF CopiesInv, Battery, Machines, TypeOK
<1>4. ProgressInv' /\ LossInv'
  BY DEF ProgressInv, LossInv, NoPoisonedSession, PastLink, PastMachine, All
<1> QED
  BY <1>1, <1>2, <1>3, <1>4 DEF PassInv

\* A call keeps what the session and the restore rely on.
LEMMA LinkStep ==
  ASSUME RestoreInv, RestoreLink
  PROVE  SessionInv' /\ PassInv'
<1> USE DEF RestoreInv, RestoreLink, Within
<1>1. /\ pc = "set_link" /\ loaded /\ slot # Closed /\ pc' # "idle"
      /\ pc' \in {"set_link", "first"}
  BY Places DEF SnapshotInv, Passed, Failed
<1>2. SnapshotInv'
  BY <1>1 DEF SnapshotInv, saved, Consistent
<1>3. CopiesInv'
  BY <1>1 DEF CopiesInv, Battery, storage
<1>4. LossInv'
  BY <1>1 DEF LossInv, PastMachine, Machines, Passed, Failed, storage
<1>5. ProgressInv'
  <2>1. CASE SetLinkWorks(Goal.link) /\ Passed
    <3>1. link_enabled' = Goal.link /\ Goal' = Goal /\ pc' = "first"
      BY <2>1, <1>1, Places DEF SetLinkWorks, Passed, Goal, saved
    <3> QED
      BY <3>1 DEF ProgressInv, PastLink, PastMachine, Machines
  <2>2. CASE SetLinkFails(Goal.link) /\ Failed
    <3>1. CASE rolling
      BY <2>2, <3>1 DEF Failed, ProgressInv
    <3>2. CASE ~rolling
      BY <2>2, <3>2 DEF Failed, ProgressInv, PastLink, PastMachine, Machines
    <3> QED
      BY <3>1, <3>2
  <2> QED
    BY <2>1, <2>2
<1>6. SessionInv'
  <2>1. DriverInv'
    BY DEF DriverInv, SetLinkWorks, SetLinkFails, All
  <2> QED
    BY <2>1, <1>1 DEF SessionInv, ClosedInv, LinkAgrees, NoPoisonedSession,
        SlotInv, Ready, saved, Consistent
<1> QED
  BY <1>2, <1>3, <1>4, <1>5, <1>6 DEF PassInv

\* The call for a machine: it has its goal, or the pass has failed.
LEMMA MachineStep ==
  ASSUME RestoreInv, RestoreMachine
  PROVE  SessionInv' /\ PassInv'
<1> USE DEF RestoreInv, RestoreMachine, Within
<1>1. PICK m \in Machines :
        /\ m = MachineAt[pc]
        /\ \/ MachineLoads(m, Goal, Carried) /\ Passed
           \/ MachineFails(m, Goal, Carried) /\ Failed
  BY Places DEF Machines
<1>2. /\ pc \in {"first", "second"} /\ loaded /\ slot # Closed
      /\ pc' \in {"set_link", "second", "drivers"}
      /\ Passed => pc' = After[pc]
      /\ UNCHANGED <<driver, link_enabled, imported>>
  BY <1>1, Places DEF SnapshotInv, Passed, Failed, MachineLoads, MachineFails
<1>3. SnapshotInv'
  BY <1>2 DEF SnapshotInv, saved, Consistent
<1>4. \A k \in Machines : restore_failed[k] => restore_failed'[k]
  BY <1>1 DEF TypeOK, MachineLoads, MachineFails
<1>5. CopiesInv'
  <2>1. ASSUME NEW k \in Machines, ~restore_failed'[k]
        PROVE  Battery'[k] = Battery[k]
    BY <1>1, <1>2, <2>1 DEF TypeOK, MachineLoads, MachineFails, Synced,
        Rehydrated, Battery
  <2> QED
    BY <2>1, <1>2, <1>4 DEF CopiesInv
<1>6. Goal \in States
  BY <1>2, GoalTypes
<1>7. ASSUME MachineLoads(m, Goal, Carried), Passed
      PROVE  LossInv' /\ ProgressInv'
  <2>1. /\ Goal' = Goal /\ UNCHANGED <<rolling, rollback_ok, restore_failed>>
        /\ pc' = After[pc] /\ core' = [core EXCEPT ![m] = Goal.core[m]]
        /\ ~restore_failed[m]
    BY <1>7 DEF Goal, Passed, saved, MachineLoads, Loaded
  <2>2. LossInv'
    <3>1. \A k \in Machines : PastMachine(k)' => PastMachine(k) \/ k = m
      BY <1>1, <1>2, <2>1, Places DEF PastMachine, Machines
    <3> QED
      BY <2>1, <3>1, <1>2 DEF LossInv
  <2>3. ProgressInv'
    <3>1. \A k \in Machines : PastMachine(k)' => PastMachine(k) \/ k = m
      BY <1>1, <1>2, <2>1, Places DEF PastMachine, Machines
    <3>2. PastLink
      BY <1>2 DEF PastLink
    <3>3. pc' # "done"
      BY <1>2
    <3> QED
      BY <2>1, <3>1, <3>2, <3>3, <1>2, <1>6 DEF ProgressInv, TypeOK
  <2> QED
    BY <2>2, <2>3
<1>8. ASSUME MachineFails(m, Goal, Carried), Failed
      PROVE  LossInv' /\ ProgressInv'
  <2>1. /\ rolling' /\ (rolling => ~rollback_ok')
        /\ ~rolling => pc' = "set_link"
    BY <1>8 DEF Failed
  <2>2. LossInv'
    BY <2>1 DEF LossInv, PastMachine, Machines
  <2>3. ProgressInv'
    BY <2>1 DEF ProgressInv, PastLink, PastMachine, Machines
  <2> QED
    BY <2>2, <2>3
<1>9. SessionInv'
  BY <1>2 DEF SessionInv, ClosedInv, LinkAgrees, NoPoisonedSession, SlotInv,
      DriverInv, Ready, saved, Consistent
<1> QED
  BY <1>1, <1>3, <1>5, <1>7, <1>8, <1>9 DEF PassInv

\* The call for the link drivers, the last of a pass.
LEMMA DriversStep ==
  ASSUME RestoreInv, RestoreDrivers
  PROVE  SessionInv' /\ PassInv'
<1> USE DEF RestoreInv, RestoreDrivers, Within
<1>1. /\ pc = "drivers" /\ loaded /\ slot # Closed
      /\ pc' \in {"set_link", "done"}
      /\ UNCHANGED <<core, link_enabled>>
  BY Places DEF SnapshotInv, Passed, Failed, DriversLoad, DriversFail
<1>2. SnapshotInv'
  BY <1>1 DEF SnapshotInv, saved, Consistent
<1>3. CopiesInv'
  BY <1>1 DEF CopiesInv, Battery, storage
<1>4. Goal \in States /\ Consistent(Goal)
  BY <1>1, GoalTypes DEF SlotInv, SnapshotInv, Goal
<1>5. ASSUME DriversLoad(Goal), Passed
      PROVE  LossInv' /\ ProgressInv' /\ DriverInv'
  <2>1. /\ Goal' = Goal /\ UNCHANGED <<rolling, rollback_ok, restore_failed>>
        /\ pc' = "done" /\ Goal.attached = link_enabled
        /\ driver' = IF link_enabled THEN Goal.driver ELSE driver
    BY <1>5, <1>1, Places DEF Goal, Passed, saved, storage, DriversLoad
  <2>2. driver' = Goal.driver
    BY <2>1, <1>4 DEF Consistent, DriverInv
  <2>3. LossInv'
    BY <2>1, <1>1 DEF LossInv, PastMachine, Machines
  <2>4. ProgressInv'
    BY <2>1, <2>2, <1>1 DEF ProgressInv, PastLink, PastMachine, Machines
  <2>5. DriverInv'
    BY <2>1, <1>1 DEF DriverInv, All
  <2> QED
    BY <2>3, <2>4, <2>5
<1>6. ASSUME DriversFail(Goal), Failed
      PROVE  LossInv' /\ ProgressInv' /\ DriverInv'
  <2>1. /\ rolling' /\ (rolling => ~rollback_ok')
        /\ ~rolling => pc' = "set_link"
    BY <1>6 DEF Failed
  <2>2. LossInv'
    BY <2>1, <1>1 DEF LossInv, PastMachine, Machines, storage
  <2>3. ProgressInv'
    BY <2>1 DEF ProgressInv, PastLink, PastMachine, Machines
  <2>4. DriverInv'
    BY <1>6, <1>1 DEF DriverInv, DriversFail, All
  <2> QED
    BY <2>2, <2>3, <2>4
<1>7. DriverInv' => SessionInv'
  BY <1>1 DEF SessionInv, ClosedInv, LinkAgrees, NoPoisonedSession, SlotInv,
      Ready, saved, Consistent
<1> QED
  BY <1>2, <1>3, <1>5, <1>6, <1>7 DEF PassInv

\* A restore that did not lose a battery ends with the batteries it began with.
LEMMA EndBattery ==
  ASSUME RestoreInv, UnserializeEnds, Result # "FATAL"
  PROVE  /\ restore_failed = All(FALSE) /\ restore_failed' = All(FALSE)
         /\ Battery' = copies
<1> USE DEF RestoreInv, UnserializeEnds
<1>1. pc = "done" /\ (rolling => rollback_ok)
  BY DEF Result
<1>2. \A m \in Machines : ~restore_failed[m]
  BY <1>1 DEF LossInv, PastMachine, Machines
<1>3. restore_failed = All(FALSE)
  BY <1>2 DEF TypeOK, All
<1>4. UNCHANGED <<restore_failed, live, imported>> /\ stable' = copies
  BY DEF NoSession
<1>5. \A m \in Machines : Battery'[m] = copies[m]
  BY <1>1, <1>2, <1>4 DEF CopiesInv, Battery
<1>6. Battery' = [m \in Machines |-> copies[m]]
  BY <1>5 DEF Battery
<1> QED
  BY <1>3, <1>4, <1>6 DEF TypeOK

\* A restore that succeeded has reached the saved state, and one that was
\* rolled back the snapshot.
LEMMA EndState ==
  ASSUME RestoreInv, UnserializeEnds, Result # "FATAL"
  PROVE  /\ State' = Goal /\ link' = link_enabled'
         /\ Result = "OK" => Goal = slot
         /\ Result = "REJECTED" => Goal = snapshot
<1> USE DEF RestoreInv, UnserializeEnds
<1>1. pc = "done" /\ (rolling => rollback_ok)
  BY DEF Result
<1>2. Goal \in States /\ Consistent(Goal)
  BY <1>1, GoalTypes DEF SlotInv, SnapshotInv, Goal
<1>3. link_enabled = Goal.link /\ driver = Goal.driver
  BY <1>1 DEF ProgressInv, PastLink
<1>4. core = Goal.core
  <2>1. \A m \in Machines : core[m] = Goal.core[m]
    BY <1>1 DEF ProgressInv, PastMachine, Machines
  <2> QED
    BY <2>1, <1>2 DEF TypeOK, States
<1>5. UNCHANGED <<core, driver, link_enabled>> /\ link' = Goal.link
  BY <1>1 DEF NoSession, pair, Goal, SnapshotInv
<1>6. State' = Goal
  BY <1>2, <1>3, <1>4, <1>5 DEF State, States, Consistent
<1> QED
  BY <1>3, <1>5, <1>6 DEF Result, Goal

\* A restore ends in a sound session or in none.
LEMMA EndStep ==
  ASSUME RestoreInv, UnserializeEnds
  PROVE  SessionInv' /\ pc' = "idle"
<1> USE DEF RestoreInv, UnserializeEnds
<1>1. pc' = "idle"
  BY DEF NoRestore
<1>2. SlotInv'
  BY DEF SlotInv, saved, Consistent
<1>3. CASE Result = "FATAL"
  BY <1>1, <1>2, <1>3 DEF SessionInv, ClosedInv, LinkAgrees,
      NoPoisonedSession, DriverInv, Ready, NoSession
<1>4. CASE Result # "FATAL"
  <2>1. loaded' /\ UNCHANGED <<driver, link_enabled>>
    <3>1. loaded /\ UNCHANGED <<loaded, pair>>
      BY <1>4 DEF SnapshotInv
    <3> QED
      BY <3>1 DEF pair
  <2>2. link' = link_enabled' /\ restore_failed' = All(FALSE)
    BY <1>4, EndBattery, EndState
  <2> QED
    BY <1>1, <1>2, <2>1, <2>2 DEF SessionInv, ClosedInv, LinkAgrees,
        NoPoisonedSession, DriverInv, All
<1> QED
  BY <1>3, <1>4

----------------------------------------------------------------------------
(* Batteries                                                               *)

\* The steps of an open session outside a restore.
PlayNext ==
  \/ ImportFails \/ Frame \/ FrameFails \/ Reset \/ SetLink
  \/ Serialize \/ UnserializeRejected

\* Outside a restore a battery stays or takes the stamp of the new frame, and
\* a file stays or takes the battery.
LEMMA PlayBattery ==
  ASSUME RestoreInv, PlayNext
  PROVE  /\ loaded /\ loaded' /\ pc = "idle" /\ pc' = "idle"
         /\ frame' \in Nat /\ frame' >= frame
         /\ \A m \in Machines : Battery'[m] \in {Battery[m], frame'}
         /\ \A m \in Machines : disk'[m] \in {disk[m], Battery'[m]}
<1> USE DEF RestoreInv, TypeOK, Ready, Battery, pair, storage, restore
<1>1. CASE ImportFails
  BY <1>1 DEF ImportFails, Fault, All
<1>2. CASE Frame
  BY <1>2 DEF Frame, Run, Flush, All
<1>3. CASE FrameFails
  BY <1>3 DEF FrameFails, Run, Fault, All
<1>4. CASE Reset
  BY <1>4 DEF Reset, Import, All
<1>5. CASE SetLink
  BY <1>5 DEF SetLink, SetLinkWorks, SetLinkFails, Fault, All
<1>6. CASE Serialize
  BY <1>6 DEF Serialize, State, All
<1>7. CASE UnserializeRejected
  BY <1>7 DEF UnserializeRejected, All
<1> QED
  BY <1>1, <1>2, <1>3, <1>4, <1>5, <1>6, <1>7 DEF PlayNext

\* A new session shows the batteries of the files.
LEMMA LoadBattery ==
  ASSUME RestoreInv, Load
  PROVE  /\ ~loaded /\ loaded' /\ pc' = "idle" /\ Battery' = disk
         /\ UNCHANGED <<disk, slot, frame>>
<1>1. \A m \in Machines : Battery'[m] = disk[m]
  BY DEF RestoreInv, TypeOK, ClosedInv, Load, Battery, All
<1>2. Battery' = [m \in Machines |-> disk[m]]
  BY <1>1 DEF Battery
<1> QED
  BY <1>2 DEF RestoreInv, TypeOK, ClosedInv, Load, saved, restore

\* The last flush writes the batteries of the session or leaves the files.
LEMMA UnloadBattery ==
  ASSUME RestoreInv, Unload
  PROVE  /\ loaded /\ pc = "idle" /\ ~loaded' /\ UNCHANGED <<slot, frame>>
         /\ \A m \in Machines : disk'[m] \in {disk[m], Battery[m]}
  BY DEF RestoreInv, TypeOK, Unload, Flush, NoSession, Ready, Battery, saved

\* No step of a restore before its end changes the copies or the files.
LEMMA PassBattery ==
  ASSUME RestoreInv, UnserializeBegins \/ PassNext
  PROVE  /\ loaded /\ loaded' /\ pc' # "idle"
         /\ copies' = SessionBattery
         /\ UNCHANGED <<disk, slot, result, frame>>
<1>1. CASE UnserializeBegins
  BY <1>1 DEF UnserializeBegins, Ready, SessionBattery, saved
<1>2. CASE PassNext
  <2>1. pc \notin {"idle", "done"} /\ (Passed \/ Failed) /\ Within
    BY <1>2 DEF PassNext, RestoreLink, RestoreMachine, RestoreDrivers
  <2>2. pc' # "idle"
    BY <2>1, PassTypes DEF RestoreInv
  <2> QED
    BY <2>1, <2>2 DEF RestoreInv, SnapshotInv, Within, SessionBattery, saved
<1> QED
  BY <1>1, <1>2

\* Save files never get ahead of the session.
LEMMA StampStep ==
  ASSUME RestoreInv, Next
  PROVE  StampInv'
<1> USE DEF RestoreInv, TypeOK, StampInv, SessionBattery
<1>1. CASE Load
  BY <1>1, LoadBattery
<1>2. CASE PlayNext
  <2>1. /\ SessionBattery = Battery /\ SessionBattery' = Battery'
        /\ frame \in Nat /\ frame' \in Nat /\ frame' >= frame
    BY <1>2, PlayBattery
  <2>2. ASSUME NEW m \in Machines
        PROVE  /\ disk[m] \in Nat /\ Battery[m] \in Nat
               /\ disk[m] <= Battery[m] /\ Battery[m] <= frame
               /\ Battery'[m] \in {Battery[m], frame'}
               /\ disk'[m] \in {disk[m], Battery'[m]}
    BY <1>2, <2>1, PlayBattery DEF Battery
  <2>3. ASSUME NEW m \in Machines
        PROVE  disk'[m] <= Battery'[m] /\ Battery'[m] <= frame'
    <3> HIDE DEF RestoreInv, TypeOK, StampInv, SessionBattery
    <3> QED
      BY <2>1, <2>2
  <2> QED
    BY <2>1, <2>3
<1>3. CASE Unload
  <2>1. SessionBattery = Battery /\ SessionBattery' = disk' /\ frame' = frame
    BY <1>3, UnloadBattery
  <2>2. ASSUME NEW m \in Machines
        PROVE  /\ disk[m] \in Nat /\ Battery[m] \in Nat
               /\ disk[m] <= Battery[m] /\ Battery[m] <= frame
               /\ disk'[m] \in {disk[m], Battery[m]}
    BY <1>3, <2>1, UnloadBattery DEF Battery
  <2> QED
    BY <2>1, <2>2
<1>4. CASE UnserializeBegins \/ PassNext
  BY <1>4, PassBattery
<1>5. CASE UnserializeEnds
  <2>1. /\ disk' = disk /\ frame' = frame /\ pc' = "idle" /\ pc = "done"
        /\ loaded
    BY <1>5 DEF UnserializeEnds, NoRestore, NoSession, SnapshotInv
  <2>2. CASE Result = "FATAL"
    BY <1>5, <2>1, <2>2 DEF UnserializeEnds, NoSession
  <2>3. CASE Result # "FATAL"
    BY <1>5, <2>1, <2>3, EndBattery DEF UnserializeEnds
  <2> QED
    BY <2>2, <2>3
<1> QED
  BY <1>1, <1>2, <1>3, <1>4, <1>5 DEF Next, PlayNext, PassNext

\* Every step keeps the inductive invariant.
LEMMA RestoreInvStep ==
  ASSUME RestoreInv, Next
  PROVE  RestoreInv'
<1>1. TypeOK' /\ StampInv'
  BY TypeStep, StampStep
<1>2. CASE SessionNext
  BY <1>1, <1>2, SessionSteps DEF RestoreInv, SessionInv, SnapshotInv,
      CopiesInv, ProgressInv, LossInv
<1>3. CASE UnserializeBegins
  BY <1>1, <1>3, BeginStep DEF RestoreInv, SessionInv, PassInv
<1>4. CASE PassNext
  BY <1>1, <1>4, LinkStep, MachineStep, DriversStep DEF RestoreInv,
      SessionInv, PassInv, PassNext
<1>5. CASE UnserializeEnds
  BY <1>1, <1>5, EndStep DEF RestoreInv, SessionInv, SnapshotInv, CopiesInv,
      ProgressInv, LossInv
<1> QED
  BY <1>2, <1>3, <1>4, <1>5 DEF Next, SessionNext, PassNext

----------------------------------------------------------------------------
(* The contract                                                            *)

\* The invariant holds before the first session.
LEMMA InitInv ==
  Init => RestoreInv
<1> SUFFICES ASSUME Init PROVE RestoreInv
  OBVIOUS
<1> USE DEF Init
<1>1. All(0) \in [Machines -> Nat] /\ All(FALSE) \in [Machines -> BOOLEAN]
  BY DEF All
<1>2. TypeOK
  BY <1>1 DEF TypeOK
<1>3. /\ ClosedInv /\ LinkAgrees /\ NoPoisonedSession /\ SlotInv /\ DriverInv
      /\ SnapshotInv /\ CopiesInv /\ ProgressInv /\ LossInv
  BY DEF ClosedInv, LinkAgrees, NoPoisonedSession, SlotInv, DriverInv,
      SnapshotInv, CopiesInv, ProgressInv, LossInv, Ready
<1>4. StampInv
  BY DEF StampInv, SessionBattery, All
<1> QED
  BY <1>2, <1>3, <1>4 DEF RestoreInv

\* A state is never mistaken for the absence of a session.
LEMMA OpenSession ==
  ASSUME TypeOK, loaded
  PROVE  Session # Closed
<1>1. CASE pc = "idle"
  <2>1. State \in States
    BY DEF TypeOK, State, States
  <2> QED
    BY <1>1, <2>1, ClosedAssumption DEF Session
<1>2. CASE pc # "idle"
  BY <1>2, ClosedAssumption DEF Session, TypeOK
<1> QED
  BY <1>1, <1>2

\* Frames, resets and link changes are steps of Play.
LEMMA PlayRefines ==
  ASSUME RestoreInv, ImportFails \/ Frame \/ FrameFails \/ Reset \/ SetLink
  PROVE  Contract!Play
<1>1. PlayNext /\ TypeOK /\ TypeOK'
  BY TypeStep DEF PlayNext, Next, RestoreInv
<1>2. result' = "none" /\ slot' = slot
  BY DEF ImportFails, Frame, FrameFails, Reset, SetLink, saved
<1>3. Session # Closed /\ Session' # Closed
  <2>1. loaded /\ loaded' /\ pc' = "idle"
    BY <1>1, PlayBattery
  <2>2. State' \in States
    BY <1>1 DEF TypeOK, State, States
  <2> QED
    BY <1>1, <2>1, <2>2, OpenSession, ClosedAssumption DEF Session
<1>4. SessionBattery = Battery /\ SessionBattery' = Battery'
  BY <1>1, PlayBattery DEF SessionBattery
<1>5. ASSUME NEW m \in Machines
      PROVE  Battery'[m] >= Battery[m] /\ disk'[m] \in {disk[m], Battery'[m]}
  <2>1. Battery[m] \in Nat /\ Battery[m] <= frame
    BY <1>1, <1>4 DEF RestoreInv, StampInv, TypeOK, Battery
  <2>2. /\ Battery'[m] \in {Battery[m], frame'} /\ frame' >= frame
        /\ frame' \in Nat /\ disk'[m] \in {disk[m], Battery'[m]}
    BY <1>1, PlayBattery
  <2> QED
    BY <1>1, <2>1, <2>2 DEF TypeOK
<1> QED
  BY <1>2, <1>3, <1>4, <1>5 DEF Contract!Play, Contract!Idle,
      Contract!Flushed

\* retro_serialize saves what the contract calls the session.
LEMMA SaveRefines ==
  ASSUME RestoreInv, Serialize
  PROVE  Contract!Save
<1>1. UNCHANGED <<Session, SessionBattery, disk>> /\ Session = State
  BY DEF Serialize, Ready, Session, SessionBattery, State, Battery, pair,
      storage, restore
<1>2. Session # Closed
  BY OpenSession DEF RestoreInv, Serialize, Ready
<1> QED
  BY <1>1, <1>2 DEF Serialize, Contract!Save, Contract!Idle

\* A state that fails its checks is rejected without effect.
LEMMA RejectRefines ==
  ASSUME RestoreInv, UnserializeRejected
  PROVE  Contract!Restore
<1>1. Session' = Session /\ UNCHANGED <<disk, slot>>
  BY DEF UnserializeRejected, Ready, Session, State, pair, restore, saved
<1>2. Battery' = Battery
  <2>1. \A m \in Machines : Battery'[m] = Battery[m]
    BY DEF UnserializeRejected, Battery
  <2> QED
    BY <2>1 DEF Battery
<1>3. SessionBattery' = SessionBattery
  BY <1>2 DEF UnserializeRejected, Ready, SessionBattery, restore
<1>4. Session # Closed
  BY OpenSession DEF RestoreInv, UnserializeRejected, Ready
<1> QED
  BY <1>1, <1>3, <1>4 DEF UnserializeRejected, Contract!Restore,
      Contract!Rejected

\* The steps within a restore cannot be seen.
LEMMA PassStutters ==
  ASSUME RestoreInv, UnserializeBegins \/ PassNext
  PROVE  UNCHANGED Contract!vars
<1>1. /\ loaded /\ loaded' /\ pc' # "idle" /\ copies' = SessionBattery
      /\ UNCHANGED <<disk, slot, result>>
  BY PassBattery
<1>2. SessionBattery' = SessionBattery
  BY <1>1 DEF SessionBattery
<1>3. Session' = Session
  <2>1. CASE UnserializeBegins
    BY <1>1, <2>1 DEF UnserializeBegins, Ready, Session
  <2>2. CASE PassNext
    BY <1>1, <2>2 DEF PassNext, RestoreLink, RestoreMachine, RestoreDrivers,
        Within, Session
  <2> QED
    BY <2>1, <2>2
<1> QED
  BY <1>1, <1>2, <1>3 DEF Contract!vars

\* The end of a restore is the restore of the contract.
LEMMA EndRefines ==
  ASSUME RestoreInv, UnserializeEnds
  PROVE  Contract!Restore
<1>1. /\ pc = "done" /\ loaded /\ slot # Closed /\ pc' = "idle"
      /\ UNCHANGED <<disk, slot>> /\ result' = Result
  BY DEF RestoreInv, SnapshotInv, UnserializeEnds, NoRestore, NoSession,
      saved
<1>2. Session = snapshot /\ SessionBattery = copies /\ Session # Closed
  BY <1>1, OpenSession DEF RestoreInv, Session, SessionBattery
<1>3. CASE Result = "FATAL"
  <2>1. ~loaded'
    BY <1>3 DEF UnserializeEnds, NoSession
  <2>2. Session' = Closed /\ SessionBattery' = disk
    BY <1>1, <2>1 DEF Session, SessionBattery
  <2> QED
    BY <1>1, <1>2, <1>3, <2>2 DEF Contract!Restore, Contract!Lost
<1>4. CASE Result # "FATAL"
  <2>1. loaded'
    BY <1>1, <1>4 DEF UnserializeEnds
  <2>2. SessionBattery' = SessionBattery
    BY <1>1, <1>2, <1>4, <2>1, EndBattery DEF SessionBattery
  <2>3. Session' = Goal
    BY <1>1, <1>4, <2>1, EndState DEF Session
  <2>4. CASE Result = "OK"
    BY <1>1, <1>2, <1>4, <2>2, <2>3, <2>4, EndState DEF Contract!Restore,
        Contract!Restored
  <2>5. CASE Result = "REJECTED"
    BY <1>1, <1>2, <1>4, <2>2, <2>3, <2>5, EndState DEF Contract!Restore,
        Contract!Rejected
  <2> QED
    BY <1>4, <2>4, <2>5 DEF Result
<1> QED
  BY <1>3, <1>4

\* A load opens the session.
LEMMA LoadRefines ==
  ASSUME RestoreInv, Load
  PROVE  Contract!Open
<1>1. TypeOK' /\ loaded' /\ pc' = "idle"
  BY TypeStep, LoadBattery DEF Next
<1>2. Session' # Closed
  <2>1. State' \in States
    BY <1>1 DEF TypeOK, State, States
  <2> QED
    BY <1>1, <2>1, ClosedAssumption DEF Session
<1>3. Session = Closed /\ SessionBattery' = SessionBattery
  BY <1>1, LoadBattery DEF Session, SessionBattery
<1> QED
  BY <1>2, <1>3, LoadBattery DEF Load, Contract!Open, Contract!Idle

\* An unload closes it.
LEMMA UnloadRefines ==
  ASSUME RestoreInv, Unload
  PROVE  Contract!Close
<1>1. Session # Closed /\ SessionBattery = Battery
  BY UnloadBattery, OpenSession DEF RestoreInv, SessionBattery
<1>2. Session' = Closed /\ SessionBattery' = disk'
  BY UnloadBattery DEF Session, SessionBattery
<1> QED
  BY <1>1, <1>2, UnloadBattery DEF Unload, Contract!Close, Contract!Idle,
      Contract!Flushed

----------------------------------------------------------------------------
(* Theorems                                                                *)

\* The inductive invariant holds in every state.
LEMMA Invariance ==
  Spec => []RestoreInv
<1>1. RestoreInv /\ [Next]_vars => RestoreInv'
  <2>1. ASSUME RestoreInv, UNCHANGED vars
        PROVE  RestoreInv'
    BY <2>1 DEF vars, pair, storage, saved, restore, RestoreInv, TypeOK,
        ClosedInv, LinkAgrees, NoPoisonedSession, SlotInv, SnapshotInv,
        CopiesInv, ProgressInv, DriverInv, LossInv, StampInv, SessionBattery,
        Battery, Goal, PastLink, PastMachine, Consistent, Ready, States,
        Machines, All
  <2> QED
    BY <2>1, RestoreInvStep
<1> QED
  BY <1>1, InitInv, PTL DEF Spec

\* Values have their types, and a snapshot exists exactly during a restore,
\* for any number of frames and failures.
THEOREM StateTypesCorrect ==
  Spec => []TypeOK
<1>1. RestoreInv => TypeOK
  BY DEF RestoreInv
<1> QED
  BY <1>1, Invariance, PTL

\* Between restores the session and the engine agree on the link.
THEOREM LinkSettingsAgree ==
  Spec => []LinkAgrees
<1>1. RestoreInv => LinkAgrees
  BY DEF RestoreInv
<1> QED
  BY <1>1, Invariance, PTL

\* No session outlives the loss of a battery in a failed recovery.
THEOREM LossEndsTheSession ==
  Spec => []NoPoisonedSession
<1>1. RestoreInv => NoPoisonedSession
  BY DEF RestoreInv
<1> QED
  BY <1>1, Invariance, PTL

\* Save files only move forward.
THEOREM BatteriesMoveForward ==
  Spec => BatteryForward
<1>1. ASSUME RestoreInv, [Next]_vars, NEW m \in Machines
      PROVE  disk'[m] >= disk[m]
  <2>1. disk[m] \in Nat /\ disk[m] <= SessionBattery[m]
    BY <1>1 DEF RestoreInv, TypeOK, StampInv
  <2>2. CASE PlayNext
    <3>1. disk'[m] \in {disk[m], SessionBattery'[m]}
      BY <1>1, <2>2, PlayBattery DEF SessionBattery
    <3>2. disk' \in [Machines -> Nat] /\ StampInv'
      BY <1>1, <2>2, TypeStep, StampStep DEF PlayNext, Next, TypeOK
    <3>3. SessionBattery'[m] \in {SessionBattery[m], frame'} /\ frame' >= frame
      BY <1>1, <2>2, PlayBattery DEF SessionBattery
    <3>4. SessionBattery[m] <= frame /\ frame \in Nat /\ frame' \in Nat
      BY <1>1, <2>2, PlayBattery DEF RestoreInv, StampInv, TypeOK
    <3>5. SessionBattery[m] \in Nat
      BY <1>1, <2>2, PlayBattery DEF SessionBattery, Battery, RestoreInv,
          TypeOK
    <3> QED
      BY <2>1, <3>1, <3>3, <3>4, <3>5
  <2>3. CASE Unload
    <3>1. disk'[m] \in {disk[m], SessionBattery[m]} /\ SessionBattery = Battery
      BY <1>1, <2>3, UnloadBattery DEF SessionBattery
    <3>2. Battery[m] \in Nat
      BY <1>1 DEF Battery, RestoreInv, TypeOK
    <3> QED
      BY <2>1, <3>1, <3>2
  <2>4. CASE Load \/ UnserializeBegins \/ PassNext
    BY <1>1, <2>1, <2>4, LoadBattery, PassBattery
  <2>5. CASE UnserializeEnds
    BY <1>1, <2>1, <2>5, EndRefines DEF Contract!Restore
  <2>6. CASE UNCHANGED vars
    BY <2>1, <2>6 DEF vars
  <2> QED
    BY <1>1, <2>2, <2>3, <2>4, <2>5, <2>6 DEF Next, PlayNext, PassNext
<1>2. RestoreInv /\ [Next]_vars
        => [\A m \in Machines : disk'[m] >= disk[m]]_vars
  BY <1>1
<1> QED
  BY <1>2, Invariance, PTL DEF Spec, BatteryForward

\* Restoring a state is atomic, whatever fails on the way.
THEOREM RestoreImplementsContract ==
  Spec => ImplementsContract
<1>1. Init => Contract!Init
  BY DEF Init, Contract!Init, Session, SessionBattery, All
<1>2. RestoreInv /\ [Next]_vars => [Contract!Next]_(Contract!vars)
  <2> SUFFICES ASSUME RestoreInv, [Next]_vars
               PROVE  [Contract!Next]_(Contract!vars)
    OBVIOUS
  <2>1. CASE UNCHANGED vars
    BY <2>1 DEF vars, pair, storage, saved, restore, Contract!vars, Session,
        SessionBattery, State, Battery
  <2>2. CASE Next
    BY <2>2, PlayRefines, SaveRefines, RejectRefines, PassStutters,
        EndRefines, LoadRefines, UnloadRefines DEF Next, PassNext,
        Contract!Next
  <2> QED
    BY <2>1, <2>2
<1> QED
  BY <1>1, <1>2, Invariance, PTL DEF Spec, ImplementsContract, Contract!Spec
=============================================================================
