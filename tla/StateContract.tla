--------------------------- MODULE StateContract ---------------------------
(***************************************************************************)
(* What a paired save state promises (src/src/frontend/state.h): a restore *)
(* takes effect completely, or not at all, or ends the session; and it     *)
(* never touches battery progress, which only moves forward on disk.       *)
(***************************************************************************)
EXTENDS Naturals

CONSTANTS Machines, Closed

VARIABLES
  session,  \* the link setting, machines and link protocol, or Closed
  battery,  \* per machine, the battery progress: the session's, or the files'
  disk,     \* per machine, the battery progress in the save file
  slot,     \* the saved state, or Closed when there is none
  result    \* of the last restore

vars == <<session, battery, disk, slot, result>>

Idle == result' = "none"

\* A session starts from the files.
Open ==
  /\ session = Closed /\ session' # Closed
  /\ Idle /\ UNCHANGED <<battery, disk, slot>>

\* A save file is left alone or takes the progress b.
Flushed(b) == \A m \in Machines : disk'[m] \in {disk[m], b[m]}

\* Frames, resets and link changes: batteries advance, and may be written.
Play ==
  /\ session # Closed /\ session' # Closed
  /\ \A m \in Machines : battery'[m] >= battery[m]
  /\ Flushed(battery')
  /\ Idle /\ UNCHANGED slot

Save ==
  /\ session # Closed
  /\ slot' = session /\ Idle
  /\ UNCHANGED <<session, battery, disk>>

Restored ==
  result' = "OK" /\ slot # Closed /\ session' = slot /\ battery' = battery

Rejected ==
  result' = "REJECTED" /\ session' = session /\ battery' = battery

\* The session is gone, and with it what was not on disk.
Lost == result' = "FATAL" /\ session' = Closed /\ battery' = disk

Restore ==
  /\ session # Closed
  /\ Restored \/ Rejected \/ Lost
  /\ UNCHANGED <<disk, slot>>

Close ==
  /\ session # Closed /\ session' = Closed
  /\ Flushed(battery) /\ battery' = disk'
  /\ Idle /\ UNCHANGED slot

Next == Open \/ Play \/ Save \/ Restore \/ Close

Init ==
  /\ session = Closed /\ slot = Closed /\ result = "none"
  /\ battery = [m \in Machines |-> 0] /\ disk = battery

Spec == Init /\ [][Next]_vars
============================================================================
