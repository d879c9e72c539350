CONSTANTS
  LOCKSTEP_INTERVAL = 3
  UNLOCKED_INTERVAL = 3
  HARD_SYNC_INTERVAL = 9
  MIN_SLEEP = 2
  Capacity = 8
  MultiCycles = 4
  NormalCycles = 2
  FrameCycles = 10
  GameModes = {"MULTI"}
  MaxLate = 1
  MaxFrames = 1
  MaxWrites = 4
  MaxTime = 25
SPECIFICATION Spec
INVARIANTS WakeCoversQueue
PROPERTIES TransferExact
CHECK_DEADLOCK FALSE
