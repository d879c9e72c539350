CONSTANTS
  LOCKSTEP_INTERVAL = 3
  UNLOCKED_INTERVAL = 3
  HARD_SYNC_INTERVAL = 9
  MIN_SLEEP = 2
  Capacity = 2
  MultiCycles = 3
  NormalCycles = 2
  FrameCycles = 2
  GameModes = {"MULTI", "NORMAL"}
  MaxLate = 0
  MaxFrames = 1
  MaxWrites = 2
  MaxTime = 20
  MaxOps = 2
  MaxFailures = 1
SPECIFICATION FairSessionSpec
INVARIANTS BarrierInv NeverStuck SessionModesConverge SavedStateLoads
PROPERTIES RestoreResumes FrameReturns
CHECK_DEADLOCK FALSE
