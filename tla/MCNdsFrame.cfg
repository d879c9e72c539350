SPECIFICATION FairFrameSpec
CONSTANTS
  Machines <- MCMachines
  Primary = 0
  MaxGeneration = 2
INVARIANTS
  BarrierInv
PROPERTIES
  ImplementsContract
  CallsReturn
