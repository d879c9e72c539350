SPECIFICATION MemorySpec
CONSTANTS
  Slots = {0, 1}
  None = none
  MaxCalls = 2
  SaveSize <- MCSaveSize
  Bytes = {"x"}
  FF = "ff"
  NoFile = NoFile
  Bad = Bad
  Disks <- MCDisks
  MaxWrites = 2
INVARIANTS WorkerInv ConsoleMemory
PROPERTY CallReturns
