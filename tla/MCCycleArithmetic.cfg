CONSTANTS
  Half = 8
  Interval = 3
  Capacity = 3
  TransferCycles = 2
  PeerSkew = 2
  MaxLate = 1
  MaxNow = 36
  Offsets <- MCOffsets
SPECIFICATION CycleSpec
INVARIANTS StoredExact
CHECK_DEADLOCK FALSE
