SPECIFICATION Spec
CONSTANTS
  Slices = {1, 2}
  MaxSlice = 2
  MaxSkew = 2
  Modulus = 8
  TickWatchdog = 1
  CallWatchdog = 2
  Bits = 2
  MaxEvents = 2
INVARIANTS ClocksAgree PeersAgree
