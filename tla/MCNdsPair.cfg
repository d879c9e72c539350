SPECIFICATION FairPairSpec
CONSTANTS
  Machines <- MCMachines
  Primary = 0
  MaxGeneration = 1
  MaxCalls <- MCMaxCalls
  MaxPackets = 1
  MaxRelinks = 1
INVARIANTS RegisteredIsJoined LastSendSeen RegistrationAgrees
PROPERTIES LinkedFramesReturn
