SPECIFICATION Spec
CONSTANTS
  MaxFrames = 2
  MaxFaults = 2
  Closed = Closed
INVARIANTS NoPoisonedSession
PROPERTIES BatteryForward ImplementsContract
