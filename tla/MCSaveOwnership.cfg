SPECIFICATION Spec
CONSTANTS
  Instances = {"a", "b"}
  Paths = {1, 2}
  Regions <- MCRegions
  None = None
  Torn = Torn
  MaxWrites = 3
  MaxFaults = 1
INVARIANTS NeverTorn SomeoneOwns
PROPERTIES NoLostUpdate FlushIsComplete
