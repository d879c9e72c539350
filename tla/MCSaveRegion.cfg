SPECIFICATION Spec
CONSTANTS
  Capacity = 4
  FF = FF
  Bytes = {"x"}
  Autodetect = Autodetect
  Types = {"none", "FLASH512", "FLASH1M"}
  SizeOf <- MCSizeOf
  Family <- MCFamily
  BatterySizes = {2, 4}
  NoFile = NoFile
  Disks <- MCDisks
  SavedTypes = {Autodetect, "FLASH512", "FLASH1M"}
  Interval = 1
  MaxFaults = 1
INVARIANTS SavedImage
PROPERTIES NoSpontaneousWrite FlushRecurs
