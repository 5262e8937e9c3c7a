SPECIFICATION Spec
CONSTANTS
  Devices = 4
  StorageChips = 5
  MaxNandDevices = 2
  MaxStorageChips = 3
  Shapes <- MCShapes
  RefCounts = {0, 1, 2, 3, 4}
  Drivers = {"kilo_0", "kilo_1", "kilo_2", "kilo_3", "kilo_4", "kilo_5", "other"}
  MaxChanges <- MCMaxChanges
  Radix = 3
  Byte = {0}
  Zero = 0
  ArenaBlocks = 2
  NumOps = 2
  NumTests = 2
INVARIANT StartAssertionHolds
CHECK_DEADLOCK FALSE
