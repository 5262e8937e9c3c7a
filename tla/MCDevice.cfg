SPECIFICATION FairSpec
CONSTANTS
  Radix = 2
  Byte = {0, 1}
  Zero = 0
  ReadPageDuration = 1
  WritePageDuration = 2
  EraseBlockDuration = 1
INVARIANTS
  DeviceTypeOK
  BusyOnlyWhileWorking
  SetupStartsClean
  CommandRegisterIsStanding
PROPERTIES OperationsNeverOverlap BusyEnds
CHECK_DEADLOCK FALSE
