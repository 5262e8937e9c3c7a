SPECIFICATION Spec
CONSTANTS
  Radix = 2
  Byte = {0}
  Zero = 0
  ReadPageDuration = 1
  WritePageDuration = 1
  EraseBlockDuration = 1
PROPERTY BugAwaitsReset
CHECK_DEADLOCK FALSE
