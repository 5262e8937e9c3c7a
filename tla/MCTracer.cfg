SPECIFICATION TracerFairSpec
CONSTANTS
  Radix = 2
  Byte = {0}
  Zero = 0
  ReadPageDuration = 1
  WritePageDuration = 1
  EraseBlockDuration = 2
  Displacements <- MCDisplacements
INVARIANTS
  RightRegister
  ReadyStaysReady
PROPERTIES StrayStopsStartNothing TracerEnds
CHECK_DEADLOCK FALSE
