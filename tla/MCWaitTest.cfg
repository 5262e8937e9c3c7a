SPECIFICATION FairSpec
CONSTANTS
  Radix = 2
  Byte = {0}
  Zero = 0
  ReadPageDuration = 1
  WritePageDuration = 1
  EraseBlockDuration = 1
  PollInterval = 3
  Interval = 8
  MetaTimeout = 17
  MaxTurn = 1
  MaxLate = 1
  MaxLost = 1
  Drivers = {"alpha_0", "alpha_1", "alpha_2", "alpha_3", "alpha_7", "alpha_8"}
INVARIANTS
  WaitsAtLeastInterval
  PollsAreSpaced
  TestTellsLoopsApart
PROPERTY TestEnds
CHECK_DEADLOCK FALSE
