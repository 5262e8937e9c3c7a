SPECIFICATION Spec
CONSTANTS
  Radix = 4
  Byte = {0, 1, 2, 3}
  Zero = 0
  Junk = Junk
  Burst = 2
  ReadPageDuration = 1
  WritePageDuration = 1
  EraseBlockDuration = 1
  PollInterval = 1
  Drivers = {"alpha_3", "alpha_4", "alpha_5", "alpha_6"}
  MaxRequests = 3
  Offsets = {18, 30, 63}
  Sizes = {1, 2, 5, 7}
  EraseOffsets = {30}
  EraseSizes = {2, 16}
  Requests <- MCRequests
  ArenaErase <- MCArenaErase
INVARIANTS
  BugOnlyAfterTimeout
  HastyReadsAreRight
  WholeBurstsAreRead
  OnlyWholeBurstsEnd
  PagesAreReversed
CHECK_DEADLOCK FALSE
