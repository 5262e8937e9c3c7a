SPECIFICATION FairSpec
CONSTANTS
  Radix = 2
  Byte = {0, 1, 2, 3}
  Zero = 0
  Junk = Junk
  Burst = 2
  ReadPageDuration = 1
  WritePageDuration = 2
  EraseBlockDuration = 1
  PollInterval = 1
  Drivers = {"alpha_0", "alpha_1", "alpha_2", "alpha_7", "alpha_8"}
  MaxRequests = 3
  Offsets = {5, 7, 8}
  Sizes = {1, 2, 3, 4}
  EraseOffsets = {4, 7}
  EraseSizes = {1, 4}
  Requests <- MCRequests
  ArenaErase <- MCArenaErase
INVARIANTS
  TypeOK
  NeverABug
  NoSpuriousTimeout
  StoreMatchesMirror
  CursorFollowsBuffer
PROPERTIES ImplementsArray
CHECK_DEADLOCK FALSE
