SPECIFICATION FairSpec
CONSTANTS
  Radix = 2
  Byte = {0, 1, 2, 3}
  Zero = 0
  Junk = Junk
  InstructionSize = 5
  Modulus = 8
  ReadPageDuration = 1
  WritePageDuration = 2
  EraseBlockDuration = 1
  PollInterval = 1
  Drivers = {"foxtrot_0"}
  MaxRequests = 3
  Offsets = {5, 7, 8}
  Sizes = {1, 2, 3, 4}
  EraseOffsets = {4, 7}
  EraseSizes = {1, 4}
  Requests <- MCRequests
  ArenaErase <- MCArenaErase
INVARIANTS
  NeverABug
  CursorFollowsOperation
  CountIsExact
PROPERTIES SendsPrefix ImplementsArray
CHECK_DEADLOCK FALSE
