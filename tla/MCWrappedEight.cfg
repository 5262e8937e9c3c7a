SPECIFICATION FairSpec
CONSTANTS
  Radix = 2
  Byte = {0, 1, 2, 3}
  Zero = 0
  Junk = Junk
  InstructionSize = 5
  Modulus = 8
  ReadPageDuration = 1
  WritePageDuration = 2
  EraseBlockDuration = 1
  PollInterval = 1
  Drivers = {"foxtrot_2"}
  MaxRequests = 1
  Offsets = {4, 5, 6, 7}
  Sizes = {1, 2, 3, 5}
  EraseOffsets = {4, 7}
  EraseSizes = {1, 4}
  Requests <- MCRequests
  ArenaErase <- MCArenaErase
PROPERTY FewInstructionsReturn
CHECK_DEADLOCK FALSE
