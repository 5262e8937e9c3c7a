---------------------------- MODULE MCNandSystem ----------------------------
(***************************************************************************)
(* A device of two blocks of two pages of two bytes.  The tester's data is *)
(* data_init()'s: a pattern that repeats, here after three letters, so     *)
(* that neighbouring pages differ.                                         *)
(***************************************************************************)
EXTENDS NandSystem

CONSTANTS Offsets, Sizes, EraseOffsets, EraseSizes

DataInit(size) == [i \in 0 .. (size - 1) |-> 1 + (i % 3)]

MCArenaErase ==
  [op |-> "erase", offset |-> BlockSize, size |-> MirrorSize, data |-> <<>>]

MCRequests ==
  {[op |-> "write", offset |-> o, size |-> n, data |-> DataInit(n)] :
     o \in Offsets, n \in Sizes}
  \union
  {[op |-> "read", offset |-> o, size |-> n, data |-> <<>>] :
     o \in Offsets, n \in Sizes}
  \union
  {[op |-> "erase", offset |-> o, size |-> n, data |-> <<>>] :
     o \in EraseOffsets, n \in EraseSizes}
  \union
  {MCArenaErase}
=============================================================================
