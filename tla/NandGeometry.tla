---------------------------- MODULE NandGeometry ----------------------------
(***************************************************************************)
(* The shape of the emulated NAND storage and of the values that cross     *)
(* the interface between a driver and the device.                          *)
(*                                                                         *)
(* In the code an I/O register is one unsigned char, and NUM_BLOCKS,       *)
(* NUM_PAGES and NUM_BYTES are all 256, so that a register holds exactly   *)
(* one block, page or byte number: a single constant, Radix, stands for    *)
(* the four of them.  A storage offset is a base-Radix number whose three  *)
(* digits are the block, page and byte that the code's masks and shifts    *)
(* take from it.                                                           *)
(***************************************************************************)
EXTENDS Naturals

CONSTANTS
  Radix,     \* 256 in the code
  Byte,      \* the values a storage byte may have
  Zero       \* the value of an erased byte

ASSUME RadixAssumption == Radix \in Nat /\ Radix > 1
ASSUME ZeroAssumption == Zero \in Byte

\* What one address register holds, and what each part of a cursor is.
Digit == 0 .. (Radix - 1)

Cursor == [block : Digit, page : Digit, byte : Digit]
Origin == [block |-> 0, page |-> 0, byte |-> 0]

Page == [Digit -> Byte]
Block == [Digit -> Page]
ZeroPage == [i \in Digit |-> Zero]
ZeroBlock == [p \in Digit |-> ZeroPage]

-----------------------------------------------------------------------------
(* The commands of device_emu.h, and one value for every other byte, among *)
(* them the 0 that the register holds at first.                            *)

NO_COMMAND == "none"
C_READ_SETUP == "read_setup"
C_READ_EXECUTE == "read_execute"
C_PROGRAM_SETUP == "program_setup"
C_PROGRAM_EXECUTE == "program_execute"
C_ERASE_SETUP == "erase_setup"
C_ERASE_EXECUTE == "erase_execute"
C_DUMMY == "dummy"

Setup == {C_READ_SETUP, C_PROGRAM_SETUP, C_ERASE_SETUP}
Execute == {C_READ_EXECUTE, C_PROGRAM_EXECUTE, C_ERASE_EXECUTE}
Command == {NO_COMMAND, C_DUMMY} \union Setup \union Execute

\* The ioregisters word: its three low bytes.
Word == [command : Command, address : Digit, data : Byte]
=============================================================================
