-------------------------------- MODULE IoRegs --------------------------------
(***************************************************************************)
(* The disassembler in update_tracee_cpu_registers() (device/de_ioregs.c). *)
(* The tracee has loaded from ioregisters before the tracer knew of it, so *)
(* the tracer must find the register that the load has filled and fill it  *)
(* again.  All it has is the eight bytes of program text before the        *)
(* instruction pointer, and a load may be three bytes long or seven.       *)
(*                                                                         *)
(* A byte of text is written as in the code's comments; which other bytes  *)
(* there may be does not matter.                                           *)
(***************************************************************************)
EXTENDS Naturals, Sequences

Register == {"ax", "cx", "dx"}

\* What the disassembler says of text that it cannot decode.
UNKNOWN == "unknown"

\* The last byte of a load by register: of the mov that gets the word from
\* ioregisters, or an address relative to the instruction pointer ...
ModRMOfMov == [ax |-> "05", cx |-> "0D", dx |-> "15"]

\* ... and of the movzbl that gets the word's low byte by way of an address in
\* the same register.
ModRMOfMovzbl == [ax |-> "00", cx |-> "09", dx |-> "12"]

-----------------------------------------------------------------------------
(* The text before the instruction pointer when a load has trapped, d being *)
(* the four bytes of a mov's displacement and x whatever comes before it.   *)

\* The "movzbl_pattern": a mov of the address, and a movzbl that traps.
MovzblText(r, d) ==
  <<ModRMOfMov[r], d[1], d[2], d[3], d[4], "0F", "B6", ModRMOfMovzbl[r]>>

\* The "mov_pattern": a mov that traps.
MovText(r, d, x) ==
  <<x, "48", "8B", ModRMOfMov[r], d[1], d[2], d[3], d[4]>>

-----------------------------------------------------------------------------
\* BYTE(text, n): the code counts from 0.
ByteOf(text, n) == text[n + 1]

IsMovzbl(text) ==
  /\ ByteOf(text, 5) = "0F"
  /\ ByteOf(text, 6) = "B6"
  /\ \E r \in Register : ByteOf(text, 7) = ModRMOfMovzbl[r]

IsMov(text) ==
  /\ ByteOf(text, 1) = "48"
  /\ ByteOf(text, 2) = "8B"
  /\ \E r \in Register : ByteOf(text, 3) = ModRMOfMov[r]

\* The switch over the ModR/M byte.
MovzblRegister(text) == CHOOSE r \in Register : ByteOf(text, 7) = ModRMOfMovzbl[r]
MovRegister(text) == CHOOSE r \in Register : ByteOf(text, 3) = ModRMOfMov[r]

\* Faulty: the first pattern that fits is taken.
DestinationOfFirst(text) ==
  IF IsMovzbl(text) THEN MovzblRegister(text)
  ELSE IF IsMov(text) THEN MovRegister(text)
  ELSE UNKNOWN

\* The register to fill, unless the bytes fit neither pattern or both.
Destination(text) ==
  IF IsMovzbl(text) /\ IsMov(text) THEN UNKNOWN
  ELSE IF IsMovzbl(text) THEN MovzblRegister(text)
  ELSE IF IsMov(text) THEN MovRegister(text)
  ELSE UNKNOWN
=============================================================================
