------------------------------ MODULE StMirror ------------------------------
(***************************************************************************)
(* tester/st_mirror.c: the answer key of the system tests.  A mirror is    *)
(* what the device's storage ought to hold, by storage address; the        *)
(* functions of the C module that change it are operators here that        *)
(* return the changed mirror.                                              *)
(*                                                                         *)
(* Offsets may run off the end of storage, where everything wraps.  An     *)
(* offset and a size together cover a span of whole pages or blocks, which *)
(* is at most the whole of storage: the code's loops would go round again  *)
(* after that, and its callers stay far below it.                          *)
(***************************************************************************)
EXTENDS NandGeometry

BlockSize == Radix * Radix
MirrorSize == Radix * Radix * Radix
StorageAddress == 0 .. (MirrorSize - 1)

Mirror == [StorageAddress -> Byte]
BlankMirror == [a \in StorageAddress |-> Zero]

PageStart(o) == (o \div Radix) * Radix
PageEnd(o) == PageStart(o) + Radix - 1
BlockStart(o) == (o \div BlockSize) * BlockSize
BlockEnd(o) == BlockStart(o) + BlockSize - 1

Wrap(o) == o % MirrorSize

\* How far beyond the (wrapped) offset o the address a is.
Distance(o, a) == Wrap(a + MirrorSize - Wrap(o))

ReadMirror(mirror, offset, size) ==
  [i \in 0 .. (size - 1) |-> mirror[Wrap(offset + i)]]

\* The device writes whole pages: what the data does not cover becomes zero.
WriteMirror(mirror, data, offset, size) ==
  LET start == PageStart(offset)
      lead == offset - start
      span == PageEnd(offset + size - 1) - start + 1
      IsData(a) == Distance(start, a) \in lead .. (lead + size - 1)
  IN [a \in StorageAddress |->
        IF Distance(start, a) >= span THEN mirror[a]
        ELSE IF IsData(a) THEN data[Distance(start, a) - lead]
        ELSE Zero]

\* The device erases whole blocks.
EraseMirror(mirror, offset, size) ==
  LET start == BlockStart(offset)
      span == BlockEnd(offset + size - 1) - start + 1
  IN [a \in StorageAddress |->
        IF Distance(start, a) < span THEN Zero ELSE mirror[a]]
=============================================================================
