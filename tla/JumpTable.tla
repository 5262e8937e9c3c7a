------------------------------ MODULE JumpTable ------------------------------
(***************************************************************************)
(* framework/fw_jumptable.c over an alpha driver: jt_write(), jt_read()    *)
(* and jt_erase() as the sequence of register accesses and waits that they *)
(* make.  The three functions have one shape: a setup command, the address *)
(* bytes, and a loop that transfers a page (or nothing, to erase),         *)
(* executes and waits.  They differ in the order of the loop's parts:      *)
(*                                                                         *)
(*   write:  "transfer"  "execute"  wait                                   *)
(*   read:   "execute"   wait       "transfer"                             *)
(*   erase:  "execute"   wait                                              *)
(*                                                                         *)
(* left is the code's bytes_left, or the blocks still to erase; its cursor *)
(* into the caller's buffer is always size - bytes_left.                   *)
(***************************************************************************)
EXTENDS Framework

CONSTANT
  Burst        \* how many bytes alpha_4 and alpha_5 read at a time; 8 in the code

ASSUME BurstAssumption == Burst \in Nat \ {0}

VARIABLES
  left,        \* how much of the call is left
  byte_addr,   \* offset in the page where the next transfer begins
  chunk,       \* size_to_write or size_to_read
  count        \* bytes of the chunk that nand_read/nand_program has to go

loopVars == <<left, byte_addr, chunk, count>>
callVars == <<req, buffer, rc, loopVars>>

\* The unsigned char variables that hold the parts of an offset keep its
\* remainder by 256.
ByteAddress(offset) == offset % Radix
PageAddress(offset) == (offset \div Radix) % Radix
BlockAddress(offset) == (offset \div BlockSize) % Radix

\* Faulty: the first page is taken to be empty.
WholePageChunk(bytes_left, start) ==
  IF bytes_left < Radix THEN bytes_left ELSE Radix

\* Up to the end of the page, or of the data.
ChunkSize(bytes_left, start) ==
  LET room == Radix - start
  IN IF bytes_left < Radix /\ bytes_left < room THEN bytes_left ELSE room

\* The index into the caller's buffer of the next byte to transfer.
BufferIndex == (req.size - left) + (chunk - count)

-----------------------------------------------------------------------------
JumpTableInit ==
  /\ FrameworkInit
  /\ left = 0
  /\ byte_addr = 0
  /\ chunk = 0
  /\ count = 0

Call(r) ==
  /\ BeginCall(r)
  /\ pc' = "setup"
  /\ left' = IF r.op = "erase" THEN BlocksToErase(r.offset, r.size) ELSE r.size
  /\ byte_addr' = ByteAddress(r.offset)
  /\ chunk' = 0
  /\ count' = 0

Return(code) == EndCall(code) /\ UNCHANGED loopVars

\* An access to a register, by way of the driver's set_register().
Access(at, next) ==
  /\ pc = at
  /\ pc' = next
  /\ UNCHANGED <<timeout, sleeping, callVars>>

SetUp == Access("setup", "block") /\ StoreCommand(SetupCommand(req.op))

GiveBlockAddress ==
  /\ Access("block", IF req.op = "erase" THEN "loop" ELSE "page")
  /\ StoreAddress(BlockAddress(req.offset))

GivePageAddress ==
  Access("page", "byte") /\ StoreAddress(PageAddress(req.offset))

GiveByteAddress ==
  Access("byte", "loop") /\ StoreAddress(ByteAddress(req.offset))

StartOperation == Access("execute", "wait") /\ StoreCommand(ExecuteCommand(req.op))

\* The head of the loop.
LoopEnds == pc = "loop" /\ left = 0 /\ Return(0)

LoopExecutes ==
  /\ pc = "loop"
  /\ left > 0
  /\ req.op # "write"
  /\ pc' = "execute"
  /\ UNCHANGED <<timeout, sleeping, callVars, deviceVars>>

\* The size of the next transfer; after the first the data is page-aligned.
StartTransfer ==
  /\ \/ pc = "loop" /\ left > 0 /\ req.op = "write"
     \/ pc = "ready" /\ req.op = "read"
  /\ pc' = "transfer"
  /\ chunk' = ChunkSize(left, byte_addr)
  /\ count' = ChunkSize(left, byte_addr)
  /\ byte_addr' = 0
  /\ timeout' = 0
  /\ UNCHANGED <<req, left, buffer, rc, sleeping, deviceVars>>

\* One turn of the loop in nand_program().
ProgramByte ==
  /\ pc = "transfer"
  /\ req.op = "write"
  /\ count > 0
  /\ StoreData(req.data[BufferIndex])
  /\ count' = count - 1
  /\ UNCHANGED <<waitVars, req, left, byte_addr, chunk, buffer, rc>>

\* Faulty: alpha_4 leaves out the last burst even if it is whole; alpha_5 stops
\* in the middle of one.
ReadGoesOnToLastBurst ==
  CASE driver = "alpha_4" -> chunk - count < ((chunk - 1) \div Burst) * Burst
    [] OTHER -> count > 0

\* What alpha_4 reads of a transfer.
WholeBursts == (chunk \div Burst) * Burst

\* The loops of nand_read(): alpha_4 reads whole bursts only, alpha_5 does not
\* stop but at the end of a burst.  Once count is negative it stays so.
ReadGoesOn ==
  CASE driver = "alpha_4" -> chunk - count < WholeBursts
    [] driver = "alpha_5" -> count # 0 \/ chunk % Burst # 0
    [] OTHER -> count > 0

\* Faulty: every driver does what alpha_6 does.
ReadIndexBackwards == req.size - left + count - 1

\* Faulty: alpha_6 fills the whole buffer from its end.
ReadIndexFromEnd == req.size - 1 - BufferIndex

\* alpha_6 fills its part of the buffer from the end.
ReadIndex ==
  IF driver = "alpha_6" THEN req.size - left + count - 1 ELSE BufferIndex

\* One turn of the loop in nand_read().
ReadByte ==
  /\ pc = "transfer"
  /\ req.op = "read"
  /\ ReadGoesOn
  /\ LoadData(TRUE)
  /\ IF ReadIndex < req.size
       THEN /\ buffer' = [buffer EXCEPT ![ReadIndex] = loaded']
            /\ count' = count - 1
            /\ UNCHANGED pc
       ELSE \* past the end of the caller's buffer: anything may happen next
            /\ pc' = "undefined"
            /\ UNCHANGED <<buffer, count>>
  /\ UNCHANGED <<timeout, sleeping, req, left, byte_addr, chunk, rc>>

EndTransfer ==
  /\ pc = "transfer"
  /\ \/ /\ req.op = "write"
        /\ count = 0
        /\ pc' = "execute"
        /\ UNCHANGED <<left, chunk>>
     \/ /\ req.op = "read"
        /\ ~ReadGoesOn
        /\ pc' = "loop"
        /\ left' = left - chunk
        /\ chunk' = 0
  /\ count' = 0
  /\ UNCHANGED <<timeout, sleeping, req, byte_addr, buffer, rc, deviceVars>>

\* The wait after a program or an erase was answered.
Advance ==
  /\ pc = "ready"
  /\ req.op # "read"
  /\ pc' = "loop"
  /\ left' = IF req.op = "erase" THEN left - 1 ELSE left - chunk
  /\ chunk' = 0
  /\ timeout' = 0
  /\ UNCHANGED <<sleeping, req, byte_addr, count, buffer, rc, deviceVars>>

GiveUp == pc = "timed_out" /\ Return(-1)

\* A step of the tracee inside write_nand(), read_nand() or erase_nand().
CallStep ==
  \/ SetUp
  \/ GiveBlockAddress
  \/ GivePageAddress
  \/ GiveByteAddress
  \/ LoopExecutes
  \/ StartOperation
  \/ WaitStep(WaitInterval(req.op), req.op = "erase")
       /\ UNCHANGED <<callVars, deviceVars>>
  \/ StartTransfer
  \/ ProgramByte
  \/ ReadByte
  \/ EndTransfer
  \/ Advance
  \/ LoopEnds
  \/ GiveUp
=============================================================================
