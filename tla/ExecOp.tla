-------------------------------- MODULE ExecOp --------------------------------
(***************************************************************************)
(* framework/fw_execop.c over a foxtrot driver.  The framework describes a *)
(* whole call as one operation, a sequence of instructions, and hands it   *)
(* to the driver's exec_op(), which carries the instructions out:          *)
(*                                                                         *)
(*   "next"      the head of exec_op()'s loop                              *)
(*   "cmd" "addr" "data_in" "data_out"   the cases of its switch           *)
(*   "wait"      its last case, where nand_wait() begins (NandWait)        *)
(*   "unknown"   its default                                               *)
(*                                                                         *)
(* foxtrot_0 is right; foxtrot_1 copies a fixed number of instructions and *)
(* carries out the copy; foxtrot_2's index wraps.                          *)
(***************************************************************************)
EXTENDS Framework, Sequences

CONSTANTS
  InstructionSize,    \* INSTRUCTION_SIZE of foxtrot_1; 5 in the code
  Modulus             \* by which foxtrot_2 takes its index; 8 in the code

ASSUME InstructionSizeAssumption == InstructionSize \in Nat \ {0}
ASSUME ModulusAssumption == Modulus \in Nat \ {0}

VARIABLES
  instrs,      \* the instructions that exec_op() carries out
  index,       \* the code's i: how many instructions come before this one
  done         \* how many of its addresses or bytes have been transferred

opVars == <<instrs, index, done>>
callVars == <<req, buffer, rc, opVars>>

-----------------------------------------------------------------------------
(* Building an operation.                                                  *)

Cmd(opcode) == [type |-> "cmd", opcode |-> opcode]
Addr(addrs) == [type |-> "addr", addrs |-> addrs]
DataIn(at, len) == [type |-> "data_in", at |-> at, len |-> len]
DataOut(at, len) == [type |-> "data_out", at |-> at, len |-> len]
WaitRdy(interval) == [type |-> "wait", timeout |-> interval]

BLOCK(o) == (o \div BlockSize) % Radix
PAGE(o) == (o % BlockSize) \div Radix
BYTE(o) == o % Radix

\* The three instructions that transfer one page.
PageInstructions(op, at, len) ==
  LET execute == Cmd(ExecuteCommand(op))
      wait == WaitRdy(WaitInterval(op))
  IN IF op = "write" THEN <<DataIn(at, len), execute, wait>>
     ELSE <<execute, wait, DataOut(at, len)>>

\* Faulty: a transfer is taken to begin at the start of a page.
TransferFromPageStart(r) ==
  LET from[remaining \in 0 .. r.size] ==
        IF remaining = 0 THEN <<>>
        ELSE LET len == IF remaining < Radix THEN remaining ELSE Radix
             IN PageInstructions(r.op, r.size - remaining, len)
                  \o from[remaining - len]
  IN from[r.size]

\* A page at a time, the first of them from BYTE(offset) on.
Transfer(r) ==
  LET available(remaining) ==
        IF remaining = r.size THEN Radix - BYTE(r.offset) ELSE Radix
      from[remaining \in 0 .. r.size] ==
        IF remaining = 0 THEN <<>>
        ELSE LET len == IF remaining < available(remaining) THEN remaining
                        ELSE available(remaining)
             IN PageInstructions(r.op, r.size - remaining, len)
                  \o from[remaining - len]
  IN from[r.size]

Erasure(r) ==
  [k \in 1 .. (2 * BlocksToErase(r.offset, r.size)) |->
     IF k % 2 = 1 THEN Cmd(ExecuteCommand(r.op)) ELSE WaitRdy(WaitInterval(r.op))]

OperationFor(r) ==
  IF r.op = "erase"
    THEN <<Cmd(SetupCommand(r.op)), Addr(<<BLOCK(r.offset)>>)>> \o Erasure(r)
    ELSE <<Cmd(SetupCommand(r.op)),
           Addr(<<BLOCK(r.offset), PAGE(r.offset), BYTE(r.offset)>>)>>
           \o Transfer(r)

\* instruction_count_data_xfer() and instruction_count_erase(): the size of
\* the array, computed beforehand.
InstructionCount(r) ==
  LET covered == r.size + BYTE(r.offset)
      pages == covered \div Radix + (IF covered % Radix # 0 THEN 1 ELSE 0)
  IN IF r.op = "erase" THEN 2 + 2 * BlocksToErase(r.offset, r.size)
     ELSE 2 + 3 * pages

-----------------------------------------------------------------------------
(* Carrying it out.                                                        *)

\* What may lie in memory after the end of an operation's array: anything
\* that the switch can tell apart, a data instruction with a pointer that
\* leads nowhere ("wild") among it.
Leftover ==
  {Cmd(c) : c \in Command} \union {Addr(<<>>), Addr(<<0, 0>>)}
    \union {WaitRdy(TIMEOUT_READ_PAGE), [type |-> "unknown"], [type |-> "wild"]}

\* The instructions that exec_op() works from; foxtrot_1's memcpy() fills its
\* array whatever the length of the operation.
Copied(op, copy) ==
  IF driver = "foxtrot_1"
    THEN \E rest \in [(Len(op) + 1) .. InstructionSize -> Leftover] :
           copy = [k \in 1 .. InstructionSize |->
                     IF k <= Len(op) THEN op[k] ELSE rest[k]]
    ELSE copy = op

Instruction == instrs[index + 1]

\* Faulty: the wait at the end of an operation is thought not to matter.
NextIndexSkippingLastWait(i) == IF i + 2 = Len(instrs) THEN i + 2 ELSE i + 1

\* Faulty: every driver's index wraps, and after half as many instructions.
NextIndexWrapsEarly(i) == (i + 1) % (Modulus \div 2)

NextIndex(i) == IF driver = "foxtrot_2" THEN (i + 1) % Modulus ELSE i + 1

ExecOpInit ==
  /\ FrameworkInit
  /\ instrs = <<>>
  /\ index = 0
  /\ done = 0

Call(r) ==
  /\ BeginCall(r)
  /\ Copied(OperationFor(r), instrs')
  /\ index' = 0
  /\ done' = 0
  /\ pc' = "next"

Return(code) == EndCall(code) /\ UNCHANGED opVars

Dispatch ==
  /\ pc = "next"
  /\ index < Len(instrs)
  /\ pc' = IF Instruction.type = "wild" THEN "undefined" ELSE Instruction.type
  /\ UNCHANGED <<timeout, sleeping, callVars, deviceVars>>

OperationEnds == pc = "next" /\ index >= Len(instrs) /\ Return(0)

\* The instruction in hand is done with; go on to the next.
GoOn ==
  /\ pc' = "next"
  /\ index' = NextIndex(index)
  /\ done' = 0
  /\ timeout' = 0
  /\ UNCHANGED <<instrs, req, rc, sleeping>>

SendCommand ==
  /\ pc = "cmd"
  /\ StoreCommand(Instruction.opcode)
  /\ GoOn
  /\ UNCHANGED buffer

\* One turn of the loop of an address or data instruction.
Transferring ==
  /\ done' = done + 1
  /\ UNCHANGED <<waitVars, instrs, index, req, rc>>

SendAddress ==
  /\ pc = "addr"
  /\ done < Len(Instruction.addrs)
  /\ StoreAddress(Instruction.addrs[done + 1])
  /\ Transferring
  /\ UNCHANGED buffer

ProgramByte ==
  /\ pc = "data_in"
  /\ done < Instruction.len
  /\ StoreData(req.data[Instruction.at + done])
  /\ Transferring
  /\ UNCHANGED buffer

ReadByte ==
  /\ pc = "data_out"
  /\ done < Instruction.len
  /\ LoadData(TRUE)
  /\ buffer' = [buffer EXCEPT ![Instruction.at + done] = loaded']
  /\ Transferring

InstructionEnds ==
  /\ \/ pc = "addr" /\ done = Len(Instruction.addrs)
     \/ pc \in {"data_in", "data_out"} /\ done = Instruction.len
     \/ pc = "ready"
  /\ GoOn
  /\ UNCHANGED <<buffer, deviceVars>>

GiveUp == pc \in {"timed_out", "unknown"} /\ Return(-1)

\* A step of the tracee inside exec_op().
CallStep ==
  \/ Dispatch
  \/ SendCommand
  \/ SendAddress
  \/ ProgramByte
  \/ ReadByte
  \/ pc \in Waiting /\ WaitStep(Instruction.timeout, FALSE)
       /\ UNCHANGED <<callVars, deviceVars>>
  \/ InstructionEnds
  \/ OperationEnds
  \/ GiveUp
=============================================================================
