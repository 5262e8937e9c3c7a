------------------------------ MODULE Framework ------------------------------
(***************************************************************************)
(* framework/framework.c: what the two frameworks have in common.  A       *)
(* tester calls write_nand(), read_nand() or erase_nand(), which pass the  *)
(* call on to jt_...() (module JumpTable) or exec_...() (module ExecOp),   *)
(* whichever suits the driver.  One call is in progress at a time.         *)
(***************************************************************************)
EXTENDS Integers, NandWait, StMirror

CONSTANT
  Junk      \* what a buffer holds before anything is read into it

ASSUME JunkAssumption == Junk \notin Byte

VARIABLES
  req,         \* the call in progress, or the last one
  buffer,      \* what a read has put into the caller's buffer
  rc           \* what the last call returned

Operation == {"write", "read", "erase"}

NoRequest == [op |-> "none", offset |-> 0, size |-> 0, data |-> <<>>]

IsRequest(r) ==
  /\ r.op \in Operation
  /\ r.offset \in Nat
  /\ r.size \in Nat \ {0}
  /\ r.op = "write" => r.data \in [0 .. (r.size - 1) -> Byte]

SetupCommand(op) == CASE op = "write" -> C_PROGRAM_SETUP
                      [] op = "read" -> C_READ_SETUP
                      [] OTHER -> C_ERASE_SETUP

ExecuteCommand(op) == CASE op = "write" -> C_PROGRAM_EXECUTE
                        [] op = "read" -> C_READ_EXECUTE
                        [] OTHER -> C_ERASE_EXECUTE

WaitInterval(op) == CASE op = "write" -> TIMEOUT_WRITE_PAGE
                      [] op = "read" -> TIMEOUT_READ_PAGE
                      [] OTHER -> TIMEOUT_ERASE_BLOCK

\* Enough blocks to cover the region, whole ones only.
BlocksToErase(offset, size) ==
  LET covered == size + (offset % BlockSize)
  IN (covered \div BlockSize) + (IF covered % BlockSize # 0 THEN 1 ELSE 0)

-----------------------------------------------------------------------------
FrameworkInit ==
  /\ pc = "idle"
  /\ timeout = 0
  /\ sleeping = 0
  /\ req = NoRequest
  /\ buffer = <<>>
  /\ rc = 0

BeginCall(r) ==
  /\ pc = "idle"
  /\ req' = r
  /\ buffer' = IF r.op = "read" THEN [i \in 0 .. (r.size - 1) |-> Junk] ELSE <<>>
  /\ UNCHANGED <<rc, timeout, sleeping, deviceVars>>

EndCall(code) ==
  /\ pc' = "idle"
  /\ rc' = code
  /\ timeout' = 0
  /\ UNCHANGED <<req, buffer, sleeping, deviceVars>>

Tick ==
  /\ deadline > 0 \/ timeout > 0 \/ sleeping > 0
  /\ DeadlinePasses
  /\ TimersRun
  /\ UNCHANGED <<storeVars, machine_state, ioregs, loaded, exited>>
=============================================================================
