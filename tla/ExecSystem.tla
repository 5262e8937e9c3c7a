----------------------------- MODULE ExecSystem -----------------------------
(***************************************************************************)
(* The whole of the tracee over the device, with a foxtrot driver: the     *)
(* tester, the exec-op framework, the driver's interpreter and the device  *)
(* emulator in the tracer.                                                 *)
(***************************************************************************)
EXTENDS ExecOp, Tester

vars == <<deviceVars, driver, waitVars, callVars, testerVars>>

-----------------------------------------------------------------------------
Init ==
  /\ ParserInit
  /\ ExecOpInit
  /\ TesterInit
  /\ driver \in Drivers

Request == \E r \in Requests : Operate(r) /\ Call(r) /\ UNCHANGED driver

Tracee == CallStep /\ UNCHANGED <<driver, testerVars>>

Time == Tick /\ UNCHANGED <<pc, driver, callVars, testerVars>>

Next == Request \/ Tracee \/ Time

Spec == Init /\ [][Next]_vars

\* The scheduler runs the tracee when it can run, and time passes.
FairSpec == Spec /\ WF_vars(Tracee) /\ WF_vars(Time)

-----------------------------------------------------------------------------
(* Properties.                                                             *)

\* The framework fills the array it has allocated exactly (its assertions on
\* ninstrs): the count beforehand rounds to pages or blocks, the loops that
\* fill the array go transfer by transfer.
CountIsExact ==
  req # NoRequest => Len(OperationFor(req)) = InstructionCount(req)

\* exec_op() sends the device a prefix of the operation, in order: all of it,
\* or as far as the first wait that times out (drivers.html 5.2).
SendsPrefix ==
  [][pc # "idle" =>
       IF pc' = "idle"
         THEN IF rc' = 0 THEN index = Len(OperationFor(req))
              ELSE pc = "timed_out" /\ Instruction.type = "wait"
         ELSE index' \in {index, index + 1}]_vars

\* Each data instruction finds the device at the storage address that its
\* part of the caller's buffer is for, although no instruction says where.
CursorFollowsOperation ==
  pc \in {"data_in", "data_out"} /\ done < Instruction.len =>
    /\ CursorAddress = Wrap(req.offset + Instruction.at + done)
    /\ pc = "data_out" => cache = PageAt(cursor)

\* foxtrot_1's array has room for one page's transfer (drivers.html 5.2): a
\* read gets its first page and reports success, whatever it was asked for,
\* and whatever leftovers have been carried out before.
FirstPageIsRead ==
  driver = "foxtrot_1" /\ pc = "idle" /\ rc = 0 /\ req.op = "read" =>
    \A i \in 0 .. (req.size - 1) :
      buffer[i] = IF BYTE(req.offset) + i < Radix
                    THEN Contents[Wrap(req.offset + i)] ELSE Junk

\* foxtrot_1 cuts its operations off wherever the array ends, and yet only an
\* erase can be reported as a success with the device still at work on it, so
\* that the next call finds it busy; foxtrot_2 leaves no work behind at all.
OnlyErasesAreCutShort ==
  pc = "idle" /\ rc = 0 /\ BeforeDeadline =>
    driver = "foxtrot_1" /\ req.op = "erase"

\* foxtrot_2 dispatches an operation that does not fit below its modulus for
\* ever, as it says (drivers.html 5.2), and yet never upsets the device: the
\* setup that comes round again is one that the last wait finds it ready for.
LongOperationsGoOn ==
  [][driver = "foxtrot_2" /\ pc # "idle" /\ Len(OperationFor(req)) > Modulus
       => pc' # "idle" /\ machine_state' # MS_BUG]_vars

\* A shorter operation returns.
ShortOperationsReturn ==
  (driver = "foxtrot_2" /\ pc # "idle" /\ Len(OperationFor(req)) < Modulus)
    ~> pc = "idle"

\* "if there are N or fewer instructions in an operation, all will be well"
\* (drivers.html 5.2).
FewInstructionsReturn ==
  (pc # "idle" /\ Len(OperationFor(req)) <= Modulus) ~> pc = "idle"
=============================================================================
