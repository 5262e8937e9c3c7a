------------------------------- MODULE Program -------------------------------
(***************************************************************************)
(* main() (main/main.c), in both of the processes that return from it.     *)
(* The child makes its way from the initial DIB (StDib) to the tests, the  *)
(* stochastic ones (StStochastic) or the deterministic one                 *)
(* (tester/st_deterministic.c), and returns a status; the parent waits for *)
(* that as device_init() does (Tracer has its loop in full), and returns   *)
(* one to whoever has started the program.                                 *)
(*                                                                         *)
(* The tests' calls succeed or fail; which they do is the subject of       *)
(* NandSystem and ExecSystem.                                              *)
(***************************************************************************)
EXTENDS StDib, StStochastic

VARIABLES
  mode,      \* the command line's wish
  parent,    \* "arguments", "forking", "tracing", "success" or "failure"
  child,     \* "unborn", "running", "faulting", "killed", "success" or "failure"
  step       \* the deterministic test's call, counted from 1

vars == <<dibVars, stochasticVars, mode, parent, child, step>>

\* st_deterministic() writes, reads, compares, erases, reads again and looks
\* for zeroes.
Steps == 6

Init ==
  /\ DibInit
  /\ StochasticInit
  /\ mode = "none"
  /\ parent = "arguments"
  /\ child = "unborn"
  /\ step = 1

-----------------------------------------------------------------------------
(* The parent.                                                             *)

\* A command line that makes no sense, among them a number of tests that is no
\* number or not positive, is an error.
ProcessArguments ==
  /\ parent = "arguments"
  /\ \/ mode' \in {"deterministic", "stochastic"} /\ parent' = "forking"
     \/ mode' = "none" /\ parent' = "failure"
  /\ UNCHANGED <<dibVars, stochasticVars, child, step>>

Fork ==
  /\ parent = "forking"
  /\ \/ parent' = "tracing" /\ child' = "running"
     \/ parent' = "failure" /\ UNCHANGED child
  /\ UNCHANGED <<dibVars, stochasticVars, mode, step>>

InTests == child = "running" /\ pc = "tests" /\ OwnDib

\* The emulator calls exit(), in MS_BUG or at a load it cannot decode.
EmulatorExits ==
  /\ parent = "tracing"
  /\ InTests \/ child = "faulting"
  /\ parent' = "failure"
  /\ UNCHANGED <<dibVars, stochasticVars, mode, child, step>>

\* device_init() returns when the child has exited, whatever its status.
Finish ==
  /\ parent = "tracing"
  /\ child \in {"success", "failure"}
  /\ parent' = "success"
  /\ UNCHANGED <<dibVars, stochasticVars, mode, child, step>>

-----------------------------------------------------------------------------
(* The child.                                                              *)

PrepareDib ==
  /\ child = "running"
  /\ DibStep \/ Assign
  /\ UNCHANGED <<stochasticVars, mode, parent, child, step>>

\* st_dib_test() has failed, or has followed a NULL pointer.
FailDib ==
  /\ child = "running"
  /\ \/ pc = "failed" /\ child' = "failure"
     \/ pc = "crashed" /\ child' = "faulting"
  /\ UNCHANGED <<dibVars, stochasticVars, mode, parent, step>>

\* A failed assertion aborts, which the tracer does not let it do.
TestStochastically ==
  /\ InTests
  /\ mode = "stochastic"
  /\ StochasticNext
  /\ child' = IF place' = "aborted" THEN "faulting" ELSE "running"
  /\ UNCHANGED <<dibVars, mode, parent, step>>

EndStochastically ==
  /\ InTests
  /\ mode = "stochastic"
  /\ place = "end"
  /\ child' = IF ret_val = 0 THEN "success" ELSE "failure"
  /\ UNCHANGED <<dibVars, stochasticVars, mode, parent, step>>

\* Each call and each comparison goes well, or is the last.
TestDeterministically ==
  /\ InTests
  /\ mode = "deterministic"
  /\ \/ step <= Steps /\ step' = step + 1 /\ UNCHANGED child
     \/ step <= Steps /\ child' = "failure" /\ UNCHANGED step
     \/ step > Steps /\ child' = "success" /\ UNCHANGED step
  /\ UNCHANGED <<dibVars, stochasticVars, mode, parent>>

\* The breakpoint in a pin function kills a child without a tracer.
Trap ==
  /\ parent = "failure"
  /\ InTests
  /\ child' = "killed"
  /\ UNCHANGED <<dibVars, stochasticVars, mode, parent, step>>

-----------------------------------------------------------------------------
Next ==
  \/ ProcessArguments
  \/ Fork
  \/ EmulatorExits
  \/ Finish
  \/ PrepareDib
  \/ FailDib
  \/ TestStochastically
  \/ EndStochastically
  \/ TestDeterministically
  \/ Trap

Spec == Init /\ [][Next]_vars

\* The child goes on while it can; nobody has to set fields of the DIB.
FairSpec ==
  Spec /\ WF_vars(child = "running" /\ DibStep
                    /\ UNCHANGED <<stochasticVars, mode, parent, child, step>>)

-----------------------------------------------------------------------------
(* Properties.                                                             *)

\* The child's status is the result of all its tests: success after every one
\* has been made to its end and none has failed, failure only after something
\* has.  (A test that fails is followed by others, and the DIB's test by none.)
StatusTellsResult ==
  /\ child = "success" =>
       /\ pc = "tests"
       /\ mode = "stochastic" => failures = 0 /\ test = NumTests + 1
       /\ mode = "deterministic" => step = Steps + 1
  /\ child = "failure" =>
       \/ pc = "failed"
       \/ mode = "stochastic" /\ failures > 0 /\ test = NumTests + 1
       \/ mode = "deterministic" /\ step <= Steps

\* output/Makefile expects of flawed drivers that the program's tests "fail and
\* return a failure indication".
FailureIsReturned == child = "failure" => parent # "success"
=============================================================================
