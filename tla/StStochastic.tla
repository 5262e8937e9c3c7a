----------------------------- MODULE StStochastic -----------------------------
(***************************************************************************)
(* tester/st_stochastic.c: how the stochastic tester chooses the calls of  *)
(* its tests and what it makes of their outcomes.  (What the calls do is   *)
(* the subject of NandSystem and ExecSystem, which take the tester's       *)
(* choices for granted.)                                                   *)
(*                                                                         *)
(*   "test"     the head of st_stochastic()'s loop                         *)
(*   "size" "start" "choose"    do_test(), about to make a random choice   *)
(*   "call"     a call of the framework is in progress                     *)
(*   "aborted"  an assertion has failed                                    *)
(*   "end"      st_stochastic() has returned                               *)
(***************************************************************************)
EXTENDS Integers, StMirror

CONSTANTS
  ArenaBlocks,    \* the size of the arena in blocks; 4 in the code
  NumOps,         \* NUM_OPS, 8 in the code
  NumTests        \* num_tests

\* The arena has as many blocks before the end of storage as after it.
ASSUME ArenaAssumption == ArenaBlocks \in 1 .. Radix /\ ArenaBlocks % 2 = 0
ASSUME CountAssumption == NumOps \in Nat /\ NumTests \in Nat

ARENA_SIZE == ArenaBlocks * BlockSize
ARENA_START == MirrorSize - (ARENA_SIZE \div 2)

VARIABLES
  place,
  test,        \* number of the current test
  stage,       \* where in do_test() the call is: "erase", "operate" or "compare"
  o,           \* how many operations of this test have been chosen
  op,          \* the operation in progress, or the last one
  size, start, \* its region
  ret_val,     \* st_stochastic()'s
  failures     \* for the properties only: how many tests failed

regionVars == <<size, start>>
stochasticVars == <<place, test, stage, o, op, regionVars, ret_val, failures>>

-----------------------------------------------------------------------------
StochasticInit ==
  /\ place = "test"
  /\ test = 1
  /\ stage = "erase"
  /\ o = 0
  /\ op = "erase"
  /\ size = ARENA_SIZE
  /\ start = ARENA_START
  /\ ret_val = 0
  /\ failures = 0

\* A call for the whole arena, at either end of a test.
CallForArena(operation, next) ==
  /\ place' = "call"
  /\ op' = operation
  /\ size' = ARENA_SIZE
  /\ start' = ARENA_START
  /\ stage' = next
  /\ UNCHANGED <<test, ret_val, failures>>

BeginTest ==
  /\ place = "test"
  /\ test <= NumTests
  /\ CallForArena("erase", "erase")
  /\ o' = 0

\* random_size() and its first assertion.
RandomSize ==
  /\ place = "size"
  /\ size' \in 1 .. ARENA_SIZE
  /\ place' = IF size' > 1 THEN "start" ELSE "aborted"
  /\ UNCHANGED <<test, stage, o, op, start, ret_val, failures>>

\* Faulty: whatever the size, any start in the arena will do.
RandomStartAnywhere ==
  /\ place = "start"
  /\ \E simple \in 0 .. (ARENA_SIZE - 1) : start' = simple + ARENA_START
  /\ place' = "choose"
  /\ UNCHANGED <<test, stage, o, op, size, ret_val, failures>>

\* random_start(): its assertion is about the arena before the shift.
RandomStart ==
  /\ place = "start"
  /\ \E simple \in 0 .. (ARENA_SIZE - size) :
       /\ start' = simple + ARENA_START
       /\ place' = IF simple + size < ARENA_SIZE THEN "choose" ELSE "aborted"
  /\ UNCHANGED <<test, stage, o, op, size, ret_val, failures>>

\* One of every seven operations is an erase, and two are writes.
Choose ==
  /\ place = "choose"
  /\ \E choice \in 0 .. 6 :
       op' = CASE choice < 1 -> "erase"
               [] choice \in 1 .. 2 -> "write"
               [] OTHER -> "read"
  /\ o' = o + 1
  /\ place' = "call"
  /\ UNCHANGED <<test, stage, size, start, ret_val, failures>>

\* A call did what it should: go on with the test, or end it.
Succeed ==
  /\ place = "call"
  /\ \/ /\ stage # "compare"
        /\ o < NumOps
        /\ place' = "size"
        /\ stage' = "operate"
        /\ UNCHANGED <<test, op, size, start, ret_val, failures>>
     \/ /\ stage # "compare"
        /\ o = NumOps
        /\ CallForArena("read", "compare")
     \/ /\ stage = "compare"
        /\ place' = "test"
        /\ test' = test + 1
        /\ UNCHANGED <<stage, op, size, start, ret_val, failures>>
  /\ UNCHANGED o

\* Faulty: each test's result replaces the one before it.
FailUnlessLastPasses ==
  /\ place = "call"
  /\ place' = "test"
  /\ test' = test + 1
  /\ ret_val' = IF test = NumTests THEN -1 ELSE 0
  /\ failures' = failures + 1
  /\ UNCHANGED <<stage, o, op, size, start>>

\* A call timed out, could not have its buffers, or read the wrong bytes.
Fail ==
  /\ place = "call"
  /\ place' = "test"
  /\ test' = test + 1
  /\ ret_val' = -1
  /\ failures' = failures + 1
  /\ UNCHANGED <<stage, o, op, size, start>>

End ==
  /\ place = "test"
  /\ test > NumTests
  /\ place' = "end"
  /\ UNCHANGED <<test, stage, o, op, size, start, ret_val, failures>>

StochasticNext ==
  \/ BeginTest
  \/ RandomSize
  \/ RandomStart
  \/ Choose
  \/ Succeed
  \/ Fail
  \/ End

-----------------------------------------------------------------------------
(* Properties.                                                             *)

\* The addresses that a call changes: the whole pages that a write touches,
\* the whole blocks that an erase touches.
Changed ==
  LET from == IF op = "write" THEN PageStart(start) ELSE BlockStart(start)
      to == IF op = "write" THEN PageEnd(start + size - 1)
            ELSE BlockEnd(start + size - 1)
  IN IF op = "read" THEN {} ELSE {Wrap(a) : a \in from .. to}

Arena == {Wrap(a) : a \in ARENA_START .. (ARENA_START + ARENA_SIZE - 1)}

\* Whatever a test's calls change, zeroes around their regions included, lies
\* in the arena, over the end of storage and on from its start: the test has
\* erased it at first and will compare it at last (the end of do_test()).
ChangesAreCompared == place = "call" => Changed \subseteq Arena

\* The assertion in random_start(), which is to confirm that the operation will
\* not "run off the end of that simple arena".
StartAssertionHolds ==
  place = "aborted" /\ size > 1 => (start - ARENA_START) + size < ARENA_SIZE
=============================================================================
