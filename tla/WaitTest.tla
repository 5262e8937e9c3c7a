------------------------------- MODULE WaitTest -------------------------------
(***************************************************************************)
(* driver/test/test_wait.c: the unit test of the wait loops.  It runs      *)
(* nand_wait() for a read, a write and an erase against a gpio_get() stub  *)
(* that always says busy, takes each call's wall-clock and processor time, *)
(* and sets an alarm against the loops that never time out.  The stub is a *)
(* device whose deadline never comes nearer.                               *)
(*                                                                         *)
(* The verdict is about time, and so depends on the machine: a loop that   *)
(* never sleeps passes if it hardly ever gets the processor.  Anything of  *)
(* the kind may happen here; quiet says that it has not, so far, and does  *)
(* not influence what happens.                                             *)
(***************************************************************************)
EXTENDS NandWait

CONSTANTS
  Interval,       \* TIMEOUT_US, in units of the model's clock
  MetaTimeout,    \* METATIMEOUT_S; also the bound at which the clocks stop
  \* What a quiet machine keeps to:
  MaxTurn,        \* most processor time of a sleeping loop between two sleeps
  MaxLate,        \* most time usleep() takes beyond what it was asked to
  MaxLost         \* most time of a call spent waiting for the processor

ASSUME IntervalAssumption ==
  /\ Interval \in Nat \ {0}
  /\ MetaTimeout \in Nat
  /\ MetaTimeout > Interval
  /\ MetaTimeout > PollInterval

\* A loop that sleeps uses less than half of a poll interval for one round,
\* and with what a quiet machine adds the first round is over long before the
\* timeout and the last one before the alarm.  (The code has 25 us, 10 s and
\* 20 s; output/wait_alpha_0.txt has 87% of the time slept.)
ASSUME QuietAssumption ==
  /\ MaxTurn \in Nat
  /\ MaxLate \in Nat
  /\ MaxLost \in Nat
  /\ 2 * MaxTurn < PollInterval
  /\ 2 * MaxLost <= Interval
  /\ PollInterval + 2 * MaxTurn + MaxLate + MaxLost < Interval
  /\ Interval + PollInterval + 3 * MaxTurn + MaxLate + MaxLost < MetaTimeout

VARIABLES
  testing,     \* the operation the driver is made to believe in
  elapsed,     \* time since nand_wait() was called
  sincePoll,   \* time since the loop last polled; MetaTimeout before that
  passed,      \* no test has failed yet
  cpu,         \* processor time used since then, as getrusage() has it
  turn,        \* the part of it since the loop last woke up; in usleep(), the
               \* time beyond what it was asked for
  lost,        \* time since then that the loop waited for the processor
  quiet        \* the machine has been quiet

loadVars == <<cpu, turn, lost, quiet>>
testVars == <<testing, elapsed, sincePoll, passed, loadVars>>
vars == <<deviceVars, driver, waitVars, testVars>>

StuckDevice ==
  /\ machine_state = MS_INITIAL_STATE
  /\ StoreInit
  /\ deadline = 1
  /\ ioregs = BlankWord
  /\ loaded = Zero
  /\ exited = FALSE

Init ==
  /\ StuckDevice
  /\ driver \in Drivers
  /\ pc = "wait"
  /\ timeout = 0
  /\ sleeping = 0
  /\ testing = "read"
  /\ elapsed = 0
  /\ sincePoll = MetaTimeout
  /\ passed = TRUE
  /\ cpu = 0
  /\ turn = 0
  /\ lost = 0
  /\ quiet = TRUE

Later == CASE testing = "read" -> "write" [] OTHER -> "erase"

\* A step of nand_wait().
Wait ==
  /\ WaitStep(Interval, testing = "erase")
  /\ sincePoll' = IF pc \in {"poll", "last_poll"} THEN 0 ELSE sincePoll
  /\ turn' = IF pc \in {"sleep", "sleeping"} THEN 0 ELSE turn
  /\ UNCHANGED <<testing, elapsed, passed, cpu, lost, quiet, driver, deviceVars>>

\* Faulty: the processor time is not looked at.
PassesAwake == pc = "timed_out" /\ elapsed >= Interval

\* The three checks: timeout_pass, wait_pass and sleep_pass, which is
\* 1 - cpu / elapsed > SLEEP_BAR (and false of no time at all).
Passes ==
  /\ pc = "timed_out"
  /\ elapsed >= Interval
  /\ 2 * cpu < elapsed

\* nand_wait() returned: judge it, and go on to the next operation.
Judge ==
  /\ pc \in Waited
  /\ passed' = (passed /\ Passes)
  /\ pc' = IF testing = "erase" THEN "done" ELSE "wait"
  /\ testing' = Later
  /\ elapsed' = 0
  /\ sincePoll' = MetaTimeout
  /\ timeout' = 0
  /\ cpu' = 0
  /\ turn' = 0
  /\ lost' = 0
  /\ UNCHANGED <<quiet, sleeping, driver, deviceVars>>

\* Faulty: the alarm is set before the first of the tests only.
AlarmForRead ==
  /\ pc \in Waiting
  /\ testing = "read"
  /\ elapsed = MetaTimeout
  /\ pc' = "halted"
  /\ passed' = FALSE
  /\ UNCHANGED <<timeout, sleeping, testing, elapsed, sincePoll, loadVars, driver,
                 deviceVars>>

\* handle_metatimeout(): the alarm ends the whole test.
Alarm ==
  /\ pc \in Waiting
  /\ elapsed = MetaTimeout
  /\ pc' = "halted"
  /\ passed' = FALSE
  /\ UNCHANGED <<timeout, sleeping, testing, elapsed, sincePoll, loadVars, driver,
                 deviceVars>>

Clock(t) == IF t < MetaTimeout THEN t + 1 ELSE t

Clocks ==
  /\ pc \in Waiting
  /\ elapsed < MetaTimeout \/ sleeping > 0
  /\ TimersRun
  /\ elapsed' = Clock(elapsed)
  /\ sincePoll' = Clock(sincePoll)
  /\ UNCHANGED <<pc, testing, passed, driver, deviceVars>>

\* The loops that never sleep: alpha_1's, and alpha_7's but for erases.
Unslept == driver = "alpha_1" \/ (driver = "alpha_7" /\ testing # "erase")

\* Counts on as far as it matters.
CountTo(most, n) == IF n < most THEN n + 1 ELSE n

\* The time asked of usleep().
Sleep ==
  /\ Clocks
  /\ sleeping > 0
  /\ UNCHANGED loadVars

\* usleep() takes longer.
Oversleep ==
  /\ Clocks
  /\ pc = "sleeping"
  /\ sleeping = 0
  /\ turn' = CountTo(MaxTurn + MaxLate + 1, turn)
  /\ quiet' = (quiet /\ turn' <= MaxLate)
  /\ UNCHANGED <<cpu, lost>>

\* The loop has the processor.
Compute ==
  /\ Clocks
  /\ pc # "sleeping"
  /\ cpu' = cpu + 1
  /\ turn' = CountTo(MaxTurn + MaxLate + 1, turn)
  /\ quiet' = (quiet /\ (turn' <= MaxTurn \/ Unslept))
  /\ UNCHANGED lost

\* Something else has it.
Delay ==
  /\ Clocks
  /\ pc # "sleeping"
  /\ lost' = CountTo(MaxLost + 1, lost)
  /\ quiet' = (quiet /\ lost' <= MaxLost)
  /\ UNCHANGED <<cpu, turn>>

Time == Sleep \/ Oversleep \/ Compute \/ Delay

Next == Wait \/ Judge \/ Alarm \/ Time

Spec == Init /\ [][Next]_vars

\* The processor runs the loop, time passes, and the alarm goes off.
FairSpec ==
  Spec /\ WF_vars(Wait) /\ WF_vars(Judge) /\ WF_vars(Alarm) /\ WF_vars(Time)

-----------------------------------------------------------------------------
(* Properties.                                                             *)

\* A loop that reports a timeout has waited at least as long as it was asked
\* to (the second of test_wait()'s checks); alpha_3's has not.
WaitsAtLeastInterval ==
  pc = "timed_out" /\ driver # "alpha_3" => elapsed >= Interval

\* The loops that sleep leave the poll interval between any two polls of the
\* device, the one after the timeout included; alpha_1 does not, nor does
\* alpha_7 but for erases.
PollsAreSpaced ==
  pc \in {"poll", "last_poll"} /\ ~Unslept => sincePoll >= PollInterval

\* alpha_2's loop never looks at the time, and alpha_8's does not after the
\* first comparison if the operation is an erase.
NeverTimesOut ==
  driver = "alpha_2" \/ (driver = "alpha_8" /\ testing = "erase")

\* On a quiet machine the test tells the six loops apart, as the catalogue of
\* drivers (manual/drivers.html 5.1) has them.  Only a loop without a timeout
\* is cut short by the alarm (or one that never sleeps, if the loop itself is
\* that slow), and none of them returns.  Of the others, those of alpha_1, 3
\* and 7 fail and all the rest pass.  On any machine alpha_2's never returns.
TestTellsLoopsApart ==
  /\ driver = "alpha_2" => pc \notin Waited
  /\ quiet =>
       /\ pc \in Waited \union {"done"} => ~NeverTimesOut
       /\ pc = "halted" => NeverTimesOut \/ Unslept
       /\ pc = "done" =>
            (passed <=> driver \notin {"alpha_1", "alpha_3", "alpha_7"})

\* The test ends, whichever driver it is built with.
TestEnds == <>(pc \in {"done", "halted"})
=============================================================================
