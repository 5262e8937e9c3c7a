---------------------------- MODULE WaitTest_proofs ----------------------------
(***************************************************************************)
(* What nand_wait() promises on a device that stays busy, proved for any   *)
(* timeout, any poll interval and any subset of the drivers.               *)
(***************************************************************************)
EXTENDS WaitTest, TLAPS

WaitTypeOK ==
  /\ driver \in Drivers
  /\ pc \in Waiting \union Waited \union {"done", "halted"}
  /\ timeout \in Nat
  /\ sleeping \in 0 .. PollInterval
  /\ testing \in {"read", "write", "erase"}
  /\ elapsed \in 0 .. MetaTimeout
  /\ sincePoll \in 0 .. MetaTimeout
  /\ passed \in BOOLEAN

StaysBusy == deadline = 1 /\ pc # "ready"

\* nand_wait() has computed its timeout.
Timing == pc \in (Waiting \ {"wait"}) \union {"timed_out"}

\* The time that has gone by and the time still to go make up the interval, or
\* more if the loop was slow to start.
TimeAddsUp ==
  /\ driver \in {"alpha_2", "alpha_3"} => timeout = 0
  /\ driver \notin {"alpha_2", "alpha_3"} /\ Timing => elapsed + timeout >= Interval
  /\ pc \in {"last_poll", "timed_out"} => timeout = 0

\* alpha_2's loop has no check of the time, and so no way out.
Alpha2Loops ==
  driver = "alpha_2" => pc \notin {"check", "last_poll", "timed_out", "done"}

\* A loop that sleeps has slept when it is about to poll; alpha_3 checks the
\* time just after a poll, but what follows it is the end.
SleepComesBetween ==
  ~Unslept =>
    /\ pc \in {"wait", "poll", "last_poll"} => sincePoll >= PollInterval
    /\ pc = "check" /\ driver # "alpha_3" => sincePoll >= PollInterval
    /\ pc = "sleeping" => sleeping + sincePoll >= PollInterval

WaitInv ==
  /\ WaitTypeOK
  /\ StaysBusy
  /\ TimeAddsUp
  /\ Alpha2Loops
  /\ SleepComesBetween

-----------------------------------------------------------------------------
(* What a quiet machine adds: bounds on the times, above and below.        *)

InCall == pc \in Waiting \union Waited

LoadTypeOK ==
  /\ cpu \in 0 .. elapsed
  /\ turn \in 0 .. MaxTurn + MaxLate + 1
  /\ lost \in 0 .. MaxLost + 1
  /\ quiet \in BOOLEAN

\* The time that usleep() was asked for passes in usleep() only.
SleepingInTheirSleep ==
  /\ InCall /\ sleeping > 0 => pc = "sleeping"
  /\ Unslept => pc \notin {"sleep", "sleeping"}

\* The bounds that quiet stands for.
WithinBounds ==
  /\ lost <= MaxLost
  /\ InCall /\ pc # "sleeping" /\ ~Unslept => turn <= MaxTurn
  /\ pc = "sleeping" => turn <= MaxLate

\* A loop that never sleeps has the processor, but for the time it lost.
AwakeAllAlong == InCall /\ Unslept => cpu + lost = elapsed

\* Until its first sleep a loop has had but the one turn.  After that the time
\* spent asleep makes up for all turns but the last.
SleepMakesUp ==
  ~Unslept /\ elapsed < MetaTimeout =>
    /\ pc = "sleeping" => elapsed + sleeping >= 2 * cpu + PollInterval - MaxTurn
    /\ InCall /\ pc # "sleeping" =>
         \/ cpu = turn
         \/ elapsed + turn >= 2 * cpu + PollInterval - MaxTurn

\* A loop with a timeout ends with the round in which the timeout comes.
TimesOut == ~Unslept /\ ~NeverTimesOut /\ driver # "alpha_3"
Latest == Interval + MaxTurn + lost
EndsInTime ==
  TimesOut =>
    /\ pc = "wait" => elapsed <= lost + turn
    /\ Timing /\ timeout > 0 => elapsed + timeout <= Latest
    /\ pc \in {"poll", "sleep"} /\ timeout = 0 => elapsed <= Latest + turn
    /\ pc = "sleeping" /\ timeout = 0 =>
         elapsed + sleeping <= Latest + MaxTurn + PollInterval + turn
    /\ pc \in {"check", "last_poll", "timed_out"} /\ timeout = 0 =>
         elapsed <= Latest + MaxTurn + PollInterval + MaxLate + turn
    /\ pc # "halted"

\* alpha_3's takes one round.
OneRound ==
  driver = "alpha_3" =>
    /\ pc \in {"wait", "sleep"} => elapsed <= lost + turn
    /\ pc = "sleeping" => elapsed + sleeping <= MaxTurn + PollInterval + lost + turn
    /\ pc \in {"poll", "check", "timed_out"} =>
         elapsed <= MaxTurn + PollInterval + MaxLate + lost + turn
    /\ pc \notin {"last_poll", "halted"}

\* alpha_8's looks at the time once, and long before the timeout.
LooksTooEarly ==
  driver = "alpha_8" /\ testing = "erase" =>
    /\ pc \in {"wait", "check"} => elapsed <= lost + turn
    /\ pc \notin {"last_poll", "timed_out", "done"}

Failing == {"alpha_1", "alpha_3", "alpha_7"}
VerdictSoFar ==
  /\ pc = "done" => testing = "erase"
  /\ pc # "halted" =>
       /\ driver \notin Failing => passed = TRUE
       /\ driver \in Failing /\ (testing # "read" \/ pc = "done") => passed = FALSE

WhenQuiet ==
  quiet = TRUE =>
    /\ WithinBounds
    /\ AwakeAllAlong
    /\ SleepMakesUp
    /\ EndsInTime
    /\ OneRound
    /\ LooksTooEarly
    /\ VerdictSoFar

LoadInv == WaitInv /\ LoadTypeOK /\ SleepingInTheirSleep /\ WhenQuiet

USE DEF Waiting, Waited, Timing, Unslept, NeverTimesOut, InCall, loadVars

-----------------------------------------------------------------------------
(* The steps.                                                              *)

\* The device and the driver are what they were.
LEMMA NothingElseChanges ==
  ASSUME Next
  PROVE  UNCHANGED <<deadline, driver>>
  BY DEF Next, Wait, Judge, Alarm, Time, Sleep, Oversleep, Compute, Delay, Clocks,
         deviceVars, parserVars

\* The stub's answer.
LEMMA AlwaysBusy ==
  ASSUME StaysBusy
  PROVE  GpioGet(PN_STATUS) # DEVICE_READY
  BY DEF StaysBusy, GpioGet, BeforeDeadline, DEVICE_BUSY, DEVICE_READY

\* One step of the loop, whichever it is.
LEMMA WaitPreserves ==
  ASSUME WaitInv, Wait
  PROVE  WaitInv'
  <1> DEFINE erasing == testing = "erase"
  <1>1. /\ UNCHANGED <<testing, elapsed, passed, driver, deadline>>
        /\ sincePoll' = IF pc \in {"poll", "last_poll"} THEN 0 ELSE sincePoll
    BY DEF Wait, deviceVars, parserVars
  <1> USE IntervalAssumption, PollIntervalAssumption
      DEF WaitInv, WaitTypeOK, StaysBusy, TimeAddsUp, Alpha2Loops,
          SleepComesBetween
  <1>2. CASE StartWait(Interval)
    BY <1>1, <1>2 DEF StartWait, FirstStep, TimeoutFor
  <1>3. CASE Poll(erasing)
    BY <1>1, <1>3, AlwaysBusy DEF Poll, AfterBusy
  <1>4. CASE FallAsleep
    BY <1>1, <1>4 DEF FallAsleep
  <1>5. CASE WakeUp(erasing)
    BY <1>1, <1>5 DEF WakeUp, AfterSleep
  <1>6. CASE CheckTimeout
    BY <1>1, <1>6 DEF CheckTimeout, AfterCheck, AfterTimeout
  <1>7. CASE LastPoll
    BY <1>1, <1>7, AlwaysBusy DEF LastPoll
  <1>8. QED
    BY <1>2, <1>3, <1>4, <1>5, <1>6, <1>7 DEF Wait, WaitStep

\* The end of one call and the start of the next.
LEMMA JudgePreserves ==
  ASSUME WaitInv, Judge
  PROVE  WaitInv'
  <1>1. UNCHANGED <<sleeping, driver, deadline>>
    BY DEF Judge, deviceVars, parserVars
  <1>2. pc = "timed_out"
    BY DEF Judge, WaitInv, StaysBusy
  <1>3. passed' \in BOOLEAN
    BY DEF Judge, Passes, WaitInv, WaitTypeOK
  <1>4. QED
    BY <1>1, <1>2, <1>3, IntervalAssumption, PollIntervalAssumption
    DEF Judge, Later, WaitInv, WaitTypeOK, StaysBusy, TimeAddsUp, Alpha2Loops,
        SleepComesBetween

\* The clocks.
LEMMA TimePreserves ==
  ASSUME WaitInv, Time
  PROVE  WaitInv'
  <1>1. Clocks
    BY DEF Time, Sleep, Oversleep, Compute, Delay
  <1>2. QED
    BY <1>1, IntervalAssumption, PollIntervalAssumption
    DEF Clocks, TimersRun, Clock, deviceVars, parserVars, WaitInv, WaitTypeOK,
        StaysBusy, TimeAddsUp, Alpha2Loops, SleepComesBetween

LEMMA AlarmPreserves ==
  ASSUME WaitInv, Alarm
  PROVE  WaitInv'
  BY DEF Alarm, deviceVars, parserVars, WaitInv, WaitTypeOK, StaysBusy,
         TimeAddsUp, Alpha2Loops, SleepComesBetween

-----------------------------------------------------------------------------
(* The steps, in a test on a quiet machine.                                *)

\* One step of the loop.
LEMMA WaitPreservesLoad ==
  ASSUME LoadInv, Wait, WaitInv'
  PROVE  LoadInv'
  <1> DEFINE erasing == testing = "erase"
  <1>1. /\ UNCHANGED <<testing, elapsed, passed, cpu, lost, quiet, driver>>
        /\ turn' = IF pc \in {"sleep", "sleeping"} THEN 0 ELSE turn
    BY DEF Wait
  <1>2. LoadTypeOK'
    BY <1>1, QuietAssumption DEF LoadInv, LoadTypeOK
  <1> USE IntervalAssumption, PollIntervalAssumption, QuietAssumption
      DEF LoadInv, WaitInv, WaitTypeOK, LoadTypeOK, StaysBusy, TimeAddsUp,
          SleepingInTheirSleep, WhenQuiet, WithinBounds, AwakeAllAlong,
          SleepMakesUp, TimesOut, Latest, EndsInTime, OneRound, LooksTooEarly,
          VerdictSoFar, Failing
  <1>3. CASE StartWait(Interval)
    BY <1>1, <1>2, <1>3 DEF StartWait, FirstStep, TimeoutFor
  <1>4. CASE Poll(erasing)
    BY <1>1, <1>2, <1>4 DEF Poll, AfterBusy
  <1>5. CASE FallAsleep
    BY <1>1, <1>2, <1>5 DEF FallAsleep
  <1>6. CASE WakeUp(erasing)
    BY <1>1, <1>2, <1>6 DEF WakeUp, AfterSleep
  <1>7. CASE CheckTimeout
    BY <1>1, <1>2, <1>7 DEF CheckTimeout, AfterCheck, AfterTimeout
  <1>8. CASE LastPoll
    BY <1>1, <1>2, <1>8 DEF LastPoll
  <1>9. QED
    BY <1>3, <1>4, <1>5, <1>6, <1>7, <1>8 DEF Wait, WaitStep

\* The verdict on one call: only a loop that sleeps and waits passes.
LEMMA DeservedVerdict ==
  ASSUME LoadInv, quiet = TRUE, pc = "timed_out"
  PROVE  Passes <=> driver # "alpha_3" /\ ~Unslept
  <1> USE IntervalAssumption, PollIntervalAssumption, QuietAssumption
      DEF LoadInv, WaitInv, WaitTypeOK, LoadTypeOK, WhenQuiet, WithinBounds, Passes
  <1>1. CASE Unslept
    \* cpu + lost = elapsed >= Interval >= 2 * lost
    BY <1>1 DEF AwakeAllAlong
  <1>2. CASE driver = "alpha_3"
    BY <1>2 DEF OneRound
  <1>3. CASE driver # "alpha_3" /\ ~Unslept
    <2>1. ~NeverTimesOut
      BY DEF Alpha2Loops, LooksTooEarly
    <2>2. elapsed >= Interval /\ elapsed < MetaTimeout
      BY <1>3, <2>1, QuietAssumption
      DEF TimeAddsUp, EndsInTime, TimesOut, Latest
    <2>3. cpu = turn \/ elapsed + turn >= 2 * cpu + PollInterval - MaxTurn
      BY <1>3, <2>2 DEF SleepMakesUp
    <2>4. turn <= MaxTurn
      BY <1>3
    <2>5. 2 * cpu < elapsed
      BY <2>2, <2>3, <2>4
    <2>6. QED
      BY <1>3, <2>2, <2>5
  <1>4. QED
    BY <1>1, <1>2, <1>3

LEMMA JudgePreservesLoad ==
  ASSUME LoadInv, Judge, WaitInv'
  PROVE  LoadInv'
  <1>1. pc = "timed_out" /\ passed' = (passed /\ Passes)
    BY DEF Judge, LoadInv, WaitInv, StaysBusy
  <1>2. UNCHANGED <<driver, quiet, sleeping>>
    BY DEF Judge
  <1>3. ASSUME quiet = TRUE
        PROVE  VerdictSoFar'
    <2>1. Passes <=> driver # "alpha_3" /\ ~Unslept
      BY <1>1, <1>3, DeservedVerdict
    <2>2. QED
      BY <1>1, <1>2, <1>3, <2>1
      DEF Judge, Later, LoadInv, WaitInv, WaitTypeOK, WhenQuiet, VerdictSoFar, Failing
  <1>4. LoadTypeOK' /\ SleepingInTheirSleep'
    BY <1>1, <1>2, QuietAssumption
    DEF Judge, LoadInv, WaitInv, WaitTypeOK, LoadTypeOK, SleepingInTheirSleep
  <1>5. WithinBounds' /\ AwakeAllAlong' /\ SleepMakesUp' /\ OneRound'
    BY <1>1, <1>2, QuietAssumption
    DEF Judge, WithinBounds, AwakeAllAlong, SleepMakesUp, OneRound
  <1>6. EndsInTime'
    BY <1>1 DEF Judge, TimesOut, EndsInTime
  <1>7. quiet = TRUE => LooksTooEarly'
    BY <1>1, <1>2 DEF Judge, LoadInv, WhenQuiet, LooksTooEarly
  <1>8. QED
    BY <1>2, <1>3, <1>4, <1>5, <1>6, <1>7 DEF LoadInv, WhenQuiet

\* The alarm finds a loop that has no timeout, or one that never sleeps.
LEMMA AlarmPreservesLoad ==
  ASSUME LoadInv, Alarm, WaitInv'
  PROVE  LoadInv'
  <1>1. UNCHANGED <<testing, elapsed, cpu, turn, lost, quiet, driver>> /\ pc' = "halted"
    BY DEF Alarm
  <1>2. quiet = TRUE => ~TimesOut /\ driver # "alpha_3"
    BY IntervalAssumption, PollIntervalAssumption, QuietAssumption
    DEF Alarm, LoadInv, WaitInv, WaitTypeOK, LoadTypeOK, WhenQuiet, WithinBounds,
        TimesOut, Latest, EndsInTime, OneRound
  <1>3. QED
    BY <1>1, <1>2
    DEF LoadInv, LoadTypeOK, SleepingInTheirSleep, WhenQuiet, WithinBounds,
        AwakeAllAlong, SleepMakesUp, TimesOut, EndsInTime, OneRound, LooksTooEarly,
        VerdictSoFar

\* The four ways to spend time.
LEMMA TimePreservesLoad ==
  ASSUME LoadInv, Time, WaitInv'
  PROVE  LoadInv'
  <1>1. UNCHANGED <<pc, testing, passed, driver>>
    BY DEF Time, Sleep, Oversleep, Compute, Delay, Clocks
  <1>2. Clocks
    BY DEF Time, Sleep, Oversleep, Compute, Delay
  <1> USE <1>1, <1>2, IntervalAssumption, PollIntervalAssumption, QuietAssumption
      DEF Clocks, TimersRun, Clock, CountTo, LoadInv, WaitInv, WaitTypeOK, LoadTypeOK, StaysBusy, TimeAddsUp,
          SleepingInTheirSleep, WhenQuiet, WithinBounds, AwakeAllAlong,
          SleepMakesUp, TimesOut, Latest, EndsInTime, OneRound, LooksTooEarly,
          VerdictSoFar, Failing
  <1>3. CASE Sleep
    BY <1>3 DEF Sleep
  <1>4. CASE Oversleep
    <2>1. LoadTypeOK' /\ SleepingInTheirSleep'
      BY <1>4 DEF Oversleep
    <2>2. quiet' = TRUE => WithinBounds'
      BY <1>4 DEF Oversleep
    <2>3. quiet' = TRUE => AwakeAllAlong'
      BY <1>4 DEF Oversleep
    <2>4. quiet' = TRUE => SleepMakesUp'
      BY <1>4 DEF Oversleep
    <2>5. quiet' = TRUE => EndsInTime'
      BY <1>4 DEF Oversleep
    <2>6. quiet' = TRUE => OneRound'
      BY <1>4 DEF Oversleep
    <2>7. quiet' = TRUE => LooksTooEarly'
      BY <1>4 DEF Oversleep
    <2>8. quiet' = TRUE => VerdictSoFar'
      BY <1>4 DEF Oversleep
    <2>9. QED
      BY <2>1, <2>2, <2>3, <2>4, <2>5, <2>6, <2>7, <2>8
  <1>5. CASE Compute
    <2>1. LoadTypeOK' /\ SleepingInTheirSleep'
      BY <1>5 DEF Compute
    <2>2. quiet' = TRUE => WithinBounds'
      BY <1>5 DEF Compute
    <2>3. quiet' = TRUE => AwakeAllAlong'
      BY <1>5 DEF Compute
    <2>4. quiet' = TRUE => SleepMakesUp'
      BY <1>5 DEF Compute
    <2>5. quiet' = TRUE => EndsInTime'
      BY <1>5 DEF Compute
    <2>6. quiet' = TRUE => OneRound'
      BY <1>5 DEF Compute
    <2>7. quiet' = TRUE => LooksTooEarly'
      BY <1>5 DEF Compute
    <2>8. quiet' = TRUE => VerdictSoFar'
      BY <1>5 DEF Compute
    <2>9. QED
      BY <2>1, <2>2, <2>3, <2>4, <2>5, <2>6, <2>7, <2>8
  <1>6. CASE Delay
    <2>1. LoadTypeOK' /\ SleepingInTheirSleep'
      BY <1>6 DEF Delay
    <2>2. quiet' = TRUE => WithinBounds'
      BY <1>6 DEF Delay
    <2>3. quiet' = TRUE => AwakeAllAlong'
      BY <1>6 DEF Delay
    <2>4. quiet' = TRUE => SleepMakesUp'
      BY <1>6 DEF Delay
    <2>5. quiet' = TRUE => EndsInTime'
      BY <1>6 DEF Delay
    <2>6. quiet' = TRUE => OneRound'
      BY <1>6 DEF Delay
    <2>7. quiet' = TRUE => LooksTooEarly'
      BY <1>6 DEF Delay
    <2>8. quiet' = TRUE => VerdictSoFar'
      BY <1>6 DEF Delay
    <2>9. QED
      BY <2>1, <2>2, <2>3, <2>4, <2>5, <2>6, <2>7, <2>8
  <1>7. QED
    BY <1>3, <1>4, <1>5, <1>6 DEF Time

-----------------------------------------------------------------------------
(* The results.                                                            *)

\* The invariant is inductive.
THEOREM WaitInvariant == Spec => []WaitInv
  <1>1. Init => WaitInv
    BY IntervalAssumption, PollIntervalAssumption
    DEF Init, StuckDevice, WaitInv, WaitTypeOK, StaysBusy, TimeAddsUp,
        Alpha2Loops, SleepComesBetween
  <1>2. WaitInv /\ [Next]_vars => WaitInv'
    <2>1. SUFFICES ASSUME WaitInv, [Next]_vars
                   PROVE  WaitInv'
      OBVIOUS
    <2>2. CASE UNCHANGED vars
      BY <2>1, <2>2
      DEF vars, deviceVars, parserVars, waitVars, testVars, WaitInv, WaitTypeOK,
          StaysBusy, TimeAddsUp, Alpha2Loops, SleepComesBetween
    <2>3. QED
      BY <2>1, <2>2, WaitPreserves, JudgePreserves, AlarmPreserves, TimePreserves
      DEF Next
  <1>3. QED
    BY <1>1, <1>2, PTL DEF Spec

\* A loop that gives up has waited for as long as it was asked to, however the
\* driver's flaw makes it poll and sleep; only alpha_3's has not (nand_wait()
\* of driver/alpha/).
THEOREM NoLoopGivesUpEarly == Spec => []WaitsAtLeastInterval
  <1>1. WaitInv => WaitsAtLeastInterval
    BY IntervalAssumption
    DEF WaitInv, WaitTypeOK, TimeAddsUp, Alpha2Loops, WaitsAtLeastInterval
  <1>2. QED
    BY <1>1, WaitInvariant, PTL

\* Between any two polls of the device a loop sleeps for the poll interval, the
\* poll after the timeout included, except in the loops that never sleep.
THEOREM SleepsBetweenPolls == Spec => []PollsAreSpaced
  <1>1. WaitInv => PollsAreSpaced
    BY DEF WaitInv, SleepComesBetween, PollsAreSpaced
  <1>2. QED
    BY <1>1, WaitInvariant, PTL

\* The bounds on the times are inductive, too.
THEOREM LoadInvariant == Spec => []LoadInv
  <1>1. Init => LoadInv
    <2>1. Init => WaitInv
      BY IntervalAssumption, PollIntervalAssumption
      DEF Init, StuckDevice, WaitInv, WaitTypeOK, StaysBusy, TimeAddsUp,
          Alpha2Loops, SleepComesBetween
    <2>2. QED
      BY <2>1, IntervalAssumption, PollIntervalAssumption, QuietAssumption
      DEF Init, LoadInv, LoadTypeOK, SleepingInTheirSleep, WhenQuiet, WithinBounds,
          AwakeAllAlong, SleepMakesUp, TimesOut, Latest, EndsInTime, OneRound,
          LooksTooEarly, VerdictSoFar, Failing
  <1>2. LoadInv /\ WaitInv' /\ [Next]_vars => LoadInv'
    <2>1. SUFFICES ASSUME LoadInv, WaitInv', [Next]_vars
                   PROVE  LoadInv'
      OBVIOUS
    <2>2. CASE UNCHANGED vars
      BY <2>1, <2>2
      DEF vars, waitVars, testVars, LoadInv, LoadTypeOK, SleepingInTheirSleep,
          WhenQuiet, WithinBounds, AwakeAllAlong, SleepMakesUp, TimesOut, Latest,
          EndsInTime, OneRound, LooksTooEarly, VerdictSoFar
    <2>3. QED
      BY <2>1, <2>2, WaitPreservesLoad, JudgePreservesLoad, AlarmPreservesLoad,
         TimePreservesLoad
      DEF Next
  <1>3. QED
    BY <1>1, <1>2, WaitInvariant, PTL DEF Spec

\* test_wait()'s three checks, on a machine that is quiet but otherwise runs
\* the loop and the alarm in any order: which loops pass, which fail and which
\* the alarm has to end, for every interval, alarm and poll interval.
THEOREM VerdictsAreDeserved == Spec => []TestTellsLoopsApart
  <1>1. LoadInv => TestTellsLoopsApart
    <2>1. SUFFICES ASSUME LoadInv
                   PROVE  TestTellsLoopsApart
      OBVIOUS
    <2>2. driver = "alpha_2" => pc \notin Waited
      BY <2>1 DEF LoadInv, WaitInv, StaysBusy, Alpha2Loops
    <2>3. ASSUME quiet = TRUE
          PROVE  /\ pc \in Waited \union {"done"} => ~NeverTimesOut
                 /\ pc = "halted" => NeverTimesOut \/ Unslept
                 /\ pc = "done" => (passed <=> driver \notin Failing)
      BY <2>1, <2>3
      DEF LoadInv, WaitInv, StaysBusy, Alpha2Loops, WhenQuiet, TimesOut,
          EndsInTime, OneRound, LooksTooEarly, VerdictSoFar
    <2>4. QED
      BY <2>1, <2>2, <2>3
      DEF LoadInv, LoadTypeOK, TestTellsLoopsApart, Failing
  <1>2. QED
    BY <1>1, LoadInvariant, PTL
=============================================================================
