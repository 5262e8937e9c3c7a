------------------------------- MODULE NandWait -------------------------------
(***************************************************************************)
(* The drivers' nand_wait(): poll the device's status pin until it is      *)
(* ready or the timeout has come.  driver names the driver that the        *)
(* framework was built with: alpha_0's loop is right, and some others have *)
(* a flaw that manual/drivers.html 5.1 gives them.  The loop is            *)
(*                                                                         *)
(*   "wait"      compute the timeout and enter the loop                    *)
(*   "poll"      gpio_get(PN_STATUS)                                       *)
(*   "sleep"     call usleep(NAND_POLL_INTERVAL_US)                        *)
(*   "sleeping"  in usleep(), which may take longer than it was asked to   *)
(*   "check"     compare now() with the timeout                            *)
(*   "last_poll" gpio_get(PN_STATUS) once more, after the timeout          *)
(*                                                                         *)
(* and ends at "ready" (it returned 0) or "timed_out" (-1).  Time may pass *)
(* between any two of these.                                               *)
(***************************************************************************)
EXTENDS DeviceParser

CONSTANTS
  Drivers,         \* the drivers to consider
  PollInterval     \* NAND_POLL_INTERVAL_US, in units of the model's clock

\* The wait loops of alpha_1, 2, 3, 7 and 8 differ from alpha_0's, which is
\* also that of all the others.
DriverName ==
  {"alpha_0", "alpha_1", "alpha_2", "alpha_3", "alpha_4", "alpha_5", "alpha_6",
   "alpha_7", "alpha_8", "foxtrot_0", "foxtrot_1", "foxtrot_2"}

ASSUME DriverAssumption == Drivers \subseteq DriverName
ASSUME PollIntervalAssumption == PollInterval \in Nat \ {0}

VARIABLES
  driver,      \* the driver, chosen once by the build
  pc,          \* where the driver, or the framework that calls it, is
  timeout,     \* time until now() reaches timeout; 0 outside the loop
  sleeping     \* time until usleep() may return

waitVars == <<pc, timeout, sleeping>>

Waiting == {"wait", "poll", "sleep", "sleeping", "check", "last_poll"}
Waited == {"ready", "timed_out"}

TIMEOUT_READ_PAGE == ReadPageDuration + PollInterval
TIMEOUT_WRITE_PAGE == WritePageDuration + PollInterval
TIMEOUT_ERASE_BLOCK == EraseBlockDuration + PollInterval

-----------------------------------------------------------------------------
(* What distinguishes the loops; erasing is (curCmd = C_ERASE_EXECUTE).    *)

FirstStep == CASE driver = "alpha_3" -> "sleep"
               [] driver = "alpha_8" -> "check"
               [] OTHER -> "poll"

\* alpha_2 has no timeout, and alpha_3's is in the distant past.
TimeoutFor(interval) ==
  IF driver \in {"alpha_2", "alpha_3"} THEN 0 ELSE interval

\* Faulty: no driver sleeps.
NeverSleeps(erasing) == "check"

AfterBusy(erasing) ==
  CASE driver \in {"alpha_1", "alpha_3"} -> "check"
    [] driver = "alpha_7" /\ ~erasing -> "check"
    [] OTHER -> "sleep"

AfterSleep(erasing) ==
  CASE driver \in {"alpha_2", "alpha_3"} -> "poll"
    [] driver = "alpha_8" /\ erasing -> "poll"
    [] OTHER -> "check"

AfterCheck == IF driver = "alpha_3" THEN "sleep" ELSE "poll"

\* Faulty: the loop as it was before release 18, with no last poll.
NoLastPoll == "timed_out"

AfterTimeout == IF driver = "alpha_3" THEN "timed_out" ELSE "last_poll"

-----------------------------------------------------------------------------
(* The steps of the loop.  None of them changes the device.                *)

StartWait(interval) ==
  /\ pc = "wait"
  /\ pc' = FirstStep
  /\ timeout' = TimeoutFor(interval)
  /\ UNCHANGED sleeping

\* gpio_get() traps to the tracer, and so needs it to be there.
Poll(erasing) ==
  /\ pc = "poll"
  /\ ~exited
  /\ pc' = IF GpioGet(PN_STATUS) = DEVICE_READY THEN "ready"
           ELSE AfterBusy(erasing)
  /\ UNCHANGED <<timeout, sleeping>>

FallAsleep ==
  /\ pc = "sleep"
  /\ pc' = "sleeping"
  /\ sleeping' = PollInterval
  /\ UNCHANGED timeout

WakeUp(erasing) ==
  /\ pc = "sleeping"
  /\ sleeping = 0
  /\ pc' = AfterSleep(erasing)
  /\ UNCHANGED <<timeout, sleeping>>

\* Faulty: gives up as soon as another sleep would not end in time.
GiveUpBeforeTimeout ==
  /\ pc = "check"
  /\ pc' = IF timeout > PollInterval THEN AfterCheck ELSE AfterTimeout
  /\ UNCHANGED <<timeout, sleeping>>

CheckTimeout ==
  /\ pc = "check"
  /\ pc' = IF timeout > 0 THEN AfterCheck ELSE AfterTimeout
  /\ UNCHANGED <<timeout, sleeping>>

LastPoll ==
  /\ pc = "last_poll"
  /\ ~exited
  /\ pc' = IF GpioGet(PN_STATUS) = DEVICE_READY THEN "ready" ELSE "timed_out"
  /\ UNCHANGED <<timeout, sleeping>>

WaitStep(interval, erasing) ==
  \/ StartWait(interval)
  \/ Poll(erasing)
  \/ FallAsleep
  \/ WakeUp(erasing)
  \/ CheckTimeout
  \/ LastPoll

TimersRun ==
  /\ timeout' = IF timeout > 0 THEN timeout - 1 ELSE 0
  /\ sleeping' = IF sleeping > 0 THEN sleeping - 1 ELSE 0
=============================================================================
