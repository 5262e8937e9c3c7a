-------------------------------- MODULE Tracer --------------------------------
(***************************************************************************)
(* The parent process: the loop of device_init() (device/de_device.c),     *)
(* which waits for the tracee to stop, decides what has stopped it, has it *)
(* handled and lets the tracee go on; and the tracee as far as the loop    *)
(* can see it, with its side of the pins (framework/fw_gpio.c).            *)
(*                                                                         *)
(* The loop tells four reasons for a stop apart.  There are more: any      *)
(* signal at all stops a traced process, a fault stops it again each time  *)
(* it is let go on (the loop never passes a signal on, so the tracee       *)
(* repeats the instruction), and SIGKILL ends it without the exit that the *)
(* loop looks for.  The tracee's place is                                  *)
(*                                                                         *)
(*   "starting"  before its first stop                                     *)
(*   "driver"    anywhere but in a pin function                            *)
(*   "asking"    in gpio_get(), retval set and the breakpoint to come      *)
(*   "answered"  in gpio_get(), past the breakpoint                        *)
(*   "faulting"  at an instruction that faults, in abort() for one         *)
(*   "exited" "killed"                                                     *)
(*                                                                         *)
(* A second stop inside gpio_set() repeats a reset to no effect, and one   *)
(* inside gpio_get() is taken for its breakpoint.                          *)
(***************************************************************************)
EXTENDS Device, IoRegs

CONSTANT
  Displacements    \* the four bytes with which a mov gives its address

ASSUME DisplacementAssumption ==
  \A d \in Displacements : DOMAIN d = 1 .. 4

VARIABLES
  tracee,     \* the tracee's place
  parent,     \* "starting", "looping" or "ended", the tracer's own place
  regs,       \* what the registers it got last are taken for, see Meaning
  pin,        \* gpio_get()'s argument, during a call
  retval,     \* its variable, and after the call what the driver was told
  served      \* the load that the tracer has just given its byte

traceeVars == <<tracee, pin, retval>>
tracerVars == <<vars, tracee, parent, regs, pin, retval, served>>

\* gpio_get()'s retval until the tracer pokes it.
DUMMY == 171

\* The pins that the tracer knows, and another.
Pin == {PN_STATUS, PN_RESET, 2}

\* A stop is taken for the pull of the reset pin, for another use of a pin or
\* for an access to ioregisters.
Meaning == {"reset", "pin", "access"}

NoLoad == [into |-> UNKNOWN, given |-> UNKNOWN]

\* regs has no value before the first stop of the loop.
TracerInit ==
  /\ Init
  /\ tracee = "starting"
  /\ parent = "starting"
  /\ regs \in Meaning
  /\ pin = PN_STATUS
  /\ retval = DUMMY
  /\ served = NoLoad

-----------------------------------------------------------------------------
(* What the loop makes of a stop.                                          *)

\* handle_watchpoint_ioregisters(), right or wrong.
TakeForAccess(w, decodable) ==
  /\ parent = "looping"
  /\ HandleWatchpoint(w, decodable)
  /\ regs' = "access"

TakeForSet(p, value) ==
  /\ parent = "looping"
  /\ HandleGpioSet(p, value)
  /\ regs' = IF p = PN_RESET /\ value THEN "reset" ELSE "pin"

\* handle_breakpoint_gpio_get() pokes nothing for a pin it does not know.
TakeForGet ==
  /\ parent = "looping"
  /\ ~exited
  /\ retval' = IF pin \in {PN_STATUS, PN_RESET} THEN GpioGet(pin) ELSE retval
  /\ regs' = "pin"

-----------------------------------------------------------------------------
(* The tracee.                                                             *)

\* init_framework()'s own stop, after which the tracer sets its watchpoint.
Start ==
  /\ tracee = "starting"
  /\ parent = "starting"
  /\ tracee' = "driver"
  /\ parent' = "looping"
  /\ UNCHANGED <<vars, regs, pin, retval, served>>

\* The first stop was the tracee's end, or a debug register cannot be set.
FailToStart ==
  /\ tracee \in {"starting", "killed"}
  /\ parent = "starting"
  /\ parent' = "ended"
  /\ UNCHANGED <<vars, traceeVars, regs, served>>

\* An access that is not a load given its byte.
Store ==
  /\ tracee = "driver"
  /\ \E w \in {[ioregs EXCEPT !.command = c] : c \in Command}
            \union {[ioregs EXCEPT !.address = d] : d \in Digit}
            \union {[ioregs EXCEPT !.data = v] : v \in Byte} :
       TakeForAccess(w, FALSE)
  /\ retval' = DUMMY
  /\ served' = NoLoad
  /\ UNCHANGED <<tracee, parent, pin>>

\* The tracer will answer a load.
Serves ==
  /\ machine_state = MS_READ_PROVIDING_DATA
  /\ ioregs.command = C_DUMMY
  /\ ~BeforeDeadline

\* A load into register r, with the given text before the instruction pointer.
LoadInto(r, text) ==
  /\ tracee = "driver"
  /\ TakeForAccess(ioregs, Destination(text) # UNKNOWN)
  /\ retval' = DUMMY
  /\ served' = IF Serves /\ Destination(text) # UNKNOWN
                 THEN [into |-> r, given |-> Destination(text)]
                 ELSE NoLoad
  /\ UNCHANGED <<tracee, parent, pin>>

Load ==
  \E r \in Register, d \in Displacements :
     \/ LoadInto(r, MovzblText(r, d))
     \/ LoadInto(r, MovText(r, d, "other"))

\* A load by another instruction or register.
StrangeLoad ==
  /\ tracee = "driver"
  /\ TakeForAccess(ioregs, FALSE)
  /\ retval' = DUMMY
  /\ served' = NoLoad
  /\ UNCHANGED <<tracee, parent, pin>>

GpioSet ==
  /\ tracee = "driver"
  /\ \E p \in Pin, value \in BOOLEAN : TakeForSet(p, value)
  /\ served' = NoLoad
  /\ UNCHANGED <<traceeVars, parent>>

CallGpioGet ==
  /\ tracee = "driver"
  /\ ~exited
  /\ tracee' = "asking"
  /\ pin' \in Pin
  /\ retval' = DUMMY
  /\ served' = NoLoad
  /\ UNCHANGED <<vars, parent, regs>>

Breakpoint ==
  /\ tracee = "asking"
  /\ TakeForGet
  /\ tracee' = "answered"
  /\ UNCHANGED <<vars, parent, pin, served>>

\* The assertion after the breakpoint, and the return.
Return ==
  /\ tracee = "answered"
  /\ ~exited
  /\ tracee' = IF retval # DUMMY THEN "driver" ELSE "faulting"
  /\ retval' = IF pin = PN_STATUS THEN retval ELSE DUMMY
  /\ pin' = PN_STATUS
  /\ UNCHANGED <<vars, parent, regs, served>>

-----------------------------------------------------------------------------
(* The stops that the loop does not know.                                  *)

\* A signal stops the tracee somewhere in its own code.  The text before the
\* place may or may not look like a load.
Signal ==
  /\ tracee = "driver"
  /\ \E decodable \in BOOLEAN : TakeForAccess(ioregs, decodable)
  /\ served' = NoLoad
  /\ UNCHANGED <<traceeVars, parent>>

SignalInGpioGet ==
  /\ tracee \in {"asking", "answered"}
  /\ TakeForGet
  /\ UNCHANGED <<vars, tracee, parent, pin, served>>

Fault ==
  /\ tracee = "driver"
  /\ ~exited
  /\ tracee' = "faulting"
  /\ served' = NoLoad
  /\ UNCHANGED <<vars, parent, regs, pin, retval>>

FaultAgain ==
  /\ tracee = "faulting"
  /\ \E decodable \in BOOLEAN : TakeForAccess(ioregs, decodable)
  /\ UNCHANGED <<traceeVars, parent, served>>

Exit ==
  /\ tracee = "driver"
  /\ ~exited
  /\ tracee' = "exited"
  /\ served' = NoLoad
  /\ UNCHANGED <<vars, parent, regs, pin, retval>>

Kill ==
  /\ tracee \notin {"exited", "killed"}
  /\ ~exited
  /\ tracee' = "killed"
  /\ pin' = PN_STATUS
  /\ retval' = DUMMY
  /\ UNCHANGED <<vars, parent, regs, served>>

\* WIFEXITED(): the loop ends and with it the emulator.
NoticeExit ==
  /\ tracee = "exited"
  /\ parent = "looping"
  /\ ~exited
  /\ parent' = "ended"
  /\ UNCHANGED <<vars, traceeVars, regs, served>>

\* A killed tracee has no registers to get and no word to peek: the loop goes
\* by the registers of the stop before, and a failed peek is -1, no command.
\* wait() fails from then on, and the same comes again.
NoticeKill ==
  /\ tracee = "killed"
  /\ \/ regs = "access" /\ TakeForAccess([ioregs EXCEPT !.command = NO_COMMAND], FALSE)
     \/ regs = "reset" /\ TakeForSet(PN_RESET, TRUE)
     \/ regs = "pin" /\ parent = "looping" /\ ~exited /\ UNCHANGED <<vars, regs>>
  /\ UNCHANGED <<traceeVars, parent, served>>

-----------------------------------------------------------------------------
Driver ==
  \/ Start
  \/ Store
  \/ Load
  \/ StrangeLoad
  \/ GpioSet
  \/ CallGpioGet
  \/ Breakpoint
  \/ Return
  \/ Exit

Mishap == Signal \/ SignalInGpioGet \/ Fault \/ Kill

\* What the tracer meets in its loop, or at its start, without the driver.
Loop == FailToStart \/ FaultAgain \/ NoticeExit \/ NoticeKill

Time == Tick /\ UNCHANGED <<traceeVars, parent, regs, served>>

TracerNext == Driver \/ Mishap \/ Loop \/ Time

TracerSpec == TracerInit /\ [][TracerNext]_tracerVars

\* The tracer is scheduled, and the processor faults at once.
TracerFairSpec == TracerSpec /\ WF_tracerVars(Loop)
-----------------------------------------------------------------------------
(* Properties.                                                             *)

TracerTypeOK ==
  /\ tracee \in {"starting", "driver", "asking", "answered", "faulting",
                 "exited", "killed"}
  /\ parent \in {"starting", "looping", "ended"}
  /\ regs \in Meaning
  /\ pin \in Pin
  /\ retval \in {DUMMY, DEVICE_BUSY, DEVICE_READY}
  /\ served \in [into : Register \union {UNKNOWN}, given : Register \union {UNKNOWN}]

\* Whatever the loop takes a stop for that is no access of the driver's, no
\* operation starts and storage keeps what it has: "something" happens to the
\* device (manual/building.html 6.2), but never that.
StrayStopsStartNothing ==
  [][Mishap \/ Loop =>
       /\ UNCHANGED data_store
       /\ BeforeDeadline' => BeforeDeadline]_tracerVars

\* A load that is given its byte has it in the register it loads, although the
\* displacement of one pattern may hold the bytes of the other, or the
\* emulator ends rather than guess.
RightRegister == served.given = served.into

\* A driver that was told that the device is ready may rely on it until its
\* next access, whatever pins it sets, signals stop it or time passes.
ReadyStaysReady ==
  tracee \in {"answered", "driver"} /\ pin = PN_STATUS /\ retval = DEVICE_READY
    => ~BeforeDeadline

Ended == parent = "ended" \/ exited

FaultInRead ==
  /\ tracee = "faulting"
  /\ machine_state \in {MS_BUG, MS_READ_AWAITING_BLOCK_ADDRESS,
                        MS_READ_AWAITING_PAGE_ADDRESS,
                        MS_READ_AWAITING_BYTE_ADDRESS, MS_READ_AWAITING_EXECUTE}

\* The end of the tracee ends the emulator: its exit at once, a fault while a
\* read is given its addresses, and its death by a signal if the stop before
\* was no pin's.  (A fault while the device accepts data or the address of an
\* erase is repeated for ever, and after a pin's stop a killed tracee is looked
\* for without end; the manual says that the test rig may hang.)
TracerEnds ==
  /\ tracee = "exited" ~> Ended
  /\ tracee = "killed" /\ regs = "access" ~> Ended
  /\ tracee = "killed" /\ parent = "starting" ~> Ended
  /\ FaultInRead ~> Ended \/ tracee = "killed"
=============================================================================
