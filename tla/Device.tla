------------------------------- MODULE Device -------------------------------
(***************************************************************************)
(* The device facing any driver at all: every access to its registers and  *)
(* pins, in any order and at any time.  What holds here holds whatever     *)
(* driver is built into the program, the flawed ones included.             *)
(***************************************************************************)
EXTENDS DeviceParser

vars == deviceVars

Init == ParserInit

Access ==
  \/ \E c \in Command : StoreCommand(c)
  \/ \E d \in Digit : StoreAddress(d)
  \/ \E v \in Byte : StoreData(v)
  \/ \E decodable \in BOOLEAN : LoadData(decodable)

SetPin == \E pin \in {PN_STATUS, PN_RESET}, value \in BOOLEAN :
            HandleGpioSet(pin, value)

Tick ==
  /\ BeforeDeadline
  /\ DeadlinePasses
  /\ UNCHANGED <<storeVars, machine_state, ioregs, loaded, exited>>

Next == Access \/ SetPin \/ Tick

Spec == Init /\ [][Next]_vars

\* Time passes whatever the two processes do.
FairSpec == Spec /\ WF_vars(Tick)

-----------------------------------------------------------------------------
(* Properties.                                                             *)

\* The storage array changes only in a step that finds the device ready and
\* leaves it busy, and nothing a driver does while it is busy moves the
\* cursor or touches the cache or the storage, short of a reset: two
\* operations never overlap (the before_deadline() checks of the handler).
OperationsNeverOverlap ==
  [][/\ data_store' # data_store => ~BeforeDeadline /\ BeforeDeadline'
     /\ BeforeDeadline /\ machine_state' # MS_INITIAL_STATE
          => UNCHANGED storeVars]_vars

\* A busy device becomes ready, even for a driver that keeps prodding it: no
\* access puts the deadline off.
BusyEnds == BeforeDeadline ~> ~BeforeDeadline

\* The manual: the device "remains in that machine state until the driver
\* resets it", so it is still there to be reset (device.html 3.1, Table 2).
BugAwaitsReset ==
  [][machine_state = MS_BUG =>
       machine_state' \in {MS_BUG, MS_INITIAL_STATE} /\ ~exited']_vars
=============================================================================
