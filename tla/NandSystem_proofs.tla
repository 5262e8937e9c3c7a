--------------------------- MODULE NandSystem_proofs ---------------------------
(***************************************************************************)
(* What holds of the jump-table framework over an alpha driver and the     *)
(* device, proved for storage of any size, operations of any duration, any *)
(* poll interval and any calls of the tester.                              *)
(***************************************************************************)
EXTENDS NandSystem, Tester_proofs

USE DEF MS_INITIAL_STATE, MS_BUG,
        MS_READ_AWAITING_BLOCK_ADDRESS, MS_READ_AWAITING_PAGE_ADDRESS,
        MS_READ_AWAITING_BYTE_ADDRESS, MS_READ_AWAITING_EXECUTE,
        MS_READ_PROVIDING_DATA, MS_PROGRAM_AWAITING_BLOCK_ADDRESS,
        MS_PROGRAM_AWAITING_PAGE_ADDRESS, MS_PROGRAM_AWAITING_BYTE_ADDRESS,
        MS_PROGRAM_ACCEPTING_DATA, MS_ERASE_AWAITING_BLOCK_ADDRESS,
        MS_ERASE_AWAITING_EXECUTE, Working

USE DEF Waiting, Waited

-----------------------------------------------------------------------------
(* The inductive invariant.                                                *)

\* Where the driver is in a call says what state the device is in, as long as
\* the device has not found a bug: it is at rest between calls, and busy only
\* while the driver waits for it.
DriverKnowsDevice ==
  machine_state # MS_BUG =>
    /\ ~exited
    /\ pc \in {"idle", "setup"} =>
         /\ machine_state \in {MS_INITIAL_STATE} \union Working
         /\ BeforeDeadline => rc = -1
    /\ pc = "block" => machine_state = AwaitingBlockOf(req.op)
    /\ pc = "page" => machine_state = AwaitingPageOf(req.op)
    /\ pc = "byte" => machine_state = AwaitingByteOf(req.op)
    /\ pc \in {"loop", "execute"} =>
         machine_state \in {AddressedOf(req.op), WorkingOf(req.op)}
    /\ pc = "loop" /\ left = 0 => machine_state = WorkingOf(req.op)
    /\ pc \in {"loop", "execute", "transfer"} => ~BeforeDeadline
    /\ pc \in Waiting \union Waited \union {"transfer", "undefined"} =>
         machine_state = WorkingOf(req.op)
    /\ pc = "wait" => deadline <= DurationOf(req.op)

\* Only alpha_3 gives up, and only in the call after that, which erases the
\* arena, can it meet a busy device; the tracer exits at the second access of
\* that erase, and the driver gets no further than its first execute command.
BugIsAlpha3s ==
  /\ rc = -1 => driver = "alpha_3"
  /\ rc = -1 /\ pc # "idle" => req.op = "erase"
  /\ machine_state = MS_BUG =>
       /\ rc = -1
       /\ pc \in {"block", "loop", "execute"}
       /\ pc # "block" => exited

\* Which operations come to which steps.
StepsOfOperation ==
  /\ pc # "idle" => req \in Requests
  /\ pc \in {"page", "byte", "transfer", "undefined"} => req.op # "erase"
  /\ pc = "undefined" => req.op = "read" /\ driver = "alpha_5"

\* The framework's arithmetic on what is left of the call.
Arithmetic ==
  /\ pc \in {"setup", "block", "page", "byte", "execute"} \union Waiting \union Waited
       => left > 0
  /\ req.op # "erase" => left <= req.size
  /\ \/ pc = "transfer"
     \/ req.op = "write" /\ pc \in {"execute"} \union Waiting \union Waited
     => 0 < chunk /\ chunk <= left
  /\ machine_state = MS_BUG => left > 0
  /\ pc = "transfer" /\ driver # "alpha_5" => count >= 0
  /\ pc \notin {"transfer", "undefined"} => count = 0

SystemInv ==
  /\ DeviceInv
  /\ TypeOK
  /\ DriverKnowsDevice
  /\ BugIsAlpha3s
  /\ WaitsForDeadline
  /\ StepsOfOperation
  /\ Arithmetic

-----------------------------------------------------------------------------
(* The calls.                                                              *)

\* The next transfer is of at least one byte, and stays in its page.
LEMMA ChunkFits ==
  ASSUME NEW bytes \in Nat \ {0}, NEW at \in Digit
  PROVE  /\ ChunkSize(bytes, at) \in 1 .. Radix
         /\ ChunkSize(bytes, at) <= bytes
         /\ at + ChunkSize(bytes, at) <= Radix
  BY RadixAssumption DEF ChunkSize, Digit

\* The parts of an offset fit in the registers that hold them.
LEMMA AddressesAreDigits ==
  ASSUME NEW offset \in Nat
  PROVE  /\ ByteAddress(offset) \in Digit
         /\ PageAddress(offset) \in Digit
         /\ BlockAddress(offset) \in Digit
  <1>1. /\ offset \div Radix \in Nat
        /\ offset \div BlockSize \in Nat
    BY RadixAssumption, SizesArePositive
  <1>2. \A n \in Nat : n % Radix \in Digit
    BY RadixAssumption DEF Digit
  <1>3. QED
    BY <1>1, <1>2 DEF ByteAddress, PageAddress, BlockAddress

-----------------------------------------------------------------------------
(* The steps.                                                              *)

\* The tester's next call, on a device that is at rest unless alpha_3 gave up.
LEMMA RequestPreserves ==
  ASSUME SystemInv, Request
  PROVE  SystemInv'
  <1>1. PICK r \in Requests : Operate(r) /\ Call(r)
    BY DEF Request
  <1>2. /\ pc = "idle" /\ pc' = "setup" /\ req' = r
        /\ UNCHANGED <<rc, timeout, sleeping, driver, deviceVars>>
        /\ left' = IF r.op = "erase" THEN BlocksToErase(r.offset, r.size) ELSE r.size
        /\ byte_addr' = ByteAddress(r.offset)
        /\ chunk' = 0 /\ count' = 0
    BY <1>1 DEF Request, Call, BeginCall
  <1>3. left' \in Nat \ {0} /\ (r.op # "erase" => left' = r.size)
    BY <1>2, RequestFacts, BlocksCoverRegion
  <1>4. UNCHANGED <<machine_state, deadline, exited>> /\ DeviceInv'
        /\ BeforeDeadline' = BeforeDeadline
    BY <1>2, DeviceLeftAlone DEF SystemInv
  <1>5. mirror' \in Mirror /\ made' \in 0 .. MaxRequests
    BY <1>1, MirrorStaysAMirror DEF SystemInv, TypeOK, TesterTypeOK
  <1>6. byte_addr' \in Digit
    BY <1>2, RequestFacts, AddressesAreDigits
  <1>7. TypeOK'
    BY <1>2, <1>3, <1>4, <1>5, <1>6, RadixAssumption
    DEF SystemInv, TypeOK, TesterTypeOK, StepName, DeviceInv
  <1>8. DriverKnowsDevice'
    BY <1>2, <1>4 DEF SystemInv, DriverKnowsDevice
  <1>9. BugIsAlpha3s'
    <2>1. rc = -1 => r.op = "erase"
      BY <1>1, RequestAssumption DEF Operate
    <2>2. QED
      BY <1>2, <1>4, <2>1 DEF SystemInv, BugIsAlpha3s
  <1>10. WaitsForDeadline'
    BY <1>2, <1>4 DEF SystemInv, WaitsForDeadline
  <1>11. StepsOfOperation'
    BY <1>2 DEF StepsOfOperation
  <1>12. Arithmetic'
    BY <1>2, <1>3, <1>4, RequestFacts DEF SystemInv, Arithmetic, BugIsAlpha3s
  <1>13. QED
    BY <1>4, <1>7, <1>8, <1>9, <1>10, <1>11, <1>12 DEF SystemInv

\* What a step inside a call leaves alone.
Inside == UNCHANGED <<driver, mirror, made, req, rc>>

\* An access that the device takes to the state in which the next step expects
\* it: what the framework's variables are is not disturbed.
LEMMA AccessStep ==
  ASSUME SystemInv, NEW at \in StepName, NEW next \in StepName, Access(at, next),
         Inside
  PROVE  /\ pc = at /\ pc' = next
         /\ UNCHANGED <<timeout, sleeping, req, buffer, rc, left, byte_addr, chunk,
                        count, driver, mirror, made>>
         /\ DeviceInv' => TypeOK'
  <1>1. /\ pc = at /\ pc' = next
        /\ UNCHANGED <<timeout, sleeping, req, buffer, rc, left, byte_addr, chunk,
                       count, driver, mirror, made>>
    BY DEF Access, callVars, loopVars, Inside
  <1>2. DeviceInv' => TypeOK'
    BY <1>1 DEF SystemInv, TypeOK, TesterTypeOK, DeviceInv
  <1>3. QED
    BY <1>1, <1>2

LEMMA SetUpPreserves ==
  ASSUME SystemInv, SetUp, Inside
  PROVE  SystemInv'
  <1>1. /\ pc = "setup" /\ pc' = "block"
        /\ UNCHANGED <<timeout, sleeping, req, buffer, rc, left, byte_addr, chunk,
                       count, driver, mirror, made>>
        /\ DeviceInv' => TypeOK'
    BY AccessStep DEF SetUp, StepName
  <1>2. StoreCommand(SetupCommand(req.op))
    BY DEF SetUp
  <1>3. req.op \in Operation
    BY <1>1, RequestFacts DEF SystemInv, StepsOfOperation
  <1>4. DeviceInv' /\ TypeOK'
    BY <1>1, <1>2, <1>3, CommandsOfOperation, AccessesPreserve DEF SystemInv
  <1>5. machine_state # MS_BUG
    BY <1>1 DEF SystemInv, BugIsAlpha3s
  <1>6. \/ machine_state' = AwaitingBlockOf(req.op) /\ UNCHANGED exited
        \/ machine_state' = MS_BUG /\ rc = -1
    <2>1. CASE BeforeDeadline
      BY <1>1, <1>2, <1>3, <1>5, <2>1, CommandsOfOperation, BusySetupIsABug
      DEF SystemInv, DriverKnowsDevice
    <2>2. CASE ~BeforeDeadline
      <3>1. AtRest
        BY <1>1, <1>5, <2>2 DEF AtRest, SystemInv, DriverKnowsDevice
      <3>2. QED
        BY <1>2, <1>3, <3>1, SetupIsAccepted DEF SystemInv
    <2>3. QED
      BY <2>1, <2>2
  <1>7. DriverKnowsDevice'
    BY <1>1, <1>5, <1>6 DEF SystemInv, DriverKnowsDevice
  <1>8. BugIsAlpha3s'
    BY <1>1, <1>6 DEF SystemInv, BugIsAlpha3s, AwaitingBlockOf
  <1>9. WaitsForDeadline' /\ StepsOfOperation' /\ Arithmetic'
    BY <1>1 DEF SystemInv, WaitsForDeadline, StepsOfOperation, Arithmetic
  <1>10. QED
    BY <1>4, <1>7, <1>8, <1>9 DEF SystemInv

\* The three kinds of address; the first may be what a device that has found a
\* bug exits on.
LEMMA GiveBlockAddressPreserves ==
  ASSUME SystemInv, GiveBlockAddress, Inside
  PROVE  SystemInv'
  <1> DEFINE next == IF req.op = "erase" THEN "loop" ELSE "page"
  <1>1. /\ pc = "block" /\ pc' = next
        /\ UNCHANGED <<timeout, sleeping, req, buffer, rc, left, byte_addr, chunk,
                       count, driver, mirror, made>>
        /\ DeviceInv' => TypeOK'
    BY AccessStep DEF GiveBlockAddress, StepName
  <1>2. StoreAddress(BlockAddress(req.offset))
    BY DEF GiveBlockAddress
  <1>3. req.op \in Operation /\ BlockAddress(req.offset) \in Digit
    BY <1>1, RequestFacts, AddressesAreDigits DEF SystemInv, StepsOfOperation
  <1>4. DeviceInv' /\ TypeOK'
    BY <1>1, <1>2, <1>3, AccessesPreserve DEF SystemInv
  <1>5. left > 0
    BY <1>1 DEF SystemInv, Arithmetic
  <1>6. CASE machine_state = MS_BUG
    <2>1. machine_state' = MS_BUG /\ exited' = TRUE /\ UNCHANGED deadline
      BY <1>2, <1>6, BugIsTheEnd DEF StoreAddress
    <2>2. QED
      BY <1>1, <1>4, <1>5, <1>6, <2>1
      DEF SystemInv, DriverKnowsDevice, BugIsAlpha3s, WaitsForDeadline,
          StepsOfOperation, Arithmetic
  <1>7. CASE machine_state # MS_BUG
    <2>1. machine_state = AwaitingBlockOf(req.op) /\ ~exited
      BY <1>1, <1>7 DEF SystemInv, DriverKnowsDevice
    <2>2. /\ machine_state' = IF req.op = "erase" THEN AddressedOf(req.op)
                              ELSE AwaitingPageOf(req.op)
          /\ UNCHANGED <<deadline, exited>>
      BY <1>2, <1>3, <2>1, BlockAddressIsAccepted DEF SystemInv
    <2>3. ~BeforeDeadline'
      BY <1>4, <2>1, <2>2
      DEF SystemInv, DeviceInv, BusyOnlyWhileWorking, BeforeDeadline,
          AwaitingBlockOf
    <2>4. DriverKnowsDevice'
      BY <1>1, <1>5, <2>1, <2>2, <2>3 DEF DriverKnowsDevice
    <2>5. BugIsAlpha3s'
      BY <1>1, <2>2 DEF SystemInv, BugIsAlpha3s, AddressedOf, AwaitingPageOf
    <2>6. WaitsForDeadline' /\ StepsOfOperation' /\ Arithmetic'
      BY <1>1, <2>2
      DEF SystemInv, WaitsForDeadline, StepsOfOperation, Arithmetic, AddressedOf,
          AwaitingPageOf
    <2>7. QED
      BY <1>4, <2>4, <2>5, <2>6 DEF SystemInv
  <1>8. QED
    BY <1>6, <1>7

LEMMA GivePageAddressPreserves ==
  ASSUME SystemInv, GivePageAddress, Inside
  PROVE  SystemInv'
  <1>1. /\ pc = "page" /\ pc' = "byte"
        /\ UNCHANGED <<timeout, sleeping, req, buffer, rc, left, byte_addr, chunk,
                       count, driver, mirror, made>>
        /\ DeviceInv' => TypeOK'
    BY AccessStep DEF GivePageAddress, StepName
  <1>2. StoreAddress(PageAddress(req.offset)) /\ ~exited
    BY DEF GivePageAddress, StoreAddress, HandleWatchpoint
  <1>3. req.op \in Operation /\ PageAddress(req.offset) \in Digit
    BY <1>1, RequestFacts, AddressesAreDigits DEF SystemInv, StepsOfOperation
  <1>4. DeviceInv' /\ TypeOK'
    BY <1>1, <1>2, <1>3, AccessesPreserve DEF SystemInv
  <1>5. machine_state = AwaitingPageOf(req.op) /\ ~exited
    BY <1>1, <1>2 DEF SystemInv, DriverKnowsDevice, BugIsAlpha3s
  <1>6. machine_state' = AwaitingByteOf(req.op) /\ UNCHANGED <<deadline, exited>>
    BY <1>2, <1>3, <1>5, PageAddressIsAccepted DEF SystemInv
  <1>7. DriverKnowsDevice'
    BY <1>1, <1>5, <1>6 DEF DriverKnowsDevice
  <1>8. BugIsAlpha3s'
    BY <1>1, <1>6 DEF SystemInv, BugIsAlpha3s, AwaitingByteOf
  <1>9. WaitsForDeadline' /\ StepsOfOperation' /\ Arithmetic'
    BY <1>1, <1>6
    DEF SystemInv, WaitsForDeadline, StepsOfOperation, Arithmetic, AwaitingByteOf
  <1>10. QED
    BY <1>4, <1>7, <1>8, <1>9 DEF SystemInv

LEMMA GiveByteAddressPreserves ==
  ASSUME SystemInv, GiveByteAddress, Inside
  PROVE  SystemInv'
  <1>1. /\ pc = "byte" /\ pc' = "loop"
        /\ UNCHANGED <<timeout, sleeping, req, buffer, rc, left, byte_addr, chunk,
                       count, driver, mirror, made>>
        /\ DeviceInv' => TypeOK'
    BY AccessStep DEF GiveByteAddress, StepName
  <1>2. StoreAddress(ByteAddress(req.offset)) /\ ~exited
    BY DEF GiveByteAddress, StoreAddress, HandleWatchpoint
  <1>3. req.op \in Operation \ {"erase"} /\ ByteAddress(req.offset) \in Digit
    BY <1>1, RequestFacts, AddressesAreDigits DEF SystemInv, StepsOfOperation
  <1>4. DeviceInv' /\ TypeOK'
    BY <1>1, <1>2, <1>3, AccessesPreserve DEF SystemInv
  <1>5. machine_state = AwaitingByteOf(req.op) /\ ~exited
    BY <1>1, <1>2 DEF SystemInv, DriverKnowsDevice, BugIsAlpha3s
  <1>6. machine_state' = AddressedOf(req.op) /\ UNCHANGED <<deadline, exited>>
    BY <1>2, <1>3, <1>5, ByteAddressIsAccepted DEF SystemInv
  <1>7. ~BeforeDeadline'
    BY <1>4, <1>5, <1>6
    DEF SystemInv, DeviceInv, BusyOnlyWhileWorking, BeforeDeadline, AwaitingByteOf
  <1>8. DriverKnowsDevice'
    BY <1>1, <1>5, <1>6, <1>7 DEF DriverKnowsDevice, SystemInv, Arithmetic
  <1>9. BugIsAlpha3s'
    BY <1>1, <1>6 DEF SystemInv, BugIsAlpha3s, AddressedOf
  <1>10. WaitsForDeadline' /\ StepsOfOperation' /\ Arithmetic'
    BY <1>1, <1>6
    DEF SystemInv, WaitsForDeadline, StepsOfOperation, Arithmetic, AddressedOf
  <1>11. QED
    BY <1>4, <1>8, <1>9, <1>10 DEF SystemInv

LEMMA LoopExecutesPreserves ==
  ASSUME SystemInv, LoopExecutes, Inside
  PROVE  SystemInv'
  <1>1. /\ pc = "loop" /\ pc' = "execute" /\ left > 0 /\ req.op # "write"
        /\ UNCHANGED <<timeout, sleeping, req, buffer, rc, left, byte_addr, chunk,
                       count, driver, mirror, made>>
    BY DEF LoopExecutes, callVars, loopVars, Inside
  <1>2. /\ UNCHANGED <<machine_state, deadline, exited>>
        /\ DeviceInv'
        /\ BeforeDeadline' = BeforeDeadline
    BY DeviceLeftAlone DEF LoopExecutes, SystemInv
  <1>3. TypeOK'
    BY <1>1, <1>2 DEF SystemInv, TypeOK, TesterTypeOK, DeviceInv, StepName
  <1>4. DriverKnowsDevice'
    BY <1>1, <1>2 DEF SystemInv, DriverKnowsDevice
  <1>5. BugIsAlpha3s'
    BY <1>1, <1>2 DEF SystemInv, BugIsAlpha3s
  <1>6. WaitsForDeadline' /\ StepsOfOperation' /\ Arithmetic'
    BY <1>1, <1>2 DEF SystemInv, WaitsForDeadline, StepsOfOperation, Arithmetic
  <1>7. QED
    BY <1>2, <1>3, <1>4, <1>5, <1>6 DEF SystemInv

LEMMA StartOperationPreserves ==
  ASSUME SystemInv, StartOperation, Inside
  PROVE  SystemInv'
  <1>1. /\ pc = "execute" /\ pc' = "wait"
        /\ UNCHANGED <<timeout, sleeping, req, buffer, rc, left, byte_addr, chunk,
                       count, driver, mirror, made>>
        /\ DeviceInv' => TypeOK'
    BY AccessStep DEF StartOperation, StepName
  <1>2. StoreCommand(ExecuteCommand(req.op)) /\ ~exited
    BY DEF StartOperation, StoreCommand, HandleWatchpoint
  <1>3. req.op \in Operation
    BY <1>1, RequestFacts DEF SystemInv, StepsOfOperation
  <1>4. DeviceInv' /\ TypeOK'
    BY <1>1, <1>2, <1>3, CommandsOfOperation, AccessesPreserve DEF SystemInv
  <1>5. machine_state # MS_BUG
    BY <1>1, <1>2 DEF SystemInv, BugIsAlpha3s
  <1>6. machine_state \in {AddressedOf(req.op), WorkingOf(req.op)} /\ ~BeforeDeadline
    BY <1>1, <1>5 DEF SystemInv, DriverKnowsDevice
  <1>7. /\ machine_state' = WorkingOf(req.op)
        /\ deadline' = DurationOf(req.op)
        /\ UNCHANGED exited
    BY <1>2, <1>3, <1>6, ExecuteIsAccepted DEF SystemInv
  <1>8. deadline' <= DurationOf(req.op)
    BY <1>4, <1>7 DEF DeviceInv, DeviceTypeOK, ParserTypeOK
  <1>9. DriverKnowsDevice'
    BY <1>1, <1>2, <1>7, <1>8 DEF DriverKnowsDevice
  <1>10. BugIsAlpha3s'
    BY <1>1, <1>7 DEF SystemInv, BugIsAlpha3s, WorkingOf
  <1>11. WaitsForDeadline' /\ StepsOfOperation' /\ Arithmetic'
    BY <1>1, <1>5, <1>7
    DEF SystemInv, WaitsForDeadline, StepsOfOperation, Arithmetic, WorkingOf
  <1>12. QED
    BY <1>4, <1>9, <1>10, <1>11 DEF SystemInv

LEMMA WaitPreserves ==
  ASSUME SystemInv, WaitStep(WaitInterval(req.op), req.op = "erase"),
         UNCHANGED <<callVars, deviceVars>>, Inside
  PROVE  SystemInv'
  <1>1. UNCHANGED <<req, buffer, rc, left, byte_addr, chunk, count, driver, mirror,
                    made>>
    BY DEF callVars, loopVars, Inside
  <1>2. /\ UNCHANGED <<machine_state, deadline, exited>>
        /\ DeviceInv'
        /\ BeforeDeadline' = BeforeDeadline
    BY DeviceLeftAlone DEF SystemInv
  <1>3. pc \in Waiting
    BY DEF WaitStep, StartWait, Poll, FallAsleep, WakeUp, CheckTimeout, LastPoll
  <1>4. req.op \in Operation
    BY <1>3, RequestFacts DEF SystemInv, StepsOfOperation
  <1>5. machine_state = WorkingOf(req.op) /\ machine_state # MS_BUG /\ ~exited
    BY <1>3 DEF SystemInv, DriverKnowsDevice, BugIsAlpha3s
  <1>6. deadline \in Nat /\ timeout \in Nat /\ sleeping \in 0 .. PollInterval
    BY DEF SystemInv, DeviceInv, DeviceTypeOK, ParserTypeOK, TypeOK, TesterTypeOK
  <1>7. pc = "wait" => deadline <= WaitInterval(req.op)
    BY <1>4, <1>5, <1>6, IntervalsAreLongEnough DEF SystemInv, DriverKnowsDevice
  <1>8. /\ WaitsForDeadline'
        /\ pc' \in (Waiting \union Waited) \ {"wait"}
        /\ timeout' \in Nat
        /\ sleeping' \in 0 .. PollInterval
    <2>1. WaitInterval(req.op) \in Nat
      BY <1>4, IntervalsAreLongEnough
    <2>2. QED
      BY <1>1, <1>2, <1>6, <1>7, <2>1, WaitStepWaits DEF SystemInv
  <1>9. TypeOK'
    BY <1>1, <1>2, <1>8 DEF SystemInv, TypeOK, TesterTypeOK, DeviceInv, StepName
  <1>10. DriverKnowsDevice'
    BY <1>1, <1>2, <1>5, <1>8 DEF DriverKnowsDevice
  <1>11. BugIsAlpha3s'
    BY <1>1, <1>2, <1>3, <1>5 DEF SystemInv, BugIsAlpha3s
  <1>12. StepsOfOperation'
    BY <1>1, <1>3, <1>8 DEF SystemInv, StepsOfOperation
  <1>13. Arithmetic'
    BY <1>1, <1>2, <1>3, <1>8 DEF SystemInv, Arithmetic
  <1>14. QED
    BY <1>2, <1>8, <1>9, <1>10, <1>11, <1>12, <1>13 DEF SystemInv

\* The size of a transfer is worked out from what is left.
LEMMA StartTransferPreserves ==
  ASSUME SystemInv, StartTransfer, Inside
  PROVE  SystemInv'
  <1>1. /\ \/ pc = "loop" /\ left > 0 /\ req.op = "write"
           \/ pc = "ready" /\ req.op = "read"
        /\ pc' = "transfer"
        /\ chunk' = ChunkSize(left, byte_addr)
        /\ count' = chunk'
        /\ byte_addr' = 0
        /\ timeout' = 0
        /\ UNCHANGED <<req, left, buffer, rc, sleeping, driver, mirror, made>>
    BY DEF StartTransfer, Inside
  <1>2. /\ UNCHANGED <<machine_state, deadline, exited>>
        /\ DeviceInv'
        /\ BeforeDeadline' = BeforeDeadline
    BY DeviceLeftAlone DEF StartTransfer, SystemInv
  <1>3. left > 0 /\ left \in Nat /\ byte_addr \in Digit
    BY <1>1 DEF SystemInv, TypeOK, Arithmetic
  <1>4. chunk' \in 1 .. Radix /\ chunk' <= left
    BY <1>1, <1>3, ChunkFits
  <1>5. machine_state # MS_BUG
    BY <1>1 DEF SystemInv, BugIsAlpha3s
  <1>6. machine_state = WorkingOf(req.op) /\ ~BeforeDeadline /\ ~exited
    BY <1>1, <1>5
    DEF SystemInv, DriverKnowsDevice, WaitsForDeadline, AddressedOf, WorkingOf
  <1>7. TypeOK'
    BY <1>1, <1>2, <1>3, <1>4, DigitFacts
    DEF SystemInv, TypeOK, TesterTypeOK, DeviceInv, StepName
  <1>8. DriverKnowsDevice'
    BY <1>1, <1>2, <1>6 DEF DriverKnowsDevice
  <1>9. BugIsAlpha3s'
    BY <1>1, <1>2, <1>5 DEF SystemInv, BugIsAlpha3s
  <1>10. WaitsForDeadline' /\ StepsOfOperation'
    BY <1>1, <1>2 DEF SystemInv, WaitsForDeadline, StepsOfOperation
  <1>11. Arithmetic'
    BY <1>1, <1>2, <1>3, <1>4, <1>5 DEF SystemInv, Arithmetic
  <1>12. QED
    BY <1>2, <1>7, <1>8, <1>9, <1>10, <1>11 DEF SystemInv

\* A byte of a write.
LEMMA ProgramBytePreserves ==
  ASSUME SystemInv, ProgramByte, Inside
  PROVE  SystemInv'
  <1>1. /\ pc = "transfer" /\ req.op = "write" /\ count > 0
        /\ count' = count - 1
        /\ UNCHANGED <<pc, timeout, sleeping, req, left, byte_addr, chunk, buffer, rc,
                       driver, mirror, made>>
    BY DEF ProgramByte, waitVars, Inside
  <1>2. req.data[BufferIndex] \in Byte
    <2>1. /\ left \in Nat /\ chunk \in 0 .. Radix /\ count \in Int /\ count <= chunk
          /\ chunk <= left /\ left <= req.size
      BY <1>1 DEF SystemInv, TypeOK, Arithmetic
    <2>2. req \in Requests
      BY <1>1 DEF SystemInv, StepsOfOperation
    <2>3. BufferIndex \in 0 .. (req.size - 1)
      BY <1>1, <2>1, <2>2, RequestFacts, RadixAssumption DEF BufferIndex
    <2>4. QED
      BY <1>1, <2>2, <2>3, RequestFacts
  <1>3. StoreData(req.data[BufferIndex])
    BY DEF ProgramByte
  <1>4. machine_state # MS_BUG
    BY <1>1 DEF SystemInv, BugIsAlpha3s
  <1>5. machine_state = MS_PROGRAM_ACCEPTING_DATA /\ ~BeforeDeadline /\ ~exited
    BY <1>1, <1>4 DEF SystemInv, DriverKnowsDevice, WorkingOf
  <1>6. UNCHANGED <<machine_state, deadline, exited>>
    BY <1>2, <1>3, <1>5, DataInIsAccepted DEF SystemInv
  <1>7. DeviceInv' /\ ~BeforeDeadline'
    BY <1>2, <1>3, <1>5, <1>6, AccessesPreserve DEF SystemInv, BeforeDeadline
  <1>8. TypeOK'
    BY <1>1, <1>7 DEF SystemInv, TypeOK, TesterTypeOK, DeviceInv
  <1>9. DriverKnowsDevice'
    BY <1>1, <1>4, <1>6, <1>7 DEF SystemInv, DriverKnowsDevice
  <1>10. BugIsAlpha3s'
    BY <1>1, <1>4, <1>6 DEF SystemInv, BugIsAlpha3s
  <1>11. WaitsForDeadline' /\ StepsOfOperation'
    BY <1>1, <1>6 DEF SystemInv, WaitsForDeadline, StepsOfOperation
  <1>12. Arithmetic'
    BY <1>1, <1>6 DEF SystemInv, Arithmetic, TypeOK
  <1>13. QED
    BY <1>7, <1>8, <1>9, <1>10, <1>11, <1>12 DEF SystemInv

\* A byte of a read.  Only alpha_5 goes on when it has what it was sent for,
\* and so only alpha_5 can leave the caller's buffer.
LEMMA ReadBytePreserves ==
  ASSUME SystemInv, ReadByte, Inside
  PROVE  SystemInv'
  <1>1. /\ pc = "transfer" /\ req.op = "read" /\ ReadGoesOn
        /\ UNCHANGED <<timeout, sleeping, req, left, byte_addr, chunk, rc, driver,
                       mirror, made>>
        /\ IF ReadIndex < req.size THEN count' = count - 1 /\ UNCHANGED pc
           ELSE pc' = "undefined" /\ UNCHANGED count
    BY DEF ReadByte, Inside
  <1>2. /\ left \in Nat /\ chunk \in 0 .. Radix /\ count \in Int /\ count <= chunk
        /\ 0 < chunk /\ chunk <= left /\ left <= req.size
    BY <1>1 DEF SystemInv, TypeOK, Arithmetic
  <1>3. driver # "alpha_5" => count > 0
    <2>1. CASE driver = "alpha_4"
      <3>1. WholeBursts \in Nat /\ WholeBursts <= chunk
        BY <1>2, BurstAssumption, RadixAssumption DEF WholeBursts
      <3>2. QED
        BY <1>1, <1>2, <2>1, <3>1 DEF ReadGoesOn
    <2>2. QED
      BY <1>1, <2>1 DEF ReadGoesOn
  <1>4. driver # "alpha_5" => ReadIndex < req.size
    <2>1. req.size \in Nat
      BY <1>1, RequestFacts DEF SystemInv, StepsOfOperation
    <2>2. QED
      BY <1>2, <1>3, <2>1, RadixAssumption DEF ReadIndex, BufferIndex
  <1>5. machine_state # MS_BUG
    BY <1>1 DEF SystemInv, BugIsAlpha3s
  <1>6. machine_state = MS_READ_PROVIDING_DATA /\ ~BeforeDeadline /\ ~exited
    BY <1>1, <1>5 DEF SystemInv, DriverKnowsDevice, WorkingOf
  <1>7. UNCHANGED <<machine_state, deadline, exited>>
    BY <1>6, DataOutIsProvided DEF SystemInv, ReadByte
  <1>8. DeviceInv' /\ ~BeforeDeadline'
    BY <1>6, <1>7, AccessesPreserve DEF SystemInv, BeforeDeadline, ReadByte
  <1>9. TypeOK'
    BY <1>1, <1>2, <1>8 DEF SystemInv, TypeOK, TesterTypeOK, DeviceInv, StepName
  <1>10. DriverKnowsDevice'
    BY <1>1, <1>5, <1>6, <1>7, <1>8 DEF SystemInv, DriverKnowsDevice, WorkingOf
  <1>11. BugIsAlpha3s'
    BY <1>1, <1>5, <1>7 DEF SystemInv, BugIsAlpha3s
  <1>12. WaitsForDeadline'
    BY <1>1, <1>7 DEF SystemInv, WaitsForDeadline
  <1>13. StepsOfOperation'
    BY <1>1, <1>4 DEF SystemInv, StepsOfOperation
  <1>14. Arithmetic'
    BY <1>1, <1>2, <1>3, <1>5, <1>7 DEF SystemInv, Arithmetic
  <1>15. QED
    BY <1>8, <1>9, <1>10, <1>11, <1>12, <1>13, <1>14 DEF SystemInv

\* The end of a transfer: a write goes on to program the page, a read is done
\* with it.
LEMMA EndTransferPreserves ==
  ASSUME SystemInv, EndTransfer, Inside
  PROVE  SystemInv'
  <1>1. /\ pc = "transfer"
        /\ UNCHANGED <<timeout, sleeping, req, byte_addr, buffer, rc, driver, mirror,
                       made>>
        /\ count' = 0
        /\ \/ /\ req.op = "write" /\ pc' = "execute" /\ UNCHANGED <<left, chunk>>
           \/ /\ req.op = "read" /\ pc' = "loop"
              /\ left' = left - chunk /\ chunk' = 0
    BY DEF EndTransfer, Inside
  <1>2. /\ UNCHANGED <<machine_state, deadline, exited>>
        /\ DeviceInv'
        /\ BeforeDeadline' = BeforeDeadline
    BY DeviceLeftAlone DEF EndTransfer, SystemInv
  <1>3. /\ left \in Nat /\ chunk \in 0 .. Radix /\ 0 < chunk /\ chunk <= left
        /\ left <= req.size
    BY <1>1 DEF SystemInv, TypeOK, Arithmetic
  <1>4. machine_state # MS_BUG
    BY <1>1 DEF SystemInv, BugIsAlpha3s
  <1>5. machine_state = WorkingOf(req.op) /\ ~BeforeDeadline /\ ~exited
    BY <1>1, <1>4 DEF SystemInv, DriverKnowsDevice
  <1>6. req.size \in Nat
    BY <1>1, RequestFacts DEF SystemInv, StepsOfOperation
  <1>7. TypeOK'
    BY <1>1, <1>2, <1>3, RadixAssumption
    DEF SystemInv, TypeOK, TesterTypeOK, DeviceInv, StepName
  <1>8. DriverKnowsDevice'
    BY <1>1, <1>2, <1>5 DEF DriverKnowsDevice
  <1>9. BugIsAlpha3s'
    BY <1>1, <1>2, <1>4 DEF SystemInv, BugIsAlpha3s
  <1>10. WaitsForDeadline' /\ StepsOfOperation'
    BY <1>1, <1>2 DEF SystemInv, WaitsForDeadline, StepsOfOperation
  <1>11. Arithmetic'
    BY <1>1, <1>2, <1>3, <1>4, <1>6, RadixAssumption DEF Arithmetic
  <1>12. QED
    BY <1>2, <1>7, <1>8, <1>9, <1>10, <1>11 DEF SystemInv

LEMMA AdvancePreserves ==
  ASSUME SystemInv, Advance, Inside
  PROVE  SystemInv'
  <1>1. /\ pc = "ready" /\ pc' = "loop" /\ req.op # "read"
        /\ UNCHANGED <<sleeping, req, byte_addr, count, buffer, rc, driver, mirror,
                       made>>
        /\ left' = IF req.op = "erase" THEN left - 1 ELSE left - chunk
        /\ chunk' = 0 /\ timeout' = 0
    BY DEF Advance, Inside
  <1>2. /\ UNCHANGED <<machine_state, deadline, exited>>
        /\ DeviceInv'
        /\ BeforeDeadline' = BeforeDeadline
    BY DeviceLeftAlone DEF Advance, SystemInv
  <1>3. /\ left \in Nat /\ left > 0 /\ chunk \in 0 .. Radix
        /\ req.op = "write" => chunk <= left
        /\ req.op # "erase" => left <= req.size
    BY <1>1 DEF SystemInv, TypeOK, Arithmetic
  <1>4. machine_state # MS_BUG
    BY <1>1 DEF SystemInv, BugIsAlpha3s
  <1>5. machine_state = WorkingOf(req.op) /\ ~BeforeDeadline /\ ~exited
    BY <1>1, <1>4 DEF SystemInv, DriverKnowsDevice, WaitsForDeadline
  <1>6. req.size \in Nat /\ req.op \in Operation
    BY <1>1, RequestFacts DEF SystemInv, StepsOfOperation
  <1>7. left' \in Nat /\ (req.op # "erase" => left' <= req.size)
    BY <1>1, <1>3, <1>6, RadixAssumption DEF Operation
  <1>8. count = 0
    BY <1>1 DEF SystemInv, Arithmetic
  <1>9. TypeOK'
    BY <1>1, <1>2, <1>7, <1>8, RadixAssumption
    DEF SystemInv, TypeOK, TesterTypeOK, DeviceInv, StepName
  <1>10. DriverKnowsDevice'
    BY <1>1, <1>2, <1>5 DEF DriverKnowsDevice
  <1>11. BugIsAlpha3s'
    BY <1>1, <1>2, <1>4 DEF SystemInv, BugIsAlpha3s
  <1>12. WaitsForDeadline' /\ StepsOfOperation'
    BY <1>1, <1>2 DEF SystemInv, WaitsForDeadline, StepsOfOperation
  <1>13. Arithmetic'
    BY <1>1, <1>2, <1>4, <1>7, <1>8 DEF Arithmetic
  <1>14. QED
    BY <1>2, <1>9, <1>10, <1>11, <1>12, <1>13 DEF SystemInv

\* The ends of a call; GiveUp is alpha_3's.
LEMMA LoopEndsPreserves ==
  ASSUME SystemInv, LoopEnds, UNCHANGED <<driver, mirror, made>>
  PROVE  SystemInv'
  <1>1. /\ pc = "loop" /\ left = 0 /\ pc' = "idle" /\ rc' = 0 /\ timeout' = 0
        /\ UNCHANGED <<sleeping, req, buffer, left, byte_addr, chunk, count, driver,
                       mirror, made>>
    BY DEF LoopEnds, Return, EndCall, loopVars
  <1>2. /\ UNCHANGED <<machine_state, deadline, exited>>
        /\ DeviceInv'
        /\ BeforeDeadline' = BeforeDeadline
    BY DeviceLeftAlone DEF LoopEnds, Return, EndCall, SystemInv
  <1>3. machine_state # MS_BUG
    BY <1>1 DEF SystemInv, Arithmetic
  <1>4. machine_state = WorkingOf(req.op) /\ ~BeforeDeadline /\ ~exited
    BY <1>1, <1>3 DEF SystemInv, DriverKnowsDevice
  <1>5. machine_state \in Working
    BY <1>4 DEF WorkingOf
  <1>6. TypeOK'
    BY <1>1, <1>2 DEF SystemInv, TypeOK, TesterTypeOK, DeviceInv, StepName
  <1>7. DriverKnowsDevice'
    BY <1>1, <1>2, <1>4, <1>5 DEF DriverKnowsDevice
  <1>8. BugIsAlpha3s'
    BY <1>1, <1>2, <1>3 DEF BugIsAlpha3s
  <1>9. WaitsForDeadline' /\ StepsOfOperation' /\ Arithmetic'
    BY <1>1, <1>2, <1>3 DEF SystemInv, WaitsForDeadline, StepsOfOperation, Arithmetic
  <1>10. QED
    BY <1>2, <1>6, <1>7, <1>8, <1>9 DEF SystemInv

LEMMA GiveUpPreserves ==
  ASSUME SystemInv, GiveUp, UNCHANGED <<driver, mirror, made>>
  PROVE  SystemInv'
  <1>1. /\ pc = "timed_out" /\ pc' = "idle" /\ rc' = -1 /\ timeout' = 0
        /\ UNCHANGED <<sleeping, req, buffer, left, byte_addr, chunk, count, driver,
                       mirror, made>>
    BY DEF GiveUp, Return, EndCall, loopVars
  <1>2. /\ UNCHANGED <<machine_state, deadline, exited>>
        /\ DeviceInv'
        /\ BeforeDeadline' = BeforeDeadline
    BY DeviceLeftAlone DEF GiveUp, Return, EndCall, SystemInv
  <1>3. machine_state # MS_BUG /\ driver = "alpha_3"
    BY <1>1 DEF SystemInv, BugIsAlpha3s, WaitsForDeadline
  <1>4. machine_state \in Working /\ ~exited
    BY <1>1, <1>3 DEF SystemInv, DriverKnowsDevice, WorkingOf
  <1>5. TypeOK'
    BY <1>1, <1>2 DEF SystemInv, TypeOK, TesterTypeOK, DeviceInv, StepName
  <1>6. DriverKnowsDevice'
    BY <1>1, <1>2, <1>4 DEF DriverKnowsDevice
  <1>7. BugIsAlpha3s'
    BY <1>1, <1>2, <1>3 DEF BugIsAlpha3s
  <1>8. WaitsForDeadline' /\ StepsOfOperation' /\ Arithmetic'
    BY <1>1, <1>2, <1>3 DEF SystemInv, WaitsForDeadline, StepsOfOperation, Arithmetic
  <1>9. QED
    BY <1>2, <1>5, <1>6, <1>7, <1>8 DEF SystemInv

\* Time.
LEMMA TimePreserves ==
  ASSUME SystemInv, Time
  PROVE  SystemInv'
  <1>1. /\ DeadlinePasses /\ TimersRun
        /\ UNCHANGED <<storeVars, machine_state, ioregs, loaded, exited>>
        /\ UNCHANGED <<pc, driver, req, buffer, rc, left, byte_addr, chunk, count,
                       mirror, made>>
    BY DEF Time, Tick, callVars, loopVars, testerVars
  <1>2. DeviceInv' /\ (BeforeDeadline' => BeforeDeadline)
    BY <1>1, DeadlinePassesPreserves DEF SystemInv
  <1>3. /\ WaitsForDeadline'
        /\ deadline \in Nat /\ deadline' \in Nat /\ deadline' <= deadline
        /\ timeout' \in Nat
        /\ sleeping' \in 0 .. PollInterval
    <2>1. deadline \in Nat /\ timeout \in Nat /\ sleeping \in 0 .. PollInterval
      BY DEF SystemInv, DeviceInv, DeviceTypeOK, ParserTypeOK, TypeOK, TesterTypeOK
    <2>2. QED
      BY <1>1, <2>1, TimeWaits DEF SystemInv
  <1>4. TypeOK'
    BY <1>1, <1>2, <1>3 DEF SystemInv, TypeOK, TesterTypeOK, DeviceInv
  <1>5. DriverKnowsDevice'
    <2>1. pc = "wait" => req.op \in Operation
      BY RequestFacts DEF SystemInv, StepsOfOperation
    <2>2. pc = "wait" /\ machine_state # MS_BUG => deadline' <= DurationOf(req.op)
      BY <1>3, <2>1, IntervalsAreLongEnough DEF SystemInv, DriverKnowsDevice
    <2>3. QED
      BY <1>1, <1>2, <2>2 DEF SystemInv, DriverKnowsDevice
  <1>6. BugIsAlpha3s' /\ StepsOfOperation' /\ Arithmetic'
    BY <1>1 DEF SystemInv, BugIsAlpha3s, StepsOfOperation, Arithmetic
  <1>7. QED
    BY <1>2, <1>3, <1>4, <1>5, <1>6 DEF SystemInv

-----------------------------------------------------------------------------
(* The results.                                                            *)

\* One step of the tracee, whichever it is.
LEMMA TraceePreserves ==
  ASSUME SystemInv, Tracee
  PROVE  SystemInv'
  <1>1. UNCHANGED <<driver, mirror, made>>
    BY DEF Tracee, testerVars
  <1>2. CASE LoopEnds \/ GiveUp
    BY <1>1, <1>2, LoopEndsPreserves, GiveUpPreserves
  <1>3. CASE SetUp \/ GiveBlockAddress \/ GivePageAddress \/ GiveByteAddress
               \/ StartOperation
    <2>1. Inside
      BY <1>1, <1>3
      DEF Inside, SetUp, GiveBlockAddress, GivePageAddress, GiveByteAddress,
          StartOperation, Access, callVars
    <2>2. QED
      BY <1>3, <2>1, SetUpPreserves, GiveBlockAddressPreserves,
         GivePageAddressPreserves, GiveByteAddressPreserves, StartOperationPreserves
  <1>4. CASE LoopExecutes \/ StartTransfer \/ ProgramByte \/ ReadByte \/ EndTransfer
               \/ Advance
    <2>1. Inside
      BY <1>1, <1>4
      DEF Inside, LoopExecutes, StartTransfer, ProgramByte, ReadByte, EndTransfer,
          Advance, callVars
    <2>2. QED
      BY <1>4, <2>1, LoopExecutesPreserves, StartTransferPreserves,
         ProgramBytePreserves, ReadBytePreserves, EndTransferPreserves,
         AdvancePreserves
  <1>5. CASE /\ WaitStep(WaitInterval(req.op), req.op = "erase")
             /\ UNCHANGED <<callVars, deviceVars>>
    <2>1. Inside
      BY <1>1, <1>5 DEF Inside, callVars
    <2>2. QED
      BY <1>5, <2>1, WaitPreserves
  <1>6. QED
    BY <1>2, <1>3, <1>4, <1>5 DEF Tracee, CallStep

\* A step that changes nothing.
LEMMA StutteringPreserves ==
  ASSUME SystemInv, UNCHANGED vars
  PROVE  SystemInv'
  <1>1. /\ UNCHANGED <<pc, timeout, sleeping, driver, req, buffer, rc, left, byte_addr,
                       chunk, count, mirror, made, machine_state, deadline, exited>>
        /\ DeviceInv'
        /\ BeforeDeadline' = BeforeDeadline
    BY DeviceLeftAlone DEF vars, waitVars, callVars, loopVars, testerVars, SystemInv
  <1>2. TypeOK'
    BY <1>1 DEF SystemInv, TypeOK, TesterTypeOK, DeviceInv
  <1>3. DriverKnowsDevice' /\ WaitsForDeadline'
    BY <1>1 DEF SystemInv, DriverKnowsDevice, WaitsForDeadline
  <1>4. BugIsAlpha3s' /\ StepsOfOperation' /\ Arithmetic'
    BY <1>1 DEF SystemInv, BugIsAlpha3s, StepsOfOperation, Arithmetic
  <1>5. QED
    BY <1>1, <1>2, <1>3, <1>4 DEF SystemInv

LEMMA InitEstablishes ==
  ASSUME Init
  PROVE  SystemInv
  <1>1. /\ DeviceInv /\ ~BeforeDeadline
        /\ machine_state = MS_INITIAL_STATE /\ exited = FALSE /\ deadline = 0
    <2>1. machine_state = MS_INITIAL_STATE /\ exited = FALSE /\ deadline = 0
      BY DEF Init, ParserInit
    <2>2. ~BeforeDeadline
      BY <2>1 DEF BeforeDeadline
    <2>3. QED
      BY <2>1, <2>2, ParserInitEstablishes DEF Init
  <1>2. /\ pc = "idle" /\ timeout = 0 /\ sleeping = 0 /\ req = NoRequest /\ rc = 0
        /\ left = 0 /\ byte_addr = 0 /\ chunk = 0 /\ count = 0
        /\ mirror = BlankMirror /\ made = 0 /\ driver \in Drivers
    BY DEF Init, JumpTableInit, FrameworkInit, TesterInit
  <1>3. mirror \in Mirror /\ made \in 0 .. MaxRequests
    BY <1>2, ZeroAssumption, MaxRequestsAssumption DEF BlankMirror, Mirror
  <1>4. TypeOK
    BY <1>1, <1>2, <1>3, DigitFacts, RadixAssumption, PollIntervalAssumption
    DEF TypeOK, TesterTypeOK, DeviceInv, StepName
  <1>5. DriverKnowsDevice /\ BugIsAlpha3s /\ WaitsForDeadline /\ StepsOfOperation
    BY <1>1, <1>2
    DEF DriverKnowsDevice, BugIsAlpha3s, WaitsForDeadline, StepsOfOperation
  <1>6. Arithmetic
    BY <1>1, <1>2 DEF Arithmetic, NoRequest
  <1>7. QED
    BY <1>1, <1>4, <1>5, <1>6 DEF SystemInv

\* The framework's place in a call, the driver's loops and the device's state
\* machine keep step with each other, for every driver of the alpha group.
THEOREM SystemInvariant == Spec => []SystemInv
  <1>1. Init => SystemInv
    BY InitEstablishes
  <1>2. SystemInv /\ [Next]_vars => SystemInv'
    BY RequestPreserves, TraceePreserves, TimePreserves, StutteringPreserves DEF Next
  <1>3. QED
    BY <1>1, <1>2, PTL DEF Spec

\* The types, and with them that the framework never counts below zero or
\* beyond a page (bytes_left and size_to_read of fw_jumptable.c are unsigned).
THEOREM TypesHold == Spec => []TypeOK
  <1>1. SystemInv => TypeOK
    BY DEF SystemInv
  <1>2. QED
    BY <1>1, SystemInvariant, PTL

\* Every alpha driver but alpha_3 keeps to the device's protocol for ever: no
\* access of the framework's finds the device busy or in a state that does not
\* expect it (the MS_BUG cases of handle_watchpoint_ioregisters()).
THEOREM PatientDriversKeepProtocol ==
  ASSUME "alpha_3" \notin Drivers
  PROVE  Spec => []NeverABug
  <1>1. SystemInv => NeverABug
    BY DEF SystemInv, TypeOK, TesterTypeOK, DriverKnowsDevice, BugIsAlpha3s, NeverABug
  <1>2. QED
    BY <1>1, SystemInvariant, PTL

\* And none of them times out on a device that keeps its deadlines, since the
\* last poll comes after the timeout, and the timeout after the deadline.
THEOREM PatientDriversNeverTimeOut ==
  ASSUME "alpha_3" \notin Drivers
  PROVE  Spec => []NoSpuriousTimeout
  <1>1. SystemInv => NoSpuriousTimeout
    BY DEF SystemInv, TypeOK, TesterTypeOK, BugIsAlpha3s, WaitsForDeadline,
           NoSpuriousTimeout
  <1>2. QED
    BY <1>1, SystemInvariant, PTL

\* alpha_3, which gives up at its first busy poll, brings the device into its
\* bug state only in the call that follows a call that has failed.
THEOREM BugsFollowTimeouts == Spec => []BugOnlyAfterTimeout
  <1>1. SystemInv => BugOnlyAfterTimeout
    BY DEF SystemInv, BugIsAlpha3s, BugOnlyAfterTimeout
  <1>2. QED
    BY <1>1, SystemInvariant, PTL
=============================================================================
