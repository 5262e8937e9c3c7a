---------------------------- MODULE Tester_proofs ----------------------------
(***************************************************************************)
(* Lemmas that the two frameworks share, whichever driver is below them:   *)
(* what the device makes of the accesses that it expects, what the wait    *)
(* loop promises on a device that keeps its deadlines, and the arithmetic  *)
(* of storage addresses.                                                   *)
(***************************************************************************)
EXTENDS Tester, DeviceParser_proofs

USE DEF MS_INITIAL_STATE, MS_BUG,
        MS_READ_AWAITING_BLOCK_ADDRESS, MS_READ_AWAITING_PAGE_ADDRESS,
        MS_READ_AWAITING_BYTE_ADDRESS, MS_READ_AWAITING_EXECUTE,
        MS_READ_PROVIDING_DATA, MS_PROGRAM_AWAITING_BLOCK_ADDRESS,
        MS_PROGRAM_AWAITING_PAGE_ADDRESS, MS_PROGRAM_AWAITING_BYTE_ADDRESS,
        MS_PROGRAM_ACCEPTING_DATA, MS_ERASE_AWAITING_BLOCK_ADDRESS,
        MS_ERASE_AWAITING_EXECUTE,
        AwaitingBlock, AwaitingPage, AwaitingByte, Working, MachineState

USE DEF NO_COMMAND, C_READ_SETUP, C_READ_EXECUTE, C_PROGRAM_SETUP,
        C_PROGRAM_EXECUTE, C_ERASE_SETUP, C_ERASE_EXECUTE, C_DUMMY,
        Command, Setup, Execute

-----------------------------------------------------------------------------
(* The states an operation takes the device through.                       *)

AwaitingBlockOf(op) == CASE op = "read" -> MS_READ_AWAITING_BLOCK_ADDRESS
                         [] op = "write" -> MS_PROGRAM_AWAITING_BLOCK_ADDRESS
                         [] OTHER -> MS_ERASE_AWAITING_BLOCK_ADDRESS

AwaitingPageOf(op) == IF op = "read" THEN MS_READ_AWAITING_PAGE_ADDRESS
                      ELSE MS_PROGRAM_AWAITING_PAGE_ADDRESS

AwaitingByteOf(op) == IF op = "read" THEN MS_READ_AWAITING_BYTE_ADDRESS
                      ELSE MS_PROGRAM_AWAITING_BYTE_ADDRESS

\* Where the last address takes it, and where the last operation has left it.
AddressedOf(op) == CASE op = "read" -> MS_READ_AWAITING_EXECUTE
                     [] op = "write" -> MS_PROGRAM_ACCEPTING_DATA
                     [] OTHER -> MS_ERASE_AWAITING_EXECUTE

WorkingOf(op) == CASE op = "read" -> MS_READ_PROVIDING_DATA
                   [] op = "write" -> MS_PROGRAM_ACCEPTING_DATA
                   [] OTHER -> MS_ERASE_AWAITING_EXECUTE

DurationOf(op) == CASE op = "read" -> ReadPageDuration
                    [] op = "write" -> WritePageDuration
                    [] OTHER -> EraseBlockDuration

\* A new operation may begin.
AtRest == machine_state \in {MS_INITIAL_STATE} \union Working /\ ~BeforeDeadline

-----------------------------------------------------------------------------
(* One lemma for each access that the frameworks make.                     *)

\* A setup command to a device at rest is accepted, from whichever state.
LEMMA SetupIsAccepted ==
  ASSUME DeviceInv, AtRest, NEW op \in Operation, StoreCommand(SetupCommand(op))
  PROVE  /\ machine_state' = AwaitingBlockOf(op)
         /\ cursor' = Origin
         /\ UNCHANGED <<data_store, loaded, exited>>
  <1> DEFINE w == [ioregs EXCEPT !.command = SetupCommand(op)]
  <1>1. w.command = SetupCommand(op) /\ w.command \in Setup
    BY DEF DeviceInv, DeviceTypeOK, ParserTypeOK, Word, SetupCommand
  <1> HIDE DEF w
  <1>2. SetupState(w.command) = AwaitingBlockOf(op)
    BY <1>1 DEF SetupState, SetupCommand, AwaitingBlockOf, Operation
  <1>3. Accepts(w)
    BY <1>1 DEF AtRest, Accepts, Expected
  <1>4. HandleWatchpoint(w, FALSE)
    BY DEF StoreCommand, w
  <1>5. FirstSetup(w) \/ NextSetup(w)
    BY <1>1, <1>3, <1>4
    DEF AtRest, HandleWatchpoint, AcceptBlockAddress, AcceptPageAddress,
        AcceptByteAddress, ExecuteRead, ProvideByte, FailToDecode, AcceptByte,
        ExecuteProgram, ExecuteErase, RejectAccess, ExitOnBug
  <1>6. CASE FirstSetup(w)
    BY <1>2, <1>6
    DEF FirstSetup, Ordinary, storeVars, DeviceInv, SetupStartsClean
  <1>7. CASE NextSetup(w)
    BY <1>2, <1>7 DEF NextSetup, Ordinary, ClearState, ClearCursor
  <1>8. QED
    BY <1>5, <1>6, <1>7

\* Address bytes: the command that stands in the word is the setup's, which is
\* what each of the address states waits for.
LEMMA BlockAddressIsAccepted ==
  ASSUME DeviceInv, NEW op \in Operation, machine_state = AwaitingBlockOf(op),
         NEW d \in Digit, StoreAddress(d)
  PROVE  /\ machine_state' = IF op = "erase" THEN AddressedOf(op)
                             ELSE AwaitingPageOf(op)
         /\ cursor' = [cursor EXCEPT !.block = d]
         /\ UNCHANGED <<cache, data_store, deadline, loaded, exited>>
  <1> DEFINE w == [ioregs EXCEPT !.address = d]
  <1>1. w.command = ioregs.command /\ w.address = d
    BY DEF DeviceInv, DeviceTypeOK, ParserTypeOK, Word
  <1> HIDE DEF w
  <1>2. machine_state \in AwaitingBlock
    BY DEF AwaitingBlockOf
  <1>3. w.command \in Expected(machine_state)
    BY <1>1, <1>2, ExpectedFacts DEF DeviceInv, CommandRegisterIsStanding
  <1>4. Accepts(w)
    BY <1>2, <1>3 DEF Accepts, DeviceInv, BusyOnlyWhileWorking
  <1>5. AcceptBlockAddress(w)
    <2>1. HandleWatchpoint(w, FALSE)
      BY DEF StoreAddress, w
    <2>2. w.command \notin Execute
      BY <1>2, <1>3, ExpectedFacts
    <2>3. QED
      BY <1>2, <1>4, <2>1, <2>2
      DEF HandleWatchpoint, FirstSetup, NextSetup, AcceptPageAddress,
          AcceptByteAddress, ExecuteRead, ProvideByte, FailToDecode, AcceptByte,
          ExecuteProgram, ExecuteErase, RejectAccess, ExitOnBug
  <1>6. QED
    BY <1>1, <1>5
    DEF AcceptBlockAddress, Ordinary, SetCursorBlock, Operation, AwaitingBlockOf,
        AwaitingPageOf, AddressedOf

LEMMA PageAddressIsAccepted ==
  ASSUME DeviceInv, NEW op \in Operation, machine_state = AwaitingPageOf(op),
         NEW d \in Digit, StoreAddress(d)
  PROVE  /\ machine_state' = AwaitingByteOf(op)
         /\ cursor' = [cursor EXCEPT !.page = d]
         /\ UNCHANGED <<cache, data_store, deadline, loaded, exited>>
  <1> DEFINE w == [ioregs EXCEPT !.address = d]
  <1>1. w.command = ioregs.command /\ w.address = d
    BY DEF DeviceInv, DeviceTypeOK, ParserTypeOK, Word
  <1> HIDE DEF w
  <1>2. machine_state \in AwaitingPage
    BY DEF AwaitingPageOf
  <1>3. w.command \in Expected(machine_state)
    BY <1>1, <1>2, ExpectedFacts DEF DeviceInv, CommandRegisterIsStanding
  <1>4. Accepts(w)
    BY <1>2, <1>3 DEF Accepts, DeviceInv, BusyOnlyWhileWorking
  <1>5. AcceptPageAddress(w)
    <2>1. HandleWatchpoint(w, FALSE)
      BY DEF StoreAddress, w
    <2>2. w.command \notin Execute
      BY <1>2, <1>3, ExpectedFacts
    <2>3. QED
      BY <1>2, <1>4, <2>1, <2>2
      DEF HandleWatchpoint, FirstSetup, NextSetup, AcceptBlockAddress,
          AcceptByteAddress, ExecuteRead, ProvideByte, FailToDecode, AcceptByte,
          ExecuteProgram, ExecuteErase, RejectAccess, ExitOnBug
  <1>6. QED
    BY <1>1, <1>5
    DEF AcceptPageAddress, Ordinary, SetCursorPage, AwaitingPageOf, AwaitingByteOf

LEMMA ByteAddressIsAccepted ==
  ASSUME DeviceInv, NEW op \in Operation \ {"erase"},
         machine_state = AwaitingByteOf(op), NEW d \in Digit, StoreAddress(d)
  PROVE  /\ machine_state' = AddressedOf(op)
         /\ cursor' = [cursor EXCEPT !.byte = d]
         /\ UNCHANGED <<cache, data_store, deadline, loaded, exited>>
  <1> DEFINE w == [ioregs EXCEPT !.address = d]
  <1>1. w.command = ioregs.command /\ w.address = d
    BY DEF DeviceInv, DeviceTypeOK, ParserTypeOK, Word
  <1> HIDE DEF w
  <1>2. machine_state \in AwaitingByte
    BY DEF AwaitingByteOf
  <1>3. w.command \in Expected(machine_state)
    BY <1>1, <1>2, ExpectedFacts DEF DeviceInv, CommandRegisterIsStanding
  <1>4. Accepts(w)
    BY <1>2, <1>3 DEF Accepts, DeviceInv, BusyOnlyWhileWorking
  <1>5. AcceptByteAddress(w)
    <2>1. HandleWatchpoint(w, FALSE)
      BY DEF StoreAddress, w
    <2>2. w.command \notin Execute
      BY <1>2, <1>3, ExpectedFacts
    <2>3. QED
      BY <1>2, <1>4, <2>1, <2>2
      DEF HandleWatchpoint, FirstSetup, NextSetup, AcceptBlockAddress,
          AcceptPageAddress, ExecuteRead, ProvideByte, FailToDecode, AcceptByte,
          ExecuteProgram, ExecuteErase, RejectAccess, ExitOnBug
  <1>6. QED
    BY <1>1, <1>5
    DEF AcceptByteAddress, Ordinary, SetCursorByte, Operation, AwaitingByteOf,
        AddressedOf

\* Execute commands: what each does to the cache and to storage.
LEMMA ExecuteIsAccepted ==
  ASSUME DeviceInv, ~BeforeDeadline, NEW op \in Operation,
         machine_state \in {AddressedOf(op), WorkingOf(op)},
         StoreCommand(ExecuteCommand(op))
  PROVE  /\ machine_state' = WorkingOf(op)
         /\ deadline' = DurationOf(op)
         /\ UNCHANGED <<loaded, exited>>
         /\ op = "read" =>
              /\ cache' = PageAt(cursor)
              /\ UNCHANGED <<cursor, data_store>>
         /\ op = "write" =>
              /\ data_store' =
                   [data_store EXCEPT ![cursor.block][cursor.page] = cache]
              /\ cache' = ZeroPage
              /\ cursor' = NextPage(cursor)
         /\ op = "erase" =>
              /\ data_store' = [data_store EXCEPT ![cursor.block] = ZeroBlock]
              /\ cursor' = NextBlock(cursor)
  <1> DEFINE w == [ioregs EXCEPT !.command = ExecuteCommand(op)]
  <1>1. w.command = ExecuteCommand(op)
    BY DEF DeviceInv, DeviceTypeOK, ParserTypeOK, Word
  <1> HIDE DEF w
  <1>2. Accepts(w)
    BY <1>1
    DEF Accepts, Expected, ExecuteCommand, Operation, AddressedOf, WorkingOf
  <1>3. HandleWatchpoint(w, FALSE)
    BY DEF StoreCommand, w
  <1>4. w.command \in Execute /\ w.command \notin Setup
    BY <1>1 DEF ExecuteCommand
  <1>5. CASE op = "read"
    <2>1. ExecuteRead(w)
      BY <1>1, <1>2, <1>3, <1>4, <1>5
      DEF HandleWatchpoint, FirstSetup, NextSetup, AcceptBlockAddress,
          AcceptPageAddress, AcceptByteAddress, ProvideByte, FailToDecode,
          AcceptByte, ExecuteProgram, ExecuteErase, RejectAccess, ExitOnBug,
          ExecuteCommand, AddressedOf, WorkingOf
    <2>2. QED
      BY <1>5, <2>1
      DEF ExecuteRead, Ordinary, SetDeadline, CopyPageToCache, WorkingOf, DurationOf
  <1>6. CASE op = "write"
    <2>1. ExecuteProgram(w)
      BY <1>1, <1>2, <1>3, <1>4, <1>6
      DEF HandleWatchpoint, FirstSetup, NextSetup, AcceptBlockAddress,
          AcceptPageAddress, AcceptByteAddress, ProvideByte, FailToDecode,
          AcceptByte, ExecuteRead, ExecuteErase, RejectAccess, ExitOnBug,
          ExecuteCommand, AddressedOf, WorkingOf
    <2>2. QED
      BY <1>6, <2>1
      DEF ExecuteProgram, Ordinary, SetDeadline, CopyPageFromCache, ClearCache,
          IncrementPage, WorkingOf, AddressedOf, DurationOf
  <1>7. CASE op = "erase"
    <2>1. ExecuteErase(w)
      BY <1>1, <1>2, <1>3, <1>4, <1>7
      DEF HandleWatchpoint, FirstSetup, NextSetup, AcceptBlockAddress,
          AcceptPageAddress, AcceptByteAddress, ProvideByte, FailToDecode,
          AcceptByte, ExecuteRead, ExecuteProgram, RejectAccess, ExitOnBug,
          ExecuteCommand, AddressedOf, WorkingOf
    <2>2. QED
      BY <1>7, <2>1
      DEF ExecuteErase, Ordinary, SetDeadline, EraseBlock, IncrementBlock,
          WorkingOf, AddressedOf, DurationOf
  <1>8. QED
    BY <1>5, <1>6, <1>7 DEF Operation

\* Data bytes, in and out.
LEMMA DataInIsAccepted ==
  ASSUME DeviceInv, ~BeforeDeadline, machine_state = MS_PROGRAM_ACCEPTING_DATA,
         NEW v \in Byte, StoreData(v)
  PROVE  /\ cache' = [cache EXCEPT ![cursor.byte] = v]
         /\ cursor' = [cursor EXCEPT !.byte = Successor(@)]
         /\ UNCHANGED <<data_store, machine_state, deadline, loaded, exited>>
  <1> DEFINE w == [ioregs EXCEPT !.data = v]
  <1>1. w.command = C_DUMMY /\ w.data = v
    BY DEF DeviceInv, DeviceTypeOK, ParserTypeOK, Word, CommandRegisterIsStanding,
           Standing
  <1> HIDE DEF w
  <1>2. Accepts(w)
    BY <1>1 DEF Accepts, Expected
  <1>3. HandleWatchpoint(w, FALSE)
    BY DEF StoreData, w
  <1>4. AcceptByte(w)
    BY <1>1, <1>2, <1>3
    DEF HandleWatchpoint, FirstSetup, NextSetup, AcceptBlockAddress,
        AcceptPageAddress, AcceptByteAddress, ProvideByte, FailToDecode,
        ExecuteRead, ExecuteProgram, ExecuteErase, RejectAccess, ExitOnBug
  <1>5. QED
    BY <1>1, <1>4 DEF AcceptByte, Ordinary, SetCacheByte, IncrementCursorInPage

LEMMA DataOutIsProvided ==
  ASSUME DeviceInv, ~BeforeDeadline, machine_state = MS_READ_PROVIDING_DATA,
         LoadData(TRUE)
  PROVE  /\ loaded' = cache[cursor.byte]
         /\ cursor' = NextByte(cursor)
         /\ UNCHANGED <<cache, data_store, machine_state, deadline, exited>>
  <1>1. ioregs.command = C_DUMMY
    BY DEF DeviceInv, DeviceTypeOK, ParserTypeOK, Word, CommandRegisterIsStanding,
           Standing
  <1>2. Accepts(ioregs)
    BY <1>1 DEF Accepts, Expected
  <1>3. ProvideByte(ioregs, TRUE)
    BY <1>1, <1>2
    DEF LoadData, HandleWatchpoint, FirstSetup, NextSetup, AcceptBlockAddress,
        AcceptPageAddress, AcceptByteAddress, FailToDecode, AcceptByte,
        ExecuteRead, ExecuteProgram, ExecuteErase, RejectAccess, ExitOnBug
  <1>4. QED
    BY <1>3 DEF ProvideByte, GetCacheByte, IncrementCursor

\* Whatever an access comes to, the device keeps its own invariant.
LEMMA AccessesPreserve ==
  ASSUME DeviceInv,
         \/ \E c \in Command : StoreCommand(c)
         \/ \E d \in Digit : StoreAddress(d)
         \/ \E v \in Byte : StoreData(v)
         \/ LoadData(TRUE)
  PROVE  DeviceInv'
  <1>1. ioregs \in Word
    BY DEF DeviceInv, DeviceTypeOK, ParserTypeOK
  <1>2. CASE \E c \in Command : StoreCommand(c)
    BY <1>1, <1>2, WordFacts, HandleWatchpointPreserves DEF StoreCommand
  <1>3. CASE \E d \in Digit : StoreAddress(d)
    BY <1>1, <1>3, WordFacts, HandleWatchpointPreserves DEF StoreAddress
  <1>4. CASE \E v \in Byte : StoreData(v)
    BY <1>1, <1>4, WordFacts, HandleWatchpointPreserves DEF StoreData
  <1>5. CASE LoadData(TRUE)
    BY <1>1, <1>5, HandleWatchpointPreserves DEF LoadData
  <1>6. QED
    BY <1>2, <1>3, <1>4, <1>5

\* A busy device takes a setup command for a bug.
LEMMA BusySetupIsABug ==
  ASSUME DeviceInv, machine_state # MS_BUG, BeforeDeadline, NEW c \in Setup,
         StoreCommand(c)
  PROVE  machine_state' = MS_BUG /\ UNCHANGED <<data_store, deadline, exited>>
  <1> DEFINE w == [ioregs EXCEPT !.command = c]
  <1>1. HandleWatchpoint(w, FALSE)
    BY DEF StoreCommand, w
  <1>2. ~Accepts(w)
    BY BusyAcceptsNothing
  <1> HIDE DEF w
  <1>3. RejectAccess(w)
    BY <1>1, <1>2
    DEF HandleWatchpoint, FirstSetup, NextSetup, AcceptBlockAddress,
        AcceptPageAddress, AcceptByteAddress, ExecuteRead, ProvideByte,
        FailToDecode, AcceptByte, ExecuteProgram, ExecuteErase, ExitOnBug
  <1>4. QED
    BY <1>3 DEF RejectAccess, Ordinary, storeVars

\* The next access of any kind is the end of the tracer.
LEMMA BugIsTheEnd ==
  ASSUME machine_state = MS_BUG, NEW w, NEW decodable,
         HandleWatchpoint(w, decodable)
  PROVE  machine_state' = MS_BUG /\ exited' = TRUE /\ UNCHANGED <<storeVars, deadline>>
  <1>1. ~Accepts(w)
    BY DEF Accepts, Expected
  <1>2. ExitOnBug(w)
    BY <1>1
    DEF HandleWatchpoint, FirstSetup, NextSetup, AcceptBlockAddress,
        AcceptPageAddress, AcceptByteAddress, ExecuteRead, ProvideByte,
        FailToDecode, AcceptByte, ExecuteProgram, ExecuteErase, RejectAccess
  <1>3. QED
    BY <1>2 DEF ExitOnBug

-----------------------------------------------------------------------------
(* The wait loop on a device that keeps its deadlines.                     *)

USE DEF Waiting, Waited

\* Every loop but alpha_2's and alpha_3's leaves the device the time it needs,
\* so that the poll after the timeout finds it ready; alpha_2's never looks at
\* the time, and only alpha_3's gives up.
WaitsForDeadline ==
  /\ pc \in Waiting \ {"wait"} /\ driver \notin {"alpha_2", "alpha_3"} =>
       deadline <= timeout
  /\ pc = "last_poll" => timeout = 0 /\ driver \notin {"alpha_2", "alpha_3"}
  /\ driver = "alpha_2" => pc # "check"
  /\ pc = "timed_out" => driver = "alpha_3"
  /\ pc = "ready" => ~BeforeDeadline

\* One step of the loop, whatever the interval, if that is enough.
LEMMA WaitStepWaits ==
  ASSUME WaitsForDeadline, deadline \in Nat, timeout \in Nat,
         sleeping \in 0 .. PollInterval, NEW interval \in Nat, NEW erasing,
         pc = "wait" => deadline <= interval,
         WaitStep(interval, erasing), UNCHANGED <<deadline, driver>>
  PROVE  /\ WaitsForDeadline'
         /\ pc \in Waiting
         /\ pc' \in (Waiting \union Waited) \ {"wait"}
         /\ timeout' \in Nat
         /\ sleeping' \in 0 .. PollInterval
  <1> USE PollIntervalAssumption
      DEF WaitsForDeadline, BeforeDeadline, GpioGet, DEVICE_READY, DEVICE_BUSY
  <1>1. CASE StartWait(interval)
    BY <1>1 DEF StartWait, FirstStep, TimeoutFor
  <1>2. CASE Poll(erasing)
    BY <1>2 DEF Poll, AfterBusy
  <1>3. CASE FallAsleep
    BY <1>3 DEF FallAsleep
  <1>4. CASE WakeUp(erasing)
    BY <1>4 DEF WakeUp, AfterSleep
  <1>5. CASE CheckTimeout
    BY <1>5 DEF CheckTimeout, AfterCheck, AfterTimeout
  <1>6. CASE LastPoll
    BY <1>6 DEF LastPoll
  <1>7. QED
    BY <1>1, <1>2, <1>3, <1>4, <1>5, <1>6 DEF WaitStep

\* The device's deadline and the loop's timeout come nearer together.
LEMMA TimeWaits ==
  ASSUME WaitsForDeadline, deadline \in Nat, timeout \in Nat,
         sleeping \in 0 .. PollInterval,
         DeadlinePasses, TimersRun, UNCHANGED <<pc, driver>>
  PROVE  /\ WaitsForDeadline'
         /\ deadline' \in Nat /\ deadline' <= deadline
         /\ timeout' \in Nat
         /\ sleeping' \in 0 .. PollInterval
  BY PollIntervalAssumption
  DEF WaitsForDeadline, BeforeDeadline, DeadlinePasses, TimersRun

-----------------------------------------------------------------------------
(* The arithmetic of digits.                                               *)

\* Division with remainder.
LEMMA DivMod ==
  ASSUME NEW a \in Nat, NEW n \in Nat \ {0}
  PROVE  /\ a \div n \in Nat
         /\ a % n \in 0 .. (n - 1)
         /\ a = n * (a \div n) + (a % n)
OBVIOUS

LEMMA DivModUnique ==
  ASSUME NEW n \in Nat \ {0}, NEW q \in Nat, NEW r \in 0 .. (n - 1)
  PROVE  (n * q + r) \div n = q /\ (n * q + r) % n = r
OBVIOUS

\* Dividing twice.
LEMMA DivDiv ==
  ASSUME NEW a \in Nat, NEW m \in Nat \ {0}, NEW n \in Nat \ {0}
  PROVE  /\ (a \div m) \div n = a \div (m * n)
         /\ a % (m * n) = m * ((a \div m) % n) + (a % m)
  <1> DEFINE q == a \div m
             r == a % m
             s == q \div n
             t == q % n
  <1>1. q \in Nat /\ r \in 0 .. (m - 1) /\ a = m * q + r
    BY DivMod
  <1>2. s \in Nat /\ t \in 0 .. (n - 1) /\ q = n * s + t
    BY <1>1, DivMod
  <1> HIDE DEF q, r, s, t
  <1>3. m * n \in Nat \ {0} /\ m * t + r \in Nat
    BY <1>1, <1>2
  <1>4. a = (m * n) * s + (m * t + r)
    BY <1>1, <1>2
  <1>5. m * t + r < m * n
    BY <1>1, <1>2
  <1>6. a \div (m * n) = s /\ a % (m * n) = m * t + r
    <2> DEFINE d == m * n
               e == m * t + r
    <2>1. d \in Nat \ {0} /\ e \in 0 .. (d - 1) /\ a = d * s + e
      BY <1>3, <1>4, <1>5
    <2> HIDE DEF d, e
    <2>2. a \div d = s /\ a % d = e
      BY <1>2, <2>1, DivModUnique
    <2>3. QED
      BY <2>2 DEF d, e
  <1>7. QED
    BY <1>6 DEF q, r, s, t

\* The next number.
LEMMA DivModOfNext ==
  ASSUME NEW a \in Nat, NEW n \in Nat \ {0}
  PROVE  /\ (a % n) + 1 < n => (a + 1) % n = (a % n) + 1 /\ (a + 1) \div n = a \div n
         /\ (a % n) + 1 = n => (a + 1) % n = 0 /\ (a + 1) \div n = a \div n + 1
  <1> DEFINE q == a \div n
             r == a % n
  <1>1. q \in Nat /\ r \in 0 .. (n - 1) /\ a = n * q + r
    BY DivMod
  <1> HIDE DEF q, r
  <1>2. CASE r + 1 < n
    <2>1. a + 1 = n * q + (r + 1) /\ r + 1 \in 0 .. (n - 1)
      BY <1>1, <1>2
    <2>2. (a + 1) \div n = q /\ (a + 1) % n = r + 1
      BY <1>1, <2>1, DivModUnique
    <2>3. QED
      BY <1>2, <2>2 DEF q, r
  <1>3. CASE r + 1 = n
    <2>1. a + 1 = n * (q + 1) + 0 /\ q + 1 \in Nat /\ 0 \in 0 .. (n - 1)
      BY <1>1, <1>3
    <2> DEFINE p == q + 1
    <2>2. p \in Nat /\ a + 1 = n * p + 0
      BY <2>1
    <2> HIDE DEF p
    <2>3. (n * p + 0) \div n = p /\ (n * p + 0) % n = 0
      BY <2>1, <2>2, DivModUnique
    <2>4. (a + 1) \div n = q + 1 /\ (a + 1) % n = 0
      BY <2>2, <2>3 DEF p
    <2>5. QED
      BY <1>3, <2>4 DEF q, r
  <1>4. QED
    BY <1>1, <1>2, <1>3 DEF q, r

\* Numbers less than n apart have different remainders.
LEMMA ModInjective ==
  ASSUME NEW n \in Nat \ {0}, NEW a \in Nat, NEW b \in Nat, a % n = b % n,
         a - b < n, b - a < n
  PROVE  a = b
  <1>1. /\ a \div n \in Nat /\ a = n * (a \div n) + (a % n)
        /\ b \div n \in Nat /\ b = n * (b \div n) + (b % n)
        /\ a % n \in Nat /\ b % n \in Nat
    OBVIOUS
  <1> DEFINE k == a \div n - b \div n
  <1>2. k \in Int /\ a - b = n * k
    BY <1>1
  <1> HIDE DEF k
  <1>3. k < 1 /\ k > -1
    BY <1>2
  <1>4. a \div n = b \div n
    BY <1>1, <1>2, <1>3 DEF k
  <1>5. QED
    BY <1>1, <1>4

-----------------------------------------------------------------------------
(* Storage addresses and their digits.                                     *)

\* The digits of an offset, as the registers hold them, and the cursor that
\* they make.
BlockOf(x) == (x \div BlockSize) % Radix
PageOf(x) == (x \div Radix) % Radix
ByteOf(x) == x % Radix
CursorAt(x) == [block |-> BlockOf(x), page |-> PageOf(x), byte |-> ByteOf(x)]

\* What storage holds at an offset.
Stored(x) == data_store[BlockOf(x)][PageOf(x)][ByteOf(x)]

\* The sizes of a block and of storage, by which offsets are divided.
LEMMA SizesArePositive == BlockSize \in Nat \ {0} /\ MirrorSize \in Nat \ {0}
  <1>1. BlockSize \in Nat \ {0}
    BY RadixAssumption DEF BlockSize
  <1>2. MirrorSize = Radix * BlockSize
    BY RadixAssumption DEF BlockSize, MirrorSize
  <1>3. QED
    BY <1>1, <1>2, RadixAssumption

LEMMA DigitsOfOffset ==
  ASSUME NEW x \in Nat
  PROVE  /\ BlockOf(x) \in Digit /\ PageOf(x) \in Digit /\ ByteOf(x) \in Digit
         /\ CursorAt(x) \in Cursor
         /\ x = PageStart(x) + ByteOf(x)
         /\ PageStart(x) \in Nat
         /\ PageStart(x) <= x /\ x < PageStart(x) + Radix
         /\ BlockStart(x) \in Nat
         /\ BlockStart(x) <= x /\ x < BlockStart(x) + BlockSize
  <1>1. /\ x \div Radix \in Nat /\ x % Radix \in 0 .. (Radix - 1)
        /\ x = Radix * (x \div Radix) + (x % Radix)
    BY RadixAssumption
  <1>2. (x \div Radix) % Radix \in Digit
    BY <1>1, DivMod, RadixAssumption DEF Digit
  <1>3. /\ x \div BlockSize \in Nat /\ x % BlockSize \in 0 .. (BlockSize - 1)
        /\ x = BlockSize * (x \div BlockSize) + (x % BlockSize)
    BY DivMod, SizesArePositive
  <1>4. (x \div BlockSize) % Radix \in Digit
    BY <1>3, RadixAssumption DEF Digit
  <1>5. PageStart(x) = Radix * (x \div Radix) /\ PageStart(x) \in Nat
    BY <1>1, RadixAssumption DEF PageStart
  <1>6. BlockStart(x) = BlockSize * (x \div BlockSize) /\ BlockStart(x) \in Nat
    BY <1>3, SizesArePositive DEF BlockStart
  <1>7. BlockStart(x) <= x /\ x < BlockStart(x) + BlockSize
    BY <1>3, <1>6, SizesArePositive
  <1>8. CursorAt(x) \in Cursor
    BY <1>1, <1>2, <1>4 DEF CursorAt, Cursor, BlockOf, PageOf, ByteOf, Digit
  <1>9. PageStart(x) <= x /\ x < PageStart(x) + Radix
    BY <1>1, <1>5, RadixAssumption
  <1>10. QED
    BY <1>1, <1>2, <1>4, <1>5, <1>6, <1>7, <1>8, <1>9
    DEF BlockOf, PageOf, ByteOf, Digit

\* An offset that has run off the end of storage comes to an address, which is
\* the number that its digits make.
LEMMA WrapFacts ==
  ASSUME NEW x \in Nat
  PROVE  /\ Wrap(x) \in StorageAddress
         /\ Wrap(x) = BlockOf(x) * BlockSize + PageOf(x) * Radix + ByteOf(x)
         /\ BlockOf(Wrap(x)) = BlockOf(x)
         /\ PageOf(Wrap(x)) = PageOf(x)
         /\ ByteOf(Wrap(x)) = ByteOf(x)
  <1> DEFINE p == x \div Radix
             b == x \div BlockSize
  <1>1. p \in Nat /\ b \in Nat
    BY DivMod, RadixAssumption, SizesArePositive
  <1>2. p \div Radix = b /\ x % BlockSize = Radix * (p % Radix) + (x % Radix)
    <2>1. Radix \in Nat \ {0}
      BY RadixAssumption
    <2>2. /\ (x \div Radix) \div Radix = x \div (Radix * Radix)
          /\ x % (Radix * Radix) = Radix * ((x \div Radix) % Radix) + (x % Radix)
      BY <2>1, DivDiv
    <2>3. QED
      BY <2>2 DEF BlockSize
  <1>3. x % MirrorSize = BlockSize * (b % Radix) + (x % BlockSize)
    <2>1. MirrorSize = BlockSize * Radix
      BY DEF MirrorSize, BlockSize
    <2>2. x % (BlockSize * Radix) = BlockSize * (b % Radix) + (x % BlockSize)
      <3>1. Radix \in Nat \ {0}
        BY RadixAssumption
      <3>2. QED
        BY <3>1, DivDiv, SizesArePositive
    <2>3. QED
      BY <2>1, <2>2
  <1> DEFINE w == x % MirrorSize
             i == b % Radix
             j == p % Radix
             k == x % Radix
  <1>4. i \in Digit /\ j \in Digit /\ k \in Digit
    BY <1>1, RadixAssumption DEF Digit
  <1>5. w \in StorageAddress
    BY DivMod, SizesArePositive DEF StorageAddress
  <1>6. w = BlockSize * i + (Radix * j + k)
    BY <1>2, <1>3
  <1> HIDE DEF w, i, j, k, p, b
  <1>7. BlockSize = Radix * Radix
    BY DEF BlockSize
  <1>8. w = Radix * (Radix * i + j) + k
    BY <1>4, <1>6, <1>7, RadixAssumption DEF Digit
  <1> DEFINE q == Radix * i + j
  <1>9. q \in Nat /\ q \div Radix = i /\ q % Radix = j
    BY <1>4, DivModUnique, RadixAssumption DEF Digit
  <1> HIDE DEF q
  <1>10. w \div Radix = q /\ w % Radix = k
    BY <1>4, <1>8, <1>9, DivModUnique, RadixAssumption DEF Digit, q
  <1>11. w \div BlockSize = i
    <2>1. Radix \in Nat \ {0} /\ w \in Nat
      BY <1>5, RadixAssumption, SizesArePositive DEF StorageAddress
    <2>2. (w \div Radix) \div Radix = w \div (Radix * Radix)
      BY <2>1, DivDiv
    <2>3. QED
      BY <1>7, <1>9, <1>10, <2>2
  <1>12. i % Radix = i
    <2>1. Radix * 0 + i = i /\ (Radix * 0 + i) % Radix = i
      BY <1>4, DivModUnique, RadixAssumption DEF Digit
    <2>2. QED
      BY <2>1
  <1>13. BlockOf(w) = i /\ PageOf(w) = j /\ ByteOf(w) = k
    BY <1>9, <1>10, <1>11, <1>12 DEF BlockOf, PageOf, ByteOf
  <1>14. w = i * BlockSize + j * Radix + k
    BY <1>4, <1>6, RadixAssumption, SizesArePositive DEF Digit
  <1>15. BlockOf(x) = i /\ PageOf(x) = j /\ ByteOf(x) = k /\ Wrap(x) = w
    BY DEF BlockOf, PageOf, ByteOf, Wrap, i, j, k, w, p, b
  <1>16. QED
    BY <1>5, <1>13, <1>14, <1>15
\* The offsets in the page of another.
LEMMA InPage ==
  ASSUME NEW x \in Nat, NEW y \in Nat, PageStart(x) <= y, y < PageStart(x) + Radix
  PROVE  /\ y \div Radix = x \div Radix
         /\ PageStart(y) = PageStart(x)
         /\ BlockOf(y) = BlockOf(x) /\ PageOf(y) = PageOf(x)
         /\ ByteOf(y) = y - PageStart(x)
  <1> DEFINE p == x \div Radix
             r == y - PageStart(x)
  <1>1. Radix \in Nat \ {0}
    BY RadixAssumption
  <1>2. p \in Nat /\ PageStart(x) = Radix * p
    BY <1>1 DEF PageStart
  <1>3. r \in 0 .. (Radix - 1) /\ y = Radix * p + r
    BY <1>1, <1>2
  <1>4. (Radix * p + r) \div Radix = p /\ (Radix * p + r) % Radix = r
    BY <1>1, <1>2, <1>3, DivModUnique
  <1>5. y \div Radix = x \div Radix /\ y % Radix = r
    BY <1>3, <1>4
  <1>6. y \div BlockSize = x \div BlockSize
    <2>1. /\ (x \div Radix) \div Radix = x \div (Radix * Radix)
          /\ (y \div Radix) \div Radix = y \div (Radix * Radix)
      BY <1>1, DivDiv
    <2>2. QED
      BY <1>5, <2>1 DEF BlockSize
  <1>7. QED
    BY <1>5, <1>6 DEF PageStart, BlockOf, PageOf, ByteOf

\* The offsets in the block of another.
LEMMA InBlock ==
  ASSUME NEW x \in Nat, NEW y \in Nat, BlockStart(x) <= y,
         y < BlockStart(x) + BlockSize
  PROVE  /\ BlockStart(y) = BlockStart(x)
         /\ BlockOf(y) = BlockOf(x)
  <1> DEFINE p == x \div BlockSize
             r == y - BlockStart(x)
  <1>1. BlockSize \in Nat \ {0}
    BY SizesArePositive
  <1>2. p \in Nat /\ BlockStart(x) = BlockSize * p
    BY <1>1 DEF BlockStart
  <1>3. r \in 0 .. (BlockSize - 1) /\ y = BlockSize * p + r
    BY <1>1, <1>2
  <1>4. (BlockSize * p + r) \div BlockSize = p
    BY <1>1, <1>2, <1>3, DivModUnique
  <1>5. QED
    BY <1>3, <1>4 DEF BlockStart, BlockOf

\* The device's cursor counts as offsets do, off the end of storage and back at
\* its start (increment_cursor() and its like).
LEMMA NextBlockIsNext ==
  ASSUME NEW x \in Nat, NEW c, c.block = BlockOf(x)
  PROVE  NextBlock(c) = CursorAt(BlockStart(x) + BlockSize)
  <1> DEFINE b == x \div BlockSize
             n == b + 1
             y == BlockStart(x) + BlockSize
  <1>1. BlockSize \in Nat \ {0} /\ Radix \in Nat \ {0}
    BY SizesArePositive, RadixAssumption
  <1>2. b \in Nat /\ n \in Nat /\ y \in Nat /\ y = BlockSize * n + 0
    BY <1>1 DEF BlockStart
  <1>3. y \div BlockSize = n /\ y % BlockSize = 0
    <2> HIDE DEF n, y
    <2>1. 0 \in 0 .. (BlockSize - 1)
      BY <1>1
    <2>2. (BlockSize * n + 0) \div BlockSize = n /\ (BlockSize * n + 0) % BlockSize = 0
      BY <1>1, <1>2, <2>1, DivModUnique
    <2>3. QED
      BY <1>2, <2>2
  <1>4. n % Radix = Successor(b % Radix)
    <2>1. b % Radix \in 0 .. (Radix - 1)
      BY <1>1, <1>2
    <2>2. /\ (b % Radix) + 1 < Radix => (b + 1) % Radix = (b % Radix) + 1
          /\ (b % Radix) + 1 = Radix => (b + 1) % Radix = 0
      BY <1>1, <1>2, DivModOfNext
    <2> HIDE DEF b
    <2>3. QED
      BY <1>1, <2>1, <2>2 DEF Successor
  <1>5. PageOf(y) = 0 /\ ByteOf(y) = 0
    <2> HIDE DEF y
    <2>1. /\ y % (Radix * Radix) = Radix * ((y \div Radix) % Radix) + (y % Radix)
          /\ (y \div Radix) % Radix \in Nat /\ y % Radix \in Nat
      <3>1. y % (Radix * Radix) = Radix * ((y \div Radix) % Radix) + (y % Radix)
        BY <1>1, <1>2, DivDiv
      <3>2. y \div Radix \in Nat /\ y % Radix \in Nat
        BY <1>1, <1>2
      <3>3. (y \div Radix) % Radix \in Nat
        BY <1>1, <3>2
      <3>4. QED
        BY <3>1, <3>2, <3>3
    <2> DEFINE i == (y \div Radix) % Radix
               j == y % Radix
    <2>2. 0 = Radix * i + j /\ i \in Nat /\ j \in Nat
      BY <1>3, <2>1 DEF BlockSize
    <2> HIDE DEF i, j
    <2>3. i = 0 /\ j = 0
      BY <1>1, <2>2
    <2>4. QED
      BY <2>3 DEF i, j, PageOf, ByteOf
  <1>6. BlockOf(y) = Successor(BlockOf(x))
    BY <1>3, <1>4 DEF BlockOf
  <1>7. QED
    BY <1>5, <1>6 DEF NextBlock, CursorAt

LEMMA NextPageIsNext ==
  ASSUME NEW x \in Nat, NEW c, c.block = BlockOf(x), c.page = PageOf(x)
  PROVE  NextPage(c) = CursorAt(PageStart(x) + Radix)
  <1> DEFINE p == x \div Radix
             n == p + 1
             y == PageStart(x) + Radix
  <1>1. Radix \in Nat \ {0} /\ BlockSize \in Nat \ {0}
    BY RadixAssumption, SizesArePositive
  <1>2. p \in Nat /\ n \in Nat /\ y \in Nat /\ y = Radix * n + 0
    BY <1>1 DEF PageStart
  <1>3. y \div Radix = n /\ y % Radix = 0
    <2> HIDE DEF n, y
    <2>1. 0 \in 0 .. (Radix - 1)
      BY <1>1
    <2>2. (Radix * n + 0) \div Radix = n /\ (Radix * n + 0) % Radix = 0
      BY <1>1, <1>2, <2>1, DivModUnique
    <2>3. QED
      BY <1>2, <2>2
  <1>4. /\ p \div Radix = x \div BlockSize /\ n \div Radix = y \div BlockSize
    <2>1. /\ (x \div Radix) \div Radix = x \div (Radix * Radix)
          /\ (y \div Radix) \div Radix = y \div (Radix * Radix)
      BY <1>1, <1>2, DivDiv
    <2>2. QED
      BY <1>3, <2>1 DEF BlockSize
  <1>5. PageOf(x) = p % Radix /\ PageOf(y) = n % Radix /\ ByteOf(y) = 0
    BY <1>3 DEF PageOf, ByteOf
  <1>6. p % Radix \in 0 .. (Radix - 1)
    BY <1>1, <1>2
  <1>7. CASE (p % Radix) + 1 < Radix
    <2>1. n % Radix = (p % Radix) + 1 /\ n \div Radix = p \div Radix
      BY <1>1, <1>2, <1>7, DivModOfNext
    <2>2. BlockOf(y) = BlockOf(x)
      BY <1>4, <2>1 DEF BlockOf
    <2>3. QED
      BY <1>5, <1>7, <2>1, <2>2 DEF NextPage, CursorAt
  <1>8. CASE (p % Radix) + 1 = Radix
    <2>1. n % Radix = 0 /\ n \div Radix = (p \div Radix) + 1
      BY <1>1, <1>2, <1>8, DivModOfNext
    <2> DEFINE z == BlockStart(x) + BlockSize
    <2>2. NextBlock(c) = CursorAt(z)
      BY NextBlockIsNext
    <2>3. z = y
      <3> DEFINE b == p \div Radix
      <3>1. b \in Nat /\ p = Radix * b + (p % Radix)
        BY <1>1, <1>2
      <3>2. z = b * BlockSize + BlockSize
        BY <1>4 DEF BlockStart
      <3> HIDE DEF b, p
      <3>3. n = Radix * b + Radix
        BY <1>1, <1>2, <1>6, <1>8, <3>1
      <3>4. y = Radix * (Radix * b + Radix)
        BY <1>1, <1>2, <3>1, <3>3
      <3>5. QED
        BY <1>1, <3>1, <3>2, <3>4 DEF BlockSize
    <2>4. NextPage(c) = NextBlock(c)
      BY <1>1, <1>5, <1>8 DEF NextPage
    <2>5. QED
      BY <2>2, <2>3, <2>4
  <1>9. QED
    BY <1>1, <1>6, <1>7, <1>8

LEMMA NextByteIsNext ==
  ASSUME NEW x \in Nat
  PROVE  NextByte(CursorAt(x)) = CursorAt(x + 1)
  <1>1. Radix \in Nat \ {0} /\ ByteOf(x) \in 0 .. (Radix - 1)
    BY RadixAssumption, DigitsOfOffset DEF Digit
  <1>2. x = PageStart(x) + ByteOf(x) /\ PageStart(x) \in Nat
    BY DigitsOfOffset
  <1>3. CASE ByteOf(x) + 1 < Radix
    <2>1. /\ BlockOf(x + 1) = BlockOf(x) /\ PageOf(x + 1) = PageOf(x)
          /\ ByteOf(x + 1) = ByteOf(x) + 1
      <3> DEFINE y == x + 1
      <3>1. /\ y \in Nat /\ PageStart(x) <= y /\ y < PageStart(x) + Radix
            /\ y - PageStart(x) = ByteOf(x) + 1
        BY <1>1, <1>2, <1>3
      <3> HIDE DEF y
      <3>2. BlockOf(y) = BlockOf(x) /\ PageOf(y) = PageOf(x) /\ ByteOf(y) = ByteOf(x) + 1
        BY <3>1, InPage
      <3>3. QED
        BY <3>2 DEF y
    <2>2. QED
      BY <1>3, <2>1 DEF NextByte, CursorAt
  <1>4. CASE ByteOf(x) + 1 = Radix
    <2>1. PageStart(x) + Radix = x + 1
      BY <1>1, <1>2, <1>4
    <2>2. NextPage(CursorAt(x)) = CursorAt(x + 1)
      <3>1. CursorAt(x).block = BlockOf(x) /\ CursorAt(x).page = PageOf(x)
        BY DEF CursorAt
      <3>2. QED
        BY <2>1, <3>1, NextPageIsNext
    <2>3. QED
      BY <1>1, <1>4, <2>2 DEF NextByte, CursorAt
  <1>5. QED
    BY <1>1, <1>3, <1>4
\* The mirror's way of going through a region: by the distance from its start.
LEMMA DistanceFacts ==
  ASSUME NEW o \in Nat, NEW x \in Nat, o <= x, x - o < MirrorSize
  PROVE  Distance(o, Wrap(x)) = x - o
  <1> DEFINE M == MirrorSize
             d == x - o
             w == x % M
             v == o % M
             e == w + M - v
  <1>1. M \in Nat \ {0} /\ d \in 0 .. (M - 1)
    BY SizesArePositive
  <1>2. /\ x \div M \in Nat /\ w \in 0 .. (M - 1) /\ x = M * (x \div M) + w
        /\ o \div M \in Nat /\ v \in 0 .. (M - 1) /\ o = M * (o \div M) + v
    BY <1>1
  <1>3. e \in Nat
    BY <1>1, <1>2
  <1>4. e \div M \in Nat /\ e % M \in 0 .. (M - 1) /\ e = M * (e \div M) + (e % M)
    BY <1>1, <1>3
  <1> DEFINE f == e % M
             i == x \div M
             j == o \div M
             k == e \div M
             s == i - j + k - 1
  <1>5. d - f = M * s /\ s \in Int
    <2> HIDE DEF M, w, v, f, i, j, k
    <2>1. d = M * i + w - (M * j + v)
      BY <1>1, <1>2 DEF i, j
    <2>2. w + M - v = M * k + f
      BY <1>1, <1>2, <1>4 DEF k, f
    <2>3. QED
      BY <1>1, <1>2, <1>4, <2>1, <2>2 DEF i, j, k, f
  <1>6. f \in 0 .. (M - 1)
    BY <1>4
  <1> HIDE DEF M, d, f, s
  <1>7. s < 1 /\ s > -1
    BY <1>1, <1>5, <1>6
  <1>8. s = 0
    BY <1>5, <1>7
  <1>9. f = d
    BY <1>1, <1>5, <1>6, <1>8
  <1>10. QED
    BY <1>9 DEF Distance, Wrap, f, d, M

\* Every address is some distance from every offset.
LEMMA DistanceReaches ==
  ASSUME NEW o \in Nat, NEW a \in StorageAddress
  PROVE  /\ Distance(o, a) \in 0 .. (MirrorSize - 1)
         /\ Wrap(o + Distance(o, a)) = a
  <1> DEFINE M == MirrorSize
             v == o % M
             e == a + M - v
             f == e % M
             x == o + f
             i == o \div M
             k == e \div M
             q == i + 1 - k
  <1>1. M \in Nat \ {0} /\ a \in 0 .. (M - 1)
    BY SizesArePositive DEF StorageAddress
  <1>2. i \in Nat /\ v \in 0 .. (M - 1) /\ o = M * i + v
    BY <1>1
  <1>3. e \in Nat
    BY <1>1, <1>2
  <1>4. k \in Nat /\ f \in 0 .. (M - 1) /\ e = M * k + f
    BY <1>1, <1>3
  <1>5. x \in Nat /\ x = M * q + a /\ q \in Int
    <2> HIDE DEF M, v, f, i, k
    <2>1. QED
      BY <1>1, <1>2, <1>4
  <1>6. Wrap(a) = a /\ Distance(o, a) = f
    <2>1. a % M = a
      BY <1>1
    <2>2. QED
      BY <2>1 DEF Distance, Wrap
  <1>7. x % M = a
    <2> HIDE DEF M, x, q
    <2>1. q >= 0
      BY <1>1, <1>5
    <2>2. (M * q + a) % M = a
      BY <1>1, <1>5, <2>1, DivModUnique
    <2>3. QED
      BY <1>5, <2>2
  <1>8. QED
    BY <1>4, <1>6, <1>7 DEF Wrap

\* An erase counts the blocks of its region.
LEMMA BlocksCoverRegion ==
  ASSUME NEW offset \in Nat, NEW size \in Nat \ {0}
  PROVE  /\ BlocksToErase(offset, size) \in Nat \ {0}
         /\ BlockEnd(offset + size - 1) + 1 =
              BlockStart(offset) + BlocksToErase(offset, size) * BlockSize
  <1> DEFINE b == offset \div BlockSize
             r == offset % BlockSize
             c == size + r
             n == c \div BlockSize
             t == c % BlockSize
             e == offset + size - 1
  <1>1. BlockSize \in Nat \ {0}
    BY SizesArePositive
  <1>2. b \in Nat /\ r \in 0 .. (BlockSize - 1) /\ offset = BlockSize * b + r
    BY <1>1
  <1>3. c \in Nat \ {0}
    BY <1>2
  <1>4. n \in Nat /\ t \in 0 .. (BlockSize - 1) /\ c = BlockSize * n + t
    BY <1>1, <1>3
  <1>5. e = BlockSize * b + c - 1
    BY <1>1, <1>2
  <1>6. BlocksToErase(offset, size) = n + (IF t # 0 THEN 1 ELSE 0)
    BY DEF BlocksToErase
  <1>7. BlockStart(offset) = b * BlockSize
    BY DEF BlockStart
  <1>8. BlockEnd(e) = (e \div BlockSize) * BlockSize + BlockSize - 1
    BY DEF BlockEnd, BlockStart
  <1> HIDE DEF b, r, c, n, t, e
  <1>9. CASE t # 0
    <2> DEFINE q == b + n
               s == t - 1
    <2>1. q \in Nat /\ s \in 0 .. (BlockSize - 1) /\ e = BlockSize * q + s
      BY <1>1, <1>2, <1>4, <1>5, <1>9
    <2> HIDE DEF q, s
    <2>2. (BlockSize * q + s) \div BlockSize = q
      BY <1>1, <2>1, DivModUnique
    <2>3. BlockEnd(e) + 1 = q * BlockSize + BlockSize
      <3>1. e \div BlockSize = q
        BY <2>1, <2>2
      <3>2. BlockEnd(e) = q * BlockSize + BlockSize - 1
        BY <1>8, <3>1
      <3>3. q * BlockSize \in Nat
        BY <1>1, <2>1
      <3>4. QED
        BY <1>1, <3>2, <3>3
    <2>4. QED
      BY <1>1, <1>2, <1>4, <1>6, <1>7, <1>9, <2>3 DEF e, q
  <1>10. CASE t = 0
    <2> DEFINE q == b + n - 1
               s == BlockSize - 1
    <2>1. n > 0
      BY <1>1, <1>3, <1>4, <1>10
    <2>2. q \in Nat /\ s \in 0 .. (BlockSize - 1) /\ e = BlockSize * q + s
      BY <1>1, <1>2, <1>4, <1>5, <1>10, <2>1
    <2> HIDE DEF q, s
    <2>3. (BlockSize * q + s) \div BlockSize = q
      BY <1>1, <2>2, DivModUnique
    <2>4. BlockEnd(e) + 1 = q * BlockSize + BlockSize
      <3>1. e \div BlockSize = q
        BY <2>2, <2>3
      <3>2. BlockEnd(e) = q * BlockSize + BlockSize - 1
        BY <1>8, <3>1
      <3>3. q * BlockSize \in Nat
        BY <1>1, <2>2
      <3>4. QED
        BY <1>1, <3>2, <3>3
    <2>5. QED
      BY <1>1, <1>2, <1>4, <1>6, <1>7, <1>10, <2>1, <2>4 DEF e, q
  <1>11. QED
    BY <1>4, <1>9, <1>10

\* What a write, and what an erase, makes of the mirror: all of the pages or
\* blocks of its region, and nothing else.
LEMMA WriteMirrorFacts ==
  ASSUME NEW m \in Mirror, NEW r, r.offset \in Nat, r.size \in Nat \ {0},
         PageEnd(r.offset + r.size - 1) - PageStart(r.offset) < MirrorSize,
         NEW w, w = WriteMirror(m, r.data, r.offset, r.size)
  PROVE  /\ \A x \in PageStart(r.offset) .. PageEnd(r.offset + r.size - 1) :
              w[Wrap(x)] = IF x \in r.offset .. (r.offset + r.size - 1)
                             THEN r.data[x - r.offset] ELSE Zero
         /\ \A a \in StorageAddress :
              (\A x \in PageStart(r.offset) .. PageEnd(r.offset + r.size - 1) :
                 Wrap(x) # a) => w[a] = m[a]
  <1> DEFINE o == r.offset
             n == r.size
             data == r.data
  <1>1. /\ o \in Nat /\ n \in Nat \ {0} /\ PageEnd(o + n - 1) - PageStart(o) < MirrorSize
        /\ w = WriteMirror(m, data, o, n)
    OBVIOUS
  <1>2. SUFFICES /\ \A x \in PageStart(o) .. PageEnd(o + n - 1) :
                      w[Wrap(x)] = IF x \in o .. (o + n - 1) THEN data[x - o] ELSE Zero
                 /\ \A a \in StorageAddress :
                      (\A x \in PageStart(o) .. PageEnd(o + n - 1) : Wrap(x) # a) =>
                        w[a] = m[a]
    OBVIOUS
  <1> HIDE DEF o, n, data
  <1> DEFINE start == PageStart(o)
             end == PageEnd(o + n - 1)
  <1>3. start \in Nat /\ start <= o
    BY <1>1, DigitsOfOffset, RadixAssumption DEF Digit
  <1>4. end \in Int
    BY <1>1, DigitsOfOffset, RadixAssumption DEF PageEnd
  <1>5. \A a \in StorageAddress :
          w[a] = IF Distance(start, a) >= end - start + 1 THEN m[a]
                 ELSE IF Distance(start, a) \in (o - start) .. ((o - start) + n - 1)
                        THEN data[Distance(start, a) - (o - start)] ELSE Zero
    BY <1>1 DEF WriteMirror
  <1> HIDE DEF start, end
  <1>6. ASSUME NEW x \in start .. end
        PROVE  w[Wrap(x)] = IF x \in o .. (o + n - 1) THEN data[x - o] ELSE Zero
    <2>1. x \in Nat /\ start <= x /\ x - start < MirrorSize
      BY <1>3, <1>4, <1>1, SizesArePositive DEF start, end
    <2>2. Distance(start, Wrap(x)) = x - start /\ Wrap(x) \in StorageAddress
      BY <1>3, <2>1, DistanceFacts, WrapFacts
    <2>3. ~(x - start >= end - start + 1)
      BY <1>3, <1>4
    <2>4. w[Wrap(x)] =
            IF x - start \in (o - start) .. ((o - start) + n - 1)
              THEN data[(x - start) - (o - start)] ELSE Zero
      BY <1>5, <2>2, <2>3
    <2>5. /\ x - start \in (o - start) .. ((o - start) + n - 1) <=> x \in o .. (o + n - 1)
          /\ (x - start) - (o - start) = x - o
      BY <1>3, <1>1, <2>1
    <2>6. QED
      BY <2>4, <2>5
  <1>7. ASSUME NEW a \in StorageAddress, \A x \in start .. end : Wrap(x) # a
        PROVE  w[a] = m[a]
    <2>1. Distance(start, a) \in Nat /\ Wrap(start + Distance(start, a)) = a
      BY <1>3, DistanceReaches, SizesArePositive
    <2>2. start + Distance(start, a) \notin start .. end
      BY <1>7, <2>1
    <2>3. Distance(start, a) >= end - start + 1
      BY <1>3, <1>4, <2>1, <2>2
    <2>4. QED
      BY <1>5, <2>3
  <1>8. QED
    BY <1>6, <1>7 DEF start, end

LEMMA EraseMirrorFacts ==
  ASSUME NEW m \in Mirror, NEW o \in Nat, NEW n \in Nat \ {0},
         BlockEnd(o + n - 1) - BlockStart(o) < MirrorSize
  PROVE  /\ \A x \in BlockStart(o) .. BlockEnd(o + n - 1) :
              EraseMirror(m, o, n)[Wrap(x)] = Zero
         /\ \A a \in StorageAddress :
              (\A x \in BlockStart(o) .. BlockEnd(o + n - 1) : Wrap(x) # a) =>
                EraseMirror(m, o, n)[a] = m[a]
  <1> DEFINE start == BlockStart(o)
             end == BlockEnd(o + n - 1)
             w == EraseMirror(m, o, n)
  <1>1. start \in Nat /\ end \in Int
    BY DigitsOfOffset, SizesArePositive DEF BlockEnd
  <1>2. \A a \in StorageAddress :
          w[a] = IF Distance(start, a) < end - start + 1 THEN Zero ELSE m[a]
    BY DEF EraseMirror
  <1> HIDE DEF start, end, w
  <1>3. ASSUME NEW x \in start .. end
        PROVE  w[Wrap(x)] = Zero
    <2>1. x \in Nat /\ start <= x /\ x - start < MirrorSize
      BY <1>1, SizesArePositive DEF start, end
    <2>2. Distance(start, Wrap(x)) = x - start /\ Wrap(x) \in StorageAddress
      BY <1>1, <2>1, DistanceFacts, WrapFacts
    <2>3. x - start < end - start + 1
      BY <1>1
    <2>4. QED
      BY <1>2, <2>2, <2>3
  <1>4. ASSUME NEW a \in StorageAddress, \A x \in start .. end : Wrap(x) # a
        PROVE  w[a] = m[a]
    <2>1. Distance(start, a) \in Nat /\ Wrap(start + Distance(start, a)) = a
      BY <1>1, DistanceReaches, SizesArePositive
    <2>2. start + Distance(start, a) \notin start .. end
      BY <1>4, <2>1
    <2>3. ~(Distance(start, a) < end - start + 1)
      BY <1>1, <2>1, <2>2
    <2>4. QED
      BY <1>2, <2>3
  <1>5. QED
    BY <1>3, <1>4 DEF start, end, w

-----------------------------------------------------------------------------
(* The calls.                                                              *)

LEMMA RequestFacts ==
  ASSUME NEW r \in Requests
  PROVE  /\ r.op \in Operation
         /\ r.offset \in Nat
         /\ r.size \in Nat \ {0}
         /\ r.op = "write" => r.data \in [0 .. (r.size - 1) -> Byte]
  BY RequestAssumption DEF IsRequest

\* The region of a write or an erase surrounds it, and stays in the arena.
LEMMA RegionFacts ==
  ASSUME NEW r \in Requests
  PROVE  /\ RegionStart(r) \in Nat /\ RegionEnd(r) \in Int
         /\ RegionStart(r) <= r.offset /\ r.offset + r.size - 1 <= RegionEnd(r)
         /\ RegionEnd(r) - RegionStart(r) < MirrorSize
         /\ RegionStart(ArenaErase) \in Nat /\ RegionEnd(ArenaErase) \in Int
         /\ RegionStart(ArenaErase) <= RegionStart(r)
         /\ RegionEnd(r) <= RegionEnd(ArenaErase)
  <1>1. ASSUME NEW q \in Requests
        PROVE  /\ RegionStart(q) \in Nat /\ RegionEnd(q) \in Int
               /\ RegionStart(q) <= q.offset /\ q.offset + q.size - 1 <= RegionEnd(q)
    <2> DEFINE last == q.offset + q.size - 1
    <2>1. q.offset \in Nat /\ last \in Nat
      BY RequestFacts
    <2> HIDE DEF last
    <2>2. /\ PageStart(q.offset) \in Nat /\ PageStart(q.offset) <= q.offset
          /\ PageStart(last) \in Nat /\ last <= PageStart(last) + Radix - 1
      BY <2>1, DigitsOfOffset, RadixAssumption
    <2>3. /\ BlockStart(q.offset) \in Nat /\ BlockStart(q.offset) <= q.offset
          /\ BlockStart(last) \in Nat /\ last <= BlockStart(last) + BlockSize - 1
      BY <2>1, DigitsOfOffset, SizesArePositive
    <2>4. PageEnd(last) \in Int /\ last <= PageEnd(last)
      BY <2>1, <2>2, RadixAssumption DEF PageEnd
    <2>5. BlockEnd(last) \in Int /\ last <= BlockEnd(last)
      BY <2>1, <2>3, SizesArePositive DEF BlockEnd
    <2>6. RegionStart(q) \in Nat /\ RegionStart(q) <= q.offset
      BY <2>2, <2>3 DEF RegionStart
    <2>7. RegionEnd(q) \in Int /\ last <= RegionEnd(q)
      BY <2>4, <2>5 DEF RegionEnd, last
    <2>8. QED
      BY <2>6, <2>7 DEF last
  <1>2. ArenaErase \in Requests
    BY RequestAssumption
  <1>3. /\ RegionStart(r) \in Nat /\ RegionEnd(r) \in Int
        /\ RegionStart(r) <= r.offset /\ r.offset + r.size - 1 <= RegionEnd(r)
        /\ RegionStart(ArenaErase) \in Nat /\ RegionEnd(ArenaErase) \in Int
    BY <1>1, <1>2
  <1>4. /\ RegionStart(ArenaErase) <= RegionStart(r)
        /\ RegionEnd(r) <= RegionEnd(ArenaErase)
        /\ RegionEnd(ArenaErase) - RegionStart(ArenaErase) < MirrorSize
    BY ArenaAssumption
  <1>5. QED
    BY <1>3, <1>4, SizesArePositive

\* The start of the next page.
LEMMA NextPageStart ==
  ASSUME NEW x \in Nat, NEW y \in Nat, y = PageStart(x) + Radix
  PROVE  PageStart(y) = y /\ ByteOf(y) = 0
  <1> DEFINE p == x \div Radix
             n == p + 1
  <1>1. Radix \in Nat \ {0} /\ 0 \in 0 .. (Radix - 1)
    BY RadixAssumption
  <1>2. n \in Nat /\ y = Radix * n + 0
    BY <1>1 DEF PageStart
  <1> HIDE DEF n
  <1>3. (Radix * n + 0) \div Radix = n /\ (Radix * n + 0) % Radix = 0
    BY <1>1, <1>2, DivModUnique
  <1>4. y \div Radix = n /\ y % Radix = 0
    BY <1>2, <1>3
  <1>5. QED
    BY <1>1, <1>2, <1>4 DEF PageStart, ByteOf

LEMMA PageStartsInOrder ==
  ASSUME NEW x \in Nat, NEW y \in Nat, x <= y
  PROVE  PageStart(x) <= PageStart(y)
  <1>1. Radix \in Nat \ {0}
    BY RadixAssumption
  <1>2. x \div Radix <= y \div Radix /\ x \div Radix \in Nat /\ y \div Radix \in Nat
    BY <1>1
  <1>3. QED
    BY <1>1, <1>2 DEF PageStart

LEMMA AddressFacts ==
  ASSUME NEW a \in StorageAddress
  PROVE  /\ a \in Nat /\ Wrap(a) = a
         /\ BlockOf(a) \in Digit /\ PageOf(a) \in Digit /\ ByteOf(a) \in Digit
         /\ a = BlockOf(a) * BlockSize + PageOf(a) * Radix + ByteOf(a)
  <1>1. a \in Nat /\ a % MirrorSize = a
    BY SizesArePositive DEF StorageAddress
  <1>2. Wrap(a) = a
    BY <1>1 DEF Wrap
  <1>3. QED
    BY <1>1, <1>2, WrapFacts, DigitsOfOffset

\* The offset, in the page of a given offset, of an address that has the same
\* block and page.
LEMMA OffsetInPage ==
  ASSUME NEW x \in Nat, NEW a \in StorageAddress,
         BlockOf(a) = BlockOf(x), PageOf(a) = PageOf(x),
         NEW y, y = PageStart(x) + ByteOf(a)
  PROVE  y \in PageStart(x) .. (PageStart(x) + Radix - 1) /\ Wrap(y) = a
  <1>1. ByteOf(a) \in Digit /\ PageStart(x) \in Nat
    BY AddressFacts, DigitsOfOffset
  <1>2. y \in Nat /\ PageStart(x) <= y /\ y < PageStart(x) + Radix
    BY <1>1, RadixAssumption DEF Digit
  <1>3. BlockOf(y) = BlockOf(a) /\ PageOf(y) = PageOf(a) /\ ByteOf(y) = y - PageStart(x)
    BY <1>2, InPage
  <1>4. ByteOf(y) = ByteOf(a)
    BY <1>1, <1>3, RadixAssumption DEF Digit
  <1>5. Wrap(y) = BlockOf(y) * BlockSize + PageOf(y) * Radix + ByteOf(y)
    BY <1>2, WrapFacts
  <1>6. Wrap(y) = a
    BY <1>3, <1>4, <1>5, AddressFacts
  <1>7. QED
    BY <1>1, <1>2, <1>6, RadixAssumption

\* The same for a block.
LEMMA OffsetInBlock ==
  ASSUME NEW x \in Nat, NEW a \in StorageAddress, BlockStart(x) = x,
         BlockOf(a) = BlockOf(x)
  PROVE  \E y \in x .. (x + BlockSize - 1) : Wrap(y) = a
  <1> DEFINE y == x + (a % BlockSize)
  <1>1. BlockSize \in Nat \ {0} /\ Radix \in Nat \ {0} /\ a \in Nat /\ Wrap(a) = a
    BY SizesArePositive, RadixAssumption, AddressFacts
  <1>2. a % BlockSize \in 0 .. (BlockSize - 1)
    BY <1>1
  <1>3. y \in Nat /\ x <= y /\ y < x + BlockSize
    BY <1>1, <1>2
  <1>4. BlockOf(y) = BlockOf(a)
    <2> HIDE DEF y
    <2>1. BlockOf(y) = BlockOf(x)
      BY <1>3, InBlock
    <2>2. QED
      BY <2>1
  <1>5. y % BlockSize = a % BlockSize
    <2> DEFINE q == x \div BlockSize
               r == a % BlockSize
    <2>1. q \in Nat /\ x = BlockSize * q
      BY <1>1 DEF BlockStart
    <2>2. r \in 0 .. (BlockSize - 1) /\ y = BlockSize * q + r
      BY <1>2, <2>1
    <2> HIDE DEF q, r, y
    <2>3. (BlockSize * q + r) % BlockSize = r
      BY <1>1, <2>1, <2>2, DivModUnique
    <2>4. QED
      BY <2>2, <2>3 DEF r
  <1> HIDE DEF y
  <1>6. ASSUME NEW z \in Nat
        PROVE  Wrap(z) = BlockSize * BlockOf(z) + (z % BlockSize)
    <2>1. z % (BlockSize * Radix) = BlockSize * ((z \div BlockSize) % Radix) + (z % BlockSize)
      BY <1>1, DivDiv
    <2>2. MirrorSize = BlockSize * Radix
      BY DEF MirrorSize, BlockSize
    <2>3. QED
      BY <2>1, <2>2 DEF Wrap, BlockOf
  <1>7. Wrap(y) = Wrap(a)
    BY <1>1, <1>3, <1>4, <1>5, <1>6
  <1>8. QED
    BY <1>1, <1>3, <1>7

-----------------------------------------------------------------------------
(* The calls of a tester and their steps.                                  *)

\* The mirror stays a mirror: what a write puts into it comes from its data.
LEMMA MirrorStaysAMirror ==
  ASSUME mirror \in Mirror, made \in 0 .. MaxRequests, NEW r \in Requests, Operate(r)
  PROVE  mirror' \in Mirror /\ made' \in 0 .. MaxRequests
  <1>1. made' \in 0 .. MaxRequests
    BY MaxRequestsAssumption DEF Operate
  <1>2. CASE r.op = "write"
    <2> DEFINE start == PageStart(r.offset)
               lead == r.offset - start
    <2>1. start \in Nat /\ start <= r.offset
      BY RequestFacts, RadixAssumption DEF PageStart
    <2>2. lead \in Nat
      BY <2>1, RequestFacts
    <2> HIDE DEF start, lead
    <2>3. \A a \in StorageAddress :
            Distance(start, a) \in lead .. (lead + r.size - 1) =>
              r.data[Distance(start, a) - lead] \in Byte
      <3>1. SUFFICES ASSUME NEW d \in lead .. (lead + r.size - 1)
                     PROVE  r.data[d - lead] \in Byte
        OBVIOUS
      <3>2. d - lead \in 0 .. (r.size - 1)
        BY <2>2, RequestFacts
      <3>3. QED
        BY <1>2, <3>2, RequestFacts
    <2>4. WriteMirror(mirror, r.data, r.offset, r.size) \in Mirror
      BY <2>3, ZeroAssumption DEF WriteMirror, Mirror, start, lead
    <2>5. QED
      BY <1>1, <1>2, <2>4 DEF Operate
  <1>3. CASE r.op = "erase"
    <2>1. EraseMirror(mirror, r.offset, r.size) \in Mirror
      BY ZeroAssumption DEF EraseMirror, Mirror
    <2>2. QED
      BY <1>1, <1>3, <2>1 DEF Operate
  <1>4. CASE r.op = "read"
    BY <1>1, <1>4 DEF Operate
  <1>5. QED
    BY <1>2, <1>3, <1>4, RequestFacts DEF Operation

\* A step that leaves the device alone leaves its invariant alone.
LEMMA DeviceLeftAlone ==
  ASSUME UNCHANGED deviceVars
  PROVE  /\ UNCHANGED <<cursor, cache, data_store, machine_state, deadline, ioregs,
                        loaded, exited>>
         /\ DeviceInv => DeviceInv'
         /\ BeforeDeadline' = BeforeDeadline
  <1>1. UNCHANGED <<cursor, cache, data_store, machine_state, deadline, ioregs,
                    loaded, exited>>
    BY DEF deviceVars, storeVars, parserVars
  <1>2. BeforeDeadline' = BeforeDeadline
    BY <1>1 DEF BeforeDeadline
  <1>3. DeviceInv => DeviceInv'
    BY <1>1, <1>2
    DEF DeviceInv, DeviceTypeOK, StoreTypeOK, ParserTypeOK, BusyOnlyWhileWorking,
        SetupStartsClean, CommandRegisterIsStanding
  <1>4. QED
    BY <1>1, <1>2, <1>3

LEMMA CommandsOfOperation ==
  ASSUME NEW op \in Operation
  PROVE  /\ SetupCommand(op) \in Setup /\ SetupCommand(op) \in Command
         /\ ExecuteCommand(op) \in Execute /\ ExecuteCommand(op) \in Command
  BY DEF SetupCommand, ExecuteCommand, Setup, Execute, Command

\* The framework asks each wait for longer than the operation takes.
LEMMA IntervalsAreLongEnough ==
  ASSUME NEW op \in Operation
  PROVE  /\ DurationOf(op) \in Nat /\ WaitInterval(op) \in Nat
         /\ DurationOf(op) <= WaitInterval(op)
  BY DurationAssumption, PollIntervalAssumption
  DEF Operation, DurationOf, WaitInterval, TIMEOUT_READ_PAGE, TIMEOUT_WRITE_PAGE,
      TIMEOUT_ERASE_BLOCK

\* A call has its effect on the answer key when it is made: in its region, and
\* nowhere else.
LEMMA CallTakesEffect ==
  ASSUME mirror \in Mirror, NEW r \in Requests, Operate(r)
  PROVE  /\ r.op = "write" =>
              \A x \in RegionStart(r) .. RegionEnd(r) :
                mirror'[Wrap(x)] = IF x \in r.offset .. (r.offset + r.size - 1)
                                     THEN r.data[x - r.offset] ELSE Zero
         /\ r.op = "erase" =>
              \A x \in RegionStart(r) .. RegionEnd(r) : mirror'[Wrap(x)] = Zero
         /\ r.op # "read" =>
              \A a \in StorageAddress :
                (\A x \in RegionStart(r) .. RegionEnd(r) : Wrap(x) # a) =>
                  mirror'[a] = mirror[a]
  <1>1. r.op \in Operation /\ r.offset \in Nat /\ r.size \in Nat \ {0}
    BY RequestFacts
  <1>2. /\ RegionStart(r) \in Nat /\ RegionEnd(r) \in Int
        /\ RegionEnd(r) - RegionStart(r) < MirrorSize
        /\ mirror \in Mirror
    BY RegionFacts
  <1>3. /\ r.op = "write" => mirror' = WriteMirror(mirror, r.data, r.offset, r.size)
        /\ r.op = "erase" => mirror' = EraseMirror(mirror, r.offset, r.size)
    BY DEF Operate
  <1>4. CASE r.op = "write"
    <2>1. /\ RegionStart(r) = PageStart(r.offset)
          /\ RegionEnd(r) = PageEnd(r.offset + r.size - 1)
      BY <1>4 DEF RegionStart, RegionEnd
    <2>2. PageEnd(r.offset + r.size - 1) - PageStart(r.offset) < MirrorSize
      BY <1>2, <2>1
    <2> DEFINE w == WriteMirror(mirror, r.data, r.offset, r.size)
    <2>3. /\ \A x \in PageStart(r.offset) .. PageEnd(r.offset + r.size - 1) :
               w[Wrap(x)] = IF x \in r.offset .. (r.offset + r.size - 1)
                              THEN r.data[x - r.offset] ELSE Zero
          /\ \A a \in StorageAddress :
               (\A x \in PageStart(r.offset) .. PageEnd(r.offset + r.size - 1) :
                  Wrap(x) # a) => w[a] = mirror[a]
      <3>1. mirror \in Mirror /\ r.offset \in Nat /\ r.size \in Nat \ {0}
        BY <1>1, <1>2
      <3>2. w = WriteMirror(mirror, r.data, r.offset, r.size)
        OBVIOUS
      <3> HIDE DEF w
      <3>3. QED
        BY <2>2, <3>1, <3>2, WriteMirrorFacts
    <2>4. mirror' = w
      BY <1>3, <1>4
    <2> HIDE DEF w
    <2>5. QED
      BY <1>4, <2>1, <2>3, <2>4
  <1>5. CASE r.op = "erase"
    <2>1. /\ RegionStart(r) = BlockStart(r.offset)
          /\ RegionEnd(r) = BlockEnd(r.offset + r.size - 1)
      BY <1>5 DEF RegionStart, RegionEnd
    <2>2. BlockEnd(r.offset + r.size - 1) - BlockStart(r.offset) < MirrorSize
      BY <1>2, <2>1
    <2> DEFINE w == EraseMirror(mirror, r.offset, r.size)
    <2>3. /\ \A x \in BlockStart(r.offset) .. BlockEnd(r.offset + r.size - 1) :
               w[Wrap(x)] = Zero
          /\ \A a \in StorageAddress :
               (\A x \in BlockStart(r.offset) .. BlockEnd(r.offset + r.size - 1) :
                  Wrap(x) # a) => w[a] = mirror[a]
      <3>1. mirror \in Mirror /\ r.offset \in Nat /\ r.size \in Nat \ {0}
        BY <1>1, <1>2
      <3>2. QED
        BY <2>2, <3>1, EraseMirrorFacts
    <2>4. mirror' = w
      BY <1>3, <1>5
    <2> HIDE DEF w
    <2>5. QED
      BY <1>5, <2>1, <2>3, <2>4
  <1>6. QED
    BY <1>1, <1>4, <1>5 DEF Operation

-----------------------------------------------------------------------------
(* Storage and the answer key.                                             *)

\* The answer key has what the call in progress will leave in its region.
MirrorHasEffect ==
  pc # "idle" =>
    /\ req.op = "write" =>
         \A x \in RegionStart(req) .. RegionEnd(req) :
           mirror[Wrap(x)] =
             IF x \in req.offset .. (req.offset + req.size - 1)
               THEN req.data[x - req.offset] ELSE Zero
    /\ req.op = "erase" =>
         \A x \in RegionStart(req) .. RegionEnd(req) : mirror[Wrap(x)] = Zero

\* Storage agrees with the answer key but for some offsets.
AgreesOutside(offsets) ==
  \A a \in StorageAddress :
    (\A x \in offsets : Wrap(x) # a) => Stored(a) = mirror[a]

\* The same of the next state, at offsets told from this one.
WillAgreeOutside(offsets) ==
  \A a \in StorageAddress :
    (\A x \in offsets : Wrap(x) # a) => Stored(a)' = mirror'[a]

\* The cache holds what the answer key has from an offset on.
CacheIsRight(S) == \A b \in Digit : cache[b] = mirror[Wrap(S + b)]

ProgramsPageOf(x) ==
  data_store' = [data_store EXCEPT ![BlockOf(x)][PageOf(x)] = cache]

\* The answer key has zeroes in the block from an offset on.
BlockIsBlank(S) == \A y \in S .. (S + BlockSize - 1) : mirror[Wrap(y)] = Zero

ErasesBlockOf(S) == data_store' = [data_store EXCEPT ![BlockOf(S)] = ZeroBlock]

\* A page that is programmed with what the answer key has for it is settled.
LEMMA PageIsSettled ==
  ASSUME data_store \in [Digit -> Block],
         NEW x \in Nat, NEW S \in Nat, S = PageStart(x), NEW E \in Int,
         AgreesOutside(S .. E),
         ProgramsPageOf(x), CacheIsRight(S), UNCHANGED mirror
  PROVE  WillAgreeOutside((S + Radix) .. E)
  <1>1. SUFFICES ASSUME NEW a \in StorageAddress,
                        \A y \in (S + Radix) .. E : Wrap(y) # a
                 PROVE  data_store'[BlockOf(a)][PageOf(a)][ByteOf(a)] = mirror[a]
    BY DEF WillAgreeOutside, Stored
  <1> USE DEF ProgramsPageOf, CacheIsRight
  <1>2. /\ BlockOf(a) \in Digit /\ PageOf(a) \in Digit /\ ByteOf(a) \in Digit
        /\ BlockOf(x) \in Digit /\ PageOf(x) \in Digit
    BY AddressFacts, DigitsOfOffset
  <1>3. data_store \in [Digit -> [Digit -> Page]]
    BY DEF Block
  <1>4. CASE BlockOf(a) = BlockOf(x) /\ PageOf(a) = PageOf(x)
    <2>1. data_store'[BlockOf(a)][PageOf(a)] = cache
      BY <1>2, <1>3, <1>4
    <2>2. Wrap(S + ByteOf(a)) = a
      BY <1>4, OffsetInPage
    <2>3. QED
      BY <1>2, <2>1, <2>2
  <1>5. CASE ~(BlockOf(a) = BlockOf(x) /\ PageOf(a) = PageOf(x))
    <2>1. data_store'[BlockOf(a)][PageOf(a)] = data_store[BlockOf(a)][PageOf(a)]
      BY <1>2, <1>3, <1>5
    <2>2. ASSUME NEW y \in S .. E, Wrap(y) = a
          PROVE  FALSE
      <3>1. y \in Nat /\ S <= y /\ y < S + Radix
        BY <1>1, <2>2, RadixAssumption
      <3>2. BlockOf(y) = BlockOf(x) /\ PageOf(y) = PageOf(x)
        BY <3>1, InPage
      <3>3. BlockOf(a) = BlockOf(y) /\ PageOf(a) = PageOf(y)
        BY <2>2, <3>1, WrapFacts
      <3>4. QED
        BY <1>5, <3>2, <3>3
    <2>3. Stored(a) = mirror[a]
      BY <2>2 DEF AgreesOutside
    <2>4. QED
      BY <2>1, <2>3 DEF Stored
  <1>6. QED
    BY <1>4, <1>5

\* So is a block that is erased where the answer key has been erased.
LEMMA BlockIsSettled ==
  ASSUME data_store \in [Digit -> Block],
         NEW S \in Nat, S = BlockStart(S), NEW E \in Int,
         AgreesOutside(S .. E),
         ErasesBlockOf(S), BlockIsBlank(S), UNCHANGED mirror
  PROVE  WillAgreeOutside((S + BlockSize) .. E)
  <1>1. SUFFICES ASSUME NEW a \in StorageAddress,
                        \A y \in (S + BlockSize) .. E : Wrap(y) # a
                 PROVE  data_store'[BlockOf(a)][PageOf(a)][ByteOf(a)] = mirror[a]
    BY DEF WillAgreeOutside, Stored
  <1> USE DEF ErasesBlockOf, BlockIsBlank
  <1>2. /\ BlockOf(a) \in Digit /\ PageOf(a) \in Digit /\ ByteOf(a) \in Digit
        /\ BlockOf(S) \in Digit
    BY AddressFacts, DigitsOfOffset
  <1>3. data_store \in [Digit -> [Digit -> Page]]
    BY DEF Block
  <1>4. CASE BlockOf(a) = BlockOf(S)
    <2>1. data_store'[BlockOf(a)][PageOf(a)][ByteOf(a)] = Zero
      BY <1>2, <1>3, <1>4 DEF ZeroBlock, ZeroPage
    <2>2. PICK y \in S .. (S + BlockSize - 1) : Wrap(y) = a
      BY <1>4, OffsetInBlock
    <2>3. QED
      BY <2>1, <2>2
  <1>5. CASE BlockOf(a) # BlockOf(S)
    <2>1. data_store'[BlockOf(a)] = data_store[BlockOf(a)]
      BY <1>2, <1>3, <1>5
    <2>2. ASSUME NEW y \in S .. E, Wrap(y) = a
          PROVE  FALSE
      <3>1. y \in Nat /\ S <= y /\ y < S + BlockSize
        BY <1>1, <2>2, SizesArePositive
      <3>2. BlockOf(y) = BlockOf(S)
        BY <3>1, InBlock
      <3>3. BlockOf(a) = BlockOf(y)
        BY <2>2, <3>1, WrapFacts
      <3>4. QED
        BY <1>5, <3>2, <3>3
    <2>3. Stored(a) = mirror[a]
      BY <2>2 DEF AgreesOutside
    <2>4. QED
      BY <2>1, <2>3 DEF Stored
  <1>6. QED
    BY <1>4, <1>5

\* Storage by address is storage by block, page and byte.
LEMMA ContentsAreStored ==
  ASSUME NEW a \in StorageAddress
  PROVE  Contents[a] = Stored(a)
  <1> DEFINE B == BlockSize
             q == a \div B
  <1>1. B \in Nat \ {0} /\ Radix \in Nat \ {0} /\ a \in Nat
    BY SizesArePositive, RadixAssumption DEF StorageAddress
  <1>2. MirrorSize = B * Radix
    BY RadixAssumption DEF MirrorSize, BlockSize
  <1> HIDE DEF B
  <1>3. q \in Nat /\ a % B \in 0 .. (B - 1) /\ a = B * q + (a % B)
    BY <1>1, DivMod
  <1>4. a < MirrorSize
    BY SizesArePositive DEF StorageAddress
  <1> HIDE DEF q
  <1>5. B * q < B * Radix
    <2>1. B * q \in Nat /\ B * Radix \in Nat
      BY <1>1, <1>3
    <2>2. QED
      BY <1>1, <1>2, <1>3, <1>4, <2>1
  <1>6. q < Radix
    BY <1>1, <1>3, <1>5
  <1>7. BlockOf(a) = a \div BlockSize
    BY <1>3, <1>6, RadixAssumption DEF BlockOf, q, B
  <1>8. QED
    BY <1>7 DEF Contents, Stored, PageOf, ByteOf

\* What settles storage for good.
LEMMA AgreementIsTotal ==
  ASSUME AgreesOutside({}), mirror \in Mirror
  PROVE  Contents = mirror
  <1>1. \A a \in StorageAddress : Contents[a] = mirror[a]
    BY ContentsAreStored DEF AgreesOutside
  <1>2. Contents = [a \in StorageAddress |-> Contents[a]]
    BY DEF Contents
  <1>3. mirror = [a \in StorageAddress |-> mirror[a]]
    BY DEF Mirror
  <1>4. QED
    BY <1>1, <1>2, <1>3, Zenon

\* The array of bytes and the tester's mirror are of one kind.
LEMMA ArrayIsMirror ==
  /\ Array!BlankMirror = BlankMirror
  /\ \A m, d, o, s : Array!WriteMirror(m, d, o, s) = WriteMirror(m, d, o, s)
  /\ \A m, o, s : /\ Array!EraseMirror(m, o, s) = EraseMirror(m, o, s)
                 /\ Array!ReadMirror(m, o, s) = ReadMirror(m, o, s)
  BY Zenon
  DEF Array!BlankMirror, Array!WriteMirror, Array!EraseMirror, Array!ReadMirror,
      Array!PageStart, Array!PageEnd, Array!BlockStart, Array!BlockEnd, Array!Wrap,
      Array!Distance, Array!StorageAddress, Array!MirrorSize, Array!BlockSize,
      BlankMirror, WriteMirror, EraseMirror, ReadMirror, PageStart, PageEnd,
      BlockStart, BlockEnd, Wrap, Distance, StorageAddress, MirrorSize, BlockSize
=============================================================================
