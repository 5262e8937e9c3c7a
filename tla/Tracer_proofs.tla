---------------------------- MODULE Tracer_proofs ----------------------------
(***************************************************************************)
(* What the device guarantees against any driver, proved for storage of    *)
(* any size and operations of any duration; and what holds of it under its *)
(* tracer, whatever stops the tracee: the tracer implements the device     *)
(* that faces any driver, so that all of the first part is true there, and *)
(* promises a driver some things besides.                                  *)
(***************************************************************************)
EXTENDS Tracer, DeviceParser_proofs

-----------------------------------------------------------------------------
(* The device facing any driver.                                           *)

\* Whatever word an access leaves behind is a word.
LEMMA AccessPreserves ==
  ASSUME DeviceInv, Access
  PROVE  DeviceInv'
  <1>1. ioregs \in Word
    BY DEF DeviceInv, DeviceTypeOK, ParserTypeOK
  <1>2. CASE \E c \in Command : StoreCommand(c)
    BY <1>1, <1>2, WordFacts, HandleWatchpointPreserves DEF StoreCommand
  <1>3. CASE \E d \in Digit : StoreAddress(d)
    BY <1>1, <1>3, WordFacts, HandleWatchpointPreserves DEF StoreAddress
  <1>4. CASE \E v \in Byte : StoreData(v)
    BY <1>1, <1>4, WordFacts, HandleWatchpointPreserves DEF StoreData
  <1>5. CASE \E decodable \in BOOLEAN : LoadData(decodable)
    BY <1>1, <1>5, HandleWatchpointPreserves DEF LoadData
  <1>6. QED
    BY <1>2, <1>3, <1>4, <1>5 DEF Access

\* The invariant is inductive: it needs no more than its four conjuncts,
\* because each state's promise about the cursor and the cache is what the
\* handlers of the state before it left there.
THEOREM DeviceInvariant == Spec => []DeviceInv
  <1>1. Init => DeviceInv
    BY ParserInitEstablishes DEF Init
  <1>2. DeviceInv /\ [Next]_vars => DeviceInv'
    <2>1. SUFFICES ASSUME DeviceInv, [Next]_vars
                   PROVE  DeviceInv'
      OBVIOUS
    <2>2. CASE Access
      BY <2>1, <2>2, AccessPreserves
    <2>3. CASE SetPin
      BY <2>1, <2>3, HandleGpioSetPreserves DEF SetPin
    <2>4. CASE Tick
      BY <2>1, <2>4, DeadlinePassesPreserves DEF Tick
    <2>5. CASE UNCHANGED vars
      BY <2>1, <2>5
      DEF vars, deviceVars, storeVars, parserVars, DeviceInv, DeviceTypeOK,
          StoreTypeOK, ParserTypeOK, BusyOnlyWhileWorking, BeforeDeadline,
          SetupStartsClean, CommandRegisterIsStanding
    <2>6. QED
      BY <2>1, <2>2, <2>3, <2>4, <2>5 DEF Next
  <1>3. QED
    BY <1>1, <1>2, PTL DEF Spec

\* The types of the device's variables.
THEOREM TypeCorrect == Spec => []DeviceTypeOK
  BY DeviceInvariant, PTL DEF DeviceInv

\* No deadline is pending in a state that does not check it: the parser's
\* initial state, which accepts a setup command without asking whether the
\* device is busy, is never entered with an operation under way.
THEOREM BusyOnlyInWorkingStates == Spec => []BusyOnlyWhileWorking
  BY DeviceInvariant, PTL DEF DeviceInv

\* No operation inherits cursor or cache from the one before it.
THEOREM OperationsStartClean == Spec => []SetupStartsClean
  BY DeviceInvariant, PTL DEF DeviceInv

\* An access to another register never repeats a command that has run.
THEOREM CommandsStandOnlyWhereHarmless == Spec => []CommandRegisterIsStanding
  BY DeviceInvariant, PTL DEF DeviceInv

-----------------------------------------------------------------------------
(* Operations never overlap.                                               *)

\* Every access is one call of the handler with some word.
LEMMA AccessIsHandled ==
  ASSUME DeviceInv, Access
  PROVE  \E w \in Word, decodable \in BOOLEAN : HandleWatchpoint(w, decodable)
  <1>1. ioregs \in Word
    BY DEF DeviceInv, DeviceTypeOK, ParserTypeOK
  <1>2. QED
    BY <1>1, WordFacts
    DEF Access, StoreCommand, StoreAddress, StoreData, LoadData

\* Storage changes only when an operation starts on a ready device, and a
\* busy device is left alone, whatever the driver does (the before_deadline()
\* checks of handle_watchpoint_ioregisters()).
THEOREM NoOverlap == Spec => OperationsNeverOverlap
  <1> DEFINE Step ==
        /\ data_store' # data_store => ~BeforeDeadline /\ BeforeDeadline'
        /\ BeforeDeadline /\ machine_state' # MS_INITIAL_STATE
             => UNCHANGED storeVars
  <1>1. DeviceInv /\ [Next]_vars => [Step]_vars
    <2>1. SUFFICES ASSUME DeviceInv, Next
                   PROVE  Step
      OBVIOUS
    <2>2. CASE Access
      <3>1. PICK w \in Word, decodable \in BOOLEAN : HandleWatchpoint(w, decodable)
        BY <2>1, <2>2, AccessIsHandled
      <3>2. QED
        BY <2>1, <3>1, StorageChangesStartOperations, BusyHandlerKeepsStore
    <2>3. CASE SetPin
      <3>1. UNCHANGED data_store
        BY <2>3 DEF SetPin, HandleGpioSet
      <3>2. machine_state' # MS_INITIAL_STATE => UNCHANGED <<cursor, cache>>
        BY <2>3 DEF SetPin, HandleGpioSet, ParserReset
      <3>3. QED
        BY <3>1, <3>2 DEF storeVars
    <2>4. CASE Tick
      BY <2>4 DEF Tick, storeVars
    <2>5. QED
      BY <2>1, <2>2, <2>3, <2>4 DEF Next
  <1>2. QED
    BY <1>1, DeviceInvariant, PTL DEF Spec, OperationsNeverOverlap

-----------------------------------------------------------------------------
(* The tracer implements the device.                                       *)

\* Whatever the loop takes a stop for, the device meets one of its accesses.
LEMMA AccessesAreAccesses ==
  ASSUME Store \/ Load \/ StrangeLoad \/ Signal \/ FaultAgain
  PROVE  Access
  <1>1. CASE Store
    BY <1>1 DEF Store, TakeForAccess, Access, StoreCommand, StoreAddress, StoreData
  <1>2. CASE Load
    <2>1. \E decodable \in BOOLEAN : HandleWatchpoint(ioregs, decodable)
      BY <1>2 DEF Load, LoadInto, TakeForAccess
    <2>2. QED
      BY <2>1 DEF Access, LoadData
  <1>3. CASE StrangeLoad \/ Signal \/ FaultAgain
    BY <1>3 DEF StrangeLoad, Signal, FaultAgain, TakeForAccess, Access, LoadData
  <1>4. QED
    BY <1>1, <1>2, <1>3

\* A pin that the tracer does not know leaves the device alone.
LEMMA SetsAreSets ==
  ASSUME NEW p, NEW value \in BOOLEAN, HandleGpioSet(p, value)
  PROVE  [SetPin]_vars
  <1>1. CASE p \in {PN_STATUS, PN_RESET}
    BY <1>1 DEF SetPin
  <1>2. CASE p \notin {PN_STATUS, PN_RESET}
    BY <1>2 DEF HandleGpioSet, vars, deviceVars, storeVars, parserVars
  <1>3. QED
    BY <1>1, <1>2

\* The registers of a tracee that is gone make an access or a reset at worst.
LEMMA NoticeKillIsHarmless ==
  ASSUME NoticeKill
  PROVE  [StoreCommand(NO_COMMAND) \/ SetPin]_vars
  <1>1. CASE TakeForAccess([ioregs EXCEPT !.command = NO_COMMAND], FALSE)
    BY <1>1 DEF TakeForAccess, StoreCommand
  <1>2. CASE TakeForSet(PN_RESET, TRUE)
    BY <1>2, SetsAreSets DEF TakeForSet
  <1>3. CASE UNCHANGED vars
    BY <1>3
  <1>4. QED
    BY <1>1, <1>2, <1>3 DEF NoticeKill

LEMMA StepImplements ==
  ASSUME [TracerNext]_tracerVars
  PROVE  [Next]_vars
  <1>1. CASE Store \/ Load \/ StrangeLoad \/ Signal \/ FaultAgain
    BY <1>1, AccessesAreAccesses DEF Next
  <1>2. CASE GpioSet
    BY <1>2, SetsAreSets DEF GpioSet, TakeForSet, Next
  <1>3. CASE NoticeKill
    BY <1>3, NoticeKillIsHarmless DEF Next, Access, Command
  <1>4. CASE Time
    BY <1>4 DEF Time, Next
  <1>5. CASE Start \/ CallGpioGet \/ Breakpoint \/ Return \/ Exit
               \/ SignalInGpioGet \/ Fault \/ Kill \/ FailToStart \/ NoticeExit
    BY <1>5 DEF Start, CallGpioGet, Breakpoint, Return, Exit, SignalInGpioGet,
                Fault, Kill, FailToStart, NoticeExit
  <1>6. CASE UNCHANGED tracerVars
    BY <1>6 DEF tracerVars
  <1>7. QED
    BY <1>1, <1>2, <1>3, <1>4, <1>5, <1>6 DEF TracerNext, Driver, Mishap, Loop

\* The loop of device_init() implements the device that faces any driver: a
\* stop it takes for what it is not is one more access that some driver could
\* have made.
THEOREM TracerImplementsDevice == TracerSpec => Spec
  <1>1. TracerInit => Init
    BY DEF TracerInit
  <1>2. [TracerNext]_tracerVars => [Next]_vars
    BY StepImplements
  <1>3. QED
    BY <1>1, <1>2, PTL DEF TracerSpec, Spec

\* Whence the device's own invariant, stray stops or not.
THEOREM TracerKeepsDevice == TracerSpec => []DeviceInv
  BY TracerImplementsDevice, DeviceInvariant, PTL

-----------------------------------------------------------------------------
(* Stops that are no accesses.                                             *)

\* No state accepts an execute command that may stand while it lasts, and no
\* state accepts a byte that is no command.
LEMMA StandingIsNotExecuted ==
  ASSUME DeviceInv, NEW w \in Word,
         w.command \in Standing(machine_state) \/ w.command = NO_COMMAND,
         Accepts(w)
  PROVE  w.command \notin Execute
  BY DEF DeviceInv, DeviceTypeOK, ParserTypeOK, Accepts, Expected, Standing,
         Execute, Setup, Command, NO_COMMAND, C_READ_SETUP, C_READ_EXECUTE,
         C_PROGRAM_SETUP, C_PROGRAM_EXECUTE, C_ERASE_SETUP, C_ERASE_EXECUTE,
         C_DUMMY, Working, MS_INITIAL_STATE, MS_BUG,
         MS_READ_AWAITING_BLOCK_ADDRESS, MS_READ_AWAITING_PAGE_ADDRESS,
         MS_READ_AWAITING_BYTE_ADDRESS, MS_READ_AWAITING_EXECUTE,
         MS_READ_PROVIDING_DATA, MS_PROGRAM_AWAITING_BLOCK_ADDRESS,
         MS_PROGRAM_AWAITING_PAGE_ADDRESS, MS_PROGRAM_AWAITING_BYTE_ADDRESS,
         MS_PROGRAM_ACCEPTING_DATA, MS_ERASE_AWAITING_BLOCK_ADDRESS,
         MS_ERASE_AWAITING_EXECUTE

\* The handler starts operations only on an execute command.
LEMMA OnlyExecuteStarts ==
  ASSUME DeviceInv, NEW w \in Word, NEW decodable, HandleWatchpoint(w, decodable),
         Accepts(w) => w.command \notin Execute
  PROVE  UNCHANGED data_store /\ (BeforeDeadline' => BeforeDeadline)
  <1>1. ~ExecuteRead(w) /\ ~ExecuteProgram(w) /\ ~ExecuteErase(w)
    BY DEF ExecuteRead, ExecuteProgram, ExecuteErase, Execute
  <1>2. CASE NextSetup(w)
    <2>1. deadline' = 0 /\ UNCHANGED data_store
      BY <1>2 DEF NextSetup, ClearState, DeadlineClear
    <2>2. QED
      BY <2>1 DEF BeforeDeadline
  <1>3. CASE ~NextSetup(w)
    <2>1. UNCHANGED <<data_store, deadline>>
      BY <1>1, <1>3
      DEF HandleWatchpoint, FirstSetup, AcceptBlockAddress, AcceptPageAddress,
          AcceptByteAddress, ProvideByte, FailToDecode, AcceptByte,
          RejectAccess, ExitOnBug, storeVars
    <2>2. QED
      BY <2>1 DEF BeforeDeadline
  <1>4. QED
    BY <1>2, <1>3

\* A reset starts nothing either.
LEMMA ResetStartsNothing ==
  ASSUME NEW p, NEW value, HandleGpioSet(p, value)
  PROVE  UNCHANGED data_store /\ (BeforeDeadline' => BeforeDeadline)
  <1>1. UNCHANGED data_store
    BY DEF HandleGpioSet
  <1>2. CASE ParserReset
    <2>1. deadline' = 0
      BY <1>2 DEF ParserReset, ClearState, DeadlineClear
    <2>2. QED
      BY <1>1, <2>1 DEF BeforeDeadline
  <1>3. CASE ~ParserReset
    BY <1>1, <1>3 DEF HandleGpioSet, BeforeDeadline
  <1>4. QED
    BY <1>2, <1>3

\* No step that the loop takes for what it is not, and none that ends it, starts
\* an operation or touches storage.
LEMMA StrayStepIsSafe ==
  ASSUME DeviceInv, Mishap \/ Loop
  PROVE  UNCHANGED data_store /\ (BeforeDeadline' => BeforeDeadline)
  <1>1. ioregs \in Word /\ ioregs.command \in Standing(machine_state)
    BY DEF DeviceInv, DeviceTypeOK, ParserTypeOK, CommandRegisterIsStanding
  <1>2. CASE Signal \/ FaultAgain
    <2>1. PICK decodable \in BOOLEAN : HandleWatchpoint(ioregs, decodable)
      BY <1>2 DEF Signal, FaultAgain, TakeForAccess
    <2>2. QED
      BY <1>1, <2>1, StandingIsNotExecuted, OnlyExecuteStarts
  <1>3. CASE NoticeKill
    <2>1. CASE TakeForAccess([ioregs EXCEPT !.command = NO_COMMAND], FALSE)
      <3>1. PICK w : /\ w = [ioregs EXCEPT !.command = NO_COMMAND]
                     /\ HandleWatchpoint(w, FALSE)
        BY <2>1 DEF TakeForAccess
      <3>2. w \in Word /\ w.command = NO_COMMAND
        BY <1>1, <3>1 DEF Word, Command
      <3>3. QED
        BY <3>1, <3>2, StandingIsNotExecuted, OnlyExecuteStarts
    <2>2. CASE TakeForSet(PN_RESET, TRUE)
      BY <2>2, ResetStartsNothing DEF TakeForSet
    <2>3. CASE UNCHANGED vars
      BY <2>3 DEF vars, deviceVars, storeVars, parserVars, BeforeDeadline
    <2>4. QED
      BY <1>3, <2>1, <2>2, <2>3 DEF NoticeKill
  <1>4. CASE SignalInGpioGet \/ Fault \/ Kill \/ FailToStart \/ NoticeExit
    <2>1. UNCHANGED vars
      BY <1>4 DEF SignalInGpioGet, Fault, Kill, FailToStart, NoticeExit
    <2>2. QED
      BY <2>1 DEF vars, deviceVars, storeVars, parserVars, BeforeDeadline
  <1>5. QED
    BY <1>2, <1>3, <1>4 DEF Mishap, Loop

\* A signal, a fault or the tracee's death never starts an operation or
\* touches storage: the only commands that the loop can find in the word are
\* those that may stand there (CommandRegisterIsStanding).
THEOREM StrayStopsAreSafe == TracerSpec => StrayStopsStartNothing
  <1>1. DeviceInv => [Mishap \/ Loop =>
                        /\ UNCHANGED data_store
                        /\ BeforeDeadline' => BeforeDeadline]_tracerVars
    BY StrayStepIsSafe
  <1>2. QED
    BY <1>1, TracerKeepsDevice, PTL DEF StrayStopsStartNothing

-----------------------------------------------------------------------------
(* The disassembler.                                                       *)

\* Each load's ModR/M byte says which register it loads.
LEMMA ModRMTellsRegister ==
  /\ \A r, q \in Register : ModRMOfMovzbl[r] = ModRMOfMovzbl[q] => r = q
  /\ \A r, q \in Register : ModRMOfMov[r] = ModRMOfMov[q] => r = q
  BY DEF Register, ModRMOfMovzbl, ModRMOfMov

\* The text of a movzbl load fits its pattern, and is decoded as that or not at
\* all, whatever the displacement.
LEMMA MovzblIsFound ==
  ASSUME NEW r \in Register, NEW d
  PROVE  Destination(MovzblText(r, d)) \in {r, UNKNOWN}
  <1> DEFINE text == MovzblText(r, d)
  <1>1. /\ ByteOf(text, 5) = "0F"
        /\ ByteOf(text, 6) = "B6"
        /\ ByteOf(text, 7) = ModRMOfMovzbl[r]
    BY DEF MovzblText, ByteOf
  <1>2. IsMovzbl(text)
    BY <1>1 DEF IsMovzbl
  <1>3. MovzblRegister(text) = r
    BY <1>1, ModRMTellsRegister DEF MovzblRegister
  <1>4. QED
    BY <1>2, <1>3 DEF Destination

\* So is the text of a mov load, whatever comes before it.
LEMMA MovIsFound ==
  ASSUME NEW r \in Register, NEW d, NEW x
  PROVE  Destination(MovText(r, d, x)) \in {r, UNKNOWN}
  <1> DEFINE text == MovText(r, d, x)
  <1>1. /\ ByteOf(text, 1) = "48"
        /\ ByteOf(text, 2) = "8B"
        /\ ByteOf(text, 3) = ModRMOfMov[r]
    BY DEF MovText, ByteOf
  <1>2. IsMov(text)
    BY <1>1 DEF IsMov
  <1>3. MovRegister(text) = r
    BY <1>1, ModRMTellsRegister DEF MovRegister
  <1>4. QED
    BY <1>2, <1>3 DEF Destination

\* A load that is given its byte has it in the register it loads, for every
\* displacement that a program may have.
THEOREM LoadsFindTheirRegister == TracerSpec => []RightRegister
  <1>1. TracerInit => RightRegister
    BY DEF TracerInit, NoLoad, RightRegister
  <1>2. RightRegister /\ [TracerNext]_tracerVars => RightRegister'
    <2>1. SUFFICES ASSUME RightRegister, [TracerNext]_tracerVars
                   PROVE  RightRegister'
      OBVIOUS
    <2>2. CASE Load
      <3>1. PICK r \in Register, d \in Displacements :
              \/ LoadInto(r, MovzblText(r, d))
              \/ LoadInto(r, MovText(r, d, "other"))
        BY <2>2 DEF Load
      <3>2. PICK to \in {r, UNKNOWN} :
              served' = IF Serves /\ to # UNKNOWN
                          THEN [into |-> r, given |-> to] ELSE NoLoad
        BY <3>1, MovzblIsFound, MovIsFound DEF LoadInto
      <3>3. QED
        BY <3>2 DEF RightRegister, NoLoad
    <2>3. CASE served' = NoLoad
      BY <2>3 DEF RightRegister, NoLoad
    <2>4. CASE UNCHANGED served
      BY <2>1, <2>4 DEF RightRegister
    <2>5. QED
      BY <2>1, <2>2, <2>3, <2>4
      DEF TracerNext, Driver, Mishap, Loop, Time, tracerVars, Start, Store,
          StrangeLoad, GpioSet, CallGpioGet, Breakpoint, Return, Exit, Signal,
          SignalInGpioGet, Fault, Kill, FailToStart, FaultAgain, NoticeExit,
          NoticeKill
  <1>3. QED
    BY <1>1, <1>2, PTL DEF TracerSpec

-----------------------------------------------------------------------------
(* The status pin.                                                         *)

\* What a driver was told before it asked anything.
NothingToldAtStart == tracee = "starting" => retval = DUMMY

LEMMA PokesDiffer == DUMMY # DEVICE_READY /\ DEVICE_BUSY # DEVICE_READY
  BY DEF DUMMY, DEVICE_READY, DEVICE_BUSY

\* The answer to the status pin is true when it is given.
LEMMA AnswerIsTrue ==
  ASSUME TakeForGet, pin = PN_STATUS, retval' = DEVICE_READY
  PROVE  ~BeforeDeadline
  BY PokesDiffer DEF TakeForGet, GpioGet

\* No step that is not an access of the driver's puts the deadline off.
LEMMA OnlyAccessesStart ==
  ASSUME DeviceInv, TracerNext, ~(Store \/ Load \/ StrangeLoad)
  PROVE  BeforeDeadline' => BeforeDeadline
  <1>1. CASE Mishap \/ Loop
    BY <1>1, StrayStepIsSafe
  <1>2. CASE GpioSet
    BY <1>2, ResetStartsNothing DEF GpioSet, TakeForSet
  <1>3. CASE Time
    BY <1>3, DeadlinePassesPreserves DEF Time, Tick
  <1>4. CASE Start \/ CallGpioGet \/ Breakpoint \/ Return \/ Exit
    <2>1. UNCHANGED vars
      BY <1>4 DEF Start, CallGpioGet, Breakpoint, Return, Exit
    <2>2. QED
      BY <2>1 DEF vars, deviceVars, parserVars, BeforeDeadline
  <1>5. QED
    BY <1>1, <1>2, <1>3, <1>4 DEF TracerNext, Driver

\* What a driver is told of readiness stays true until its next access, which
\* is when retval stops being an answer.
THEOREM ReadyIsKept == TracerSpec => []ReadyStaysReady
  <1> DEFINE Told == NothingToldAtStart /\ ReadyStaysReady
  <1>1. TracerInit => Told
    BY DEF TracerInit, NothingToldAtStart, ReadyStaysReady
  <1>2. ASSUME DeviceInv, Told, [TracerNext]_tracerVars
        PROVE  Told'
    <2>1. CASE Store \/ Load \/ StrangeLoad \/ CallGpioGet \/ Kill
      <3>1. retval' = DUMMY
        BY <2>1 DEF Store, Load, LoadInto, StrangeLoad, CallGpioGet, Kill
      <3>2. QED
        BY <3>1, PokesDiffer DEF NothingToldAtStart, ReadyStaysReady
    <2>2. CASE Breakpoint \/ SignalInGpioGet
      <3>1. /\ TakeForGet
            /\ UNCHANGED <<vars, pin>>
            /\ tracee' # "starting"
        BY <2>2 DEF Breakpoint, SignalInGpioGet
      <3>2. UNCHANGED deadline
        BY <3>1 DEF vars, deviceVars, parserVars
      <3>3. QED
        BY <3>1, <3>2, AnswerIsTrue
        DEF NothingToldAtStart, ReadyStaysReady, BeforeDeadline
    <2>3. CASE Return
      <3>1. /\ UNCHANGED deadline
            /\ tracee = "answered"
            /\ tracee' # "starting"
        BY <2>3 DEF Return, vars, deviceVars, parserVars
      <3>2. retval' \in {retval, DUMMY} /\ (retval' # DUMMY => pin = PN_STATUS)
        BY <2>3 DEF Return
      <3>3. QED
        BY <1>2, <3>1, <3>2, PokesDiffer
        DEF NothingToldAtStart, ReadyStaysReady, BeforeDeadline
    <2>4. CASE Start
      <3>1. retval' = DUMMY
        BY <1>2, <2>4 DEF Start, NothingToldAtStart
      <3>2. QED
        BY <3>1, PokesDiffer DEF NothingToldAtStart, ReadyStaysReady
    <2>5. CASE (GpioSet \/ Exit \/ Signal \/ Fault \/ Loop \/ Time)
                 /\ ~(Store \/ Load \/ StrangeLoad)
      <3>1. /\ UNCHANGED <<pin, retval>>
            /\ tracee' \in {tracee, "faulting", "exited"}
        BY <2>5 DEF GpioSet, Exit, Signal, Fault, Loop, Time, FailToStart,
                    FaultAgain, NoticeExit, NoticeKill, traceeVars
      <3>2. BeforeDeadline' => BeforeDeadline
        BY <1>2, <2>5, OnlyAccessesStart DEF TracerNext, Driver, Mishap
      <3>3. QED
        BY <1>2, <3>1, <3>2 DEF NothingToldAtStart, ReadyStaysReady
    <2>6. CASE UNCHANGED tracerVars
      BY <1>2, <2>6 DEF tracerVars, vars, deviceVars, parserVars,
        NothingToldAtStart, ReadyStaysReady, BeforeDeadline
    <2>7. QED
      BY <1>2, <2>1, <2>2, <2>3, <2>4, <2>5, <2>6
      DEF TracerNext, Driver, Mishap
  <1>3. QED
    BY <1>1, <1>2, TracerKeepsDevice, PTL DEF TracerSpec
-----------------------------------------------------------------------------
(* Types.                                                                  *)

\* The tracer's and the tracee's own variables keep their types.
THEOREM TracerTypeCorrect == TracerSpec => []TracerTypeOK
  <1> DEFINE Loads == [into : Register \union {UNKNOWN}, given : Register \union {UNKNOWN}]
  <1>1. TracerInit => TracerTypeOK
    BY DEF TracerInit, TracerTypeOK, NoLoad, Pin
  <1>2. TracerTypeOK /\ [TracerNext]_tracerVars => TracerTypeOK'
    <2>1. SUFFICES ASSUME TracerTypeOK, [TracerNext]_tracerVars
                   PROVE  TracerTypeOK'
      OBVIOUS
    <2>2. CASE Load
      <3>1. PICK r, text : r \in Register /\ LoadInto(r, text)
        BY <2>2 DEF Load
      <3>2. Destination(text) \in Register \union {UNKNOWN}
        <4>1. IsMovzbl(text) => MovzblRegister(text) \in Register
          BY DEF IsMovzbl, MovzblRegister
        <4>2. IsMov(text) => MovRegister(text) \in Register
          BY DEF IsMov, MovRegister
        <4>3. QED
          BY <4>1, <4>2 DEF Destination
      <3>3. served' \in Loads
        BY <3>1, <3>2 DEF LoadInto, NoLoad
      <3>4. QED
        BY <2>1, <3>1, <3>3 DEF LoadInto, TakeForAccess, TracerTypeOK, Meaning
    <2>3. CASE TracerNext /\ ~Load
      <3>1. served' \in {served, NoLoad}
        BY <2>3 DEF TracerNext, Driver, Mishap, Loop, Time, Start, Store,
          StrangeLoad, GpioSet, CallGpioGet, Breakpoint, Return, Exit, Signal,
          SignalInGpioGet, Fault, Kill, FailToStart, FaultAgain, NoticeExit,
          NoticeKill
      <3>2. served' \in Loads
        BY <2>1, <3>1 DEF TracerTypeOK, NoLoad
      <3>3. regs' \in {regs} \union Meaning
        BY <2>3 DEF TracerNext, Driver, Mishap, Loop, Time, Start, Store,
          StrangeLoad, GpioSet, CallGpioGet, Breakpoint, Return, Exit, Signal,
          SignalInGpioGet, Fault, Kill, FailToStart, FaultAgain, NoticeExit,
          NoticeKill, TakeForAccess, TakeForSet, TakeForGet, Meaning, traceeVars
      <3>4. retval' \in {retval, DUMMY, DEVICE_BUSY, DEVICE_READY}
        BY <2>3 DEF TracerNext, Driver, Mishap, Loop, Time, Start, Store,
          StrangeLoad, GpioSet, CallGpioGet, Breakpoint, Return, Exit, Signal,
          SignalInGpioGet, Fault, Kill, FailToStart, FaultAgain, NoticeExit,
          NoticeKill, TakeForGet, GpioGet, traceeVars
      <3>5. /\ pin' \in {pin} \union Pin
            /\ tracee' \in {tracee, "driver", "asking", "answered", "faulting",
                            "exited", "killed"}
            /\ parent' \in {parent, "looping", "ended"}
        BY <2>3 DEF TracerNext, Driver, Mishap, Loop, Time, Start, Store,
          StrangeLoad, GpioSet, CallGpioGet, Breakpoint, Return, Exit, Signal,
          SignalInGpioGet, Fault, Kill, FailToStart, FaultAgain, NoticeExit,
          NoticeKill, Pin, traceeVars
      <3>6. QED
        BY <2>1, <3>2, <3>3, <3>4, <3>5 DEF TracerTypeOK
    <2>4. CASE UNCHANGED tracerVars
      BY <2>1, <2>4 DEF TracerTypeOK, tracerVars
    <2>5. QED
      BY <2>1, <2>2, <2>3, <2>4
  <1>3. QED
    BY <1>1, <1>2, PTL DEF TracerSpec
=============================================================================
