---------------------------- MODULE DeviceParser ----------------------------
(***************************************************************************)
(* The device as its driver sees it: the parser state machine of           *)
(* device/de_parser.c, the deadline that makes it busy                     *)
(* (device/de_deadline.c), its two pins (device/de_gpio.c) and the         *)
(* ioregisters word through which it is driven.                            *)
(*                                                                         *)
(* The driver (the tracee) traps after each access to ioregisters and      *)
(* stands still until the handler in the tracer has finished, so one       *)
(* access and everything the handler does about it is one step.            *)
(* HandleWatchpoint is that handler: w is the word it peeks, and           *)
(* "decodable" says whether the instruction that trapped is one of the     *)
(* loads that update_tracee_cpu_registers() can decode.                    *)
(*                                                                         *)
(* Time is kept as what remains: deadline is 0 when now() has reached the  *)
(* code's deadline, and otherwise the time left until then.                *)
(***************************************************************************)
EXTENDS DeviceStore

CONSTANTS
  ReadPageDuration,    \* READ_PAGE_DURATION, in units of the model's clock
  WritePageDuration,   \* WRITE_PAGE_DURATION
  EraseBlockDuration   \* ERASE_BLOCK_DURATION

ASSUME DurationAssumption ==
  {ReadPageDuration, WritePageDuration, EraseBlockDuration} \subseteq Nat \ {0}

VARIABLES
  machine_state,   \* state of the parser's finite state machine
  deadline,        \* time until the device is ready again
  ioregs,          \* the tracee's ioregisters word
  loaded,          \* what the tracee's last load from the data register got
  exited           \* the tracer has called exit()

parserVars == <<machine_state, deadline, ioregs, loaded, exited>>
deviceVars == <<storeVars, parserVars>>

-----------------------------------------------------------------------------
(* The states of the machine.                                              *)

MS_INITIAL_STATE == "initial"
MS_BUG == "bug"
MS_READ_AWAITING_BLOCK_ADDRESS == "read_awaiting_block"
MS_READ_AWAITING_PAGE_ADDRESS == "read_awaiting_page"
MS_READ_AWAITING_BYTE_ADDRESS == "read_awaiting_byte"
MS_READ_AWAITING_EXECUTE == "read_awaiting_execute"
MS_READ_PROVIDING_DATA == "read_providing_data"
MS_PROGRAM_AWAITING_BLOCK_ADDRESS == "program_awaiting_block"
MS_PROGRAM_AWAITING_PAGE_ADDRESS == "program_awaiting_page"
MS_PROGRAM_AWAITING_BYTE_ADDRESS == "program_awaiting_byte"
MS_PROGRAM_ACCEPTING_DATA == "program_accepting_data"
MS_ERASE_AWAITING_BLOCK_ADDRESS == "erase_awaiting_block"
MS_ERASE_AWAITING_EXECUTE == "erase_awaiting_execute"

AwaitingBlock == {MS_READ_AWAITING_BLOCK_ADDRESS,
                  MS_PROGRAM_AWAITING_BLOCK_ADDRESS,
                  MS_ERASE_AWAITING_BLOCK_ADDRESS}

AwaitingPage == {MS_READ_AWAITING_PAGE_ADDRESS,
                 MS_PROGRAM_AWAITING_PAGE_ADDRESS}

AwaitingByte == {MS_READ_AWAITING_BYTE_ADDRESS,
                 MS_PROGRAM_AWAITING_BYTE_ADDRESS}

\* The states in which an operation may have been started, and so the only
\* ones in which the device can be busy.
Working == {MS_READ_PROVIDING_DATA, MS_PROGRAM_ACCEPTING_DATA,
            MS_ERASE_AWAITING_EXECUTE}

MachineState == {MS_INITIAL_STATE, MS_BUG, MS_READ_AWAITING_EXECUTE}
                  \union AwaitingBlock \union AwaitingPage
                  \union AwaitingByte \union Working

\* The commands each state has a case for; any other command is a bug.
Expected(state) ==
  {c \in Command :
     \/ c \in Setup /\ state \in {MS_INITIAL_STATE} \union Working
     \/ c = C_READ_SETUP /\ state \in {MS_READ_AWAITING_BLOCK_ADDRESS,
                                       MS_READ_AWAITING_PAGE_ADDRESS,
                                       MS_READ_AWAITING_BYTE_ADDRESS}
     \/ c = C_READ_EXECUTE /\ state \in {MS_READ_AWAITING_EXECUTE,
                                         MS_READ_PROVIDING_DATA}
     \/ c = C_PROGRAM_SETUP /\ state \in {MS_PROGRAM_AWAITING_BLOCK_ADDRESS,
                                          MS_PROGRAM_AWAITING_PAGE_ADDRESS,
                                          MS_PROGRAM_AWAITING_BYTE_ADDRESS}
     \/ c = C_PROGRAM_EXECUTE /\ state = MS_PROGRAM_ACCEPTING_DATA
     \/ c = C_ERASE_SETUP /\ state = MS_ERASE_AWAITING_BLOCK_ADDRESS
     \/ c = C_ERASE_EXECUTE /\ state = MS_ERASE_AWAITING_EXECUTE
     \/ c = C_DUMMY /\ state \in {MS_READ_PROVIDING_DATA,
                                  MS_PROGRAM_ACCEPTING_DATA}}

-----------------------------------------------------------------------------
(* The deadline.                                                           *)

BeforeDeadline == deadline > 0

SetDeadline(duration) == deadline' = duration

DeadlineClear == deadline' = 0

DeadlinePasses == deadline' = IF deadline > 0 THEN deadline - 1 ELSE 0

-----------------------------------------------------------------------------
(* The parser.                                                             *)

ParserTypeOK ==
  /\ machine_state \in MachineState
  /\ deadline \in Nat
  /\ ioregs \in Word
  /\ loaded \in Byte
  /\ exited \in BOOLEAN

DeviceTypeOK == StoreTypeOK /\ ParserTypeOK

DummyWord == [command |-> C_DUMMY, address |-> 0, data |-> Zero]

\* The word is 0 before its first use: main.c initialises ioregisters.
BlankWord == [command |-> NO_COMMAND, address |-> 0, data |-> Zero]

ParserInit ==
  /\ machine_state = MS_INITIAL_STATE
  /\ deadline = 0
  /\ StoreInit
  /\ ioregs = BlankWord
  /\ loaded = Zero
  /\ exited = FALSE

\* Faulty: a reset that leaves the device busy.
ClearStateKeepsDeadline == UNCHANGED deadline /\ ClearCursor /\ ClearCache

ClearState == DeadlineClear /\ ClearCursor /\ ClearCache

\* Faulty: a reset that forgets to clear the state.
ParserResetStateOnly ==
  machine_state' = MS_INITIAL_STATE /\ UNCHANGED <<deadline, cursor, cache>>

ParserReset == ClearState /\ machine_state' = MS_INITIAL_STATE

\* What a command leaves alone in nearly every state.
Ordinary == UNCHANGED <<loaded, exited>>

\* Faulty: the busy check forgotten.
AcceptsWhenBusy(w) == w.command \in Expected(machine_state)

\* MS_INITIAL_STATE looks at the command only; every other state first
\* makes sure that the device is not busy.
Accepts(w) ==
  /\ w.command \in Expected(machine_state)
  /\ machine_state = MS_INITIAL_STATE \/ ~BeforeDeadline

SetupState(command) ==
  CASE command = C_READ_SETUP -> MS_READ_AWAITING_BLOCK_ADDRESS
    [] command = C_PROGRAM_SETUP -> MS_PROGRAM_AWAITING_BLOCK_ADDRESS
    [] OTHER -> MS_ERASE_AWAITING_BLOCK_ADDRESS

\* The first setup command after startup or reset: there is nothing to clear.
FirstSetup(w) ==
  /\ machine_state = MS_INITIAL_STATE
  /\ Accepts(w)
  /\ machine_state' = SetupState(w.command)
  /\ ioregs' = w
  /\ Ordinary
  /\ UNCHANGED <<storeVars, deadline>>

\* A setup command that ends the previous operation.
NextSetup(w) ==
  /\ machine_state \in Working
  /\ w.command \in Setup
  /\ Accepts(w)
  /\ ClearState
  /\ machine_state' = SetupState(w.command)
  /\ ioregs' = w
  /\ Ordinary
  /\ UNCHANGED data_store

AcceptBlockAddress(w) ==
  /\ machine_state \in AwaitingBlock
  /\ Accepts(w)
  /\ SetCursorBlock(w.address)
  /\ machine_state' =
       CASE machine_state = MS_READ_AWAITING_BLOCK_ADDRESS ->
              MS_READ_AWAITING_PAGE_ADDRESS
         [] machine_state = MS_PROGRAM_AWAITING_BLOCK_ADDRESS ->
              MS_PROGRAM_AWAITING_PAGE_ADDRESS
         [] OTHER -> MS_ERASE_AWAITING_EXECUTE
  /\ ioregs' = w
  /\ Ordinary
  /\ UNCHANGED <<cache, data_store, deadline>>

AcceptPageAddress(w) ==
  /\ machine_state \in AwaitingPage
  /\ Accepts(w)
  /\ SetCursorPage(w.address)
  /\ machine_state' = IF machine_state = MS_READ_AWAITING_PAGE_ADDRESS
                        THEN MS_READ_AWAITING_BYTE_ADDRESS
                        ELSE MS_PROGRAM_AWAITING_BYTE_ADDRESS
  /\ ioregs' = w
  /\ Ordinary
  /\ UNCHANGED <<cache, data_store, deadline>>

\* Faulty: the word is not readied for data.
AcceptByteAddressWithoutPoke(w) ==
  /\ machine_state \in AwaitingByte
  /\ Accepts(w)
  /\ SetCursorByte(w.address)
  /\ machine_state' = IF machine_state = MS_READ_AWAITING_BYTE_ADDRESS
                        THEN MS_READ_AWAITING_EXECUTE
                        ELSE MS_PROGRAM_ACCEPTING_DATA
  /\ ioregs' = w
  /\ Ordinary
  /\ UNCHANGED <<cache, data_store, deadline>>

\* The last address of a program readies the word for data; the last address
\* of a read leaves the setup command in it.
AcceptByteAddress(w) ==
  /\ machine_state \in AwaitingByte
  /\ Accepts(w)
  /\ SetCursorByte(w.address)
  /\ \/ /\ machine_state = MS_READ_AWAITING_BYTE_ADDRESS
        /\ machine_state' = MS_READ_AWAITING_EXECUTE
        /\ ioregs' = w
     \/ /\ machine_state = MS_PROGRAM_AWAITING_BYTE_ADDRESS
        /\ machine_state' = MS_PROGRAM_ACCEPTING_DATA
        /\ ioregs' = DummyWord
  /\ Ordinary
  /\ UNCHANGED <<cache, data_store, deadline>>

\* Fetch the page under the cursor, for the first time or again.
ExecuteRead(w) ==
  /\ w.command = C_READ_EXECUTE
  /\ Accepts(w)
  /\ SetDeadline(ReadPageDuration)
  /\ CopyPageToCache
  /\ machine_state' = MS_READ_PROVIDING_DATA
  /\ ioregs' = DummyWord
  /\ Ordinary
  /\ UNCHANGED <<cursor, data_store>>

\* The tracee loaded from the word: give it the byte it should have seen.
ProvideByte(w, decodable) ==
  /\ machine_state = MS_READ_PROVIDING_DATA
  /\ w.command = C_DUMMY
  /\ Accepts(w)
  /\ decodable
  /\ ioregs' = [DummyWord EXCEPT !.data = GetCacheByte]
  /\ loaded' = GetCacheByte
  /\ IncrementCursor
  /\ UNCHANGED <<cache, data_store, machine_state, deadline, exited>>

\* The tracee trapped with an instruction that the emulator cannot decode:
\* error_dump() ends it, with the byte poked and the cursor not moved.
FailToDecode(w, decodable) ==
  /\ machine_state = MS_READ_PROVIDING_DATA
  /\ w.command = C_DUMMY
  /\ Accepts(w)
  /\ ~decodable
  /\ ioregs' = [DummyWord EXCEPT !.data = GetCacheByte]
  /\ exited' = TRUE
  /\ UNCHANGED <<storeVars, machine_state, deadline, loaded>>

AcceptByte(w) ==
  /\ machine_state = MS_PROGRAM_ACCEPTING_DATA
  /\ w.command = C_DUMMY
  /\ Accepts(w)
  /\ SetCacheByte(w.data)
  /\ IncrementCursorInPage
  /\ ioregs' = w
  /\ Ordinary
  /\ UNCHANGED <<data_store, machine_state, deadline>>

ExecuteProgram(w) ==
  /\ w.command = C_PROGRAM_EXECUTE
  /\ Accepts(w)
  /\ SetDeadline(WritePageDuration)
  /\ CopyPageFromCache
  /\ ClearCache
  /\ IncrementPage
  /\ ioregs' = DummyWord
  /\ Ordinary
  /\ UNCHANGED machine_state

\* Faulty: the erase command left standing.
ExecuteEraseWithoutPoke(w) ==
  /\ w.command = C_ERASE_EXECUTE
  /\ Accepts(w)
  /\ SetDeadline(EraseBlockDuration)
  /\ EraseBlock
  /\ IncrementBlock
  /\ ioregs' = w
  /\ Ordinary
  /\ UNCHANGED <<cache, machine_state>>

ExecuteErase(w) ==
  /\ w.command = C_ERASE_EXECUTE
  /\ Accepts(w)
  /\ SetDeadline(EraseBlockDuration)
  /\ EraseBlock
  /\ IncrementBlock
  /\ ioregs' = DummyWord
  /\ Ordinary
  /\ UNCHANGED <<cache, machine_state>>

\* Busy, or a command the state has no case for.
RejectAccess(w) ==
  /\ machine_state # MS_BUG
  /\ ~Accepts(w)
  /\ machine_state' = MS_BUG
  /\ ioregs' = w
  /\ Ordinary
  /\ UNCHANGED <<storeVars, deadline>>

\* Faulty: the bug state that the manual describes.
StayInBug(w) ==
  /\ machine_state = MS_BUG
  /\ ioregs' = w
  /\ Ordinary
  /\ UNCHANGED <<storeVars, machine_state, deadline>>

\* Any access in MS_BUG ends the emulator.
ExitOnBug(w) ==
  /\ machine_state = MS_BUG
  /\ exited' = TRUE
  /\ ioregs' = w
  /\ UNCHANGED <<storeVars, machine_state, deadline, loaded>>

\* handle_watchpoint_ioregisters()
HandleWatchpoint(w, decodable) ==
  /\ ~exited
  /\ \/ FirstSetup(w)
     \/ NextSetup(w)
     \/ AcceptBlockAddress(w)
     \/ AcceptPageAddress(w)
     \/ AcceptByteAddress(w)
     \/ ExecuteRead(w)
     \/ ProvideByte(w, decodable)
     \/ FailToDecode(w, decodable)
     \/ AcceptByte(w)
     \/ ExecuteProgram(w)
     \/ ExecuteErase(w)
     \/ RejectAccess(w)
     \/ ExitOnBug(w)

-----------------------------------------------------------------------------
(* What the tracee can do to the device.                                   *)

\* No store is an instruction that the emulator can decode.
StoreCommand(c) == HandleWatchpoint([ioregs EXCEPT !.command = c], FALSE)
StoreAddress(d) == HandleWatchpoint([ioregs EXCEPT !.address = d], FALSE)
StoreData(v) == HandleWatchpoint([ioregs EXCEPT !.data = v], FALSE)

LoadData(decodable) == HandleWatchpoint(ioregs, decodable)

\* handle_breakpoint_gpio_set(): pulling the reset pin resets the parser and
\* leaves storage and the word alone.  The tracer's usleep(RESET_DURATION)
\* finds the deadline already cleared.
PN_STATUS == 0
PN_RESET == 1

HandleGpioSet(pin, value) ==
  /\ ~exited
  /\ \/ pin = PN_RESET /\ value /\ ParserReset
     \/ (pin # PN_RESET \/ ~value)
          /\ UNCHANGED <<cursor, cache, deadline, machine_state>>
  /\ UNCHANGED <<data_store, ioregs, loaded, exited>>

\* handle_breakpoint_gpio_get(): what it pokes into the tracee's retval.
DEVICE_BUSY == 1
DEVICE_READY == 0

GpioGet(pin) ==
  IF pin = PN_STATUS /\ BeforeDeadline THEN DEVICE_BUSY ELSE DEVICE_READY

-----------------------------------------------------------------------------
(* What the machine's states promise, whatever the driver does.            *)

\* The device is busy only in the three states that start operations (or in
\* the bug state an impatient driver caused), so the missing busy check of
\* MS_INITIAL_STATE is harmless and those of the address states never fire.
BusyOnlyWhileWorking ==
  BeforeDeadline => machine_state \in Working \union {MS_BUG}

\* Each operation begins with a clear cursor and cache, although only one of
\* the two ways into a setup calls clear_state(): the address bytes not yet
\* given are zero, and so is every byte a program has not yet been given.
SetupStartsClean ==
  /\ machine_state \in {MS_INITIAL_STATE} \union AwaitingBlock => cursor = Origin
  /\ machine_state \in AwaitingPage \union {MS_ERASE_AWAITING_EXECUTE} =>
       cursor.page = 0 /\ cursor.byte = 0
  /\ machine_state \in AwaitingByte => cursor.byte = 0
  /\ machine_state \notin {MS_READ_PROVIDING_DATA, MS_PROGRAM_ACCEPTING_DATA,
                            MS_BUG} => cache = ZeroPage

\* The commands that may stand in the command register between accesses.
Standing(state) ==
  {c \in Command :
     \/ state \in {MS_INITIAL_STATE, MS_BUG}
     \/ c = C_READ_SETUP /\ state \in {MS_READ_AWAITING_BLOCK_ADDRESS,
                                       MS_READ_AWAITING_PAGE_ADDRESS,
                                       MS_READ_AWAITING_BYTE_ADDRESS,
                                       MS_READ_AWAITING_EXECUTE}
     \/ c = C_PROGRAM_SETUP /\ state \in {MS_PROGRAM_AWAITING_BLOCK_ADDRESS,
                                          MS_PROGRAM_AWAITING_PAGE_ADDRESS,
                                          MS_PROGRAM_AWAITING_BYTE_ADDRESS}
     \/ c = C_ERASE_SETUP /\ state \in {MS_ERASE_AWAITING_BLOCK_ADDRESS,
                                        MS_ERASE_AWAITING_EXECUTE}
     \/ c = C_DUMMY /\ state \in Working}

\* The handler cannot tell which register an access was to: it goes by what
\* stands in the command register.  No execute command ever stands there, so
\* an access to the address or data register never repeats an operation; and
\* no setup command does once data is flowing.  (The setup of an erase does
\* outlive its block address: a second address begins the erase afresh.)
CommandRegisterIsStanding == ioregs.command \in Standing(machine_state)
=============================================================================
