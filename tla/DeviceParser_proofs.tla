------------------------- MODULE DeviceParser_proofs -------------------------
(***************************************************************************)
(* What every handler of the device preserves, for any geometry and any    *)
(* durations.  These lemmas are about single handlers, so that both the    *)
(* device on its own (Tracer_proofs) and the device under the framework    *)
(* can use them.                                                           *)
(***************************************************************************)
EXTENDS DeviceParser, TLAPS

DeviceInv ==
  /\ DeviceTypeOK
  /\ BusyOnlyWhileWorking
  /\ SetupStartsClean
  /\ CommandRegisterIsStanding

-----------------------------------------------------------------------------
(* The store.                                                              *)

\* The digits are the numbers below Radix, 0 is one of them, and a successor
\* is one.
LEMMA DigitFacts ==
  /\ 0 \in Digit
  /\ \A d \in Digit : d \in Nat /\ Successor(d) \in Digit
  /\ \A d \in Nat : d + 1 < Radix => d + 1 \in Digit
  BY RadixAssumption DEF Digit, Successor

\* The blank values have the types of what they blank.
LEMMA BlankFacts ==
  /\ Origin \in Cursor
  /\ ZeroPage \in Page
  /\ ZeroBlock \in Block
  BY DigitFacts, ZeroAssumption
  DEF Origin, Cursor, ZeroPage, Page, ZeroBlock, Block

\* The three ways to move the cursor on all lead to a cursor.
LEMMA CursorMoves ==
  ASSUME NEW c \in Cursor
  PROVE  /\ NextBlock(c) \in Cursor
         /\ NextPage(c) \in Cursor
         /\ NextByte(c) \in Cursor
         /\ [c EXCEPT !.byte = Successor(@)] \in Cursor
  BY DigitFacts DEF Cursor, NextBlock, NextPage, NextByte

\* The words the handler and the tracee put into ioregisters are words.
LEMMA WordFacts ==
  /\ DummyWord \in Word
  /\ BlankWord \in Word
  /\ \A v \in Byte : [DummyWord EXCEPT !.data = v] \in Word
  /\ \A w \in Word, c \in Command : [w EXCEPT !.command = c] \in Word
  /\ \A w \in Word, d \in Digit : [w EXCEPT !.address = d] \in Word
  /\ \A w \in Word, v \in Byte : [w EXCEPT !.data = v] \in Word
  BY DigitFacts, ZeroAssumption
  DEF Word, DummyWord, BlankWord, Command, C_DUMMY, NO_COMMAND

-----------------------------------------------------------------------------
(* The handler.                                                            *)

(* One lemma for each of its cases.  A handler that leaves a variable alone *)
(* leaves its type alone; what remains is where the machine goes and what  *)
(* stands in the command register there.                                   *)

USE DEF MS_INITIAL_STATE, MS_BUG,
        MS_READ_AWAITING_BLOCK_ADDRESS, MS_READ_AWAITING_PAGE_ADDRESS,
        MS_READ_AWAITING_BYTE_ADDRESS, MS_READ_AWAITING_EXECUTE,
        MS_READ_PROVIDING_DATA, MS_PROGRAM_AWAITING_BLOCK_ADDRESS,
        MS_PROGRAM_AWAITING_PAGE_ADDRESS, MS_PROGRAM_AWAITING_BYTE_ADDRESS,
        MS_PROGRAM_ACCEPTING_DATA, MS_ERASE_AWAITING_BLOCK_ADDRESS,
        MS_ERASE_AWAITING_EXECUTE,
        AwaitingBlock, AwaitingPage, AwaitingByte, Working, MachineState

USE DEF NO_COMMAND, C_READ_SETUP, C_READ_EXECUTE, C_PROGRAM_SETUP,
        C_PROGRAM_EXECUTE, C_ERASE_SETUP, C_ERASE_EXECUTE, C_DUMMY,
        Command, Setup, Execute

\* Which commands each state waits for, and which stand while it waits.
LEMMA ExpectedFacts ==
  ASSUME NEW s \in MachineState
  PROVE  /\ s = MS_INITIAL_STATE => Expected(s) = Setup
         /\ s \in AwaitingBlock \union AwaitingPage \union AwaitingByte =>
              Expected(s) = Standing(s)
         /\ C_READ_EXECUTE \in Expected(s) =>
              s \in {MS_READ_AWAITING_EXECUTE, MS_READ_PROVIDING_DATA}
         /\ C_PROGRAM_EXECUTE \in Expected(s) => s = MS_PROGRAM_ACCEPTING_DATA
         /\ C_ERASE_EXECUTE \in Expected(s) => s = MS_ERASE_AWAITING_EXECUTE
         /\ Standing(s) \subseteq Command
  <1>1. s = MS_INITIAL_STATE => Expected(s) = Setup
    BY DEF Expected
  <1>2. s \in AwaitingBlock \union AwaitingPage \union AwaitingByte =>
          Expected(s) = Standing(s)
    BY DEF Expected, Standing
  <1>3. C_READ_EXECUTE \in Expected(s) =>
          s \in {MS_READ_AWAITING_EXECUTE, MS_READ_PROVIDING_DATA}
    BY DEF Expected
  <1>4. C_PROGRAM_EXECUTE \in Expected(s) => s = MS_PROGRAM_ACCEPTING_DATA
    BY DEF Expected
  <1>5. C_ERASE_EXECUTE \in Expected(s) => s = MS_ERASE_AWAITING_EXECUTE
    BY DEF Expected
  <1>6. Standing(s) \subseteq Command
    BY DEF Standing
  <1>7. QED
    BY <1>1, <1>2, <1>3, <1>4, <1>5, <1>6

\* A setup command leads to the state in which it is the one that stands.
LEMMA SetupFacts ==
  \A c \in Setup : /\ SetupState(c) \in AwaitingBlock
                   /\ c \in Standing(SetupState(c))
  BY DEF SetupState, Standing

\* The first setup command: the machine was clean, and nothing is touched.
LEMMA FirstSetupPreserves ==
  ASSUME DeviceInv, NEW w \in Word, FirstSetup(w)
  PROVE  DeviceInv'
  <1>1. w.command \in Setup
    BY ExpectedFacts DEF FirstSetup, Accepts
  <1>2. /\ UNCHANGED <<cursor, cache, data_store, deadline, loaded, exited>>
        /\ ioregs' = w
        /\ machine_state = MS_INITIAL_STATE
        /\ machine_state' = SetupState(w.command)
    BY DEF FirstSetup, Ordinary, storeVars
  <1>3. machine_state' \in AwaitingBlock /\ ioregs'.command \in Standing(machine_state')
    BY <1>1, <1>2, SetupFacts
  <1>4. DeviceTypeOK'
    BY <1>2, <1>3 DEF DeviceInv, DeviceTypeOK, StoreTypeOK, ParserTypeOK
  <1>5. BusyOnlyWhileWorking'
    BY <1>2, <1>3 DEF DeviceInv, BusyOnlyWhileWorking, BeforeDeadline
  <1>6. SetupStartsClean'
    BY <1>2, <1>3 DEF DeviceInv, SetupStartsClean
  <1>7. QED
    BY <1>3, <1>4, <1>5, <1>6 DEF DeviceInv, CommandRegisterIsStanding

\* A later setup command: clear_state() makes the machine clean.
LEMMA NextSetupPreserves ==
  ASSUME DeviceInv, NEW w \in Word, NextSetup(w)
  PROVE  DeviceInv'
  <1>1. /\ UNCHANGED <<data_store, loaded, exited>>
        /\ cursor' = Origin
        /\ cache' = ZeroPage
        /\ deadline' = 0
        /\ ioregs' = w
        /\ w.command \in Setup
        /\ machine_state' = SetupState(w.command)
    BY DEF NextSetup, Ordinary, ClearState, DeadlineClear, ClearCursor, ClearCache
  <1>2. machine_state' \in AwaitingBlock /\ ioregs'.command \in Standing(machine_state')
    BY <1>1, SetupFacts
  <1>3. DeviceTypeOK'
    BY <1>1, <1>2, BlankFacts
    DEF DeviceInv, DeviceTypeOK, StoreTypeOK, ParserTypeOK
  <1>4. BusyOnlyWhileWorking'
    <2>1. deadline' = 0
      BY <1>1
    <2>2. ~BeforeDeadline'
      BY <2>1 DEF BeforeDeadline
    <2>3. QED
      BY <2>2 DEF BusyOnlyWhileWorking
  <1>5. SetupStartsClean'
    BY <1>1, <1>2 DEF SetupStartsClean, Origin
  <1>6. QED
    BY <1>2, <1>3, <1>4, <1>5 DEF DeviceInv, CommandRegisterIsStanding

\* Block addresses: only the block digit of the cursor is set.
LEMMA AcceptBlockAddressPreserves ==
  ASSUME DeviceInv, NEW w \in Word, AcceptBlockAddress(w)
  PROVE  DeviceInv'
  <1>1. /\ UNCHANGED <<cache, data_store, deadline, loaded, exited>>
        /\ cursor' = [cursor EXCEPT !.block = w.address]
        /\ ioregs' = w
        /\ machine_state \in AwaitingBlock
        /\ w.command \in Standing(machine_state)
        /\ ~BeforeDeadline
    BY ExpectedFacts DEF AcceptBlockAddress, Ordinary, Accepts, SetCursorBlock
  <1>2. /\ machine_state' \in AwaitingPage \union {MS_ERASE_AWAITING_EXECUTE}
        /\ w.command \in Standing(machine_state')
    BY <1>1 DEF AcceptBlockAddress, Standing
  <1>3. cursor \in Cursor /\ cursor = Origin /\ cache = ZeroPage
    BY <1>1 DEF DeviceInv, DeviceTypeOK, StoreTypeOK, SetupStartsClean
  <1>4. cursor' \in Cursor /\ cursor'.page = 0 /\ cursor'.byte = 0
    BY <1>1, <1>3 DEF Cursor, Origin, Word
  <1>5. DeviceTypeOK'
    BY <1>1, <1>2, <1>4 DEF DeviceInv, DeviceTypeOK, StoreTypeOK, ParserTypeOK
  <1>6. BusyOnlyWhileWorking'
    BY <1>1 DEF BusyOnlyWhileWorking, BeforeDeadline
  <1>7. SetupStartsClean'
    BY <1>1, <1>2, <1>3, <1>4 DEF SetupStartsClean
  <1>8. QED
    BY <1>1, <1>2, <1>5, <1>6, <1>7 DEF DeviceInv, CommandRegisterIsStanding

\* Page addresses: the byte digit of the cursor is still 0.
LEMMA AcceptPageAddressPreserves ==
  ASSUME DeviceInv, NEW w \in Word, AcceptPageAddress(w)
  PROVE  DeviceInv'
  <1>1. /\ UNCHANGED <<cache, data_store, deadline, loaded, exited>>
        /\ cursor' = [cursor EXCEPT !.page = w.address]
        /\ ioregs' = w
        /\ machine_state \in AwaitingPage
        /\ w.command \in Standing(machine_state)
        /\ ~BeforeDeadline
    BY ExpectedFacts DEF AcceptPageAddress, Ordinary, Accepts, SetCursorPage
  <1>2. /\ machine_state' \in AwaitingByte
        /\ w.command \in Standing(machine_state')
    BY <1>1 DEF AcceptPageAddress, Standing
  <1>3. cursor \in Cursor /\ cursor.byte = 0 /\ cache = ZeroPage
    BY <1>1 DEF DeviceInv, DeviceTypeOK, StoreTypeOK, SetupStartsClean
  <1>4. cursor' \in Cursor /\ cursor'.byte = 0
    BY <1>1, <1>3 DEF Cursor, Word
  <1>5. DeviceTypeOK'
    BY <1>1, <1>2, <1>4 DEF DeviceInv, DeviceTypeOK, StoreTypeOK, ParserTypeOK
  <1>6. BusyOnlyWhileWorking'
    BY <1>1 DEF BusyOnlyWhileWorking, BeforeDeadline
  <1>7. SetupStartsClean'
    BY <1>1, <1>2, <1>3, <1>4 DEF SetupStartsClean
  <1>8. QED
    BY <1>1, <1>2, <1>5, <1>6, <1>7 DEF DeviceInv, CommandRegisterIsStanding

\* Byte addresses: the last digit; a program readies the word for data.
LEMMA AcceptByteAddressPreserves ==
  ASSUME DeviceInv, NEW w \in Word, AcceptByteAddress(w)
  PROVE  DeviceInv'
  <1>1. /\ UNCHANGED <<cache, data_store, deadline, loaded, exited>>
        /\ cursor' = [cursor EXCEPT !.byte = w.address]
        /\ machine_state \in AwaitingByte
        /\ w.command \in Standing(machine_state)
        /\ ~BeforeDeadline
    BY ExpectedFacts DEF AcceptByteAddress, Ordinary, Accepts, SetCursorByte
  <1>2. /\ machine_state' \in {MS_READ_AWAITING_EXECUTE, MS_PROGRAM_ACCEPTING_DATA}
        /\ ioregs' \in Word
        /\ ioregs'.command \in Standing(machine_state')
    <2>1. CASE machine_state = MS_READ_AWAITING_BYTE_ADDRESS
      <3>1. machine_state' = MS_READ_AWAITING_EXECUTE /\ ioregs' = w
        BY <2>1 DEF AcceptByteAddress
      <3>2. w.command = C_READ_SETUP
        BY <1>1, <2>1 DEF Standing
      <3>3. QED
        BY <3>1, <3>2 DEF Standing
    <2>2. CASE machine_state = MS_PROGRAM_AWAITING_BYTE_ADDRESS
      <3>1. machine_state' = MS_PROGRAM_ACCEPTING_DATA /\ ioregs' = DummyWord
        BY <2>2 DEF AcceptByteAddress
      <3>2. QED
        BY <3>1, WordFacts DEF Standing, DummyWord
    <2>3. QED
      BY <1>1, <2>1, <2>2
  <1>3. cursor \in Cursor /\ cache = ZeroPage
    BY <1>1 DEF DeviceInv, DeviceTypeOK, StoreTypeOK, SetupStartsClean
  <1>4. cursor' \in Cursor
    BY <1>1, <1>3 DEF Cursor, Word
  <1>5. DeviceTypeOK'
    BY <1>1, <1>2, <1>4 DEF DeviceInv, DeviceTypeOK, StoreTypeOK, ParserTypeOK
  <1>6. BusyOnlyWhileWorking'
    BY <1>1 DEF BusyOnlyWhileWorking, BeforeDeadline
  <1>7. SetupStartsClean'
    BY <1>1, <1>2, <1>3 DEF SetupStartsClean
  <1>8. QED
    BY <1>2, <1>5, <1>6, <1>7 DEF DeviceInv, CommandRegisterIsStanding

\* The commands that start operations: busy, but in a state that may be.
LEMMA ExecuteReadPreserves ==
  ASSUME DeviceInv, NEW w \in Word, ExecuteRead(w)
  PROVE  DeviceInv'
  <1>1. /\ UNCHANGED <<cursor, data_store, loaded, exited>>
        /\ cache' = data_store[cursor.block][cursor.page]
        /\ machine_state' = MS_READ_PROVIDING_DATA
        /\ deadline' = ReadPageDuration
        /\ ioregs' = DummyWord
    BY DEF ExecuteRead, Ordinary, SetDeadline, CopyPageToCache, PageAt
  <1>2. cache' \in Page /\ deadline' \in Nat
    BY <1>1, DurationAssumption
    DEF DeviceInv, DeviceTypeOK, StoreTypeOK, Block, Cursor
  <1>3. DeviceTypeOK'
    BY <1>1, <1>2, WordFacts
    DEF DeviceInv, DeviceTypeOK, StoreTypeOK, ParserTypeOK
  <1>4. BusyOnlyWhileWorking'
    BY <1>1 DEF BusyOnlyWhileWorking
  <1>5. SetupStartsClean'
    BY <1>1 DEF SetupStartsClean
  <1>6. CommandRegisterIsStanding'
    BY <1>1 DEF CommandRegisterIsStanding, Standing, DummyWord
  <1>7. QED
    BY <1>3, <1>4, <1>5, <1>6 DEF DeviceInv

LEMMA ExecuteProgramPreserves ==
  ASSUME DeviceInv, NEW w \in Word, ExecuteProgram(w)
  PROVE  DeviceInv'
  <1>1. /\ UNCHANGED <<machine_state, loaded, exited>>
        /\ cursor' = NextPage(cursor)
        /\ cache' = ZeroPage
        /\ data_store' = [data_store EXCEPT ![cursor.block][cursor.page] = cache]
        /\ deadline' = WritePageDuration
        /\ ioregs' = DummyWord
    BY DEF ExecuteProgram, Ordinary, SetDeadline, CopyPageFromCache, ClearCache,
           IncrementPage
  <1>2. machine_state = MS_PROGRAM_ACCEPTING_DATA
    BY ExpectedFacts
    DEF ExecuteProgram, Accepts, DeviceInv, DeviceTypeOK, ParserTypeOK
  <1>3. deadline' \in Nat
    BY <1>1, DurationAssumption
  <1>4. data_store' \in [Digit -> Block]
    BY <1>1 DEF DeviceInv, DeviceTypeOK, StoreTypeOK, Block, Cursor
  <1>5. DeviceTypeOK'
    BY <1>1, <1>3, <1>4, WordFacts, BlankFacts, CursorMoves
    DEF DeviceInv, DeviceTypeOK, StoreTypeOK, ParserTypeOK
  <1>6. BusyOnlyWhileWorking'
    BY <1>1, <1>2 DEF BusyOnlyWhileWorking
  <1>7. SetupStartsClean'
    BY <1>1, <1>2 DEF SetupStartsClean
  <1>8. CommandRegisterIsStanding'
    BY <1>1, <1>2 DEF CommandRegisterIsStanding, Standing, DummyWord
  <1>9. QED
    BY <1>5, <1>6, <1>7, <1>8 DEF DeviceInv

LEMMA ExecuteErasePreserves ==
  ASSUME DeviceInv, NEW w \in Word, ExecuteErase(w)
  PROVE  DeviceInv'
  <1>1. /\ UNCHANGED <<machine_state, cache, loaded, exited>>
        /\ cursor' = NextBlock(cursor)
        /\ data_store' = [data_store EXCEPT ![cursor.block] = ZeroBlock]
        /\ deadline' = EraseBlockDuration
        /\ ioregs' = DummyWord
    BY DEF ExecuteErase, Ordinary, SetDeadline, EraseBlock, IncrementBlock
  <1>2. machine_state = MS_ERASE_AWAITING_EXECUTE
    BY ExpectedFacts
    DEF ExecuteErase, Accepts, DeviceInv, DeviceTypeOK, ParserTypeOK
  <1>3. deadline' \in Nat
    BY <1>1, DurationAssumption
  <1>4. data_store' \in [Digit -> Block]
    BY <1>1, BlankFacts DEF DeviceInv, DeviceTypeOK, StoreTypeOK, Cursor
  <1>5. DeviceTypeOK'
    BY <1>1, <1>3, <1>4, WordFacts, CursorMoves
    DEF DeviceInv, DeviceTypeOK, StoreTypeOK, ParserTypeOK
  <1>6. BusyOnlyWhileWorking'
    BY <1>1, <1>2 DEF BusyOnlyWhileWorking
  <1>7. SetupStartsClean'
    BY <1>1, <1>2 DEF SetupStartsClean, NextBlock, DeviceInv
  <1>8. CommandRegisterIsStanding'
    BY <1>1, <1>2 DEF CommandRegisterIsStanding, Standing, DummyWord
  <1>9. QED
    BY <1>5, <1>6, <1>7, <1>8 DEF DeviceInv

\* Data out: the word holds a byte of the cache, and the cursor moves on.
LEMMA ProvideBytePreserves ==
  ASSUME DeviceInv, NEW w \in Word, NEW decodable, ProvideByte(w, decodable)
  PROVE  DeviceInv'
  <1>1. /\ UNCHANGED <<cache, data_store, machine_state, deadline, exited>>
        /\ machine_state = MS_READ_PROVIDING_DATA
        /\ cursor' = NextByte(cursor)
        /\ ioregs' = [DummyWord EXCEPT !.data = cache[cursor.byte]]
        /\ loaded' = cache[cursor.byte]
    BY DEF ProvideByte, GetCacheByte, IncrementCursor
  <1>2. cache[cursor.byte] \in Byte
    BY DEF DeviceInv, DeviceTypeOK, StoreTypeOK, Page, Cursor
  <1>3. DeviceTypeOK'
    BY <1>1, <1>2, WordFacts, CursorMoves
    DEF DeviceInv, DeviceTypeOK, StoreTypeOK, ParserTypeOK
  <1>4. BusyOnlyWhileWorking'
    BY <1>1 DEF BusyOnlyWhileWorking
  <1>5. SetupStartsClean'
    BY <1>1 DEF SetupStartsClean
  <1>6. CommandRegisterIsStanding'
    BY <1>1 DEF CommandRegisterIsStanding, Standing, DummyWord
  <1>7. QED
    BY <1>3, <1>4, <1>5, <1>6 DEF DeviceInv

LEMMA FailToDecodePreserves ==
  ASSUME DeviceInv, NEW w \in Word, NEW decodable, FailToDecode(w, decodable)
  PROVE  DeviceInv'
  <1>1. /\ UNCHANGED <<cursor, cache, data_store, machine_state, deadline, loaded>>
        /\ machine_state = MS_READ_PROVIDING_DATA
        /\ ioregs' = [DummyWord EXCEPT !.data = cache[cursor.byte]]
        /\ exited' = TRUE
    BY DEF FailToDecode, GetCacheByte, storeVars
  <1>2. cache[cursor.byte] \in Byte
    BY DEF DeviceInv, DeviceTypeOK, StoreTypeOK, Page, Cursor
  <1>3. DeviceTypeOK'
    BY <1>1, <1>2, WordFacts
    DEF DeviceInv, DeviceTypeOK, StoreTypeOK, ParserTypeOK
  <1>4. BusyOnlyWhileWorking'
    BY <1>1 DEF BusyOnlyWhileWorking
  <1>5. SetupStartsClean'
    BY <1>1 DEF SetupStartsClean
  <1>6. CommandRegisterIsStanding'
    BY <1>1 DEF CommandRegisterIsStanding, Standing, DummyWord
  <1>7. QED
    BY <1>3, <1>4, <1>5, <1>6 DEF DeviceInv

\* Data in: one byte of the cache changes, and the cursor stays in its page.
LEMMA AcceptBytePreserves ==
  ASSUME DeviceInv, NEW w \in Word, AcceptByte(w)
  PROVE  DeviceInv'
  <1>1. /\ UNCHANGED <<data_store, machine_state, deadline, loaded, exited>>
        /\ machine_state = MS_PROGRAM_ACCEPTING_DATA
        /\ cache' = [cache EXCEPT ![cursor.byte] = w.data]
        /\ cursor' = [cursor EXCEPT !.byte = Successor(@)]
        /\ ioregs' = w
        /\ w.command = C_DUMMY
    BY DEF AcceptByte, Ordinary, SetCacheByte, IncrementCursorInPage
  <1>2. cache' \in Page
    BY <1>1 DEF DeviceInv, DeviceTypeOK, StoreTypeOK, Page, Word
  <1>3. cursor' \in Cursor
    BY <1>1, CursorMoves DEF DeviceInv, DeviceTypeOK, StoreTypeOK
  <1>4. DeviceTypeOK'
    BY <1>1, <1>2, <1>3 DEF DeviceInv, DeviceTypeOK, StoreTypeOK, ParserTypeOK
  <1>5. BusyOnlyWhileWorking'
    BY <1>1 DEF BusyOnlyWhileWorking
  <1>6. SetupStartsClean'
    BY <1>1 DEF SetupStartsClean
  <1>7. CommandRegisterIsStanding'
    BY <1>1 DEF CommandRegisterIsStanding, Standing
  <1>8. QED
    BY <1>4, <1>5, <1>6, <1>7 DEF DeviceInv

\* The bug state promises nothing but types: anything may stand there.
LEMMA RejectAccessPreserves ==
  ASSUME DeviceInv, NEW w \in Word, RejectAccess(w)
  PROVE  DeviceInv'
  BY DEF RejectAccess, Ordinary, storeVars, DeviceInv, DeviceTypeOK, StoreTypeOK,
         ParserTypeOK, BusyOnlyWhileWorking, SetupStartsClean,
         CommandRegisterIsStanding, Standing, Word

LEMMA ExitOnBugPreserves ==
  ASSUME DeviceInv, NEW w \in Word, ExitOnBug(w)
  PROVE  DeviceInv'
  BY DEF ExitOnBug, storeVars, DeviceInv, DeviceTypeOK, StoreTypeOK,
         ParserTypeOK, BusyOnlyWhileWorking, SetupStartsClean,
         CommandRegisterIsStanding, Standing, Word

\* handle_watchpoint_ioregisters() as a whole, whatever the access was.
LEMMA HandleWatchpointPreserves ==
  ASSUME DeviceInv, NEW w \in Word, NEW decodable, HandleWatchpoint(w, decodable)
  PROVE  DeviceInv'
  BY FirstSetupPreserves, NextSetupPreserves, AcceptBlockAddressPreserves,
     AcceptPageAddressPreserves, AcceptByteAddressPreserves,
     ExecuteReadPreserves, ProvideBytePreserves, FailToDecodePreserves,
     AcceptBytePreserves, ExecuteProgramPreserves, ExecuteErasePreserves,
     RejectAccessPreserves, ExitOnBugPreserves
  DEF HandleWatchpoint

\* gpio_set() with either pin: a reset, or nothing.
LEMMA HandleGpioSetPreserves ==
  ASSUME DeviceInv, NEW pin, NEW value, HandleGpioSet(pin, value)
  PROVE  DeviceInv'
  <1>1. UNCHANGED <<data_store, ioregs, loaded, exited>>
    BY DEF HandleGpioSet
  <1>2. CASE UNCHANGED <<cursor, cache, deadline, machine_state>>
    BY <1>1, <1>2 DEF DeviceInv, DeviceTypeOK, StoreTypeOK, ParserTypeOK,
      BusyOnlyWhileWorking, BeforeDeadline, SetupStartsClean,
      CommandRegisterIsStanding
  <1>3. CASE ParserReset
    <2>1. /\ cursor' = Origin
          /\ cache' = ZeroPage
          /\ deadline' = 0
          /\ machine_state' = MS_INITIAL_STATE
      BY <1>3 DEF ParserReset, ClearState, DeadlineClear, ClearCursor, ClearCache
    <2>2. DeviceTypeOK'
      BY <1>1, <2>1, BlankFacts
      DEF DeviceInv, DeviceTypeOK, StoreTypeOK, ParserTypeOK
    <2>3. BusyOnlyWhileWorking'
      <3>1. deadline' = 0
        BY <2>1
      <3>2. ~BeforeDeadline'
        BY <3>1 DEF BeforeDeadline
      <3>3. QED
        BY <3>2 DEF BusyOnlyWhileWorking
    <2>4. SetupStartsClean'
      BY <2>1 DEF SetupStartsClean
    <2>5. CommandRegisterIsStanding'
      BY <1>1, <2>1
      DEF CommandRegisterIsStanding, Standing, DeviceInv, DeviceTypeOK,
          ParserTypeOK, Word
    <2>6. QED
      BY <2>2, <2>3, <2>4, <2>5 DEF DeviceInv
  <1>4. QED
    BY <1>2, <1>3 DEF HandleGpioSet

\* Time makes the device ready and disturbs nothing else.
LEMMA DeadlinePassesPreserves ==
  ASSUME DeviceInv, DeadlinePasses,
         UNCHANGED <<storeVars, machine_state, ioregs, loaded, exited>>
  PROVE  DeviceInv' /\ (BeforeDeadline' => BeforeDeadline)
  <1>1. deadline \in Nat
    BY DEF DeviceInv, DeviceTypeOK, ParserTypeOK
  <1>2. deadline' \in Nat /\ (BeforeDeadline' => BeforeDeadline)
    BY <1>1 DEF DeadlinePasses, BeforeDeadline
  <1>3. QED
    BY <1>2 DEF storeVars, DeviceInv, DeviceTypeOK, StoreTypeOK, ParserTypeOK,
      BusyOnlyWhileWorking, SetupStartsClean, CommandRegisterIsStanding

\* The device starts clean, ready and with a blank word.
LEMMA ParserInitEstablishes ==
  ASSUME ParserInit
  PROVE  DeviceInv
  <1>1. DeviceTypeOK
    BY BlankFacts, WordFacts, ZeroAssumption
    DEF ParserInit, StoreInit, DeviceTypeOK, StoreTypeOK, ParserTypeOK
  <1>2. ~BeforeDeadline
    BY DEF ParserInit, BeforeDeadline
  <1>3. SetupStartsClean /\ CommandRegisterIsStanding
    BY <1>1 DEF ParserInit, StoreInit, SetupStartsClean, DeviceTypeOK,
      ParserTypeOK, CommandRegisterIsStanding, Standing, Word
  <1>4. QED
    BY <1>1, <1>2, <1>3 DEF DeviceInv, BusyOnlyWhileWorking

-----------------------------------------------------------------------------
(* A busy device.                                                          *)

\* A busy device accepts nothing: the only state that does not look at the
\* deadline is one in which there is none.
LEMMA BusyAcceptsNothing ==
  ASSUME DeviceInv, BeforeDeadline, NEW w
  PROVE  ~Accepts(w)
  BY DEF DeviceInv, BusyOnlyWhileWorking, Accepts

\* A handler that changes storage finds the device ready and leaves it busy.
LEMMA StorageChangesStartOperations ==
  ASSUME DeviceInv, NEW w \in Word, NEW decodable, HandleWatchpoint(w, decodable),
         data_store' # data_store
  PROVE  ~BeforeDeadline /\ BeforeDeadline'
  <1>1. ExecuteProgram(w) \/ ExecuteErase(w)
    BY DEF HandleWatchpoint, FirstSetup, NextSetup, AcceptBlockAddress,
           AcceptPageAddress, AcceptByteAddress, ExecuteRead, ProvideByte,
           FailToDecode, AcceptByte, RejectAccess, ExitOnBug, storeVars
  <1>2. ~BeforeDeadline
    BY <1>1, BusyAcceptsNothing DEF ExecuteProgram, ExecuteErase
  <1>3. deadline' \in {WritePageDuration, EraseBlockDuration}
    BY <1>1 DEF ExecuteProgram, ExecuteErase, SetDeadline
  <1>4. deadline' \in Nat \ {0}
    BY <1>3, DurationAssumption
  <1>5. BeforeDeadline'
    BY <1>4 DEF BeforeDeadline
  <1>6. QED
    BY <1>2, <1>5

\* A handler that finds the device busy touches neither cursor, cache nor
\* storage.
LEMMA BusyHandlerKeepsStore ==
  ASSUME DeviceInv, NEW w \in Word, NEW decodable, HandleWatchpoint(w, decodable),
         BeforeDeadline
  PROVE  UNCHANGED storeVars
  <1>1. RejectAccess(w) \/ ExitOnBug(w)
    BY BusyAcceptsNothing
    DEF HandleWatchpoint, FirstSetup, NextSetup, AcceptBlockAddress,
        AcceptPageAddress, AcceptByteAddress, ExecuteRead, ProvideByte,
        FailToDecode, AcceptByte, ExecuteProgram, ExecuteErase
  <1>2. QED
    BY <1>1 DEF RejectAccess, ExitOnBug
=============================================================================
