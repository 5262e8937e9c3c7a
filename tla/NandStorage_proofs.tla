--------------------------- MODULE NandStorage_proofs ---------------------------
(***************************************************************************)
(* What the jump-table framework, an alpha driver and the device do        *)
(* together for their caller: storage holds what was written, a read gives *)
(* it back, and the flaws of alpha_4, alpha_5 and alpha_6 come to what the *)
(* manual says of them.  Like NandSystem_proofs, on which it rests, this   *)
(* is for storage of any size and any calls within the tester's arena.     *)
(***************************************************************************)
EXTENDS NandSystem_proofs

USE DEF MS_INITIAL_STATE, MS_BUG,
        MS_READ_AWAITING_BLOCK_ADDRESS, MS_READ_AWAITING_PAGE_ADDRESS,
        MS_READ_AWAITING_BYTE_ADDRESS, MS_READ_AWAITING_EXECUTE,
        MS_READ_PROVIDING_DATA, MS_PROGRAM_AWAITING_BLOCK_ADDRESS,
        MS_PROGRAM_AWAITING_PAGE_ADDRESS, MS_PROGRAM_AWAITING_BYTE_ADDRESS,
        MS_PROGRAM_ACCEPTING_DATA, MS_ERASE_AWAITING_BLOCK_ADDRESS,
        MS_ERASE_AWAITING_EXECUTE, Working

USE DEF Waiting, Waited

-----------------------------------------------------------------------------
(* The inductive invariant.                                                *)

\* What the framework counts down: bytes, or the blocks of an erase.
LengthOf(r) == IF r.op = "erase" THEN BlocksToErase(r.offset, r.size) ELSE r.size

\* The offset that a call has come to: what comes before it has been written or
\* read.
Position == req.offset + (req.size - left)

\* Steps after which the operation of the current page or block is done.
Executed == pc \in Waiting \union Waited

\* The framework's variables for the next transfer and for this one.
ChunksFollowPages ==
  /\ pc # "idle" => left <= LengthOf(req)
  /\ pc = "idle" /\ rc = 0 => left = 0
  /\ pc \in {"setup", "block", "page", "byte"} => left = LengthOf(req)
  /\ req.op # "erase" => left = 0 \/ left = req.size \/ ByteOf(Position) = 0
  /\ \/ req.op # "erase" /\ pc \in {"setup", "block", "page", "byte", "loop"}
     \/ req.op = "read" /\ (pc = "execute" \/ Executed)
     => left = 0 \/ byte_addr = ByteOf(Position)
  /\ \/ pc = "transfer"
     \/ req.op = "write" /\ (pc = "execute" \/ Executed)
     => chunk = ChunkSize(left, ByteOf(Position)) /\ byte_addr = 0

\* The first offset of a write or an erase that is still to be done.
Frontier ==
  IF req.op = "write"
    THEN IF left = 0 THEN RegionEnd(req) + 1
         ELSE PageStart(Position) + (IF Executed THEN Radix ELSE 0)
    ELSE RegionEnd(req) + 1 - left * BlockSize + (IF Executed THEN BlockSize ELSE 0)

\* The offset of the byte that the device has come to when a page of a read is
\* begun: alpha_4 does not take them all.
DevicePosition ==
  IF driver = "alpha_4" THEN req.offset + TakenBefore(req, req.size - left)
  ELSE Position

CursorInPlace ==
  machine_state # MS_BUG =>
    /\ pc \in {"page", "byte"} => cursor.block = BlockOf(req.offset)
    /\ pc = "byte" => cursor.page = PageOf(req.offset)
    /\ req.op = "erase" /\ (pc \in {"loop", "execute"} \/ Executed) =>
         cursor.block = BlockOf(Frontier)
    /\ req.op = "read" =>
         /\ pc \in {"loop", "execute"} \/ Executed =>
              left = 0 \/ cursor = CursorAt(DevicePosition)
         /\ pc = "transfer" => cursor = CursorAt(DevicePosition + (chunk - count))
    /\ req.op = "write" =>
         /\ pc = "loop" => left = 0 \/ cursor = CursorAt(Position)
         /\ pc \in {"transfer", "execute"} =>
              /\ cursor.block = BlockOf(Position)
              /\ cursor.page = PageOf(Position)
              /\ pc = "transfer" /\ count > 0 =>
                   cursor.byte = ByteOf(Position) + (chunk - count)
         /\ Executed => cursor = CursorAt(PageStart(Position) + Radix)

\* What the device's cache holds: the page being read, or as much as the driver
\* has sent of the page being written.
CacheInPlace ==
  /\ req.op = "read" /\ (Executed \/ pc = "transfer") =>
       cache = data_store[BlockOf(DevicePosition)][PageOf(DevicePosition)]
  /\ req.op = "write" /\ (pc = "loop" \/ Executed) => cache = ZeroPage
  /\ req.op = "write" /\ pc \in {"transfer", "execute"} =>
       \A b \in Digit :
         cache[b] = IF b \in ByteOf(Position) ..
                             (ByteOf(Position) + (chunk - count) - 1)
                      THEN req.data[req.size - left + (b - ByteOf(Position))]
                      ELSE Zero

\* The offsets at which storage may differ from the answer key: those that the
\* call in progress has yet to come to, or, after a call that has failed, all of
\* the arena.
Unsettled ==
  CASE pc = "idle" /\ rc = 0 -> {}
    [] pc = "idle" /\ rc # 0 -> RegionStart(ArenaErase) .. RegionEnd(ArenaErase)
    [] pc # "idle" /\ req.op = "read" -> {}
    [] OTHER -> Frontier .. RegionEnd(req)

Settled ==
  \A a \in StorageAddress :
    (\A x \in Unsettled : Wrap(x) # a) => Stored(a) = mirror[a]

\* Whose byte a driver puts at an index of the caller's buffer.
Source(i) ==
  IF driver = "alpha_6" THEN FirstInPage(req, i) + LastInPage(req, i) - i ELSE i

\* The indices of the caller's buffer that have been filled.
Filled(i) ==
  \/ i < req.size - left
  \/ pc = "transfer" /\ count >= 0 /\
       IF driver = "alpha_6"
         THEN req.size - left + count <= i /\ i < req.size - left + chunk
         ELSE i < BufferIndex

\* The bytes in the caller's buffer, but for alpha_4's, are the right ones.
BytesAreRight ==
  driver # "alpha_4" =>
    \A i \in 0 .. (req.size - 1) :
      Filled(i) => buffer[i] = mirror[Wrap(req.offset + Source(i))]

\* What alpha_5 has come to the end of.
OnlyWholeBurstsSoFar ==
  driver = "alpha_5" =>
    \A i \in 0 .. (req.size - left - 1) :
      (LastInPage(req, i) - FirstInPage(req, i) + 1) % Burst = 0

\* What alpha_4 has come to the end of, and where it stops in a page.
WholeBurstsSoFar ==
  driver = "alpha_4" =>
    /\ pc = "transfer" => chunk - count <= WholeBursts
    /\ \A i \in 0 .. (req.size - 1) :
         buffer[i] = IF Filled(i) /\ TakenByAlpha4(req, i)
                       THEN mirror[Wrap(SourceOfAlpha4(req, i))] ELSE Junk

BufferFollows ==
  /\ req.op # "read" => buffer = <<>>
  /\ req.op = "read" /\ rc = 0 =>
       /\ buffer \in [0 .. (req.size - 1) -> Byte \union {Junk}]
       /\ BytesAreRight
       /\ OnlyWholeBurstsSoFar
       /\ WholeBurstsSoFar

StorageInv ==
  /\ ChunksFollowPages
  /\ CursorInPlace
  /\ CacheInPlace
  /\ MirrorHasEffect
  /\ Settled
  /\ BufferFollows

-----------------------------------------------------------------------------
(* The arithmetic of chunks.                                               *)

\* A chunk stays in its page, and ends the page if it does not end the data.
LEMMA ChunkFacts ==
  ASSUME NEW x \in Nat, NEW n \in Nat \ {0}, NEW c, c = ChunkSize(n, ByteOf(x))
  PROVE  /\ c \in 1 .. Radix /\ c <= n
         /\ PageStart(x) <= x /\ x + c <= PageStart(x) + Radix
         /\ c < n => x + c = PageStart(x) + Radix
         /\ c = n => PageEnd(x + n - 1) = PageStart(x) + Radix - 1
  <1>1. /\ ByteOf(x) \in Digit /\ x = PageStart(x) + ByteOf(x)
        /\ PageStart(x) \in Nat
    BY DigitsOfOffset
  <1>2. c \in 1 .. Radix /\ c <= n /\ ByteOf(x) + c <= Radix
    BY <1>1, ChunkFits
  <1>3. c < n => ByteOf(x) + c = Radix
    BY <1>1, <1>2, RadixAssumption DEF ChunkSize, Digit
  <1>4. PageStart(x) <= x /\ x + c <= PageStart(x) + Radix
    BY <1>1, <1>2, RadixAssumption DEF Digit
  <1>5. c < n => x + c = PageStart(x) + Radix
    BY <1>1, <1>2, <1>3, RadixAssumption DEF Digit
  <1>6. ASSUME c = n
        PROVE  PageEnd(x + n - 1) = PageStart(x) + Radix - 1
    <2> DEFINE y == x + n - 1
    <2>1. y \in Nat /\ PageStart(x) <= y /\ y < PageStart(x) + Radix
      BY <1>1, <1>2, <1>4, <1>6, RadixAssumption
    <2> HIDE DEF y
    <2>2. PageStart(y) = PageStart(x)
      BY <2>1, InPage
    <2>3. QED
      BY <2>2 DEF PageEnd, y
  <1>7. QED
    BY <1>2, <1>4, <1>5, <1>6

\* The whole bursts of a chunk.
LEMMA BurstFacts ==
  ASSUME NEW n \in Nat
  PROVE  /\ (n \div Burst) * Burst \in Nat
         /\ (n \div Burst) * Burst <= n
         /\ n % Burst \in Nat /\ n % Burst < Burst
         /\ n = (n \div Burst) * Burst + (n % Burst)
  <1>1. Burst \in Nat \ {0}
    BY BurstAssumption
  <1>2. /\ n \div Burst \in Nat /\ n % Burst \in 0 .. (Burst - 1)
        /\ n = Burst * (n \div Burst) + (n % Burst)
    BY <1>1, DivMod
  <1> DEFINE q == n \div Burst
  <1> HIDE DEF q
  <1>3. q * Burst \in Nat /\ q * Burst = Burst * q
    BY <1>1, <1>2 DEF q
  <1>4. QED
    BY <1>1, <1>2, <1>3 DEF q

\* How far a call has come, as an offset.
LEMMA PositionFacts ==
  ASSUME SystemInv, pc # "idle", req.op # "erase"
  PROVE  /\ req \in Requests /\ left \in Nat /\ req.size \in Nat \ {0} /\ left <= req.size
         /\ Position \in Nat /\ req.offset \in Nat /\ req.offset <= Position
         /\ Position + left = req.offset + req.size
         /\ left = req.size => Position = req.offset
  <1>1. /\ req \in Requests /\ left \in Nat /\ left <= req.size
        /\ req.offset \in Nat /\ req.size \in Nat \ {0}
    BY RequestFacts DEF SystemInv, StepsOfOperation, TypeOK, Arithmetic
  <1>2. QED
    BY <1>1 DEF Position

\* The blocks that an erase has still to do are the last of its region.
LEMMA EraseFacts ==
  ASSUME NEW r \in Requests, r.op = "erase"
  PROVE  /\ LengthOf(r) \in Nat \ {0}
         /\ RegionEnd(r) + 1 - LengthOf(r) * BlockSize = BlockStart(r.offset)
         /\ RegionStart(r) = BlockStart(r.offset)
         /\ RegionEnd(r) + 1 - LengthOf(r) * BlockSize = RegionStart(r)
  <1>1. r.offset \in Nat /\ r.size \in Nat \ {0}
    BY RequestFacts
  <1> DEFINE n == BlocksToErase(r.offset, r.size)
  <1>2. /\ n \in Nat \ {0}
        /\ BlockEnd(r.offset + r.size - 1) + 1 = BlockStart(r.offset) + n * BlockSize
    BY <1>1, BlocksCoverRegion
  <1>3. BlockStart(r.offset) \in Nat /\ RegionEnd(r) \in Int
    BY <1>1, DigitsOfOffset, RegionFacts
  <1>4. n * BlockSize \in Nat
    BY <1>2, SizesArePositive
  <1>5. LengthOf(r) = n
    BY DEF LengthOf
  <1>6. /\ RegionStart(r) = BlockStart(r.offset)
        /\ RegionEnd(r) = BlockEnd(r.offset + r.size - 1)
    BY DEF RegionStart, RegionEnd
  <1> HIDE DEF n
  <1>7. QED
    BY <1>2, <1>3, <1>4, <1>5, <1>6

-----------------------------------------------------------------------------
(* The steps.  Each lemma also takes what SystemInv says before and after. *)

\* What all of them leave alone but the one that the step is about.
LEMMA QuietStepKeeps ==
  ASSUME StorageInv,
         UNCHANGED <<driver, req, buffer, rc, left, byte_addr, chunk, count, mirror,
                     cursor, cache, data_store, machine_state>>,
         pc' = pc \/ (Executed /\ Executed')
  PROVE  StorageInv'
  <1>1. /\ Position' = Position /\ Executed' = Executed
        /\ DevicePosition' = DevicePosition
    BY DEF Position, Executed, DevicePosition, TakenBefore, LastInPage
  <1>2. Frontier' = Frontier
    BY <1>1 DEF Frontier
  <1>3. ChunksFollowPages'
    BY <1>1 DEF StorageInv, ChunksFollowPages, Executed
  <1>4. CursorInPlace'
    BY <1>1, <1>2 DEF StorageInv, CursorInPlace, Executed
  <1>5. CacheInPlace'
    BY <1>1 DEF StorageInv, CacheInPlace, Executed
  <1>6. MirrorHasEffect'
    BY DEF StorageInv, MirrorHasEffect, Executed
  <1>7. Settled'
    <2>1. Unsettled' = Unsettled
      BY <1>2 DEF Unsettled, Executed
    <2>2. QED
      BY <2>1 DEF StorageInv, Settled, Stored
  <1>8. BufferFollows'
    <2>1. \A i : Filled(i)' = Filled(i) /\ Source(i)' = Source(i)
      BY DEF Filled, Source, BufferIndex, Executed
    <2>2. WholeBursts' = WholeBursts
      BY DEF WholeBursts
    <2>3. (pc' = "transfer") = (pc = "transfer")
      BY DEF Executed
    <2>4. QED
      BY <2>1, <2>2, <2>3
      DEF StorageInv, BufferFollows, BytesAreRight, OnlyWholeBurstsSoFar,
          WholeBurstsSoFar
  <1>9. QED
    BY <1>3, <1>4, <1>5, <1>6, <1>7, <1>8 DEF StorageInv

\* A step that neither transfers a byte nor comes to another page, and leaves
\* storage as it is, has no more to show than where the cursor and the cache are.
LEMMA SmallStepKeeps ==
  ASSUME SystemInv, StorageInv,
         UNCHANGED <<driver, req, buffer, rc, left, byte_addr, chunk, count, mirror,
                     data_store>>,
         \/ pc \in {"setup", "block", "page", "byte"} /\
              pc' \in {"block", "page", "byte", "loop"}
         \/ pc = "loop" /\ pc' = "execute" /\ req.op # "write"
  PROVE  /\ ChunksFollowPages' /\ MirrorHasEffect' /\ Settled' /\ BufferFollows'
         /\ Position' = Position /\ ~Executed' /\ ~Executed
         /\ Frontier' = Frontier /\ DevicePosition' = DevicePosition
  <1>1. /\ Position' = Position /\ ~Executed' /\ ~Executed
        /\ DevicePosition' = DevicePosition
    BY DEF Position, Executed, DevicePosition, TakenBefore, LastInPage
  <1>2. Frontier' = Frontier
    BY <1>1 DEF Frontier
  <1>3. ChunksFollowPages'
    BY <1>1 DEF StorageInv, ChunksFollowPages
  <1>4. MirrorHasEffect'
    BY DEF StorageInv, MirrorHasEffect
  <1>5. Settled'
    <2>1. Unsettled' = Unsettled
      BY <1>2 DEF Unsettled
    <2>2. QED
      BY <2>1 DEF StorageInv, Settled, Stored
  <1>6. BufferFollows'
    <2>1. \A i : Filled(i)' = Filled(i) /\ Source(i)' = Source(i)
      BY DEF Filled, Source, BufferIndex
    <2>2. QED
      BY <2>1
      DEF StorageInv, BufferFollows, BytesAreRight, OnlyWholeBurstsSoFar,
          WholeBurstsSoFar
  <1>7. QED
    BY <1>1, <1>2, <1>3, <1>4, <1>5, <1>6

LEMMA SetUpKeeps ==
  ASSUME SystemInv, StorageInv, SetUp, Inside
  PROVE  StorageInv'
  <1>1. /\ pc = "setup" /\ pc' = "block"
        /\ UNCHANGED <<driver, req, buffer, rc, left, byte_addr, chunk, count, mirror>>
    BY AccessStep DEF SetUp, StepName
  <1>2. StoreCommand(SetupCommand(req.op)) /\ req.op \in Operation
    BY <1>1, RequestFacts DEF SetUp, SystemInv, StepsOfOperation
  <1>3. UNCHANGED data_store
    <2>1. machine_state # MS_BUG
      BY <1>1 DEF SystemInv, BugIsAlpha3s
    <2>2. CASE BeforeDeadline
      BY <1>2, <2>1, <2>2, CommandsOfOperation, BusySetupIsABug DEF SystemInv
    <2>3. CASE ~BeforeDeadline
      <3>1. AtRest
        BY <1>1, <2>1, <2>3 DEF AtRest, SystemInv, DriverKnowsDevice
      <3>2. QED
        BY <1>2, <3>1, SetupIsAccepted DEF SystemInv
    <2>4. QED
      BY <2>2, <2>3
  <1>4. /\ ChunksFollowPages' /\ MirrorHasEffect' /\ Settled' /\ BufferFollows'
        /\ ~Executed'
    BY <1>1, <1>3, SmallStepKeeps
  <1>5. CursorInPlace' /\ CacheInPlace'
    BY <1>1, <1>4 DEF CursorInPlace, CacheInPlace
  <1>6. QED
    BY <1>4, <1>5 DEF StorageInv

LEMMA GiveBlockAddressKeeps ==
  ASSUME SystemInv, StorageInv, GiveBlockAddress, Inside
  PROVE  StorageInv'
  <1>1. /\ pc = "block" /\ pc' = IF req.op = "erase" THEN "loop" ELSE "page"
        /\ UNCHANGED <<driver, req, buffer, rc, left, byte_addr, chunk, count, mirror>>
    BY AccessStep DEF GiveBlockAddress, StepName
  <1>2. /\ StoreAddress(BlockAddress(req.offset)) /\ req.op \in Operation
        /\ req \in Requests /\ BlockAddress(req.offset) \in Digit
    BY <1>1, RequestFacts, AddressesAreDigits
    DEF GiveBlockAddress, SystemInv, StepsOfOperation
  <1>3. /\ UNCHANGED data_store
        /\ machine_state' # MS_BUG => cursor'.block = BlockOf(req.offset)
    <2>1. CASE machine_state = MS_BUG
      <3>1. machine_state' = MS_BUG /\ UNCHANGED storeVars
        BY <1>2, <2>1, BugIsTheEnd DEF StoreAddress
      <3>2. QED
        BY <3>1 DEF storeVars
    <2>2. CASE machine_state # MS_BUG
      <3>1. machine_state = AwaitingBlockOf(req.op)
        BY <1>1, <2>2 DEF SystemInv, DriverKnowsDevice
      <3>2. /\ cursor' = [cursor EXCEPT !.block = BlockAddress(req.offset)]
            /\ UNCHANGED data_store
        BY <1>2, <3>1, BlockAddressIsAccepted DEF SystemInv
      <3>3. cursor \in Cursor
        BY DEF SystemInv, DeviceInv, DeviceTypeOK, StoreTypeOK
      <3>4. QED
        BY <3>2, <3>3 DEF Cursor, BlockAddress, BlockOf
    <2>3. QED
      BY <2>1, <2>2
  <1>4. /\ ChunksFollowPages' /\ MirrorHasEffect' /\ Settled' /\ BufferFollows'
        /\ ~Executed' /\ Frontier' = Frontier
    BY <1>1, <1>3, SmallStepKeeps
  <1>5. req.op = "erase" => BlockOf(Frontier) = BlockOf(req.offset)
    <2> SUFFICES ASSUME req.op = "erase"
                 PROVE  BlockOf(Frontier) = BlockOf(req.offset)
      OBVIOUS
    <2>1. left = LengthOf(req) /\ ~Executed
      BY <1>1 DEF StorageInv, ChunksFollowPages, Executed
    <2>2. req.offset \in Nat /\ RegionEnd(req) \in Int /\ BlockStart(req.offset) \in Nat
      BY <1>2, RequestFacts, RegionFacts, DigitsOfOffset
    <2>3. Frontier = BlockStart(req.offset)
      BY <1>2, <2>1, <2>2, EraseFacts DEF Frontier
    <2>4. BlockOf(BlockStart(req.offset)) = BlockOf(req.offset)
      BY <2>2, InBlock, SizesArePositive
    <2>5. QED
      BY <2>3, <2>4
  <1>6. CursorInPlace' /\ CacheInPlace'
    BY <1>1, <1>2, <1>3, <1>4, <1>5 DEF CursorInPlace, CacheInPlace, Operation
  <1>7. QED
    BY <1>4, <1>6 DEF StorageInv

LEMMA GivePageAddressKeeps ==
  ASSUME SystemInv, StorageInv, GivePageAddress, Inside
  PROVE  StorageInv'
  <1>1. /\ pc = "page" /\ pc' = "byte"
        /\ UNCHANGED <<driver, req, buffer, rc, left, byte_addr, chunk, count, mirror>>
    BY AccessStep DEF GivePageAddress, StepName
  <1>2. /\ StoreAddress(PageAddress(req.offset)) /\ req.op \in Operation
        /\ PageAddress(req.offset) \in Digit
    BY <1>1, RequestFacts, AddressesAreDigits
    DEF GivePageAddress, SystemInv, StepsOfOperation
  <1>3. machine_state # MS_BUG /\ machine_state = AwaitingPageOf(req.op)
    BY <1>1 DEF SystemInv, DriverKnowsDevice, BugIsAlpha3s
  <1>4. /\ cursor' = [cursor EXCEPT !.page = PageAddress(req.offset)]
        /\ UNCHANGED data_store
    BY <1>2, <1>3, PageAddressIsAccepted DEF SystemInv
  <1>5. cursor'.block = BlockOf(req.offset) /\ cursor'.page = PageOf(req.offset)
    <2>1. cursor \in Cursor
      BY DEF SystemInv, DeviceInv, DeviceTypeOK, StoreTypeOK
    <2>2. cursor.block = BlockOf(req.offset)
      BY <1>1, <1>3 DEF StorageInv, CursorInPlace
    <2>3. QED
      BY <1>4, <2>1, <2>2 DEF Cursor, PageAddress, PageOf
  <1>6. /\ ChunksFollowPages' /\ MirrorHasEffect' /\ Settled' /\ BufferFollows'
        /\ ~Executed'
    BY <1>1, <1>4, SmallStepKeeps
  <1>7. CursorInPlace' /\ CacheInPlace'
    BY <1>1, <1>5, <1>6 DEF CursorInPlace, CacheInPlace
  <1>8. QED
    BY <1>6, <1>7 DEF StorageInv

LEMMA GiveByteAddressKeeps ==
  ASSUME SystemInv, StorageInv, GiveByteAddress, Inside
  PROVE  StorageInv'
  <1>1. /\ pc = "byte" /\ pc' = "loop"
        /\ UNCHANGED <<driver, req, buffer, rc, left, byte_addr, chunk, count, mirror>>
    BY AccessStep DEF GiveByteAddress, StepName
  <1>2. /\ StoreAddress(ByteAddress(req.offset)) /\ req.op \in Operation \ {"erase"}
        /\ req.offset \in Nat /\ ByteAddress(req.offset) \in Digit
    BY <1>1, RequestFacts, AddressesAreDigits
    DEF GiveByteAddress, SystemInv, StepsOfOperation
  <1>3. machine_state # MS_BUG /\ machine_state = AwaitingByteOf(req.op)
    BY <1>1 DEF SystemInv, DriverKnowsDevice, BugIsAlpha3s
  <1>4. /\ cursor' = [cursor EXCEPT !.byte = ByteAddress(req.offset)]
        /\ UNCHANGED <<cache, data_store>>
    BY <1>2, <1>3, ByteAddressIsAccepted DEF SystemInv
  <1>5. cursor' = CursorAt(req.offset)
    <2>1. cursor \in Cursor
      BY DEF SystemInv, DeviceInv, DeviceTypeOK, StoreTypeOK
    <2>2. cursor.block = BlockOf(req.offset) /\ cursor.page = PageOf(req.offset)
      BY <1>1, <1>3 DEF StorageInv, CursorInPlace
    <2>3. QED
      BY <1>4, <2>1, <2>2 DEF Cursor, ByteAddress, ByteOf, CursorAt
  <1>6. cache' = ZeroPage
    BY <1>3, <1>4 DEF SystemInv, DeviceInv, SetupStartsClean, AwaitingByteOf
  <1>7. Position = req.offset /\ DevicePosition = req.offset
    <2>1. left = req.size
      BY <1>1, <1>2 DEF StorageInv, ChunksFollowPages, LengthOf
    <2>2. QED
      BY <1>1, <1>2, <2>1, PositionFacts DEF DevicePosition, TakenBefore
  <1>8. /\ ChunksFollowPages' /\ MirrorHasEffect' /\ Settled' /\ BufferFollows'
        /\ ~Executed' /\ Position' = Position /\ DevicePosition' = DevicePosition
    BY <1>1, <1>4, SmallStepKeeps
  <1>9. CursorInPlace' /\ CacheInPlace'
    BY <1>1, <1>2, <1>5, <1>6, <1>7, <1>8 DEF CursorInPlace, CacheInPlace
  <1>10. QED
    BY <1>8, <1>9 DEF StorageInv

LEMMA LoopExecutesKeeps ==
  ASSUME SystemInv, StorageInv, LoopExecutes, Inside
  PROVE  StorageInv'
  <1>1. /\ pc = "loop" /\ pc' = "execute" /\ req.op # "write"
        /\ UNCHANGED <<driver, req, buffer, rc, left, byte_addr, chunk, count, mirror>>
    BY DEF LoopExecutes, callVars, loopVars, Inside
  <1>2. UNCHANGED <<cursor, cache, data_store, machine_state>>
    BY DeviceLeftAlone DEF LoopExecutes
  <1>3. /\ ChunksFollowPages' /\ MirrorHasEffect' /\ Settled' /\ BufferFollows'
        /\ Position' = Position /\ ~Executed'
        /\ Frontier' = Frontier /\ DevicePosition' = DevicePosition
    BY <1>1, <1>2, SmallStepKeeps
  <1>4. CursorInPlace' /\ CacheInPlace'
    BY <1>1, <1>2, <1>3 DEF StorageInv, CursorInPlace, CacheInPlace
  <1>5. QED
    BY <1>3, <1>4 DEF StorageInv

-----------------------------------------------------------------------------
(* The execute commands, after which a page or a block is settled.         *)

\* A write's page lies in its region.
LEMMA WriteFacts ==
  ASSUME SystemInv, pc # "idle", req.op = "write", left > 0
  PROVE  /\ RegionStart(req) \in Nat /\ RegionEnd(req) \in Int
         /\ Position \in Nat /\ PageStart(Position) \in Nat
         /\ RegionStart(req) <= PageStart(Position)
         /\ PageStart(Position) + Radix - 1 <= RegionEnd(req)
         /\ ChunkSize(left, ByteOf(Position)) = left =>
              RegionEnd(req) = PageStart(Position) + Radix - 1
  <1> DEFINE last == req.offset + req.size - 1
  <1>1. /\ req \in Requests /\ left \in Nat /\ req.size \in Nat \ {0}
        /\ Position \in Nat /\ req.offset \in Nat /\ req.offset <= Position
        /\ Position + left = req.offset + req.size
    BY PositionFacts
  <1>2. last \in Nat /\ Position <= last /\ last = Position + left - 1
    BY <1>1
  <1>3. RegionStart(req) = PageStart(req.offset) /\ RegionEnd(req) = PageEnd(last)
    BY DEF RegionStart, RegionEnd
  <1> HIDE DEF last
  <1>4. /\ PageStart(req.offset) <= PageStart(Position)
        /\ PageStart(Position) <= PageStart(last)
        /\ PageStart(req.offset) \in Nat /\ PageStart(Position) \in Nat
        /\ PageStart(last) \in Nat
    BY <1>1, <1>2, PageStartsInOrder, DigitsOfOffset
  <1>5. PageEnd(last) = PageStart(last) + Radix - 1
    BY DEF PageEnd
  <1>6. ChunkSize(left, ByteOf(Position)) = left =>
          PageEnd(last) = PageStart(Position) + Radix - 1
    BY <1>1, <1>2, ChunkFacts
  <1>7. QED
    BY <1>1, <1>3, <1>4, <1>5, <1>6, RadixAssumption

\* What a program of the page under the cursor settles.
LEMMA ProgramSettles ==
  ASSUME SystemInv, StorageInv, pc = "execute", pc' = "wait", req.op = "write",
         machine_state # MS_BUG,
         data_store' = [data_store EXCEPT ![cursor.block][cursor.page] = cache],
         UNCHANGED <<req, rc, left, mirror>>
  PROVE  Settled'
  <1> DEFINE P == Position
             S == PageStart(Position)
  <1>1. /\ left > 0 /\ ~Executed /\ Executed' /\ Position' = Position
        /\ chunk = ChunkSize(left, ByteOf(P)) /\ count = 0
        /\ cursor.block = BlockOf(P) /\ cursor.page = PageOf(P)
    BY DEF SystemInv, StorageInv, Arithmetic, Executed, Position, ChunksFollowPages,
           CursorInPlace
  <1>2. Unsettled = S .. RegionEnd(req) /\ Unsettled' = (S + Radix) .. RegionEnd(req)
    <2>1. S \in Nat
      BY <1>1, WriteFacts
    <2>2. QED
      BY <1>1, <2>1, RadixAssumption DEF Unsettled, Frontier
  <1>3. /\ P \in Nat /\ S \in Nat /\ RegionStart(req) \in Nat /\ RegionEnd(req) \in Int
        /\ RegionStart(req) <= S /\ S + Radix - 1 <= RegionEnd(req)
    BY <1>1, WriteFacts
  <1>4. /\ P = S + ByteOf(P) /\ ByteOf(P) \in Digit
        /\ BlockOf(P) \in Digit /\ PageOf(P) \in Digit
    BY <1>3, DigitsOfOffset
  <1>5. /\ left \in Nat /\ req.size \in Nat \ {0} /\ req.offset \in Nat /\ left <= req.size
        /\ P + left = req.offset + req.size
        /\ left = req.size => P = req.offset
    BY PositionFacts
  <1>6. data_store \in [Digit -> Block]
    BY DEF SystemInv, DeviceInv, DeviceTypeOK, StoreTypeOK
  <1> HIDE DEF P, S
  <1>7. CacheIsRight(S)
    <2> SUFFICES ASSUME NEW b \in Digit
                 PROVE  cache[b] = mirror[Wrap(S + b)]
      BY DEF CacheIsRight
    <2> DEFINE x == S + b
    <2>1. b \in Nat /\ b < Radix /\ x \in Nat /\ S <= x /\ x <= S + Radix - 1
      BY <1>3, RadixAssumption DEF Digit
    <2>2. x \in RegionStart(req) .. RegionEnd(req)
      BY <1>3, <2>1, RadixAssumption
    <2>3. mirror[Wrap(x)] = IF x \in req.offset .. (req.offset + req.size - 1)
                         THEN req.data[x - req.offset] ELSE Zero
      BY <2>2 DEF StorageInv, MirrorHasEffect
    <2>4. cache[b] = IF b \in ByteOf(P) .. (ByteOf(P) + (chunk - count) - 1)
                       THEN req.data[req.size - left + (b - ByteOf(P))] ELSE Zero
      BY DEF StorageInv, CacheInPlace, P
    <2>5. /\ b \in Nat /\ b < Radix /\ ByteOf(P) \in Nat /\ ByteOf(P) < Radix
          /\ chunk \in 1 .. Radix /\ chunk <= left /\ x \in Nat
          /\ chunk < left => P + chunk = S + Radix
      <3>1. chunk \in 1 .. Radix /\ chunk <= left /\ (chunk < left => P + chunk = S + Radix)
        BY <1>1, <1>3, <1>5, ChunkFacts DEF S, P
      <3>2. QED
        BY <1>3, <1>4, <2>1, <3>1, RadixAssumption DEF Digit
    <2>6. left = req.size \/ ByteOf(P) = 0
      BY <1>1 DEF StorageInv, ChunksFollowPages, P
    <2>7. x = P - ByteOf(P) + b
      BY <1>3, <1>4, <2>5
    <2>8. x - req.offset = req.size - left + (b - ByteOf(P))
      BY <1>3, <1>5, <2>5, <2>7
    <2>9. b \in ByteOf(P) .. (ByteOf(P) + (chunk - count) - 1) <=>
             x \in req.offset .. (req.offset + req.size - 1)
      <3>1. CASE b < ByteOf(P)
        BY <1>1, <1>3, <1>5, <2>5, <2>6, <2>7, <3>1
      <3>2. CASE b >= ByteOf(P)
        <4>1. x >= req.offset
          BY <1>3, <1>5, <2>5, <2>7, <3>2
        <4>2. CASE chunk = left
          <5>1. b - ByteOf(P) <= chunk - 1 <=> x <= req.offset + req.size - 1
            BY <1>3, <1>5, <2>5, <2>7, <4>2
          <5>2. b <= ByteOf(P) + (chunk - count) - 1 <=> b - ByteOf(P) <= chunk - 1
            BY <1>1, <2>5
          <5>3. QED
            BY <1>1, <1>5, <2>5, <3>2, <4>1, <5>1, <5>2
        <4>3. CASE chunk < left
          <5>1. ByteOf(P) + chunk = Radix
            BY <1>3, <1>4, <2>5, <4>3, RadixAssumption
          <5>2. b - ByteOf(P) < chunk /\ b - ByteOf(P) < left
            BY <1>5, <2>5, <4>3, <5>1
          <5>3. x <= req.offset + req.size - 1
            BY <1>3, <1>5, <2>5, <2>7, <5>2
          <5>4. b <= ByteOf(P) + (chunk - count) - 1
            BY <1>1, <2>5, <5>2
          <5>5. QED
            BY <1>1, <1>5, <2>5, <3>2, <4>1, <5>3, <5>4
        <4>4. QED
          BY <1>5, <2>5, <4>2, <4>3
      <3>3. QED
        BY <2>5, <3>1, <3>2
    <2>10. cache[b] = mirror[Wrap(x)]
      BY <2>3, <2>4, <2>8, <2>9
    <2>11. QED
      BY <2>10
  <1>8. AgreesOutside(S .. RegionEnd(req))
    BY <1>2 DEF StorageInv, Settled, AgreesOutside
  <1>9. ProgramsPageOf(P)
    BY <1>1 DEF ProgramsPageOf
  <1>10. S = PageStart(P)
    BY DEF S, P
  <1>11. WillAgreeOutside((S + Radix) .. RegionEnd(req))
    BY <1>3, <1>6, <1>7, <1>8, <1>9, <1>10, PageIsSettled
  <1>12. QED
    BY <1>2, <1>11 DEF Settled, WillAgreeOutside

\* Where an erase has come to is the start of a block of its region.
LEMMA EraseFrontierFacts ==
  ASSUME SystemInv, StorageInv, pc # "idle", req.op = "erase"
  PROVE  /\ RegionEnd(req) + 1 - left * BlockSize \in Nat
         /\ RegionStart(req) <= RegionEnd(req) + 1 - left * BlockSize
         /\ LET F == RegionEnd(req) + 1 - left * BlockSize IN BlockStart(F) = F
         /\ left * BlockSize \in Nat
         /\ left > 0 => RegionEnd(req) + 1 - left * BlockSize + BlockSize - 1 <= RegionEnd(req)
         /\ RegionStart(req) \in Nat /\ RegionEnd(req) \in Int
  <1> DEFINE n == LengthOf(req)
             B == BlockSize
             q == req.offset \div B
             F == RegionEnd(req) + 1 - left * B
  <1>1. /\ req \in Requests /\ left \in Nat /\ left <= n /\ req.offset \in Nat
        /\ B \in Nat \ {0}
    BY RequestFacts, SizesArePositive
    DEF SystemInv, StepsOfOperation, TypeOK, StorageInv, ChunksFollowPages
  <1>2. /\ n \in Nat \ {0} /\ RegionStart(req) \in Nat /\ RegionEnd(req) \in Int
        /\ RegionEnd(req) + 1 - n * B = RegionStart(req)
        /\ RegionStart(req) = BlockStart(req.offset)
    BY <1>1, EraseFacts, RegionFacts
  <1>3. q \in Nat /\ RegionStart(req) = q * B
    BY <1>1, <1>2 DEF BlockStart
  <1> DEFINE k == n - left
             p == q + k
  <1>4. k \in Nat /\ p \in Nat /\ left * B \in Nat /\ n * B \in Nat /\ k * B \in Nat
    BY <1>1, <1>2, <1>3
  <1>5. n * B = left * B + k * B
    BY <1>1, <1>2
  <1>6. F = RegionStart(req) + k * B
    <2> HIDE DEF n, k, B
    <2>1. QED
      BY <1>1, <1>2, <1>4, <1>5
  <1>7. F = B * p + 0
    <2> HIDE DEF F, n, k, B, q
    <2>1. QED
      BY <1>1, <1>3, <1>4, <1>6 DEF p
  <1>8. F \in Nat /\ RegionStart(req) <= F
    BY <1>2, <1>4, <1>6
  <1>9. BlockStart(F) = F
    <2> HIDE DEF F, B, p
    <2>1. 0 \in 0 .. (B - 1)
      BY <1>1
    <2>2. (B * p + 0) \div B = p
      BY <1>1, <1>4, <2>1, DivModUnique
    <2>3. F \div B = p
      BY <1>7, <2>2
    <2>4. BlockStart(F) = p * B
      BY <2>3 DEF BlockStart, B
    <2>5. QED
      BY <1>1, <1>4, <1>7, <2>4
  <1>10. left > 0 => left * B >= B
    BY <1>1
  <1>11. left > 0 => F + B - 1 <= RegionEnd(req)
    <2> HIDE DEF B
    <2>1. QED
      BY <1>1, <1>2, <1>4, <1>10
  <1>12. /\ RegionEnd(req) + 1 - left * BlockSize \in Nat
         /\ RegionStart(req) <= RegionEnd(req) + 1 - left * BlockSize
    BY <1>8
  <1>13. LET G == RegionEnd(req) + 1 - left * BlockSize IN BlockStart(G) = G
    BY <1>9
  <1>14. left > 0 => RegionEnd(req) + 1 - left * BlockSize + BlockSize - 1 <= RegionEnd(req)
    BY <1>11
  <1>15. left * BlockSize \in Nat
    BY <1>4
  <1> HIDE DEF F, B, n, k, p, q
  <1>16. QED
    BY <1>2, <1>12, <1>13, <1>14, <1>15

\* What an erase of the block under the cursor settles.
LEMMA EraseSettles ==
  ASSUME SystemInv, StorageInv, pc = "execute", pc' = "wait", req.op = "erase",
         machine_state # MS_BUG,
         data_store' = [data_store EXCEPT ![cursor.block] = ZeroBlock],
         UNCHANGED <<req, rc, left, mirror>>
  PROVE  Settled'
  <1> DEFINE F == RegionEnd(req) + 1 - left * BlockSize
  <1>1. /\ left > 0 /\ ~Executed /\ Executed'
        /\ cursor.block = BlockOf(Frontier)
    BY DEF SystemInv, StorageInv, Arithmetic, Executed, CursorInPlace
  <1>2. /\ F \in Nat /\ RegionStart(req) \in Nat /\ RegionEnd(req) \in Int
        /\ RegionStart(req) <= F /\ F + BlockSize - 1 <= RegionEnd(req)
        /\ BlockStart(F) = F
    BY <1>1, EraseFrontierFacts
  <1>3. /\ Unsettled = F .. RegionEnd(req)
        /\ Unsettled' = (F + BlockSize) .. RegionEnd(req)
        /\ cursor.block = BlockOf(F)
    <2>1. RegionEnd(req)' = RegionEnd(req) /\ F' = F /\ F + 0 = F
      BY <1>2 DEF RegionEnd
    <2>2. Frontier = F + 0 /\ Frontier' = F' + BlockSize
      BY <1>1 DEF Frontier
    <2> HIDE DEF F
    <2>3. Frontier = F /\ Frontier' = F + BlockSize
      BY <2>1, <2>2
    <2>4. QED
      BY <1>1, <2>1, <2>3 DEF Unsettled, Executed
  <1>4. BlockOf(F) \in Digit
    BY <1>2, DigitsOfOffset
  <1>5. data_store \in [Digit -> Block]
    BY DEF SystemInv, DeviceInv, DeviceTypeOK, StoreTypeOK
  <1> HIDE DEF F
  <1>6. BlockIsBlank(F)
    <2>1. SUFFICES ASSUME NEW y \in F .. (F + BlockSize - 1)
                   PROVE  y \in RegionStart(req) .. RegionEnd(req)
      BY <1>1 DEF BlockIsBlank, StorageInv, MirrorHasEffect
    <2>2. QED
      BY <1>2, SizesArePositive
  <1>7. AgreesOutside(F .. RegionEnd(req))
    BY <1>3 DEF StorageInv, Settled, AgreesOutside
  <1>8. ErasesBlockOf(F)
    BY <1>1, <1>3 DEF ErasesBlockOf
  <1>9. WillAgreeOutside((F + BlockSize) .. RegionEnd(req))
    BY <1>2, <1>5, <1>6, <1>7, <1>8, BlockIsSettled
  <1>10. QED
    BY <1>3, <1>9 DEF Settled, WillAgreeOutside

\* The execute command of an operation.
LEMMA StartOperationKeeps ==
  ASSUME SystemInv, StorageInv, StartOperation, Inside
  PROVE  StorageInv'
  <1>1. /\ pc = "execute" /\ pc' = "wait"
        /\ UNCHANGED <<driver, req, buffer, rc, left, byte_addr, chunk, count, mirror>>
    BY AccessStep DEF StartOperation, StepName
  <1>2. StoreCommand(ExecuteCommand(req.op)) /\ req.op \in Operation /\ ~exited
    BY <1>1, RequestFacts
    DEF StartOperation, SystemInv, StepsOfOperation, StoreCommand, HandleWatchpoint
  <1>3. /\ machine_state # MS_BUG /\ ~BeforeDeadline
        /\ machine_state \in {AddressedOf(req.op), WorkingOf(req.op)}
    BY <1>1, <1>2 DEF SystemInv, DriverKnowsDevice, BugIsAlpha3s
  <1>4. /\ req.op = "read" =>
             cache' = PageAt(cursor) /\ UNCHANGED <<cursor, data_store>>
        /\ req.op = "write" =>
             /\ data_store' = [data_store EXCEPT ![cursor.block][cursor.page] = cache]
             /\ cache' = ZeroPage
             /\ cursor' = NextPage(cursor)
        /\ req.op = "erase" =>
             /\ data_store' = [data_store EXCEPT ![cursor.block] = ZeroBlock]
             /\ cursor' = NextBlock(cursor)
    BY <1>2, <1>3, ExecuteIsAccepted DEF SystemInv
  <1>5. /\ Position' = Position /\ DevicePosition' = DevicePosition
        /\ ~Executed /\ Executed' /\ left > 0
    BY <1>1
    DEF Position, DevicePosition, TakenBefore, LastInPage, Executed, SystemInv, Arithmetic
  <1>6. ChunksFollowPages'
    BY <1>1, <1>5 DEF StorageInv, ChunksFollowPages
  <1>7. MirrorHasEffect'
    BY <1>1 DEF StorageInv, MirrorHasEffect
  <1>8. BufferFollows'
    <2>1. \A i : Filled(i)' = Filled(i) /\ Source(i)' = Source(i)
      BY <1>1 DEF Filled, Source, BufferIndex
    <2>2. QED
      BY <1>1, <2>1
      DEF StorageInv, BufferFollows, BytesAreRight, OnlyWholeBurstsSoFar,
          WholeBurstsSoFar
  <1>9. CASE req.op = "read"
    <2>1. Settled'
      <3>1. Unsettled' = Unsettled
        BY <1>1, <1>9 DEF Unsettled
      <3>2. QED
        BY <1>1, <1>4, <1>9, <3>1 DEF StorageInv, Settled, Stored
    <2>2. CursorInPlace' /\ CacheInPlace'
      BY <1>1, <1>3, <1>4, <1>5, <1>9
      DEF StorageInv, CursorInPlace, CacheInPlace, PageAt, CursorAt
    <2>3. QED
      BY <1>6, <1>7, <1>8, <2>1, <2>2 DEF StorageInv
  <1>10. CASE req.op = "write"
    <2>1. Settled'
      BY <1>1, <1>3, <1>4, <1>10, ProgramSettles
    <2>2. cursor' = CursorAt(PageStart(Position) + Radix)
      <3>1. Position \in Nat
        BY <1>1, <1>10, PositionFacts
      <3>2. cursor.block = BlockOf(Position) /\ cursor.page = PageOf(Position)
        BY <1>1, <1>3, <1>10 DEF StorageInv, CursorInPlace
      <3>3. QED
        BY <1>4, <1>10, <3>1, <3>2, NextPageIsNext
    <2>3. CursorInPlace' /\ CacheInPlace'
      BY <1>1, <1>4, <1>5, <1>10, <2>2 DEF CursorInPlace, CacheInPlace
    <2>4. QED
      BY <1>6, <1>7, <1>8, <2>1, <2>3 DEF StorageInv
  <1>11. CASE req.op = "erase"
    <2>1. Settled'
      BY <1>1, <1>3, <1>4, <1>11, EraseSettles
    <2>2. cursor'.block = BlockOf(Frontier')
      <3> DEFINE F == RegionEnd(req) + 1 - left * BlockSize
      <3>1. F \in Nat /\ BlockStart(F) = F
        BY <1>1, <1>11, EraseFrontierFacts
      <3>2. Frontier = F /\ Frontier' = F + BlockSize
        <4>1. RegionEnd(req)' = RegionEnd(req) /\ F' = F /\ F + 0 = F
          BY <1>1, <3>1 DEF RegionEnd
        <4>2. Frontier = F + 0 /\ Frontier' = F' + BlockSize
          BY <1>1, <1>5, <1>11 DEF Frontier
        <4>3. QED
          BY <4>1, <4>2
      <3>3. cursor.block = BlockOf(F)
        BY <1>1, <1>3, <1>11, <3>2 DEF StorageInv, CursorInPlace
      <3> HIDE DEF F
      <3>4. NextBlock(cursor) = CursorAt(F + BlockSize)
        BY <3>1, <3>3, NextBlockIsNext
      <3>5. QED
        BY <1>4, <1>11, <3>2, <3>4 DEF CursorAt
    <2>3. CursorInPlace' /\ CacheInPlace'
      BY <1>1, <1>5, <1>11, <2>2 DEF CursorInPlace, CacheInPlace
    <2>4. QED
      BY <1>6, <1>7, <1>8, <2>1, <2>3 DEF StorageInv
  <1>12. QED
    BY <1>2, <1>9, <1>10, <1>11 DEF Operation


-----------------------------------------------------------------------------
(* Where alpha_4 has left the device.                                      *)

\* After the first page of a read only whole pages come before the next one.
LEMMA WholePagesAfterFirst ==
  ASSUME SystemInv, StorageInv, pc # "idle", req.op = "read", left # 0, left # req.size
  PROVE  /\ LastInPage(req, 0) + 1 \in Nat
         /\ \E k \in Nat : req.size - left = LastInPage(req, 0) + 1 + Radix * k
  <1> DEFINE o == req.offset
             P == Position
             S == PageStart(o)
             e == S + Radix - 1 - o
  <1>1. /\ left \in Nat \ {0} /\ req.size \in Nat \ {0} /\ o \in Nat /\ left < req.size
        /\ P \in Nat /\ P = o + (req.size - left) /\ o < P /\ P < o + req.size
    BY PositionFacts DEF Position
  <1>2. ByteOf(P) = 0
    BY <1>1 DEF StorageInv, ChunksFollowPages
  <1>3. Radix \in Nat \ {0}
    BY RadixAssumption
  <1> DEFINE p == P \div Radix
             q == o \div Radix
  <1>4. p \in Nat /\ P = Radix * p
    <2>1. p \in Nat /\ P = Radix * p + (P % Radix)
      BY <1>1, <1>3, DivMod
    <2>2. QED
      BY <1>2, <1>3, <2>1 DEF ByteOf
  <1>5. q \in Nat /\ S = Radix * q /\ S <= o /\ o < S + Radix /\ S \in Nat
    <2>1. q \in Nat
      BY <1>1, <1>3, DivMod
    <2>2. S = q * Radix
      BY DEF PageStart
    <2>3. S <= o /\ o < S + Radix /\ S \in Nat
      BY <1>1, DigitsOfOffset
    <2> HIDE DEF q, S, o
    <2>4. QED
      BY <1>3, <2>1, <2>2, <2>3
  <1> HIDE DEF p, q, P, S, o
  <1>6. q < p
    <2>1. Radix * q < Radix * p
      BY <1>1, <1>4, <1>5
    <2>2. QED
      BY <1>3, <1>4, <1>5, <2>1
  <1> DEFINE k == p - q - 1
  <1>7. k \in Nat /\ p = q + 1 + k
    BY <1>4, <1>5, <1>6
  <1> HIDE DEF k
  <1>8. P = S + Radix + Radix * k
    <2>1. Radix * (q + 1 + k) = Radix * q + Radix + Radix * k
      BY <1>3, <1>5, <1>7
    <2>2. QED
      BY <1>4, <1>5, <1>7, <2>1
  <1>9. Radix * k \in Nat
    BY <1>3, <1>7
  <1>10. e < req.size /\ e \in Nat
    BY <1>1, <1>3, <1>5, <1>8, <1>9
  <1>11. LastInPage(req, 0) = e
    <2>1. req.offset + 0 = o
      <3>1. req.offset \in Nat
        BY PositionFacts
      <3>2. QED
        BY <3>1 DEF o
    <2>2. PageEnd(req.offset + 0) = PageEnd(o) /\ req.offset = o
      BY <2>1, Zenon DEF o
    <2>3. PageEnd(req.offset + 0) - req.offset = e
      <3>1. PageEnd(o) = S + Radix - 1
        BY DEF PageEnd, S
      <3>2. QED
        BY <1>1, <1>3, <1>5, <2>2, <3>1
    <2>4. QED
      BY <1>10, <2>3 DEF LastInPage
  <1>12. req.size - left = LastInPage(req, 0) + 1 + Radix * k
    BY <1>1, <1>3, <1>5, <1>8, <1>9, <1>11
  <1>13. LastInPage(req, 0) + 1 \in Nat
    BY <1>10, <1>11
  <1> HIDE DEF e
  <1>14. QED
    BY <1>7, <1>12, <1>13

\* What alpha_4 has taken from whole pages.
LEMMA TakenFromPages ==
  ASSUME NEW r, NEW k \in Nat, NEW first \in Nat \ {0}, LastInPage(r, 0) + 1 \in Nat,
         first = LastInPage(r, 0) + 1 + Radix * k
  PROVE  TakenBefore(r, first) = Whole(LastInPage(r, 0) + 1) + k * Whole(Radix)
  <1> DEFINE rest == LastInPage(r, 0) + 1
  <1>1. Radix \in Nat \ {0} /\ Radix * k \in Nat /\ 0 \in 0 .. (Radix - 1)
    BY RadixAssumption
  <1>2. (Radix * k + 0) \div Radix = k
    BY <1>1, DivModUnique
  <1> HIDE DEF rest
  <1>3. first - rest = Radix * k + 0
    BY <1>1 DEF rest
  <1>4. TakenBefore(r, first) = Whole(rest) + ((first - rest) \div Radix) * Whole(Radix)
    BY DEF TakenBefore, rest
  <1>5. QED
    BY <1>2, <1>3, <1>4 DEF rest

LEMMA TakenIsANumber ==
  ASSUME SystemInv, StorageInv, pc # "idle", req.op = "read", left # 0
  PROVE  TakenBefore(req, req.size - left) \in Nat
  <1>1. Position \in Nat /\ req.offset \in Nat /\ req.size \in Nat \ {0}
        /\ left \in Nat /\ left <= req.size
    BY PositionFacts
  <1>2. CASE left = req.size
    BY <1>1, <1>2 DEF TakenBefore
  <1>3. CASE left # req.size
    <2>1. LastInPage(req, 0) + 1 \in Nat
      BY <1>3, WholePagesAfterFirst
    <2>2. PICK k \in Nat : req.size - left = LastInPage(req, 0) + 1 + Radix * k
      BY <1>3, WholePagesAfterFirst
    <2>3. req.size - left \in Nat \ {0}
      BY <1>1, <1>3
    <2>4. TakenBefore(req, req.size - left)
            = Whole(LastInPage(req, 0) + 1) + k * Whole(Radix)
      BY <2>1, <2>2, <2>3, TakenFromPages
    <2>5. Whole(LastInPage(req, 0) + 1) \in Nat /\ Whole(Radix) \in Nat
      BY <2>1, BurstFacts, RadixAssumption DEF Whole
    <2>6. k * Whole(Radix) \in Nat
      BY <2>5
    <2>7. QED
      BY <2>4, <2>5, <2>6
  <1>4. QED
    BY <1>2, <1>3

LEMMA DevicePositionFacts ==
  ASSUME SystemInv, StorageInv, pc # "idle", req.op = "read", left # 0
  PROVE  DevicePosition \in Nat
  <1>1. Position \in Nat /\ req.offset \in Nat
    BY PositionFacts
  <1>2. QED
    BY <1>1, TakenIsANumber DEF DevicePosition

-----------------------------------------------------------------------------
(* The transfers.                                                          *)

\* The size of a transfer.
LEMMA StartTransferKeeps ==
  ASSUME SystemInv, StorageInv, StartTransfer, Inside
  PROVE  StorageInv'
  <1>1. /\ \/ pc = "loop" /\ left > 0 /\ req.op = "write"
           \/ pc = "ready" /\ req.op = "read"
        /\ pc' = "transfer"
        /\ chunk' = ChunkSize(left, byte_addr)
        /\ count' = chunk'
        /\ byte_addr' = 0
        /\ UNCHANGED <<driver, req, left, buffer, rc, mirror>>
    BY DEF StartTransfer, Inside
  <1>2. UNCHANGED <<cursor, cache, data_store, machine_state>>
    BY DeviceLeftAlone DEF StartTransfer
  <1>3. /\ left > 0 /\ ~Executed' /\ LengthOf(req)' = LengthOf(req)
        /\ Position' = Position /\ DevicePosition' = DevicePosition
    BY <1>1
    DEF SystemInv, Arithmetic, Executed, Position, DevicePosition, TakenBefore,
        LastInPage, LengthOf
  <1>4. byte_addr = ByteOf(Position)
    BY <1>1, <1>3 DEF StorageInv, ChunksFollowPages, Executed
  <1>5. Position \in Nat /\ left \in Nat /\ ByteOf(Position) \in Digit
    BY <1>1, PositionFacts, DigitsOfOffset
  <1>6. chunk' \in Nat /\ chunk' - count' = 0
    BY <1>1, <1>3, <1>4, <1>5, ChunkFits
  <1>7. ChunksFollowPages'
    BY <1>1, <1>3, <1>4 DEF StorageInv, ChunksFollowPages
  <1>8. MirrorHasEffect'
    BY <1>1 DEF StorageInv, MirrorHasEffect
  <1>9. CASE req.op = "write"
    <2>1. Settled'
      <3>1. PageStart(Position) + 0 = PageStart(Position)
        BY <1>5, DigitsOfOffset
      <3>2. Frontier' = Frontier
        BY <1>1, <1>3, <1>9, <3>1 DEF Frontier, Executed
      <3>3. Unsettled' = Unsettled
        BY <1>1, <1>9, <3>2 DEF Unsettled
      <3>4. QED
        BY <1>1, <1>2, <3>3 DEF StorageInv, Settled, Stored
    <2>2. CursorInPlace'
      <3>1. machine_state # MS_BUG => cursor = CursorAt(Position)
        BY <1>1, <1>3, <1>9 DEF StorageInv, CursorInPlace
      <3>2. ByteOf(Position) + (chunk' - count') = ByteOf(Position)
        BY <1>5, <1>6 DEF Digit
      <3>3. QED
        BY <1>1, <1>2, <1>3, <1>9, <3>1, <3>2 DEF CursorInPlace, CursorAt
    <2>3. CacheInPlace'
      <3>1. cache = ZeroPage
        BY <1>1, <1>9 DEF StorageInv, CacheInPlace
      <3>2. \A b \in Digit :
              b \notin ByteOf(Position) .. (ByteOf(Position) + (chunk' - count') - 1)
        BY <1>5, <1>6, RadixAssumption DEF Digit
      <3>3. QED
        BY <1>1, <1>2, <1>3, <1>9, <3>1, <3>2 DEF CacheInPlace, ZeroPage
    <2>4. BufferFollows'
      BY <1>1, <1>9 DEF StorageInv, BufferFollows
    <2>5. QED
      BY <1>7, <1>8, <2>1, <2>2, <2>3, <2>4 DEF StorageInv
  <1>10. CASE req.op = "read"
    <2>1. Settled'
      <3>1. Unsettled' = {} /\ Unsettled = {}
        BY <1>1, <1>10 DEF Unsettled
      <3>2. QED
        BY <1>1, <1>2, <3>1 DEF StorageInv, Settled, Stored
    <2>2. CursorInPlace'
      <3>1. DevicePosition + (chunk' - count') = DevicePosition
        BY <1>1, <1>3, <1>6, <1>10, DevicePositionFacts
      <3>2. QED
        BY <1>1, <1>2, <1>3, <1>10, <3>1 DEF StorageInv, CursorInPlace, Executed
    <2>3. CacheInPlace'
      BY <1>1, <1>2, <1>3, <1>10 DEF StorageInv, CacheInPlace, Executed
    <2>4. BufferFollows'
      <3>1. req.size \in Nat
        BY <1>1, PositionFacts
      <3>2. ASSUME NEW i \in 0 .. (req.size - 1)
            PROVE  (Filled(i)' <=> Filled(i)) /\ Source(i)' = Source(i)
        <4>1. BufferIndex' = req.size - left
          BY <1>1, <1>5, <1>6, <3>1 DEF BufferIndex
        <4>2. ~(req.size - left + count' <= i /\ i < req.size - left + chunk')
          BY <1>1, <1>5, <1>6, <3>1
        <4>3. Filled(i)' <=> i < req.size - left
          BY <1>1, <4>1, <4>2 DEF Filled
        <4>4. Filled(i) <=> i < req.size - left
          BY <1>1, <1>10 DEF Filled
        <4>5. Source(i)' = Source(i)
          BY <1>1 DEF Source
        <4>6. QED
          BY <4>3, <4>4, <4>5
      <3>3. WholeBursts' \in Nat
        BY <1>6, BurstFacts DEF WholeBursts
      <3>4. chunk' - count' <= WholeBursts'
        BY <1>6, <3>3
      <3>5. QED
        <4>1. BytesAreRight => BytesAreRight'
          <5>1. SUFFICES ASSUME BytesAreRight, driver # "alpha_4",
                                NEW i \in 0 .. (req.size - 1), Filled(i)'
                         PROVE  buffer[i] = mirror[Wrap(req.offset + Source(i)')]
            BY <1>1 DEF BytesAreRight
          <5>2. Filled(i) /\ Source(i)' = Source(i)
            BY <3>2, <5>1
          <5>3. QED
            BY <5>1, <5>2 DEF BytesAreRight
        <4>2. OnlyWholeBurstsSoFar => OnlyWholeBurstsSoFar'
          BY <1>1 DEF OnlyWholeBurstsSoFar
        <4>3. WholeBurstsSoFar => WholeBurstsSoFar'
          BY <1>1, <3>2, <3>4 DEF WholeBurstsSoFar
        <4>4. QED
          BY <1>1, <1>10, <4>1, <4>2, <4>3 DEF StorageInv, BufferFollows
    <2>5. QED
      BY <1>7, <1>8, <2>1, <2>2, <2>3, <2>4 DEF StorageInv
  <1>11. QED
    BY <1>1, <1>9, <1>10

\* A byte of a write goes into the cache, where the cursor is.
LEMMA ProgramByteKeeps ==
  ASSUME SystemInv, StorageInv, ProgramByte, Inside
  PROVE  StorageInv'
  <1>1. /\ pc = "transfer" /\ req.op = "write" /\ count > 0 /\ count' = count - 1
        /\ UNCHANGED <<pc, driver, req, left, byte_addr, chunk, buffer, rc, mirror>>
    BY DEF ProgramByte, waitVars, Inside
  <1> DEFINE P == Position
             v == req.data[BufferIndex]
             d == chunk - count
  <1>2. /\ left \in Nat /\ chunk \in 1 .. Radix /\ count \in Nat \ {0} /\ count <= chunk
        /\ chunk <= left
    BY <1>1, RadixAssumption DEF SystemInv, TypeOK, Arithmetic
  <1>3. /\ req \in Requests /\ left <= req.size /\ req.size \in Nat \ {0} /\ P \in Nat
        /\ ByteOf(P) \in Digit
    BY <1>1, PositionFacts, DigitsOfOffset
  <1>4. d \in Nat /\ d < chunk /\ BufferIndex = req.size - left + d
        /\ BufferIndex \in 0 .. (req.size - 1)
    BY <1>2, <1>3, RadixAssumption DEF BufferIndex
  <1>5. v \in Byte
    BY <1>1, <1>3, <1>4, RequestFacts
  <1>6. machine_state # MS_BUG /\ machine_state = MS_PROGRAM_ACCEPTING_DATA
        /\ ~BeforeDeadline
    BY <1>1 DEF SystemInv, BugIsAlpha3s, DriverKnowsDevice, WorkingOf
  <1>7. /\ cache' = [cache EXCEPT ![cursor.byte] = v]
        /\ cursor' = [cursor EXCEPT !.byte = Successor(@)]
        /\ UNCHANGED <<data_store, machine_state>>
    BY <1>5, <1>6, DataInIsAccepted DEF SystemInv, ProgramByte
  <1>8. /\ Position' = P /\ Executed' = Executed /\ ~Executed
        /\ chunk' - count' = d + 1
    BY <1>1, <1>2 DEF Position, Executed
  <1>9. ChunksFollowPages'
    BY <1>1, <1>8 DEF StorageInv, ChunksFollowPages
  <1>10. MirrorHasEffect'
    BY <1>1 DEF StorageInv, MirrorHasEffect
  <1>11. Settled'
    <2>1. Frontier' = Frontier
      BY <1>1, <1>8 DEF Frontier
    <2>2. Unsettled' = Unsettled
      BY <1>1, <2>1 DEF Unsettled
    <2>3. QED
      BY <1>1, <1>7, <2>2 DEF StorageInv, Settled, Stored
  <1>12. BufferFollows'
    BY <1>1 DEF StorageInv, BufferFollows
  <1>13. /\ cursor.block = BlockOf(P) /\ cursor.page = PageOf(P)
         /\ cursor.byte = ByteOf(P) + d
    BY <1>1, <1>6 DEF StorageInv, CursorInPlace
  <1>14. cursor \in Cursor /\ cache \in Page
    BY DEF SystemInv, DeviceInv, DeviceTypeOK, StoreTypeOK
  <1>15. chunk = ChunkSize(left, ByteOf(P))
    BY <1>1 DEF StorageInv, ChunksFollowPages
  <1>16. ByteOf(P) + chunk <= Radix
    BY <1>2, <1>3, <1>15, ChunkFits
  <1> HIDE DEF d, P, v
  <1>17. CursorInPlace'
    <2>1. count' > 0 => Successor(cursor.byte) = ByteOf(P) + (d + 1)
      <3>1. count' > 0 => ByteOf(P) + d + 1 < Radix
        BY <1>1, <1>2, <1>3, <1>4, <1>8, <1>16, RadixAssumption DEF Digit, d
      <3>2. QED
        BY <1>3, <1>4, <1>13, <3>1, RadixAssumption DEF Digit, Successor
    <2>2. /\ cursor'.block = BlockOf(P) /\ cursor'.page = PageOf(P)
          /\ count' > 0 => cursor'.byte = ByteOf(P) + (d + 1)
      BY <1>7, <1>13, <1>14, <2>1 DEF Cursor
    <2>3. QED
      BY <1>1, <1>8, <2>2 DEF CursorInPlace, P
  <1>18. CacheInPlace'
    <2>1. ASSUME NEW b \in Digit
          PROVE  cache'[b] = IF b \in ByteOf(P) .. (ByteOf(P) + (d + 1) - 1)
                               THEN req.data[req.size - left + (b - ByteOf(P))]
                               ELSE Zero
      <3>1. cache[b] = IF b \in ByteOf(P) .. (ByteOf(P) + d - 1)
                         THEN req.data[req.size - left + (b - ByteOf(P))]
                         ELSE Zero
        BY <1>1 DEF StorageInv, CacheInPlace, P, d
      <3>2. CASE b = cursor.byte
        <4>1. cache'[b] = v
          BY <1>7, <1>14, <3>2 DEF Page
        <4>2. req.size - left + (b - ByteOf(P)) = BufferIndex
          BY <1>2, <1>3, <1>4, <1>13, <3>2, RadixAssumption DEF Digit
        <4>3. b \in ByteOf(P) .. (ByteOf(P) + (d + 1) - 1)
          BY <1>2, <1>3, <1>4, <1>13, <3>2, RadixAssumption DEF Digit
        <4>4. QED
          BY <4>1, <4>2, <4>3 DEF v
      <3>3. CASE b # cursor.byte
        <4>1. cache'[b] = cache[b]
          BY <1>7, <1>14, <3>3 DEF Page
        <4>2. b \in ByteOf(P) .. (ByteOf(P) + (d + 1) - 1) <=>
                b \in ByteOf(P) .. (ByteOf(P) + d - 1)
          BY <1>3, <1>4, <1>13, <3>3, RadixAssumption DEF Digit
        <4>3. QED
          BY <3>1, <4>1, <4>2
      <3>4. QED
        BY <3>2, <3>3
    <2>2. QED
      BY <1>1, <1>8, <2>1 DEF CacheInPlace, P
  <1>19. QED
    BY <1>9, <1>10, <1>11, <1>12, <1>17, <1>18 DEF StorageInv


\* What of a read's buffer belongs to the page that is being read.
LEMMA ChunkIsInPage ==
  ASSUME SystemInv, StorageInv, pc = "transfer", req.op = "read",
         NEW i \in (req.size - left) .. (req.size - left + chunk - 1)
  PROVE  /\ FirstInPage(req, i) = req.size - left
         /\ LastInPage(req, i) = req.size - left + chunk - 1
  <1> DEFINE P == Position
             S == PageStart(Position)
             y == req.offset + i
  <1>1. /\ left \in Nat \ {0} /\ req.size \in Nat \ {0} /\ req.offset \in Nat
        /\ left <= req.size /\ P \in Nat /\ P + left = req.offset + req.size
        /\ left = req.size => P = req.offset
        /\ chunk \in Nat \ {0} /\ chunk <= left
    BY PositionFacts, RadixAssumption DEF SystemInv, Arithmetic, TypeOK
  <1>2. chunk = ChunkSize(left, ByteOf(P))
    BY DEF StorageInv, ChunksFollowPages
  <1>3. /\ S <= P /\ P + chunk <= S + Radix
        /\ chunk < left => P + chunk = S + Radix
    BY <1>1, <1>2, ChunkFacts
  <1>4. S \in Nat /\ P = S + ByteOf(P) /\ ByteOf(P) \in Nat
    <2>1. S \in Nat /\ P = S + ByteOf(P) /\ ByteOf(P) \in Digit
      BY <1>1, DigitsOfOffset
    <2>2. QED
      BY <2>1, RadixAssumption DEF Digit
  <1>5. left = req.size \/ ByteOf(P) = 0
    BY <1>1 DEF StorageInv, ChunksFollowPages
  <1>6. i \in Nat /\ y \in Nat /\ P <= y /\ y < P + chunk
    BY <1>1
  <1>7. PageStart(y) = S
    <2>1. S <= y /\ y < S + Radix
      BY <1>1, <1>3, <1>4, <1>6, RadixAssumption
    <2>2. QED
      BY <1>1, <1>6, <2>1, InPage
  <1> HIDE DEF P, S
  <1>8. FirstInPage(req, i) = req.size - left
    <2>1. CASE left = req.size
      <3>1. S - req.offset <= 0 /\ S - req.offset \in Int
        BY <1>1, <1>3, <1>4, <2>1
      <3>2. QED
        BY <1>1, <1>7, <2>1, <3>1 DEF FirstInPage
    <2>2. CASE ByteOf(P) = 0
      <3>1. S - req.offset = req.size - left /\ ~(S - req.offset < 0)
        BY <1>1, <1>4, <2>2
      <3>2. QED
        BY <1>7, <3>1 DEF FirstInPage
    <2>3. QED
      BY <1>5, <2>1, <2>2
  <1>9. LastInPage(req, i) = req.size - left + chunk - 1
    <2> DEFINE e == S + Radix - 1 - req.offset
    <2>1. LastInPage(req, i) = IF e < req.size THEN e ELSE req.size - 1
      <3>1. PageEnd(y) - req.offset = e
        BY <1>1, <1>4, <1>7, RadixAssumption DEF PageEnd
      <3>2. QED
        BY <3>1 DEF LastInPage
    <2>2. CASE chunk = left
      <3>1. e >= req.size - 1 /\ e \in Int
        BY <1>1, <1>3, <1>4, <2>2, RadixAssumption
      <3>2. QED
        BY <1>1, <2>1, <2>2, <3>1
    <2>3. CASE chunk < left
      <3>1. e = req.size - left + chunk - 1 /\ e < req.size
        BY <1>1, <1>3, <1>4, <2>3, RadixAssumption
      <3>2. QED
        BY <2>1, <3>1
    <2>4. QED
      BY <1>1, <2>2, <2>3
  <1>10. QED
    BY <1>8, <1>9

\* The device gives the driver a byte of the page that the device is in, and
\* what the answer key has for it; the byte is the one that the framework is at
\* unless the driver is alpha_4.
LEMMA LoadedByteIsRight ==
  ASSUME SystemInv, StorageInv, ReadByte, Inside
  PROVE  /\ chunk - count \in Nat /\ DevicePosition \in Nat
         /\ cursor' = CursorAt(DevicePosition + (chunk - count) + 1)
         /\ loaded' = mirror[Wrap(PageStart(DevicePosition)
                                     + ByteOf(DevicePosition + (chunk - count)))]
         /\ driver # "alpha_4" /\ count > 0 =>
              loaded' = mirror[Wrap(Position + (chunk - count))]
  <1> DEFINE P == DevicePosition
             d == chunk - count
             x == DevicePosition + (chunk - count)
             z == PageStart(P) + ByteOf(x)
  <1>1. pc = "transfer" /\ req.op = "read"
    BY DEF ReadByte
  <1>2. /\ left \in Nat \ {0} /\ chunk \in Nat \ {0} /\ chunk <= left
        /\ count \in Int /\ count <= chunk /\ P \in Nat
    BY <1>1, PositionFacts, DevicePositionFacts, RadixAssumption
    DEF SystemInv, TypeOK, Arithmetic
  <1>3. d \in Nat /\ x \in Nat /\ x = P + d
    BY <1>2
  <1>4. machine_state # MS_BUG /\ machine_state = MS_READ_PROVIDING_DATA
        /\ ~BeforeDeadline
    BY <1>1 DEF SystemInv, BugIsAlpha3s, DriverKnowsDevice, WorkingOf
  <1>5. loaded' = cache[cursor.byte] /\ cursor' = NextByte(cursor)
    BY <1>4, DataOutIsProvided DEF SystemInv, ReadByte
  <1>6. cursor = CursorAt(x) /\ cache = data_store[BlockOf(P)][PageOf(P)]
    BY <1>1, <1>4 DEF StorageInv, CursorInPlace, CacheInPlace
  <1> HIDE DEF x, d, P
  <1>7. cursor' = CursorAt(x + 1)
    BY <1>3, <1>5, <1>6, NextByteIsNext
  <1>8. loaded' = mirror[Wrap(z)]
    <2>1. /\ z \in Nat /\ PageStart(P) <= z /\ z < PageStart(P) + Radix
          /\ PageStart(P) \in Nat /\ z - PageStart(P) = ByteOf(x)
      <3>1. PageStart(P) \in Nat /\ ByteOf(x) \in Digit
        BY <1>2, <1>3, DigitsOfOffset
      <3>2. QED
        BY <3>1, RadixAssumption DEF Digit
    <2> HIDE DEF z
    <2>2. BlockOf(z) = BlockOf(P) /\ PageOf(z) = PageOf(P) /\ ByteOf(z) = ByteOf(x)
      BY <1>2, <2>1, InPage
    <2>3. loaded' = Stored(z)
      BY <1>5, <1>6, <2>2 DEF CursorAt, Stored
    <2>4. Stored(z) = Stored(Wrap(z)) /\ Wrap(z) \in StorageAddress
      BY <2>1, WrapFacts DEF Stored
    <2>5. Unsettled = {}
      BY <1>1 DEF Unsettled
    <2>6. Stored(Wrap(z)) = mirror[Wrap(z)]
      BY <2>4, <2>5 DEF StorageInv, Settled
    <2>7. QED
      BY <2>3, <2>4, <2>6
  <1>9. ASSUME driver # "alpha_4", count > 0
        PROVE  P = Position /\ z = x
    <2>1. P = Position
      BY <1>9 DEF P, DevicePosition
    <2>2. chunk = ChunkSize(left, ByteOf(P))
      BY <1>1, <2>1 DEF StorageInv, ChunksFollowPages
    <2>3. PageStart(P) <= P /\ P + chunk <= PageStart(P) + Radix /\ PageStart(P) \in Nat
      BY <1>2, <2>2, ChunkFacts, DigitsOfOffset
    <2>4. PageStart(P) <= x /\ x < PageStart(P) + Radix
      BY <1>2, <1>3, <1>9, <2>3, RadixAssumption DEF d
    <2>5. ByteOf(x) = x - PageStart(P)
      BY <1>2, <1>3, <2>4, InPage
    <2>6. z = x
      BY <1>3, <2>3, <2>5
    <2>7. QED
      BY <2>1, <2>6
  <1> HIDE DEF z
  <1>10. driver # "alpha_4" /\ count > 0 => loaded' = mirror[Wrap(Position + d)]
    BY <1>3, <1>8, <1>9
  <1>11. QED
    BY <1>2, <1>3, <1>7, <1>8, <1>10 DEF x, d, P, z

\* A byte of a read that goes into the caller's buffer.
LEMMA BufferedByteKeeps ==
  ASSUME SystemInv, StorageInv, ReadByte, Inside, ReadIndex < req.size
  PROVE  BufferFollows'
  <1> DEFINE d == chunk - count
             done == req.size - left
  <1>1. /\ pc = "transfer" /\ req.op = "read" /\ ReadGoesOn /\ count' = count - 1
        /\ buffer' = [buffer EXCEPT ![ReadIndex] = loaded']
        /\ UNCHANGED <<pc, driver, req, left, chunk, rc, mirror>>
    BY DEF ReadByte, Inside
  <1>2. /\ left \in Nat \ {0} /\ chunk \in Nat \ {0} /\ chunk <= left
        /\ count \in Int /\ count <= chunk /\ Position \in Nat
        /\ req.size \in Nat \ {0} /\ req.offset \in Nat /\ left <= req.size
        /\ Position = req.offset + done
    BY <1>1, PositionFacts, RadixAssumption
    DEF SystemInv, TypeOK, Arithmetic, Position
  <1>3. d \in Nat /\ done \in Nat /\ BufferIndex = done + d
    BY <1>2 DEF BufferIndex
  <1>4. loaded' \in Byte
    <2>1. machine_state # MS_BUG /\ machine_state = MS_READ_PROVIDING_DATA
          /\ ~BeforeDeadline
      BY <1>1 DEF SystemInv, BugIsAlpha3s, DriverKnowsDevice, WorkingOf
    <2>2. loaded' = cache[cursor.byte]
      BY <2>1, DataOutIsProvided DEF SystemInv, ReadByte
    <2>3. cache \in Page /\ cursor.byte \in Digit
      BY DEF SystemInv, DeviceInv, DeviceTypeOK, StoreTypeOK, Cursor
    <2>4. QED
      BY <2>2, <2>3 DEF Page
  <1>5. SUFFICES ASSUME rc = 0
                 PROVE  /\ buffer' \in [0 .. (req.size - 1) -> Byte \union {Junk}]
                        /\ BytesAreRight' /\ OnlyWholeBurstsSoFar'
                        /\ WholeBurstsSoFar'
    BY <1>1 DEF BufferFollows
  <1>6. /\ buffer \in [0 .. (req.size - 1) -> Byte \union {Junk}]
        /\ BytesAreRight /\ OnlyWholeBurstsSoFar /\ WholeBurstsSoFar
    BY <1>1, <1>5 DEF StorageInv, BufferFollows
  <1>7. buffer' \in [0 .. (req.size - 1) -> Byte \union {Junk}]
    BY <1>1, <1>4, <1>6
  <1>8. \A i \in 0 .. (req.size - 1) :
          buffer'[i] = IF i = ReadIndex THEN loaded' ELSE buffer[i]
    BY <1>1, <1>6
  <1> HIDE DEF d, done
  <1>9. BytesAreRight'
    <2>1. SUFFICES ASSUME driver # "alpha_4", NEW i \in 0 .. (req.size - 1), Filled(i)'
                   PROVE  buffer'[i] = mirror[Wrap(req.offset + Source(i))]
      BY <1>1 DEF BytesAreRight, Source
    <2>2. ReadIndex \in Int /\ ReadIndex >= done
      <3>1. CASE driver = "alpha_6"
        BY <1>1, <1>2, <1>3, <3>1 DEF ReadIndex, ReadGoesOn, done
      <3>2. CASE driver # "alpha_6"
        BY <1>3, <3>2 DEF ReadIndex
      <3>3. QED
        BY <3>1, <3>2
    <2>3. CASE i = ReadIndex
      <3>1. count > 0
        <4>1. ~(i < done)
          BY <1>3, <2>2, <2>3
        <4>2. count' >= 0
          BY <1>1, <2>1, <4>1 DEF Filled, done
        <4>3. QED
          BY <1>1, <1>2, <4>2
      <3>2. loaded' = mirror[Wrap(Position + d)]
        BY <2>1, <3>1, LoadedByteIsRight DEF d
      <3>3. req.offset + Source(i) = Position + d
        <4>1. CASE driver = "alpha_6"
          <5>1. i = done + count - 1
            BY <2>3, <4>1 DEF ReadIndex, done
          <5>2. i \in (req.size - left) .. (req.size - left + chunk - 1)
            BY <1>2, <1>3, <3>1, <5>1 DEF done
          <5>3. /\ FirstInPage(req, i) = done
                /\ LastInPage(req, i) = done + chunk - 1
            BY <1>1, <5>2, ChunkIsInPage DEF done
          <5>4. Source(i) = done + d
            BY <1>2, <1>3, <4>1, <5>1, <5>3 DEF Source, d
          <5>5. QED
            BY <1>2, <1>3, <5>4
        <4>2. CASE driver # "alpha_6"
          BY <1>2, <1>3, <2>3, <4>2 DEF Source, ReadIndex
        <4>3. QED
          BY <4>1, <4>2
      <3>4. QED
        BY <1>8, <2>3, <3>2, <3>3
    <2>4. CASE i # ReadIndex
      <3>1. Filled(i)
        <4>1. CASE i < done
          BY <4>1 DEF Filled, done
        <4>2. CASE ~(i < done)
          <5>1. count' >= 0 /\ count > 0
            <6>1. count' >= 0
              BY <1>1, <2>1, <4>2 DEF Filled, done
            <6>2. QED
              BY <1>1, <1>2, <6>1
          <5>2. CASE driver = "alpha_6"
            <6>1. done + count - 1 <= i /\ i < done + chunk
              BY <1>1, <1>2, <1>3, <2>1, <4>2, <5>2 DEF Filled, done
            <6>2. i # done + count - 1
              BY <2>4, <5>2 DEF ReadIndex, done
            <6>3. done + count <= i
              BY <1>2, <1>3, <6>1, <6>2
            <6>4. QED
              BY <1>1, <1>2, <5>1, <5>2, <6>1, <6>3 DEF Filled, done
          <5>3. CASE driver # "alpha_6"
            <6>1. BufferIndex' = done + d + 1
              BY <1>1, <1>2, <1>3 DEF BufferIndex, d, done
            <6>2. i < done + d + 1
              BY <1>1, <2>1, <4>2, <5>3, <6>1 DEF Filled, done
            <6>3. i # done + d
              BY <1>3, <2>4, <5>3 DEF ReadIndex
            <6>4. i < BufferIndex
              BY <1>3, <6>2, <6>3
            <6>5. QED
              BY <1>1, <1>2, <5>1, <5>3, <6>4 DEF Filled
          <5>4. QED
            BY <5>2, <5>3
        <4>3. QED
          BY <4>1, <4>2
      <3>2. QED
        BY <1>6, <1>8, <2>1, <2>4, <3>1 DEF BytesAreRight
    <2>5. QED
      BY <2>3, <2>4
  <1>10. OnlyWholeBurstsSoFar'
    BY <1>1, <1>6 DEF OnlyWholeBurstsSoFar
  <1>11. WholeBurstsSoFar'
    <2>1. SUFFICES ASSUME driver = "alpha_4"
                   PROVE  /\ d + 1 <= WholeBursts
                          /\ \A i \in 0 .. (req.size - 1) :
                               buffer'[i] = IF Filled(i)' /\ TakenByAlpha4(req, i)
                                              THEN mirror[Wrap(SourceOfAlpha4(req, i))]
                                              ELSE Junk
      <3>1. WholeBursts' = WholeBursts /\ chunk' - count' = d + 1
        BY <1>1, <1>2 DEF WholeBursts, d
      <3>2. QED
        BY <1>1, <3>1
        DEF WholeBurstsSoFar, TakenByAlpha4, SourceOfAlpha4, TakenBefore, FirstInPage,
            LastInPage
    <2>2. WholeBursts \in Nat /\ WholeBursts <= chunk
      BY <1>2, BurstFacts DEF WholeBursts
    <2>3. d < WholeBursts
      BY <1>1, <2>1 DEF ReadGoesOn, d
    <2>4. count > 0 /\ count' >= 0
      BY <1>1, <1>2, <1>3, <2>2, <2>3 DEF d
    <2>5. ReadIndex = done + d
      BY <1>3, <2>1 DEF ReadIndex
    <2>6. ASSUME NEW i \in 0 .. (req.size - 1)
          PROVE  /\ Filled(i) <=> i < done + d
                 /\ Filled(i)' <=> i < done + d + 1
      <3>1. BufferIndex' = done + d + 1
        BY <1>1, <1>2, <1>3 DEF BufferIndex, d, done
      <3>2. Filled(i) <=> i < done \/ i < done + d
        BY <1>1, <1>2, <1>3, <2>1, <2>4 DEF Filled, done
      <3>3. Filled(i)' <=> i < done \/ i < done + d + 1
        BY <1>1, <1>2, <1>3, <2>1, <2>4, <3>1 DEF Filled, done
      <3>4. QED
        BY <1>3, <3>2, <3>3
    <2>7. ASSUME NEW i \in 0 .. (req.size - 1), i = done + d
          PROVE  /\ TakenByAlpha4(req, i)
                 /\ loaded' = mirror[Wrap(SourceOfAlpha4(req, i))]
      <3>1. i \in (req.size - left) .. (req.size - left + chunk - 1)
        BY <1>2, <1>3, <2>2, <2>3, <2>7 DEF done
      <3>2. FirstInPage(req, i) = done /\ LastInPage(req, i) = done + chunk - 1
        BY <1>1, <3>1, ChunkIsInPage DEF done
      <3>3. /\ i - FirstInPage(req, i) = d
            /\ LastInPage(req, i) - FirstInPage(req, i) + 1 = chunk
        BY <1>2, <1>3, <2>7, <3>2
      <3>4. TakenByAlpha4(req, i)
        BY <2>3, <3>3 DEF TakenByAlpha4, Whole, WholeBursts
      <3>5. SourceOfAlpha4(req, i) = PageStart(DevicePosition) + ByteOf(DevicePosition + d)
        BY <2>1, <3>2, <3>3
        DEF SourceOfAlpha4, DevicePosition, ByteAddress, ByteOf, done
      <3>6. QED
        BY <3>4, <3>5, LoadedByteIsRight DEF d
    <2>8. ASSUME NEW i \in 0 .. (req.size - 1)
          PROVE  buffer'[i] = IF Filled(i)' /\ TakenByAlpha4(req, i)
                                THEN mirror[Wrap(SourceOfAlpha4(req, i))] ELSE Junk
      <3>1. CASE i = done + d
        <4>1. Filled(i)'
          BY <1>3, <2>6, <3>1
        <4>2. buffer'[i] = loaded'
          BY <1>8, <2>5, <3>1
        <4>3. QED
          BY <2>7, <3>1, <4>1, <4>2
      <3>2. CASE i # done + d
        <4>1. Filled(i)' <=> Filled(i)
          BY <1>3, <2>6, <3>2
        <4>2. buffer'[i] = buffer[i]
          BY <1>8, <2>5, <3>2
        <4>3. QED
          BY <1>6, <2>1, <4>1, <4>2 DEF WholeBurstsSoFar
      <3>3. QED
        BY <3>1, <3>2
    <2>9. QED
      BY <1>3, <2>2, <2>3, <2>8
  <1>12. QED
    BY <1>7, <1>9, <1>10, <1>11


LEMMA ReadByteKeeps ==
  ASSUME SystemInv, StorageInv, ReadByte, Inside, SystemInv'
  PROVE  StorageInv'
  <1>1. /\ pc = "transfer" /\ req.op = "read"
        /\ UNCHANGED <<driver, req, left, byte_addr, chunk, rc, mirror>>
        /\ IF ReadIndex < req.size THEN count' = count - 1 /\ UNCHANGED pc
           ELSE pc' = "undefined" /\ UNCHANGED <<buffer, count>>
    BY DEF ReadByte, Inside
  <1>2. machine_state # MS_BUG /\ machine_state = MS_READ_PROVIDING_DATA
        /\ ~BeforeDeadline
    BY <1>1 DEF SystemInv, BugIsAlpha3s, DriverKnowsDevice, WorkingOf
  <1>3. UNCHANGED <<cache, data_store, machine_state>>
    BY <1>2, DataOutIsProvided DEF SystemInv, ReadByte
  <1>4. pc' \in {"transfer", "undefined"}
    BY <1>1
  <1>5. /\ Position' = Position /\ DevicePosition' = DevicePosition
        /\ ~Executed' /\ ~Executed
    BY <1>1, <1>4 DEF Position, DevicePosition, TakenBefore, LastInPage, Executed
  <1>6. ChunksFollowPages'
    BY <1>1, <1>4, <1>5 DEF StorageInv, ChunksFollowPages
  <1>7. MirrorHasEffect'
    BY <1>1 DEF StorageInv, MirrorHasEffect
  <1>8. Settled'
    <2>1. Unsettled' = {} /\ Unsettled = {}
      BY <1>1, <1>4 DEF Unsettled
    <2>2. QED
      BY <1>1, <1>3, <2>1 DEF StorageInv, Settled, Stored
  <1>9. CacheInPlace'
    BY <1>1, <1>3, <1>4, <1>5 DEF StorageInv, CacheInPlace
  <1>10. CASE ReadIndex < req.size
    <2>1. BufferFollows'
      BY <1>10, BufferedByteKeeps
    <2>2. CursorInPlace'
      <3>1. cursor' = CursorAt(DevicePosition + (chunk - count'))
        <4>1. /\ DevicePosition \in Nat /\ chunk \in Nat /\ count \in Int
          BY LoadedByteIsRight, RadixAssumption DEF SystemInv, TypeOK
        <4>2. DevicePosition + (chunk - count) + 1 = DevicePosition + (chunk - count')
          BY <1>1, <1>10, <4>1
        <4>3. QED
          BY <4>2, LoadedByteIsRight
      <3>2. QED
        BY <1>1, <1>4, <1>5, <1>10, <3>1 DEF CursorInPlace
    <2>3. QED
      BY <1>6, <1>7, <1>8, <1>9, <2>1, <2>2 DEF StorageInv
  <1>11. CASE ~(ReadIndex < req.size)
    <2>1. pc' = "undefined" /\ UNCHANGED <<buffer, count>>
      BY <1>1, <1>11
    <2>2. driver = "alpha_5"
      BY <1>1, <2>1 DEF SystemInv, StepsOfOperation
    <2>3. CursorInPlace'
      BY <1>1, <1>5, <2>1 DEF CursorInPlace
    <2>4. BufferFollows'
      <3>1. BytesAreRight => BytesAreRight'
        <4>1. \A i : Filled(i)' => Filled(i)
          BY <1>1, <2>1 DEF Filled
        <4>2. \A i : Source(i)' = Source(i)
          BY <1>1 DEF Source
        <4>3. QED
          BY <1>1, <2>1, <4>1, <4>2 DEF BytesAreRight
      <3>2. OnlyWholeBurstsSoFar => OnlyWholeBurstsSoFar'
        BY <1>1 DEF OnlyWholeBurstsSoFar
      <3>3. WholeBurstsSoFar'
        BY <1>1, <2>2 DEF WholeBurstsSoFar
      <3>4. QED
        BY <1>1, <2>1, <3>1, <3>2, <3>3 DEF StorageInv, BufferFollows
    <2>5. QED
      BY <1>6, <1>7, <1>8, <1>9, <2>3, <2>4 DEF StorageInv
  <1>12. QED
    BY <1>10, <1>11

\* Where a page that is done leaves a call.
LEMMA ChunkIsDone ==
  ASSUME SystemInv, StorageInv, pc \in {"transfer", "ready"},
         req.op = "write" \/ (req.op = "read" /\ pc = "transfer"),
         UNCHANGED req, left' = left - chunk, byte_addr' = byte_addr
  PROVE  /\ left' \in Nat /\ left' < left /\ left' < req.size
         /\ Position' \in Nat /\ Position' = Position + chunk
         /\ byte_addr' = 0
         /\ left' # 0 => /\ Position' = PageStart(Position) + Radix
                         /\ PageStart(Position') = Position'
                         /\ ByteOf(Position') = 0
         /\ left' <= LengthOf(req)
  <1>1. /\ left \in Nat \ {0} /\ req.size \in Nat \ {0} /\ req.offset \in Nat
        /\ left <= req.size /\ Position \in Nat /\ Position = req.offset + (req.size - left)
        /\ chunk \in Nat \ {0} /\ chunk <= left
    BY PositionFacts, RadixAssumption
    DEF SystemInv, Arithmetic, TypeOK, Position
  <1>2. chunk = ChunkSize(left, ByteOf(Position)) /\ byte_addr = 0
    BY DEF StorageInv, ChunksFollowPages, Executed
  <1>3. Position' = Position + chunk
    BY <1>1 DEF Position
  <1>4. left' # 0 => Position' = PageStart(Position) + Radix
    BY <1>1, <1>2, <1>3, ChunkFacts
  <1>5. Position' \in Nat
    BY <1>1, <1>3
  <1>6. left' # 0 => PageStart(Position') = Position' /\ ByteOf(Position') = 0
    BY <1>1, <1>4, <1>5, NextPageStart
  <1>7. LengthOf(req) = req.size
    BY DEF LengthOf
  <1>8. QED
    BY <1>1, <1>2, <1>3, <1>4, <1>5, <1>6, <1>7

\* At the end of a page that is not the last alpha_4 has moved the device on by
\* the whole bursts of it.
LEMMA DeviceFallsBehind ==
  ASSUME SystemInv, StorageInv, pc = "transfer", req.op = "read", driver = "alpha_4",
         UNCHANGED <<req, driver>>, left' = left - chunk, left' # 0,
         chunk - count = WholeBursts
  PROVE  DevicePosition' = DevicePosition + (chunk - count)
  <1> DEFINE done == req.size - left
             rest == LastInPage(req, 0) + 1
  <1>1. /\ left \in Nat \ {0} /\ req.size \in Nat \ {0} /\ left <= req.size
        /\ Position \in Nat /\ chunk \in Nat \ {0} /\ chunk <= left /\ chunk < left
        /\ req.offset \in Nat /\ Radix \in Nat \ {0}
    BY PositionFacts, RadixAssumption DEF SystemInv, Arithmetic, TypeOK
  <1>2. done \in Nat /\ done + chunk \in Nat \ {0} /\ req.size - left' = done + chunk
    BY <1>1
  <1>3. /\ Whole(chunk) = chunk - count
        /\ Whole(chunk) \in Nat /\ Whole(Radix) \in Nat
    BY <1>1, BurstFacts DEF Whole, WholeBursts
  <1>4. TakenBefore(req, done + chunk) = TakenBefore(req, done) + Whole(chunk)
    <2>1. CASE left = req.size
      <3>1. 0 \in (req.size - left) .. (req.size - left + chunk - 1)
        BY <1>1, <2>1
      <3>2. LastInPage(req, 0) = req.size - left + chunk - 1
        BY <3>1, ChunkIsInPage
      <3>3. done = 0 /\ rest = chunk /\ done + chunk = rest + Radix * 0
        BY <1>1, <2>1, <3>2
      <3>4. TakenBefore(req, done + chunk) = Whole(rest) + 0 * Whole(Radix)
        BY <1>1, <1>2, <3>3, TakenFromPages
      <3>5. TakenBefore(req, done) = 0
        BY <3>3 DEF TakenBefore
      <3> HIDE DEF done, rest
      <3>6. QED
        BY <1>3, <3>3, <3>4, <3>5
    <2>2. CASE left # req.size
      <3>1. rest \in Nat
        BY <1>1, <2>2, WholePagesAfterFirst
      <3>2. PICK k \in Nat : done = rest + Radix * k
        BY <1>1, <2>2, WholePagesAfterFirst
      <3>3. chunk = Radix
        <4>1. ByteOf(Position) = 0
          BY <1>1, <2>2 DEF StorageInv, ChunksFollowPages
        <4>2. chunk = ChunkSize(left, ByteOf(Position))
          BY DEF StorageInv, ChunksFollowPages
        <4>3. QED
          BY <1>1, <4>1, <4>2 DEF ChunkSize
      <3>4. done # 0
        BY <1>1, <2>2
      <3>5. done + chunk = rest + Radix * (k + 1) /\ Radix * k \in Nat
        <4>1. Radix * (k + 1) = Radix * k + Radix /\ Radix * k \in Nat
          BY <1>1
        <4> HIDE DEF done, rest
        <4>2. QED
          BY <1>1, <3>1, <3>2, <3>3, <4>1
      <3>6. TakenBefore(req, done) = Whole(rest) + k * Whole(Radix)
        BY <1>2, <3>1, <3>2, <3>4, TakenFromPages
      <3>7. TakenBefore(req, done + chunk) = Whole(rest) + (k + 1) * Whole(Radix)
        BY <1>2, <3>1, <3>5, TakenFromPages
      <3>8. Whole(rest) \in Nat
        BY <3>1, BurstFacts DEF Whole
      <3>9. (k + 1) * Whole(Radix) = k * Whole(Radix) + Whole(Radix)
            /\ k * Whole(Radix) \in Nat
        BY <1>3
      <3> HIDE DEF done, rest
      <3>10. QED
        BY <1>3, <3>3, <3>6, <3>7, <3>8, <3>9
    <2>3. QED
      BY <2>1, <2>2
  <1>5. DevicePosition \in Nat /\ DevicePosition = req.offset + TakenBefore(req, done)
    BY <1>1, DevicePositionFacts DEF DevicePosition
  <1>6. DevicePosition' = req.offset + TakenBefore(req, done + chunk)
    BY <1>2 DEF DevicePosition, TakenBefore, LastInPage
  <1>7. TakenBefore(req, done) \in Nat
    BY <1>1, TakenIsANumber
  <1> HIDE DEF done
  <1>8. QED
    BY <1>1, <1>3, <1>4, <1>5, <1>6, <1>7

\* The end of a transfer: of a write, whose page is now in the cache, or of a
\* read, whose page is now in the caller's buffer.
LEMMA EndTransferKeeps ==
  ASSUME SystemInv, StorageInv, EndTransfer, Inside
  PROVE  StorageInv'
  <1>1. /\ pc = "transfer" /\ count' = 0
        /\ UNCHANGED <<driver, req, byte_addr, buffer, rc, mirror>>
        /\ \/ /\ req.op = "write" /\ count = 0 /\ pc' = "execute"
              /\ UNCHANGED <<left, chunk>>
           \/ /\ req.op = "read" /\ ~ReadGoesOn /\ pc' = "loop"
              /\ left' = left - chunk /\ chunk' = 0
    BY DEF EndTransfer, Inside
  <1>2. UNCHANGED <<cursor, cache, data_store, machine_state>>
    BY DeviceLeftAlone DEF EndTransfer
  <1>3. ~Executed /\ ~Executed'
    BY <1>1 DEF Executed
  <1>4. MirrorHasEffect'
    BY <1>1 DEF StorageInv, MirrorHasEffect
  <1>5. CASE req.op = "write"
    <2>1. pc' = "execute" /\ UNCHANGED <<left, chunk, count>>
      BY <1>1, <1>5
    <2>2. Position' = Position
      BY <1>1, <2>1 DEF Position
    <2>3. ChunksFollowPages'
      BY <1>1, <1>3, <1>5, <2>1, <2>2 DEF StorageInv, ChunksFollowPages
    <2>4. Settled'
      <3>1. Frontier' = Frontier
        BY <1>1, <1>3, <1>5, <2>1, <2>2 DEF Frontier
      <3>2. Unsettled' = Unsettled
        BY <1>1, <1>5, <2>1, <3>1 DEF Unsettled
      <3>3. QED
        BY <1>1, <1>2, <3>2 DEF StorageInv, Settled, Stored
    <2>5. CursorInPlace'
      BY <1>1, <1>2, <1>3, <1>5, <2>1, <2>2 DEF StorageInv, CursorInPlace
    <2>6. CacheInPlace'
      BY <1>1, <1>2, <1>3, <1>5, <2>1, <2>2 DEF StorageInv, CacheInPlace
    <2>7. BufferFollows'
      BY <1>1, <1>5 DEF StorageInv, BufferFollows
    <2>8. QED
      BY <1>4, <2>3, <2>4, <2>5, <2>6, <2>7 DEF StorageInv
  <1>6. CASE req.op = "read"
    <2>1. /\ ~ReadGoesOn /\ pc' = "loop" /\ left' = left - chunk /\ chunk' = 0
      BY <1>1, <1>6
    <2>2. /\ left' \in Nat /\ left' < left /\ left' < req.size
          /\ Position' = Position + chunk /\ byte_addr' = 0
          /\ left' # 0 => ByteOf(Position') = 0
          /\ left' <= LengthOf(req)
      BY <1>1, <1>6, <2>1, ChunkIsDone
    <2>3. /\ left \in Nat \ {0} /\ chunk \in Nat \ {0} /\ chunk <= left
          /\ left <= req.size /\ req.size \in Nat \ {0} /\ count \in Int /\ count <= chunk
          /\ Position \in Nat
      BY <1>1, PositionFacts, RadixAssumption DEF SystemInv, Arithmetic, TypeOK
    <2>4. driver # "alpha_4" => count = 0
      <3>1. CASE driver = "alpha_5"
        BY <2>1, <3>1 DEF ReadGoesOn
      <3>2. CASE driver \notin {"alpha_4", "alpha_5"}
        <4>1. ~(count > 0)
          BY <2>1, <3>2 DEF ReadGoesOn
        <4>2. count >= 0
          BY <1>1, <3>2 DEF SystemInv, Arithmetic
        <4>3. QED
          BY <2>3, <4>1, <4>2
      <3>3. QED
        BY <3>1, <3>2
    <2>5. driver = "alpha_4" => chunk - count = WholeBursts /\ rc = 0 /\ count >= 0
      <3>1. SUFFICES ASSUME driver = "alpha_4"
                     PROVE  chunk - count = WholeBursts /\ rc = 0 /\ count >= 0
        OBVIOUS
      <3>2. rc = 0
        BY <3>1 DEF SystemInv, BugIsAlpha3s, TypeOK, TesterTypeOK
      <3>3. chunk - count <= WholeBursts /\ ~(chunk - count < WholeBursts)
        BY <1>1, <1>6, <2>1, <3>1, <3>2
        DEF StorageInv, BufferFollows, WholeBurstsSoFar, ReadGoesOn
      <3>4. WholeBursts \in Nat /\ count >= 0
        BY <1>1, <2>3, <3>1, BurstFacts DEF WholeBursts, SystemInv, Arithmetic
      <3>5. QED
        BY <2>3, <3>2, <3>3, <3>4
    <2>6. ChunksFollowPages'
      BY <1>1, <1>3, <1>6, <2>1, <2>2 DEF ChunksFollowPages, LengthOf
    <2>7. Settled'
      <3>1. Unsettled' = {} /\ Unsettled = {}
        BY <1>1, <1>6, <2>1 DEF Unsettled
      <3>2. QED
        BY <1>1, <1>2, <3>1 DEF StorageInv, Settled, Stored
    <2>8. CursorInPlace'
      <3>1. left' # 0 => DevicePosition' = DevicePosition + (chunk - count)
        <4>1. CASE driver = "alpha_4"
          BY <1>1, <1>6, <2>1, <2>5, <4>1, DeviceFallsBehind
        <4>2. CASE driver # "alpha_4"
          BY <1>1, <2>2, <2>3, <2>4, <4>2 DEF DevicePosition
        <4>3. QED
          BY <4>1, <4>2
      <3>2. QED
        BY <1>1, <1>2, <1>3, <1>6, <2>1, <3>1 DEF StorageInv, CursorInPlace
    <2>9. CacheInPlace'
      BY <1>1, <1>3, <1>6, <2>1 DEF CacheInPlace
    <2>10. ASSUME BytesAreRight
          PROVE  BytesAreRight'
      <3>1. SUFFICES ASSUME driver # "alpha_4", NEW i \in 0 .. (req.size - 1),
                            i < req.size - left'
                     PROVE  buffer[i] = mirror[Wrap(req.offset + Source(i))]
        BY <1>1, <2>1 DEF BytesAreRight, Filled, Source
      <3>2. Filled(i)
        <4>1. i < req.size - left + chunk
          BY <2>1, <2>3, <3>1
        <4>2. CASE driver = "alpha_6"
          <5>1. i < req.size - left \/ req.size - left + count <= i
            BY <2>3, <2>4, <4>2
          <5>2. count >= 0
            BY <2>4, <3>1
          <5>3. QED
            BY <1>1, <4>1, <4>2, <5>1, <5>2 DEF Filled
        <4>3. CASE driver # "alpha_6"
          <5>1. BufferIndex = req.size - left + chunk /\ count >= 0
            BY <2>3, <2>4, <3>1 DEF BufferIndex
          <5>2. QED
            BY <1>1, <4>1, <4>3, <5>1 DEF Filled
        <4>4. QED
          BY <4>2, <4>3
      <3>3. QED
        BY <2>10, <3>1, <3>2 DEF BytesAreRight
    <2>11. ASSUME OnlyWholeBurstsSoFar
           PROVE  OnlyWholeBurstsSoFar'
      <3>1. SUFFICES ASSUME driver = "alpha_5", NEW i \in 0 .. (req.size - left' - 1)
                     PROVE  (LastInPage(req, i) - FirstInPage(req, i) + 1) % Burst = 0
        BY <1>1 DEF OnlyWholeBurstsSoFar
      <3>2. chunk % Burst = 0
        BY <2>1, <3>1 DEF ReadGoesOn
      <3>3. CASE i < req.size - left
        <4>1. i \in 0 .. (req.size - left - 1)
          BY <2>3, <3>3
        <4>2. QED
          BY <2>11, <3>1, <4>1 DEF OnlyWholeBurstsSoFar
      <3>4. CASE ~(i < req.size - left)
        <4>1. i \in (req.size - left) .. (req.size - left + chunk - 1)
          BY <2>1, <2>2, <2>3, <3>4
        <4>2. /\ FirstInPage(req, i) = req.size - left
              /\ LastInPage(req, i) = req.size - left + chunk - 1
          BY <1>1, <1>6, <4>1, ChunkIsInPage
        <4>3. LastInPage(req, i) - FirstInPage(req, i) + 1 = chunk
          BY <2>3, <4>2
        <4>4. QED
          BY <3>2, <4>3
      <3>5. QED
        BY <3>3, <3>4
    <2>12. ASSUME WholeBurstsSoFar
           PROVE  WholeBurstsSoFar'
      <3>1. SUFFICES ASSUME driver = "alpha_4", NEW i \in 0 .. (req.size - 1)
                     PROVE  buffer[i] = IF i < req.size - left' /\ TakenByAlpha4(req, i)
                                          THEN mirror[Wrap(SourceOfAlpha4(req, i))]
                                          ELSE Junk
        BY <1>1, <2>1
        DEF WholeBurstsSoFar, Filled, TakenByAlpha4, SourceOfAlpha4, TakenBefore,
            FirstInPage, LastInPage
      <3>2. Filled(i) => i < req.size - left'
        BY <1>1, <2>1, <2>3, <2>5, <3>1 DEF Filled, BufferIndex
      <3>3. ASSUME i < req.size - left', ~Filled(i)
            PROVE  ~TakenByAlpha4(req, i)
        <4>1. ~(i < req.size - left) /\ ~(i < req.size - left + (chunk - count))
          BY <1>1, <2>5, <3>1, <3>3 DEF Filled, BufferIndex
        <4>2. i \in (req.size - left) .. (req.size - left + chunk - 1)
          BY <2>1, <2>2, <2>3, <3>3, <4>1
        <4>3. /\ FirstInPage(req, i) = req.size - left
              /\ LastInPage(req, i) = req.size - left + chunk - 1
          BY <1>1, <1>6, <4>2, ChunkIsInPage
        <4>4. /\ LastInPage(req, i) - FirstInPage(req, i) + 1 = chunk
              /\ i - FirstInPage(req, i) >= chunk - count
              /\ i - FirstInPage(req, i) \in Int
          BY <2>3, <4>1, <4>3
        <4>5. Whole(chunk) = chunk - count
          BY <2>5, <3>1 DEF Whole, WholeBursts
        <4>6. QED
          BY <2>3, <4>4, <4>5 DEF TakenByAlpha4
      <3>4. QED
        BY <2>12, <3>1, <3>2, <3>3 DEF WholeBurstsSoFar
    <2>13. BufferFollows'
      BY <1>1, <1>6, <2>10, <2>11, <2>12 DEF StorageInv, BufferFollows
    <2>14. QED
      BY <1>4, <2>6, <2>7, <2>8, <2>9, <2>13 DEF StorageInv
  <1>7. QED
    BY <1>1, <1>5, <1>6


-----------------------------------------------------------------------------
(* The ends of pages and of calls, and the beginnings.                     *)

\* The wait after a program or an erase was answered: what was executed is no
\* longer to come.
LEMMA AdvanceKeeps ==
  ASSUME SystemInv, StorageInv, Advance, Inside
  PROVE  StorageInv'
  <1>1. /\ pc = "ready" /\ pc' = "loop" /\ req.op # "read"
        /\ UNCHANGED <<driver, req, byte_addr, count, buffer, rc, mirror>>
        /\ left' = IF req.op = "erase" THEN left - 1 ELSE left - chunk
        /\ chunk' = 0
    BY DEF Advance, Inside
  <1>2. UNCHANGED <<cursor, cache, data_store, machine_state>>
    BY DeviceLeftAlone DEF Advance
  <1>3. Executed /\ ~Executed' /\ left \in Nat /\ left > 0
    BY <1>1 DEF Executed, SystemInv, TypeOK, Arithmetic
  <1>4. req.op \in Operation
    BY <1>1, RequestFacts DEF SystemInv, StepsOfOperation
  <1>5. MirrorHasEffect'
    BY <1>1 DEF StorageInv, MirrorHasEffect
  <1>6. BufferFollows'
    BY <1>1 DEF StorageInv, BufferFollows
  <1>7. ASSUME Frontier' = Frontier
        PROVE  Settled'
    <2>1. Unsettled' = Unsettled
      BY <1>1, <1>7 DEF Unsettled, RegionEnd
    <2>2. QED
      BY <1>1, <1>2, <2>1 DEF StorageInv, Settled, Stored
  <1>8. CASE req.op = "write"
    <2>1. /\ left' \in Nat /\ byte_addr' = 0 /\ Position' \in Nat
          /\ Position' = Position + chunk
          /\ left' # 0 => /\ Position' = PageStart(Position) + Radix
                          /\ PageStart(Position') = Position'
                          /\ ByteOf(Position') = 0
          /\ left' <= LengthOf(req)
      BY <1>1, <1>8, ChunkIsDone
    <2>2. ChunksFollowPages'
      BY <1>1, <1>3, <1>8, <2>1 DEF ChunksFollowPages, LengthOf
    <2>3. Frontier = PageStart(Position) + Radix
      BY <1>3, <1>8 DEF Frontier
    <2>4. Frontier' = Frontier
      <3>1. CASE left' = 0
        <4>1. Frontier' = RegionEnd(req) + 1
          BY <1>1, <1>8, <3>1 DEF Frontier, RegionEnd
        <4>2. chunk = ChunkSize(left, ByteOf(Position)) /\ chunk = left
          <5>1. chunk \in Nat
            BY RadixAssumption DEF SystemInv, TypeOK
          <5>2. QED
            BY <1>1, <1>3, <1>8, <3>1, <5>1 DEF StorageInv, ChunksFollowPages
        <4>3. /\ RegionEnd(req) = PageStart(Position) + Radix - 1
              /\ PageStart(Position) \in Nat
          BY <1>1, <1>3, <1>8, <4>2, WriteFacts
        <4>4. QED
          BY <2>3, <4>1, <4>3, RadixAssumption
      <3>2. CASE left' # 0
        <4>1. Frontier' = PageStart(Position') + 0
          BY <1>1, <1>3, <1>8, <3>2 DEF Frontier
        <4>2. QED
          BY <2>1, <2>3, <3>2, <4>1
      <3>3. QED
        BY <3>1, <3>2
    <2>5. CursorInPlace'
      BY <1>1, <1>2, <1>3, <1>8, <2>1 DEF StorageInv, CursorInPlace
    <2>6. CacheInPlace'
      BY <1>1, <1>2, <1>3, <1>8 DEF StorageInv, CacheInPlace
    <2>7. QED
      BY <1>5, <1>6, <1>7, <2>2, <2>4, <2>5, <2>6 DEF StorageInv
  <1>9. CASE req.op = "erase"
    <2>1. left' = left - 1
      BY <1>1, <1>9
    <2>2. ChunksFollowPages'
      <3>1. left <= LengthOf(req) /\ LengthOf(req) \in Nat
        BY <1>1, <1>9, EraseFacts
        DEF StorageInv, ChunksFollowPages, SystemInv, StepsOfOperation
      <3>2. left' <= LengthOf(req)
        BY <1>3, <2>1, <3>1
      <3>3. QED
        BY <1>1, <1>3, <1>9, <3>2 DEF ChunksFollowPages, LengthOf
    <2>3. Frontier' = Frontier
      <3> DEFINE E == RegionEnd(req)
                 B == BlockSize
      <3>1. Frontier = E + 1 - left * B + B /\ Frontier' = E + 1 - left' * B + 0
        BY <1>1, <1>3, <1>9 DEF Frontier, RegionEnd
      <3>2. E \in Int /\ B \in Nat
        BY <1>1, <1>9, EraseFrontierFacts, SizesArePositive
      <3> HIDE DEF E, B
      <3>3. left' * B = left * B - B /\ left * B \in Int
        BY <1>3, <2>1, <3>2
      <3>4. QED
        BY <3>1, <3>2, <3>3
    <2>4. CursorInPlace'
      BY <1>1, <1>2, <1>3, <1>9, <2>3 DEF StorageInv, CursorInPlace
    <2>5. CacheInPlace'
      BY <1>1, <1>9 DEF CacheInPlace
    <2>6. QED
      BY <1>5, <1>6, <1>7, <2>2, <2>3, <2>4, <2>5 DEF StorageInv
  <1>10. QED
    BY <1>1, <1>4, <1>8, <1>9 DEF Operation

\* A call that succeeds leaves nothing unsettled.
LEMMA LoopEndsKeeps ==
  ASSUME SystemInv, StorageInv, LoopEnds, UNCHANGED <<driver, mirror, made>>
  PROVE  StorageInv'
  <1>1. /\ pc = "loop" /\ left = 0 /\ pc' = "idle" /\ rc' = 0
        /\ UNCHANGED <<driver, req, buffer, left, byte_addr, chunk, count, mirror>>
    BY DEF LoopEnds, Return, EndCall, loopVars
  <1>2. UNCHANGED <<cursor, cache, data_store, machine_state>>
    BY DeviceLeftAlone DEF LoopEnds, Return, EndCall
  <1>3. Position' = Position /\ ~Executed /\ ~Executed'
    BY <1>1 DEF Position, Executed
  <1>4. req.op \in Operation
    BY <1>1, RequestFacts DEF SystemInv, StepsOfOperation
  <1>5. ChunksFollowPages'
    BY <1>1, <1>3 DEF StorageInv, ChunksFollowPages
  <1>6. CursorInPlace' /\ CacheInPlace' /\ MirrorHasEffect'
    BY <1>1, <1>3 DEF CursorInPlace, CacheInPlace, MirrorHasEffect
  <1>7. Settled'
    <2>1. Unsettled' = {}
      BY <1>1 DEF Unsettled
    <2>2. Unsettled = {}
      <3>1. CASE req.op = "read"
        BY <1>1, <3>1 DEF Unsettled
      <3>2. CASE req.op # "read"
        <4>1. RegionEnd(req) \in Int
          BY <1>1, RegionFacts DEF SystemInv, StepsOfOperation
        <4>2. Frontier = RegionEnd(req) + 1
          <5>1. CASE req.op = "write"
            BY <1>1, <5>1 DEF Frontier
          <5>2. CASE req.op = "erase"
            <6>1. Frontier = RegionEnd(req) + 1 - 0 * BlockSize + 0
              BY <1>1, <1>3, <5>2 DEF Frontier
            <6>2. 0 * BlockSize = 0
              BY SizesArePositive
            <6>3. QED
              BY <4>1, <6>1, <6>2
          <5>3. QED
            BY <1>4, <3>2, <5>1, <5>2 DEF Operation
        <4>3. Unsettled = Frontier .. RegionEnd(req)
          BY <1>1, <3>2 DEF Unsettled
        <4>4. QED
          BY <4>1, <4>2, <4>3
      <3>3. QED
        BY <3>1, <3>2
    <2>3. QED
      BY <1>1, <1>2, <2>1, <2>2 DEF StorageInv, Settled, Stored
  <1>8. BufferFollows'
    <2>1. req.op = "read" => rc = 0
      BY <1>1 DEF SystemInv, BugIsAlpha3s, TypeOK, TesterTypeOK
    <2>2. BytesAreRight => BytesAreRight'
      <3>1. \A i : (Filled(i)' <=> Filled(i)) /\ Source(i)' = Source(i)
        BY <1>1 DEF Filled, Source
      <3>2. QED
        BY <1>1, <3>1 DEF BytesAreRight
    <2>3. OnlyWholeBurstsSoFar => OnlyWholeBurstsSoFar'
      BY <1>1 DEF OnlyWholeBurstsSoFar
    <2>4. WholeBurstsSoFar => WholeBurstsSoFar'
      <3>1. \A i : Filled(i)' <=> Filled(i)
        BY <1>1 DEF Filled
      <3>2. QED
        BY <1>1, <3>1 DEF WholeBurstsSoFar
    <2>5. QED
      BY <1>1, <2>1, <2>2, <2>3, <2>4 DEF StorageInv, BufferFollows
  <1>9. QED
    BY <1>5, <1>6, <1>7, <1>8 DEF StorageInv

\* A call that fails leaves unsettled no more than the arena.
LEMMA GiveUpKeeps ==
  ASSUME SystemInv, StorageInv, GiveUp, UNCHANGED <<driver, mirror, made>>
  PROVE  StorageInv'
  <1>1. /\ pc = "timed_out" /\ pc' = "idle" /\ rc' = -1
        /\ UNCHANGED <<driver, req, buffer, left, byte_addr, chunk, count, mirror>>
    BY DEF GiveUp, Return, EndCall, loopVars
  <1>2. UNCHANGED <<cursor, cache, data_store, machine_state>>
    BY DeviceLeftAlone DEF GiveUp, Return, EndCall
  <1>3. Position' = Position /\ Executed /\ ~Executed' /\ left > 0
    BY <1>1 DEF Position, Executed, SystemInv, Arithmetic
  <1>4. req \in Requests /\ req.op \in Operation
    BY <1>1, RequestFacts DEF SystemInv, StepsOfOperation
  <1>5. ChunksFollowPages'
    BY <1>1, <1>3 DEF StorageInv, ChunksFollowPages
  <1>6. CursorInPlace' /\ CacheInPlace' /\ MirrorHasEffect'
    BY <1>1, <1>3 DEF CursorInPlace, CacheInPlace, MirrorHasEffect
  <1>7. Settled'
    <2> DEFINE A == RegionStart(ArenaErase)
               Z == RegionEnd(ArenaErase)
    <2>1. Unsettled' = A .. Z
      BY <1>1 DEF Unsettled
    <2>2. /\ RegionStart(req) \in Nat /\ RegionEnd(req) \in Int /\ A \in Nat /\ Z \in Int
          /\ A <= RegionStart(req) /\ RegionEnd(req) <= Z
      BY <1>4, RegionFacts
    <2> HIDE DEF A, Z
    <2>3. \A x \in Unsettled : x \in A .. Z
      <3>1. CASE req.op = "read"
        BY <1>1, <3>1 DEF Unsettled
      <3>2. CASE req.op = "write"
        <4>1. Unsettled = (PageStart(Position) + Radix) .. RegionEnd(req)
          BY <1>1, <1>3, <3>2 DEF Unsettled, Frontier
        <4>2. PageStart(Position) \in Nat /\ RegionStart(req) <= PageStart(Position)
          BY <1>1, <1>3, <3>2, WriteFacts
        <4>3. QED
          BY <2>2, <4>1, <4>2, RadixAssumption
      <3>3. CASE req.op = "erase"
        <4> DEFINE F == RegionEnd(req) + 1 - left * BlockSize
        <4>1. Unsettled = (F + BlockSize) .. RegionEnd(req)
          BY <1>1, <1>3, <3>3 DEF Unsettled, Frontier
        <4>2. F \in Nat /\ RegionStart(req) <= F
          BY <1>1, <3>3, EraseFrontierFacts
        <4> HIDE DEF F
        <4>3. QED
          BY <2>2, <4>1, <4>2, SizesArePositive
      <3>4. QED
        BY <1>4, <3>1, <3>2, <3>3 DEF Operation
    <2>4. QED
      BY <1>1, <1>2, <2>1, <2>3 DEF StorageInv, Settled, Stored
  <1>8. BufferFollows'
    BY <1>1 DEF StorageInv, BufferFollows
  <1>9. QED
    BY <1>5, <1>6, <1>7, <1>8 DEF StorageInv

\* The tester's next call: from now on the answer key has its effect, and its
\* region is unsettled.
LEMMA RequestKeeps ==
  ASSUME SystemInv, StorageInv, Request
  PROVE  StorageInv'
  <1>1. PICK r \in Requests : Operate(r) /\ Call(r) /\ UNCHANGED driver
    BY DEF Request
  <1>2. /\ pc = "idle" /\ pc' = "setup" /\ req' = r
        /\ buffer' = IF r.op = "read" THEN [i \in 0 .. (r.size - 1) |-> Junk] ELSE <<>>
        /\ UNCHANGED <<rc, driver, deviceVars>>
        /\ left' = LengthOf(r)
        /\ byte_addr' = ByteOf(r.offset)
        /\ chunk' = 0 /\ count' = 0
    BY <1>1 DEF Call, BeginCall, LengthOf, ByteAddress, ByteOf
  <1>3. UNCHANGED <<cursor, cache, data_store, machine_state>>
    BY <1>2, DeviceLeftAlone
  <1>4. /\ r.op \in Operation /\ r.offset \in Nat /\ r.size \in Nat \ {0}
        /\ LengthOf(r) \in Nat \ {0} /\ (r.op # "erase" => LengthOf(r) = r.size)
    BY <1>1, RequestFacts, EraseFacts DEF LengthOf
  <1>5. ~Executed' /\ (r.op # "erase" => Position' = r.offset)
    BY <1>2, <1>4 DEF Executed, Position
  <1>6. ChunksFollowPages'
    BY <1>2, <1>4, <1>5 DEF ChunksFollowPages, LengthOf
  <1>7. CursorInPlace' /\ CacheInPlace'
    BY <1>2, <1>5 DEF CursorInPlace, CacheInPlace
  <1> DEFINE A == RegionStart(r)
             Z == RegionEnd(r)
  <1>8. /\ A \in Nat /\ Z \in Int
        /\ mirror \in Mirror
    BY <1>1, RegionFacts DEF SystemInv, TypeOK, TesterTypeOK
  <1>9. r.op = "read" => mirror' = mirror
    BY <1>1 DEF Operate
  <1>10. /\ r.op = "write" =>
              \A x \in A .. Z :
                mirror'[Wrap(x)] = IF x \in r.offset .. (r.offset + r.size - 1)
                                     THEN r.data[x - r.offset] ELSE Zero
         /\ r.op = "erase" => \A x \in A .. Z : mirror'[Wrap(x)] = Zero
         /\ r.op # "read" =>
              \A a \in StorageAddress :
                (\A x \in A .. Z : Wrap(x) # a) => mirror'[a] = mirror[a]
    BY <1>1, <1>8, CallTakesEffect
  <1>11. MirrorHasEffect'
    BY <1>2, <1>10 DEF MirrorHasEffect
  <1>12. Settled'
    <2>1. CASE r.op = "read"
      <3>1. rc = 0
        BY <1>1, <2>1, RequestAssumption DEF Operate
      <3>2. Unsettled = {} /\ Unsettled' = {}
        BY <1>2, <2>1, <3>1 DEF Unsettled
      <3>3. QED
        BY <1>2, <1>3, <1>9, <2>1, <3>2 DEF StorageInv, Settled, Stored
    <2>2. CASE r.op # "read"
      <3>1. Frontier' = A
        <4>1. CASE r.op = "write"
          <5>1. Frontier' = PageStart(r.offset) + 0
            BY <1>2, <1>4, <1>5, <4>1 DEF Frontier
          <5>2. QED
            BY <1>8, <4>1, <5>1 DEF RegionStart
        <4>2. CASE r.op = "erase"
          <5>1. Frontier' = Z + 1 - LengthOf(r) * BlockSize + 0
            BY <1>2, <1>5, <4>2 DEF Frontier
          <5>2. Z + 1 - LengthOf(r) * BlockSize = A
            BY <1>1, <4>2, EraseFacts
          <5>3. QED
            BY <1>8, <5>1, <5>2
        <4>3. QED
          BY <1>4, <2>2, <4>1, <4>2 DEF Operation
      <3>2. Unsettled' = A .. Z
        BY <1>2, <2>2, <3>1 DEF Unsettled
      <3>3. \A x \in Unsettled : x \in A .. Z
        <4>1. CASE rc = 0
          BY <1>2, <4>1 DEF Unsettled
        <4>2. CASE rc # 0
          <5>1. r = ArenaErase
            BY <1>1, <4>2 DEF Operate
          <5>2. QED
            BY <1>2, <4>2, <5>1 DEF Unsettled
        <4>3. QED
          BY <4>1, <4>2
      <3>4. SUFFICES ASSUME NEW a \in StorageAddress, \A x \in A .. Z : Wrap(x) # a
                     PROVE  Stored(a)' = mirror'[a]
        BY <3>2 DEF Settled
      <3>5. Stored(a) = mirror[a]
        BY <3>3, <3>4 DEF StorageInv, Settled
      <3>6. mirror'[a] = mirror[a]
        BY <1>10, <2>2, <3>4
      <3>7. QED
        BY <1>3, <3>5, <3>6 DEF Stored
    <2>3. QED
      BY <2>1, <2>2
  <1>13. BufferFollows'
    <2>1. CASE r.op = "read"
      <3>1. buffer' \in [0 .. (r.size - 1) -> Byte \union {Junk}]
        BY <1>2, <2>1
      <3>2. left' = r.size /\ r.size - left' = 0
        BY <1>2, <1>4, <2>1
      <3>3. BytesAreRight'
        BY <1>2, <3>2 DEF BytesAreRight, Filled
      <3>4. OnlyWholeBurstsSoFar'
        <4>1. 0 .. (r.size - left' - 1) = {}
          BY <3>2
        <4>2. QED
          BY <1>2, <4>1 DEF OnlyWholeBurstsSoFar
      <3>5. WholeBurstsSoFar'
        <4>1. \A i \in 0 .. (r.size - 1) : buffer'[i] = Junk /\ ~Filled(i)'
          BY <1>2, <2>1, <3>2 DEF Filled
        <4>2. QED
          BY <1>2, <4>1 DEF WholeBurstsSoFar
      <3>6. QED
        BY <1>2, <2>1, <3>1, <3>3, <3>4, <3>5 DEF BufferFollows
    <2>2. QED
      BY <1>2, <2>1 DEF BufferFollows
  <1>14. QED
    BY <1>6, <1>7, <1>11, <1>12, <1>13 DEF StorageInv


\* Waiting, and time, which passes between calls as well.
LEMMA WaitKeeps ==
  ASSUME SystemInv, StorageInv, WaitStep(WaitInterval(req.op), req.op = "erase"),
         UNCHANGED <<callVars, deviceVars>>, Inside
  PROVE  StorageInv'
  <1>1. UNCHANGED <<req, buffer, rc, left, byte_addr, chunk, count, driver, mirror>>
    BY DEF callVars, loopVars, Inside
  <1>2. UNCHANGED <<cursor, cache, data_store, machine_state>>
    BY DeviceLeftAlone
  <1>3. Executed /\ Executed'
    BY DEF Executed, WaitStep, StartWait, Poll, FallAsleep, WakeUp, CheckTimeout,
           LastPoll, FirstStep, AfterBusy, AfterSleep, AfterCheck, AfterTimeout
  <1>4. QED
    BY <1>1, <1>2, <1>3, QuietStepKeeps

LEMMA TimeKeeps ==
  ASSUME StorageInv, Time
  PROVE  StorageInv'
  BY QuietStepKeeps DEF Time, Tick, storeVars, callVars, loopVars, testerVars

LEMMA StutteringKeeps ==
  ASSUME StorageInv, UNCHANGED vars
  PROVE  StorageInv'
  BY QuietStepKeeps
  DEF vars, deviceVars, storeVars, parserVars, waitVars, callVars, loopVars, testerVars

LEMMA InitSettles ==
  ASSUME Init
  PROVE  StorageInv
  <1>1. /\ pc = "idle" /\ req = NoRequest /\ rc = 0 /\ left = 0 /\ buffer = <<>>
        /\ mirror = BlankMirror /\ data_store = [b \in Digit |-> ZeroBlock]
    BY DEF Init, JumpTableInit, FrameworkInit, TesterInit, ParserInit, StoreInit
  <1>2. ~Executed /\ req.op = "none"
    BY <1>1 DEF Executed, NoRequest
  <1>3. ChunksFollowPages
    BY <1>1, <1>2 DEF ChunksFollowPages
  <1>4. CursorInPlace /\ CacheInPlace /\ MirrorHasEffect
    BY <1>1, <1>2 DEF CursorInPlace, CacheInPlace, MirrorHasEffect
  <1>5. Settled
    <2>1. SUFFICES ASSUME NEW a \in StorageAddress
                   PROVE  data_store[BlockOf(a)][PageOf(a)][ByteOf(a)] = mirror[a]
      BY DEF Settled, Stored
    <2>2. BlockOf(a) \in Digit /\ PageOf(a) \in Digit /\ ByteOf(a) \in Digit
      BY AddressFacts
    <2>3. data_store[BlockOf(a)][PageOf(a)][ByteOf(a)] = Zero
      BY <1>1, <2>2 DEF ZeroBlock, ZeroPage
    <2>4. QED
      BY <1>1, <2>3 DEF BlankMirror
  <1>6. BufferFollows
    BY <1>1, <1>2 DEF BufferFollows
  <1>7. QED
    BY <1>3, <1>4, <1>5, <1>6 DEF StorageInv

-----------------------------------------------------------------------------
(* The results.                                                            *)

LEMMA TraceeKeeps ==
  ASSUME SystemInv, StorageInv, Tracee, SystemInv'
  PROVE  StorageInv'
  <1>1. UNCHANGED <<driver, mirror, made>>
    BY DEF Tracee, testerVars
  <1>2. CASE LoopEnds \/ GiveUp
    BY <1>1, <1>2, LoopEndsKeeps, GiveUpKeeps
  <1>3. CASE SetUp \/ GiveBlockAddress \/ GivePageAddress \/ GiveByteAddress
               \/ StartOperation
    <2>1. Inside
      BY <1>1, <1>3
      DEF Inside, SetUp, GiveBlockAddress, GivePageAddress, GiveByteAddress,
          StartOperation, Access, callVars
    <2>2. QED
      BY <1>3, <2>1, SetUpKeeps, GiveBlockAddressKeeps, GivePageAddressKeeps,
         GiveByteAddressKeeps, StartOperationKeeps
  <1>4. CASE LoopExecutes \/ StartTransfer \/ ProgramByte \/ ReadByte \/ EndTransfer
               \/ Advance
    <2>1. Inside
      BY <1>1, <1>4
      DEF Inside, LoopExecutes, StartTransfer, ProgramByte, ReadByte, EndTransfer,
          Advance, callVars
    <2>2. QED
      BY <1>4, <2>1, LoopExecutesKeeps, StartTransferKeeps, ProgramByteKeeps,
         ReadByteKeeps, EndTransferKeeps, AdvanceKeeps
  <1>5. CASE /\ WaitStep(WaitInterval(req.op), req.op = "erase")
             /\ UNCHANGED <<callVars, deviceVars>>
    <2>1. Inside
      BY <1>1, <1>5 DEF Inside, callVars
    <2>2. QED
      BY <1>5, <2>1, WaitKeeps
  <1>6. QED
    BY <1>2, <1>3, <1>4, <1>5 DEF Tracee, CallStep

\* At every step of a call it is known which of the region's bytes storage has,
\* where the device's cursor is and what its cache holds, and which bytes of the
\* caller's buffer are the right ones.
THEOREM StorageInvariant == Spec => []StorageInv
  <1>1. Init => StorageInv
    BY InitSettles
  <1>2. SystemInv /\ StorageInv /\ SystemInv' /\ [Next]_vars => StorageInv'
    BY RequestKeeps, TraceeKeeps, TimeKeeps, StutteringKeeps DEF Next
  <1>3. QED
    BY <1>1, <1>2, SystemInvariant, PTL DEF Spec

\* After every call that succeeds storage is what the mirror says, whichever
\* alpha driver is under test: their flaws are in how they wait and how they
\* read.
THEOREM StorageIsAsWritten == Spec => []StoreMatchesMirror
  <1>1. SystemInv /\ StorageInv => StoreMatchesMirror
    <2>1. SUFFICES ASSUME SystemInv, StorageInv, pc = "idle", rc = 0
                   PROVE  Contents = mirror
      BY DEF StoreMatchesMirror
    <2>2. AgreesOutside({}) /\ mirror \in Mirror
      BY <2>1 DEF StorageInv, Settled, Unsettled, AgreesOutside,
                  SystemInv, TypeOK, TesterTypeOK
    <2>3. QED
      BY <2>2, AgreementIsTotal
  <1>2. QED
    BY <1>1, SystemInvariant, StorageInvariant, PTL

\* The framework and the device, which count on their own, agree on which byte
\* goes where, and a read finds the cursor's page in the cache (jt_read() and
\* jt_write() against increment_cursor()).
THEOREM CountsAgree ==
  ASSUME "alpha_4" \notin Drivers
  PROVE  Spec => []CursorFollowsBuffer
  <1>1. SystemInv /\ StorageInv => CursorFollowsBuffer
    <2>1. SUFFICES ASSUME SystemInv, StorageInv, pc = "transfer", count > 0
                   PROVE  /\ CursorAddress = Wrap(req.offset + BufferIndex)
                          /\ req.op = "read" => cache = PageAt(cursor)
      BY DEF CursorFollowsBuffer
    <2> DEFINE P == Position
               d == chunk - count
               x == Position + (chunk - count)
    <2>2. /\ left \in Nat \ {0} /\ chunk \in Nat \ {0} /\ chunk <= left
          /\ count \in Nat \ {0} /\ count <= chunk /\ P \in Nat
          /\ req.offset \in Nat /\ req.size \in Nat
          /\ P = req.offset + (req.size - left)
          /\ req.op \in {"read", "write"} /\ machine_state # MS_BUG
      BY <2>1, PositionFacts, RequestFacts, RadixAssumption
      DEF SystemInv, TypeOK, Arithmetic, StepsOfOperation, BugIsAlpha3s, Operation,
          Position
    <2>3. d \in Nat /\ d < chunk /\ x = P + d /\ x \in Nat
          /\ req.offset + BufferIndex = x
      BY <2>2 DEF BufferIndex
    <2>4. chunk = ChunkSize(left, ByteOf(P))
      BY <2>1 DEF StorageInv, ChunksFollowPages
    <2>5. /\ PageStart(P) \in Nat /\ P = PageStart(P) + ByteOf(P)
          /\ PageStart(P) <= P /\ P + chunk <= PageStart(P) + Radix
          /\ ByteOf(P) \in Nat
      <3>1. ByteOf(P) \in Digit
        BY <2>2, DigitsOfOffset
      <3>2. QED
        BY <2>2, <2>4, <3>1, ChunkFacts, DigitsOfOffset, RadixAssumption DEF Digit
    <2>6. DevicePosition = P
      BY <2>1 DEF SystemInv, TypeOK, TesterTypeOK, DevicePosition
    <2> HIDE DEF P, d, x
    <2>7. BlockOf(x) = BlockOf(P) /\ PageOf(x) = PageOf(P) /\ ByteOf(x) = ByteOf(P) + d
      <3>1. PageStart(P) <= x /\ x < PageStart(P) + Radix
        BY <2>2, <2>3, <2>5, RadixAssumption
      <3>2. ByteOf(x) = x - PageStart(P)
        BY <2>2, <2>3, <3>1, InPage
      <3>3. ByteOf(x) = ByteOf(P) + d
        BY <2>2, <2>3, <2>5, <3>2
      <3>4. QED
        BY <2>2, <2>3, <3>1, <3>3, InPage
    <2>8. /\ cursor.block = BlockOf(x) /\ cursor.page = PageOf(x)
          /\ cursor.byte = ByteOf(x)
      <3>1. CASE req.op = "read"
        <4>1. cursor = CursorAt(x)
          BY <2>1, <2>2, <2>3, <2>6, <3>1 DEF StorageInv, CursorInPlace, d
        <4>2. QED
          BY <4>1 DEF CursorAt
      <3>2. CASE req.op = "write"
        BY <2>1, <2>2, <2>7, <3>2 DEF StorageInv, CursorInPlace, P, d
      <3>3. QED
        BY <2>2, <3>1, <3>2
    <2>9. CursorAddress = Wrap(x)
      BY <2>3, <2>8, WrapFacts DEF CursorAddress
    <2>10. req.op = "read" => cache = PageAt(cursor)
      BY <2>1, <2>6, <2>7, <2>8 DEF StorageInv, CacheInPlace, PageAt, P
    <2>11. QED
      BY <2>3, <2>9, <2>10
  <1>2. QED
    BY <1>1, SystemInvariant, StorageInvariant, PTL

\* What is known of the buffer when there is nothing left to read.
LEMMA NothingLeftToRead ==
  ASSUME SystemInv, StorageInv, rc = 0, left = 0, req.op = "read", pc # "transfer"
  PROVE  /\ req \in Requests
         /\ req.offset \in Nat /\ req.size \in Nat \ {0}
         /\ buffer \in [0 .. (req.size - 1) -> Byte \union {Junk}]
         /\ \A i \in 0 .. (req.size - 1) : Filled(i)
         /\ BytesAreRight /\ OnlyWholeBurstsSoFar /\ WholeBurstsSoFar
  <1>1. req \in Requests
    BY DEF SystemInv, TypeOK, TesterTypeOK, NoRequest
  <1>2. req.offset \in Nat /\ req.size \in Nat \ {0}
    BY <1>1, RequestFacts
  <1>3. \A i \in 0 .. (req.size - 1) : Filled(i)
    BY <1>2 DEF Filled
  <1>4. QED
    BY <1>1, <1>2, <1>3 DEF StorageInv, BufferFollows

\* What a read has put into the buffer of a driver without a flaw in how it
\* reads.
LEMMA ReadsAreRight ==
  ASSUME SystemInv, StorageInv, rc = 0, left = 0, pc # "transfer",
         driver \notin {"alpha_4", "alpha_6"}
  PROVE  ReadsAsItShould
  <1>1. SUFFICES ASSUME req.op = "read"
                 PROVE  buffer = ReadMirror(mirror, req.offset, req.size)
    BY DEF ReadsAsItShould
  <1>2. /\ buffer \in [0 .. (req.size - 1) -> Byte \union {Junk}]
        /\ \A i \in 0 .. (req.size - 1) : Filled(i)
        /\ BytesAreRight
    BY <1>1, NothingLeftToRead
  <1>3. ASSUME NEW i \in 0 .. (req.size - 1)
        PROVE  buffer[i] = mirror[Wrap(req.offset + i)]
    BY <1>2 DEF BytesAreRight, Source
  <1>4. QED
    BY <1>2, <1>3 DEF ReadMirror

\* alpha_3 reads what it should when it does not give up.
THEOREM HastyReads == Spec => []HastyReadsAreRight
  <1>1. SystemInv /\ StorageInv => HastyReadsAreRight
    BY ReadsAreRight DEF HastyReadsAreRight, StorageInv, ChunksFollowPages
  <1>2. QED
    BY <1>1, SystemInvariant, StorageInvariant, PTL

\* The drivers that wait patiently succeed, and have then read all.
LEMMA PatientReadsEnd ==
  ASSUME SystemInv, StorageInv, pc = "idle", driver # "alpha_3"
  PROVE  rc = 0 /\ left = 0
  BY DEF SystemInv, TypeOK, TesterTypeOK, BugIsAlpha3s, StorageInv, ChunksFollowPages

\* What alpha_4 reads: the whole bursts of each page, and nothing of what is left
\* over, and each page from where the device has stopped in the one before (the
\* loop of alpha_4's nand_read() against increment_cursor()).
THEOREM WholeBursts4 == Spec => []WholeBurstsAreRead
  <1>1. SystemInv /\ StorageInv => WholeBurstsAreRead
    <2>1. SUFFICES ASSUME SystemInv, StorageInv, ReadBy("alpha_4"),
                          NEW i \in 0 .. (req.size - 1)
                   PROVE  buffer[i] = IF TakenByAlpha4(req, i)
                                        THEN mirror[Wrap(SourceOfAlpha4(req, i))]
                                        ELSE Junk
      BY DEF WholeBurstsAreRead
    <2>2. rc = 0 /\ left = 0 /\ req.op = "read" /\ pc = "idle" /\ driver = "alpha_4"
      BY <2>1, PatientReadsEnd DEF ReadBy
    <2>3. Filled(i) /\ WholeBurstsSoFar
      BY <2>1, <2>2, NothingLeftToRead
    <2>4. QED
      BY <2>2, <2>3 DEF WholeBurstsSoFar
  <1>2. QED
    BY <1>1, SystemInvariant, StorageInvariant, PTL

\* alpha_5 only comes back from a read that is of whole bursts in each page, and
\* has then read the right bytes (the loop of alpha_5's nand_read()).
THEOREM WholeBursts5 == Spec => []OnlyWholeBurstsEnd
  <1>1. SystemInv /\ StorageInv => OnlyWholeBurstsEnd
    <2>1. SUFFICES ASSUME SystemInv, StorageInv, ReadBy("alpha_5"),
                          NEW i \in 0 .. (req.size - 1)
                   PROVE  /\ (LastInPage(req, i) - FirstInPage(req, i) + 1) % Burst = 0
                          /\ buffer[i] = mirror[Wrap(req.offset + i)]
      BY DEF OnlyWholeBurstsEnd
    <2>2. rc = 0 /\ left = 0 /\ req.op = "read" /\ pc = "idle" /\ driver = "alpha_5"
      BY <2>1, PatientReadsEnd DEF ReadBy
    <2>3. req.size \in Nat /\ Filled(i) /\ BytesAreRight /\ OnlyWholeBurstsSoFar
      BY <2>1, <2>2, NothingLeftToRead
    <2>4. buffer[i] = mirror[Wrap(req.offset + i)]
      BY <2>2, <2>3 DEF BytesAreRight, Source
    <2>5. i \in 0 .. (req.size - left - 1)
      BY <2>2, <2>3
    <2>6. QED
      BY <2>2, <2>3, <2>4, <2>5 DEF OnlyWholeBurstsSoFar
  <1>2. QED
    BY <1>1, SystemInvariant, StorageInvariant, PTL

\* alpha_6 reverses what it reads of each page by itself, and gets each byte
\* right (the index of alpha_6's nand_read()).
THEOREM Reversals == Spec => []PagesAreReversed
  <1>1. SystemInv /\ StorageInv => PagesAreReversed
    <2>1. SUFFICES ASSUME SystemInv, StorageInv, ReadBy("alpha_6"),
                          NEW i \in 0 .. (req.size - 1)
                   PROVE  buffer[i] =
                            mirror[Wrap(req.offset + FirstInPage(req, i)
                                          + LastInPage(req, i) - i)]
      BY DEF PagesAreReversed
    <2> DEFINE F == FirstInPage(req, i)
               L == LastInPage(req, i)
    <2>2. rc = 0 /\ left = 0 /\ req.op = "read" /\ pc = "idle" /\ driver = "alpha_6"
      BY <2>1, PatientReadsEnd DEF ReadBy
    <2>3. /\ req.offset \in Nat /\ req.size \in Nat \ {0} /\ Filled(i) /\ BytesAreRight
      BY <2>1, <2>2, NothingLeftToRead
    <2>4. F \in Int /\ L \in Int
      <3>1. /\ PageStart(req.offset + i) \in Nat /\ Radix \in Nat
        BY <2>3, DigitsOfOffset, RadixAssumption
      <3>2. QED
        BY <2>3, <3>1 DEF FirstInPage, LastInPage, PageEnd
    <2>5. buffer[i] = mirror[Wrap(req.offset + Source(i))]
      BY <2>2, <2>3 DEF BytesAreRight
    <2>6. Source(i) = F + L - i
      BY <2>2 DEF Source
    <2> HIDE DEF F, L
    <2>7. req.offset + (F + L - i) = req.offset + F + L - i
      BY <2>3, <2>4
    <2>8. QED
      BY <2>5, <2>6, <2>7 DEF F, L
  <1>2. QED
    BY <1>1, SystemInvariant, StorageInvariant, PTL

-----------------------------------------------------------------------------
(* The refinement of the array of bytes.                                   *)

\* A call takes effect when it is made, and only its return is seen after that.
LEMMA StepsOfArray ==
  ASSUME Drivers \cap {"alpha_3", "alpha_4", "alpha_6"} = {},
         SystemInv, StorageInv, [Next]_vars
  PROVE  [Array!Next]_(Array!storageVars)
  <1> USE DEF Array!Next, Array!storageVars
  <1>1. /\ driver \notin {"alpha_3", "alpha_4", "alpha_6"}
        /\ rc = 0 /\ pc # "timed_out"
    BY DEF SystemInv, TypeOK, TesterTypeOK, BugIsAlpha3s, WaitsForDeadline
  <1>2. ASSUME NEW r \in Requests, Operate(r), Call(r)
        PROVE  Array!Call(r)
    <2>1. pc = "idle" /\ pc' = "setup" /\ req' = r /\ rc' = rc
      BY <1>2 DEF Call, BeginCall
    <2>2. mirror' = Array!Effect(mirror, r)
      BY <1>2, ArrayIsMirror DEF Operate, Array!Effect
    <2>3. QED
      BY <2>1, <2>2 DEF Array!Call, Array!NoAnswer
  <1>3. CASE LoopEnds /\ UNCHANGED <<driver, testerVars>>
    <2>1. /\ pc = "loop" /\ left = 0 /\ pc' = "idle" /\ rc' = 0
          /\ UNCHANGED <<req, buffer, mirror>>
      BY <1>3 DEF LoopEnds, Return, EndCall, testerVars
    <2>2. req # NoRequest
      BY <2>1, RequestFacts DEF SystemInv, StepsOfOperation, NoRequest, Operation
    <2>3. buffer = IF req.op = "read" THEN ReadMirror(mirror, req.offset, req.size)
                   ELSE <<>>
      <3>1. ReadsAsItShould
        BY <1>1, <2>1, ReadsAreRight
      <3>2. QED
        BY <3>1 DEF ReadsAsItShould, StorageInv, BufferFollows
    <2>4. [rc |-> rc', data |-> buffer'] = Array!Result(mirror, req)
      BY <2>1, <2>3, ArrayIsMirror DEF Array!Result
    <2>5. Array!Return
      BY <2>1, <2>2, <2>4 DEF Array!Return
    <2>6. QED
      BY <2>5
  <1>4. ASSUME pc # "idle", pc' # "idle", UNCHANGED <<req, mirror>>
        PROVE  UNCHANGED Array!storageVars
    BY <1>4
  <1>5. CASE Tracee /\ ~LoopEnds
    <2>1. ~GiveUp
      BY <1>1 DEF GiveUp
    <2>2. pc # "idle" /\ pc' # "idle" /\ UNCHANGED req
      <3>1. CASE WaitStep(WaitInterval(req.op), req.op = "erase") /\ UNCHANGED callVars
        BY <3>1
        DEF WaitStep, StartWait, Poll, FallAsleep, WakeUp, CheckTimeout, LastPoll,
            callVars, FirstStep, AfterBusy, AfterSleep, AfterCheck, AfterTimeout
      <3>2. CASE \/ SetUp \/ GiveBlockAddress \/ GivePageAddress \/ GiveByteAddress
                 \/ LoopExecutes \/ StartOperation
        BY <3>2
        DEF Access, SetUp, GiveBlockAddress, GivePageAddress, GiveByteAddress,
            LoopExecutes, StartOperation, callVars
      <3>3. CASE StartTransfer \/ ProgramByte \/ ReadByte \/ EndTransfer \/ Advance
        BY <3>3
        DEF StartTransfer, ProgramByte, ReadByte, EndTransfer, Advance, waitVars
      <3>4. QED
        BY <1>5, <2>1, <3>1, <3>2, <3>3 DEF Tracee, CallStep
    <2>3. QED
      BY <1>4, <1>5, <2>2 DEF Tracee, testerVars
  <1>6. CASE Time
    BY <1>6 DEF Time, callVars, testerVars
  <1>7. CASE UNCHANGED vars
    BY <1>7 DEF vars, waitVars, callVars, testerVars
  <1>8. QED
    BY <1>2, <1>3, <1>5, <1>6, <1>7 DEF Next, Request, Tracee

\* With a driver that follows the device's protocol, the framework, the driver
\* and the device are an array of bytes to their caller: each call takes effect
\* once, in the order made, and returns what the array would give.
THEOREM ArrayIsImplemented ==
  ASSUME Drivers \cap {"alpha_3", "alpha_4", "alpha_6"} = {}
  PROVE  Spec => Array!Init /\ [][Array!Next]_(Array!storageVars)
  <1>1. Init => Array!Init
    BY ArrayIsMirror
    DEF Init, JumpTableInit, FrameworkInit, TesterInit, Array!Init, Array!NoAnswer
  <1>2. SystemInv /\ StorageInv /\ [Next]_vars => [Array!Next]_(Array!storageVars)
    BY StepsOfArray
  <1>3. QED
    BY <1>1, <1>2, SystemInvariant, StorageInvariant, PTL DEF Spec
=============================================================================
