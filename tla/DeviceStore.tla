----------------------------- MODULE DeviceStore -----------------------------
(***************************************************************************)
(* device/de_store.c: the device's storage array, its one-page cache and   *)
(* the cursor that says where the next byte comes from or goes to.  The    *)
(* module has one operator for each function; each assigns one of the      *)
(* three variables, so that the parser's handlers are conjunctions of      *)
(* them.                                                                   *)
(***************************************************************************)
EXTENDS NandGeometry

VARIABLES
  cursor,       \* the byte the device is at
  cache,        \* one page, being read or being filled
  data_store    \* every byte of storage, by block, page and byte

storeVars == <<cursor, cache, data_store>>

StoreTypeOK ==
  /\ cursor \in Cursor
  /\ cache \in Page
  /\ data_store \in [Digit -> Block]

ClearCache == cache' = ZeroPage

ClearCursor == cursor' = Origin

StoreInit ==
  /\ cursor = Origin
  /\ cache = ZeroPage
  /\ data_store = [b \in Digit |-> ZeroBlock]

-----------------------------------------------------------------------------
(* Moving the cursor.                                                      *)

Successor(d) == IF d + 1 < Radix THEN d + 1 ELSE 0

NextBlock(c) == [block |-> Successor(c.block), page |-> 0, byte |-> 0]

\* Faulty: does not carry into the block.
NextPageOfBlock(c) ==
  [block |-> c.block, page |-> Successor(c.page), byte |-> 0]

NextPage(c) ==
  IF c.page + 1 < Radix
    THEN [block |-> c.block, page |-> c.page + 1, byte |-> 0]
    ELSE NextBlock(c)

\* Faulty: runs one past the end of the page.
NextByteOffByOne(c) ==
  IF c.byte + 1 <= Radix THEN [c EXCEPT !.byte = c.byte + 1] ELSE NextPage(c)

NextByte(c) ==
  IF c.byte + 1 < Radix THEN [c EXCEPT !.byte = c.byte + 1] ELSE NextPage(c)

\* increment_cursor(true): stay in the page.
IncrementCursorInPage == cursor' = [cursor EXCEPT !.byte = Successor(@)]

\* increment_cursor(false): run on through storage and back to its start.
IncrementCursor == cursor' = NextByte(cursor)

IncrementPage == cursor' = NextPage(cursor)

IncrementBlock == cursor' = NextBlock(cursor)

SetCursorBlock(d) == cursor' = [cursor EXCEPT !.block = d]
SetCursorPage(d) == cursor' = [cursor EXCEPT !.page = d]
SetCursorByte(d) == cursor' = [cursor EXCEPT !.byte = d]

-----------------------------------------------------------------------------
(* Moving data between the tracee, the cache and the storage array.        *)

PageAt(c) == data_store[c.block][c.page]

CopyPageToCache == cache' = PageAt(cursor)

CopyPageFromCache ==
  data_store' = [data_store EXCEPT ![cursor.block][cursor.page] = cache]

GetCacheByte == cache[cursor.byte]

SetCacheByte(v) == cache' = [cache EXCEPT ![cursor.byte] = v]

EraseBlock == data_store' = [data_store EXCEPT ![cursor.block] = ZeroBlock]
=============================================================================
