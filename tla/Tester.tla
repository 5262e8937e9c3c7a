------------------------------- MODULE Tester -------------------------------
(***************************************************************************)
(* A tester over either framework: it makes calls one after another and    *)
(* keeps a mirror of what they should have stored                          *)
(* (tester/st_stochastic.c).  The properties here are what it relies on,   *)
(* whichever framework and driver are under test.                          *)
(***************************************************************************)
EXTENDS Framework

CONSTANTS
  Requests,      \* the calls the tester may make
  ArenaErase,    \* the one with which each test begins
  MaxRequests    \* bound: how many calls a behaviour makes

ASSUME RequestAssumption ==
  /\ \A r \in Requests : IsRequest(r)
  /\ ArenaErase \in Requests
  /\ ArenaErase.op = "erase"
ASSUME MaxRequestsAssumption == MaxRequests \in Nat

\* The whole pages that a write programs, or the whole blocks that an erase
\* clears: from the first byte of the first to the last of the last.
RegionStart(r) == IF r.op = "write" THEN PageStart(r.offset) ELSE BlockStart(r.offset)
RegionEnd(r) ==
  IF r.op = "write" THEN PageEnd(r.offset + r.size - 1)
  ELSE BlockEnd(r.offset + r.size - 1)

\* Calls stay in the arena, which does not go round storage to meet its own
\* beginning (random_start(), ARENA_SIZE).
ASSUME ArenaAssumption ==
  /\ RegionEnd(ArenaErase) - RegionStart(ArenaErase) < MirrorSize
  /\ \A r \in Requests : /\ RegionStart(ArenaErase) <= RegionStart(r)
                         /\ RegionEnd(r) <= RegionEnd(ArenaErase)

VARIABLES
  mirror,        \* the answer key
  made           \* how many calls have been made

testerVars == <<mirror, made>>

-----------------------------------------------------------------------------
TesterInit ==
  /\ mirror = BlankMirror
  /\ made = 0

\* do_read_and_comparison() has found what it should, or the last call was
\* not a read.
ReadsAsItShould ==
  req.op = "read" => buffer = ReadMirror(mirror, req.offset, req.size)

\* do_write(), do_erase() and do_read_and_comparison() bring the mirror up to
\* date before they call the framework.  A call that fails ends the test, and
\* so does a read of the wrong bytes; the next test begins by erasing the
\* arena.
Operate(r) ==
  /\ \/ rc = 0 /\ ReadsAsItShould
     \/ r = ArenaErase
  /\ made < MaxRequests
  /\ made' = made + 1
  /\ mirror' = CASE r.op = "write" ->
                      WriteMirror(mirror, r.data, r.offset, r.size)
                 [] r.op = "erase" -> EraseMirror(mirror, r.offset, r.size)
                 [] OTHER -> mirror

-----------------------------------------------------------------------------
(* Properties.                                                             *)

TesterTypeOK ==
  /\ DeviceTypeOK
  /\ driver \in Drivers
  /\ timeout \in Nat
  /\ sleeping \in 0 .. PollInterval
  /\ req \in Requests \union {NoRequest}
  /\ rc \in {0, -1}
  /\ mirror \in Mirror
  /\ made \in 0 .. MaxRequests

\* The framework and the driver never send the device a command or a data
\* access that it does not expect, and never touch it while it is busy.
NeverABug == machine_state # MS_BUG /\ ~exited

\* A device that keeps its deadlines is never declared timed out, however
\* late the tracee wakes up or is scheduled (the bug fixed in release 18).
NoSpuriousTimeout == rc = 0 /\ pc # "timed_out"

\* Even a driver that gives up at its first busy poll (alpha_3) drives the
\* device into its bug state only by calling again after a call that failed.
BugOnlyAfterTimeout == machine_state = MS_BUG => rc = -1

\* The device's storage by storage address.
Contents == [a \in StorageAddress |->
               data_store[a \div BlockSize][(a \div Radix) % Radix][a % Radix]]

\* After a call that succeeds the device holds exactly what the mirror says,
\* the zeroes around partial pages and blocks included, and off the end of
\* storage and back at its start.
StoreMatchesMirror == pc = "idle" /\ rc = 0 => Contents = mirror

CursorAddress == cursor.block * BlockSize + cursor.page * Radix + cursor.byte

-----------------------------------------------------------------------------
(* The framework, the driver and the device implement an array of bytes.   *)

Array == INSTANCE Storage WITH
  contents <- mirror,
  request <- IF pc = "idle" THEN NoRequest ELSE req,
  answer <- IF pc = "idle" THEN [rc |-> rc, data |-> buffer]
            ELSE [rc |-> 0, data |-> <<>>]

\* Each call takes effect once, in the order made, and returns in the end with
\* what an array of bytes would give.
ImplementsArray == Array!Spec
=============================================================================
