# A TLA+ model of the NAND use case

The repository holds a C program that reads, writes and erases a NAND storage
device through a small framework and one of many device drivers. The device is
emulated: the program forks, the child (the *tracee*) runs the tests, the
framework and the driver, and the parent (the *tracer*) follows the child with
`ptrace()`, is stopped by every access to one memory word, and plays the device.
This directory models that system in TLA+, checks the models with TLC and proves
theorems about them with TLAPS. Paths are relative to the repository's root.

## 1. Inventory

| Component | Code | State | Operations | Talks to |
|---|---|---|---|---|
| Device store | `device/de_store.c` | `data_store`, `cache`, `cursor` | clear, set or advance the cursor; copy a page to or from the cache; get or set a cache byte; erase a block | called by the parser |
| Device parser | `device/de_parser.c` | `machine_state` | `handle_watchpoint_ioregisters()`, `parser_reset()`, `parser_init()` | store, deadline, register decoder |
| Deadline | `device/de_deadline.c`, `clock/clock.c` | `deadline` | set, clear, compare with `now()` | parser, pins |
| Pins | `device/de_gpio.c` (tracer), `framework/fw_gpio.c` (tracee) | the deadline, the parser | status pin reads busy or ready; reset pin resets the parser | driver wait loops |
| Tracer loop | `device/de_device.c` | breakpoints and watchpoint in the tracee | wait for a stop, hand it to a handler, continue | the tracee, by `ptrace()`; `main()` |
| Register decoder | `device/de_ioregs.c` | the tracee's registers | find the destination of the load that trapped and put a byte there | parser |
| Jump-table framework | `framework/fw_jumptable.c`, `framework.c` | a call's offset, sizes and cursor into the buffer | `jt_write()`, `jt_read()`, `jt_erase()` | alpha drivers |
| Exec-op framework | `framework/fw_execop.c` | an operation: an array of instructions | `exec_write()`, `exec_read()`, `exec_erase()` | foxtrot drivers |
| DIB framework | `framework/fw_dib.c`, `main/main.c` | the graph of device information blocks | `verify_*()` | kilo drivers, DIB tester |
| Alpha drivers | `driver/alpha/alpha_0..8.c` | the last command (alpha_7, 8) | set register, read, program, wait | registers, pins |
| Foxtrot drivers | `driver/foxtrot/foxtrot_0..2.c` | none | interpret an operation | registers, pins |
| Kilo drivers | `driver/kilo/kilo_0..5.c` | none | make a device's node and link it into the DIB | DIB framework |
| Mirror | `tester/st_mirror.c` | what storage should hold | write, erase, read and compare | testers |
| Testers | `tester/st_stochastic.c`, `st_deterministic.c`, `st_dib.c` | test parameters | sequences of calls | frameworks, mirror |
| Program start | `main/main.c` | the mode, the child's status | parse arguments, fork, run the tests, return a status | everything else |
| Wait loop test | `driver/test/test_wait.c` | a call's wall-clock and processor time, the verdict so far | runs a driver's wait loop against a stuck device | alpha drivers |
| Unit tests | `device/test_*.c`, `driver/test/`, `framework/test/`, `tester/test_*.c` | | | |
| Manual | `manual/*.html`, `Bugs/` | | the source of several properties | |

What is hard about it:

* **Two processes and time.** A wait loop reads the clock, polls a pin, sleeps and
  is descheduled, while the device's deadline comes nearer. Each order of "look at
  the clock", "look at the pin" and "deadline passes" is possible.
* **The device sees words, not accesses.** The handler gets the word as it stands
  after the access. That an address or a data byte is not taken for a repeat of the
  last command depends on what stands in the command register at that moment.
* **Implicit agreement on position.** The framework's cursor in the caller's
  buffer and the device's cursor in storage are advanced separately, at page ends,
  block ends and the end of storage, by rules that differ for reads and programs.
* **State left over.** Reset, a first setup and a later setup reach the same states
  by code that clears different things; a call that gave up leaves a busy device.
* **Stops that are nobody's.** A traced process stops for any signal and any fault,
  and its tracer takes what it does not know for a register access. What it does
  then depends on the word that stands in `ioregisters` and on the device's state.
* **Reading machine code backwards.** To give a load its byte, the tracer decodes the
  bytes before the instruction pointer, not knowing where the instruction begins.
* **Flawed drivers.** All drivers but three are flawed on purpose, and the manual
  says how. The flaws are claims that can be checked.

What makes each component correct: the store's cursor and cache never leave their
bounds and an operation starts with both clear; the parser accepts nothing
while busy and repeats nothing; a wait loop never reports a timeout of a device
that meets its deadlines, and waits at least as long as it should on one that does
not; the framework never drives the device into its bug state, and the three
together are an array of bytes.

The full list of hazards, each at its line and with the properties aimed at it, is
`hazards` in `PROJECT.json`.

## 2. Modules

```
NandGeometry -> DeviceStore -> DeviceParser -+-> Device             (the device facing any driver)
                                             |   Tracer = Device + IoRegs (the device under its tracer)
                                             +-> NandWait -+-> WaitTest
StMirror ------------------------------------------------> +-> Framework -+-> JumpTable -+
                                                                          +-> ExecOp ----|-+
                                                                          +-> Tester ----+-+
                              NandSystem = JumpTable + Tester;  ExecSystem = ExecOp + Tester
StMirror -> Storage  (the abstract specification; Tester has the refinement mapping)
StMirror -> StStochastic -+-> Program       (main() in both processes)
Dib -> StDib -------------+
DeviceParser_proofs -+-> Tracer_proofs      (with Tracer; the device on its own and under its tracer)
                     +-> Tester_proofs -+-> NandSystem_proofs -> NandStorage_proofs
                                        +-> ExecSystem_proofs
WaitTest -> WaitTest_proofs;  Program -> Program_proofs
```

| Module | Code | How state and actions correspond |
|---|---|---|
| `NandGeometry` | `device_emu.h`, `de_store.h` | The sizes 256 x 256 x 256 are one parameter `Radix`; commands are strings; the `ioregisters` word is a record of command, address and data. |
| `DeviceStore` | `de_store.c` | One operator per function on `data_store`, `cache`, `cursor`. |
| `DeviceParser` | `de_parser.c`, `de_gpio.c`, `de_deadline.c`, `de_ioregs.c` | `HandleWatchpoint(w, decodable)` is `handle_watchpoint_ioregisters()`: one disjunct per case of the switch, with `w` the word that the access left. `deadline` is the time left until the code's `deadline`, `exited` says that the tracer has called `exit()`. The poke of `C_DUMMY` into the tracee is part of the action of the case that does it. |
| `Device` | `de_device.c` | The driver is anything: any access, any pin, at any time. |
| `IoRegs` | `de_ioregs.c` | The text of each load that the code describes, and the decoder on it: `Destination(text)` is the register to fill, or `UNKNOWN` where the code calls `error_dump()`. A byte of text is written as in the code's comments. |
| `Tracer` | `de_device.c`, `fw_gpio.c` | `tracee` is the place where the tracee is or has stopped, `parent` the tracer's own; `regs` is what the registers it got last make it do; `retval` is `gpio_get()`'s variable. One action per reason for a stop, which includes all that the loop does about it, and one for each step of `gpio_get()`. |
| `NandWait` | `nand_wait()` of each driver | `driver` is the driver the program was built with. One action per call that the loop makes, so that time may pass between any two; `timeout` and `sleeping` are times left. |
| `WaitTest` | `driver/test/test_wait.c` | The same loop over a device that stays busy, timed and judged by the test, with its alarm. `elapsed` and `cpu` are the two times that the test takes of a call; what takes time is `Sleep`, `Oversleep`, `Compute` or `Delay`. |
| `Framework` | `framework.c` and what its two frameworks share | `req`, `buffer`, `rc`: the call in progress, the caller's buffer, the last return value. |
| `JumpTable` | `fw_jumptable.c`, loops of `alpha_*.c` | One action per register access and per turn of a byte loop. `left` counts down bytes or blocks, `chunk` and `count` are a transfer and what is left of it. `jt_write()`, `jt_read()` and `jt_erase()` share their actions where their code is the same. |
| `ExecOp` | `fw_execop.c`, `foxtrot_*.c` | `OperationFor(r)` is the array that the framework builds, `index` the driver's `i`. One action per command, address, byte and step of a wait. |
| `Tester` | `st_stochastic.c` (calls and comparison), `st_mirror.c` | Makes up to `MaxRequests` calls and keeps `mirror`. |
| `NandSystem`, `ExecSystem` | | The compositions: tester, framework, driver and device. |
| `Storage` | the promise of `write_nand()`, `read_nand()`, `erase_nand()` | An array of bytes: a call takes effect once, returns, and a read returns what the array holds. |
| `StMirror` | `st_mirror.c` | The three functions as operators, by address rather than by loop. |
| `StStochastic` | `st_stochastic.c` | The random choices, the assertions on them, the sequence of a test, the verdict. |
| `Dib` | `fw_dib.c` | `verify_dib()` one node at a time, and a definition of a well-formed DIB that does not walk it. |
| `StDib` | `st_dib.c`, `main.c`, `kilo_*.c` | Initial DIB, registration, test. |
| `Program` | `main.c`, `st_deterministic.c` | Composes the two: `parent` and `child` are the processes' places, and in the end their statuses. A test's call goes well or not. |
| `MC*` | | Requests and shapes for the instances that TLC checks. |

A definition preceded by a comment that begins "Faulty:" is not part of any
specification. It is the definition next to it with a plausible mistake; each
property is known to fail when its mistake is put in (`mutants` in `PROJECT.json`).

Three abstractions run through all modules. *Time* is integer time left, and `Tick`
may come between any two steps of the tracee or the tracer; nothing keeps the
tracee from being descheduled for long. *A trapped access is one step*: the tracee
is stopped while the tracer handles it, so that no step of the tracee comes
between the access and the handler's last effect. *A byte* is a member of a small
set, and the stochastic tester's data a repeating pattern, since no code looks at
the value of a byte but to compare it.

## 3. What each run checks

| Run | Shows |
|---|---|
| `device` | Against every sequence of accesses, pins and pauses: the device is busy only in states that check for it (`BusyOnlyWhileWorking`), each operation begins with cursor and cache clear by either way in (`SetupStartsClean`), what stands in the command register can never be taken for an execute command (`CommandRegisterIsStanding`), operations do not overlap (`OperationsNeverOverlap`) and end (`BusyEnds`). |
| `device_bug` | Violation, see section 6. |
| `wait_test` | The six different wait loops on a stuck device: how long they have waited when they give up, how they space their polls, which of them the test's three checks pass (`TestTellsLoopsApart`), and that it always ends (`TestEnds`), by its alarm if need be. |
| `nand_system` | alpha_0, 1, 2, 7 and 8 with the tracee delayed anywhere: no bug state, no false timeout (the bug of release 18), cursor and buffer in step (`CursorFollowsBuffer`), storage as in the mirror, and `ImplementsArray`, with the liveness of `Storage`: every call returns. |
| `flawed_alphas` | alpha_3 to 6 do what the catalogue of drivers says they do, page by page; where alpha_4 stops in one page is where the device goes on with the next (`WholeBurstsAreRead`); alpha_3 upsets the device only by calling again after a timeout. |
| `exec_system` | The exec-op framework with foxtrot_0: no bug state and the same array of bytes, every call returning success (`ImplementsArray`); besides, that its array of instructions is exactly as long as counted (`CountIsExact`), that `exec_op()` sends a prefix of it (`SendsPrefix`) and stops early only at a timeout. |
| `flawed_foxtrots` | foxtrot_1 reads one page whatever else it does; a success with the device still at work comes only from its erases. foxtrot_2 never returns from long operations, without upsetting the device, and returns from short ones. |
| `wrapped_eight` | Violation, see section 6. |
| `tracer` | With signals, faults and deaths of the tracee at any point: a load's byte goes to its own register (`RightRegister`); a stop that is no access of the driver's never starts an operation (`StrayStopsStartNothing`); a driver may rely on the answer of the status pin until its next access (`ReadyStaysReady`); the emulator ends with the tracee, where it can see it (`TracerEnds`). |
| `program` | `verify_dib()` says 0 exactly for well-formed DIBs (`VerdictIsExact`) and comes to an end on circular ones (`VerifyEnds`); each kilo driver's flaw is found before storage is tested; a DIB that passes is the old one with the new device in front. What a stochastic test's calls change, zeroed bytes included, lies in the arena that its last comparison covers (`ChangesAreCompared`). The child's status is the result of all its tests (`StatusTellsResult`). |
| `stochastic_start`, `exit_status` | Violations, see section 6. |

**Bounds.** `Radix = 2` gives two blocks of two pages of two bytes: a region may begin
in the middle of a page, cross a page, a block and the end of storage, and come
round to its own first block. Nothing in the code depends on the size of a digit but
its wrapping. `flawed_alphas` needs pages that hold two bursts, and so `Radix = 4`
with bursts of two bytes for the code's eight; its sizes of 1, 2, 5 and 7 make reads of
one, two and three pages, with and without a rest in the first of them. Three calls (`MaxRequests`)
suffice for what one call can leave to the next: an erase or a write, a second write
over its edge, a read. Sizes up to 4 take three pages, two blocks; offsets 5, 7 and
8 (which is 0 again after the end) and erases from 4 and 7 meet all boundaries. Bytes
are three letters and zero, so that neighbouring pages differ. Durations of 1 and 2
with a poll interval of 1 make the timeout fall one unit after the deadline, as in the
code, where it is one poll interval. `wait_test` has a poll interval of 3, an interval of 8
and an alarm at 17, the least that keep apart what the loops do if a quiet machine may
add one unit of each kind (`QuietAssumption`, section 4); beyond that it may be as busy as it
likes, up to the alarm.
`program` has at most two devices and three chips for the code's limits, lists one
longer than either, and for kilo_0 any two fields of the initial DIB set to anything:
verification looks at a field only together with one other. The tests follow only where
the DIB is the program's own, since they do not look at it. They have an arena
of two blocks of nine bytes for the code's four of 65536, half before and half after
the end of storage as in the code, and two tests of two operations. `tracer` has a
single byte, because no property of it compares bytes but that storage is not
touched, and that is proved (section 4); its displacements are one without a pattern,
and for each pattern two that hold it, in different registers, where it can be
taken for the load. The reset pin, the status pin and a pin that does not exist
stand for all pins.

**Fairness.** `Tracee` and `Time` are weakly fair in the systems: the scheduler runs a
process that can run, and the clock does not stop. Nothing is assumed about how soon.
The tester's next call is not fair: a program may stop calling. `Device` is fair to
`Tick` only. The wait test is fair to each of its steps, the alarm being the
kernel's. `Program` is fair to the child's work on the DIB alone, never to what may
change the DIB. `Tracer` is fair to `Loop`: the tracer is scheduled, `ptrace()` lets a
stopped tracee go on, and the processor then faults at once at an instruction that
faults. It assumes nothing of the driver, and not that time passes.
`MaxRequests` only keeps calls from beginning; those that have begun go on.

Deadlock is not checked where the system may stop: the program ends after its tests,
and nothing happens to a device once the tracer has exited.

## 4. What is proved

| Module | Proves of |
|---|---|
| `DeviceParser_proofs` | one handler of the device: what every access preserves |
| `Tracer_proofs` | `Device`, then `Tracer` |
| `WaitTest_proofs` | `WaitTest` |
| `Tester_proofs` | lemmas that both systems need: of the device's accesses, of offsets and addresses, and of how a page or a block becomes what the answer key says |
| `NandSystem_proofs`, `NandStorage_proofs` | `NandSystem`: the protocol, then what storage and buffers hold |
| `ExecSystem_proofs` | `ExecSystem`: the operations, the protocol, the cursor, what storage and buffers hold, and what foxtrot_1 leaves of all that |
| `Program_proofs` | `Dib`, `StDib`, `StStochastic` and `Program` |

All of it is for every value of the constants that the named assumptions of the
modules allow; TLC evaluates those in every run of a module that extends them.
They ask for a `Radix` above 1, a set of bytes with a zero in it, durations,
intervals and bursts that are positive, drivers that exist, and of the tester's
requests (`RequestAssumption`, `ArenaAssumption`) what `st_stochastic.c` sees to: that they
lie in an arena smaller than storage, which each test begins by erasing. A
theorem that is about some drivers says so in a hypothesis on `Drivers`.

### The device

Of `Device` (first part of `Tracer_proofs`):

| Theorem | |
|---|---|
| `TypeCorrect` | `Spec => []DeviceTypeOK`; in particular the cursor stays in storage. |
| `BusyOnlyInWorkingStates` | `Spec => []BusyOnlyWhileWorking` |
| `OperationsStartClean` | `Spec => []SetupStartsClean` |
| `CommandsStandOnlyWhereHarmless` | `Spec => []CommandRegisterIsStanding` |
| `NoOverlap` | `Spec => OperationsNeverOverlap` |

The argument goes by the inductive invariant `DeviceInv`
(module `DeviceParser_proofs`), the conjunction of the type invariant and the three
others. None of the three stands alone. That a later operation starts clean
depends on where the machine may be; that a state is entered only when the device is
ready depends on which commands it accepts; and that an access to the address
register does not execute anything depends on what stands in the command register.
There is one lemma for each case of the handler (`FirstSetupPreserves`,
`AcceptByteAddressPreserves`, ...), with a step for each conjunct that the case can
disturb, and `HandleWatchpointPreserves` collects them. They are stated for a
single handler and not for `Device`'s next-state relation, so that they serve the
systems as well. `NoOverlap` follows from two facts: a busy device accepts nothing
(`BusyAcceptsNothing`), and storage changes only where an execute command is
accepted (`StorageChangesStartOperations`).

Of `Tracer` (second part of `Tracer_proofs`), for every set of displacements:

| Theorem | |
|---|---|
| `TracerImplementsDevice` | `TracerSpec => Spec`, where `Spec` is `Device`'s: each stop, whatever it is taken for, is one of the accesses or pin settings that the device is ready for, or nothing. |
| `TracerKeepsDevice` | `TracerSpec => []DeviceInv`, by the former; so all of the table above holds under the tracer. |
| `StrayStopsAreSafe` | `TracerSpec => StrayStopsStartNothing` |
| `LoadsFindTheirRegister` | `TracerSpec => []RightRegister` |
| `ReadyIsKept` | `TracerSpec => []ReadyStaysReady` |
| `TracerTypeCorrect` | `TracerSpec => []TracerTypeOK` |

`StrayStopsAreSafe` rests on `CommandRegisterIsStanding`: a stray stop gives the device
the word as it stands, no execute command ever stands there (`StandingIsNotExecuted`),
and only execute commands start operations (`OnlyExecuteStarts`). `ReadyIsKept` needs it
in turn, since a signal between the answer and the driver's next access would
otherwise make the device busy; besides, nothing has been told before
the first call. `LoadsFindTheirRegister` has a lemma per pattern: the text of a load fits
its own pattern whatever the displacement, so if it fits the other as well the
decoder gives up, and never guesses.

### The wait loops

Of `WaitTest`, for every interval, poll interval and alarm:

| Theorem | |
|---|---|
| `NoLoopGivesUpEarly` | `Spec => []WaitsAtLeastInterval` |
| `SleepsBetweenPolls` | `Spec => []PollsAreSpaced` |
| `VerdictsAreDeserved` | `Spec => []TestTellsLoopsApart` |

The first two hold however the machine schedules the program. The invariant `WaitInv` says
that what has gone by and what is still to go make up the
interval (`TimeAddsUp`), which a loop that computes its timeout late only adds to; that
a loop that is about to poll has slept since it polled (`SleepComesBetween`), which has
an exception for alpha_3, whose check comes after its poll; and that alpha_2
has no way out.

The verdict of the test is another matter. Its third check, that more than half of the
call's time was spent asleep, takes all time that is not processor time for sleep: alpha_1,
which never sleeps, passes if something else has the processor for more than half of the
call, and a loop that sleeps fails, or meets the alarm, if its sleeps come too
late or if it needs much time between them. `TestTellsLoopsApart` is therefore about a
*quiet* machine. The variable `quiet` only records, and restrains nothing: it is true as
long as no `usleep()` has taken more than `MaxLate` beyond what was asked, a sleeping loop has
used no more than `MaxTurn` of processor time between two sleeps, and no more than `MaxLost`
of a call has gone to others. `QuietAssumption` is what these must keep to: one round of a
sleeping loop costs less than half of a poll interval, a loop that loses `MaxLost` still
has the processor for half of the interval, and the first round is over before the
interval and the last one before the alarm. (In the code the poll interval is 25
us, the interval 10 s and the alarm 20 s; `output/wait_alpha_0.txt` has 87% of the time slept.)
The verdicts are those in the repository's `output/wait_alpha_*.txt`: alpha_1 and alpha_7 fail the
third check, alpha_3 fails the second, and alpha_2 and alpha_8 are cut short by the alarm.

The invariant for this, `LoadInv`, keeps two accounts. For a loop that sleeps
`SleepMakesUp` bounds twice its processor time by what has gone by, round by round: each
sleep makes up for the turn before it. For one that does not,
`AwakeAllAlong` says that what has gone by is processor time but for what was lost.
`EndsInTime` keeps loops with a timeout from the alarm, and `VerdictSoFar` carries the
verdicts of the first two operations to the third.

### The jump-table system: protocol

Of `NandSystem`, module `NandSystem_proofs`:

| Theorem | |
|---|---|
| `SystemInvariant` | `Spec => []SystemInv` |
| `TypesHold` | `Spec => []TypeOK`: what the framework has left to do never goes below zero. |
| `PatientDriversKeepProtocol` | without alpha_3, `Spec => []NeverABug` |
| `PatientDriversNeverTimeOut` | without alpha_3, `Spec => []NoSpuriousTimeout` |
| `BugsFollowTimeouts` | with any driver, `Spec => []BugOnlyAfterTimeout` |

`SystemInv` ties three programs together, and each part needs the others.
`DriverKnowsDevice` gives the device's state for each place in the framework and
says that it is busy only while the driver waits. That it holds after the wait
needs `WaitsForDeadline`: a loop that looks at the clock before the pin has a timeout
beyond the deadline, so that by the time it gives up the device is ready, and the
last look at the pin tells. That in turn needs the deadline to be no
later than the duration of the operation in hand when the loop begins, which is again
`DriverKnowsDevice`. alpha_3 breaks the chain, and `BugIsAlpha3s` bounds the damage: it
leaves a busy device behind only with a return value of -1, the tester then
calls only for the erase that begins a test, that call meets the busy device, and
the tracer has exited before the framework gets further than its first execute
command. `Arithmetic` is what keeps the framework's counters from going below zero.

### The jump-table system: what storage holds

Module `NandStorage_proofs`:

| Theorem | |
|---|---|
| `StorageInvariant` | `Spec => []StorageInv` |
| `StorageIsAsWritten` | `Spec => []StoreMatchesMirror` |
| `CountsAgree` | without alpha_4, `Spec => []CursorFollowsBuffer` |
| `HastyReads`, `WholeBursts4`, `WholeBursts5`, `Reversals` | the four properties of `flawed_alphas` about what alpha_3, 4, 5 and 6 read |
| `ArrayIsImplemented` | without alpha_3, 4 and 6, `Spec => Array!Init /\ [][Array!Next]_(Array!storageVars)`: each step of framework, driver and device maps to a step of the array of bytes or a stutter. (alpha_5 included: what it gets to the end of is right.) |

What a caller is promised is about the state between calls; the induction is about
the middle of one. `StorageInv` therefore follows a call byte by byte:
`ChunksFollowPages` (how what is left divides into pages), `CursorInPlace` (the
device's cursor is at the byte that the framework is at, though the two are advanced
by different rules, or with alpha_4 at `DevicePosition`, which falls behind by the rest of
each page: `DeviceFallsBehind`), `CacheInPlace` (the cache has the sent part of the page, the rest
zero, or the page being read), `MirrorHasEffect` (the answer key has what the call
will leave), `Settled` (outside of what is still to be done, from `Frontier` to the end
of the region, storage agrees with the answer key) and
`BufferFollows` (each filled byte of the buffer is the right one, by driver). `Settled` is where
`ArenaAssumption` matters: addresses wrap, and what is settled must not come
up again behind the end of storage in the same call. `ProgramSettles` and `EraseSettles`
are the two places where storage changes; they go by lemmas of `Tester_proofs`
(`PageIsSettled`, `BlockIsSettled`) that the exec-op system uses as well, as does the
arithmetic of digits, pages and blocks.

### The exec-op system

Module `ExecSystem_proofs`:

| Theorem | |
|---|---|
| `OperationsFillTheirArrays` | `Spec => []CountIsExact`, with every driver |
| `ExecInvariant` | `Spec => [](WholeOperations => ExecInv)` |
| `OperationsKeepProtocol` | with foxtrot_0 and foxtrot_2, `Spec => []NeverABug` |
| `OperationsNeverTimeOut` | with the same, `Spec => []NoSpuriousTimeout` |
| `OperationsAreSentInOrder` | with foxtrot_0, `Spec => SendsPrefix` |
| `LongOperationsDoNoHarm` | `Spec => LongOperationsGoOn` |
| `CursorIsRight` | with foxtrot_0 and foxtrot_2, `Spec => []CursorFollowsOperation` |
| `StoreInvariant` | `Spec => [](WholeOperations => StoreInv)` |
| `OperationsStore` | with foxtrot_0 and foxtrot_2, `Spec => []StoreMatchesMirror` |
| `OperationsImplementArray` | with the same, `Spec => Array!Init /\ [][Array!Next]_(Array!storageVars)`: each step maps to a step of the array of bytes or a stutter. |
| `CutShortInvariant` | `Spec => [](driver = "foxtrot_1" => CutShortInv)` |
| `FirstPages` | `Spec => []FirstPageIsRead`: what foxtrot_1 reads is the first page, and the rest of the buffer is as it was. |
| `OnlyErasesLeaveWork` | `Spec => []OnlyErasesAreCutShort`, with any of the three drivers |

Where foxtrot_2 is concerned they assume the code's own `Modulus`, 8, and it is no
formality: the setup that comes round after the eighth instruction is accepted only
because the eighth is the wait that found the device ready, or, of a read, the
transfer that comes after one. With another
modulus it could find a device that is busy or has not been asked to execute.

The operation is a recursive function of the request, and no prover here does
induction over data. What it computes is proved all the same, by induction
over a *set* of numbers (`SetInduction`, from the well-foundedness of `<`): for every number
of pages the function that the definition asks for exists, so `CHOOSE` finds it
and it satisfies its equation (`TransferEquation`). From there `OperationParts` gives the length
and each instruction of an operation by its place (which page, which of the steps of a
page), and all else goes by place. `ExecInv` is the counterpart of `SystemInv`:
`CallInHand` says that the driver is where the instruction in hand says, and
`DriverKnowsDevice` gives the device's state by the index alone. `CursorInPlace` adds
where the cursor is for each step of each page; the device goes from page to page by
itself, and no instruction tells it to.

`StoreInv` is the counterpart of `StorageInv`, and again is about the middle of a call.
`FrontierAt` tells from the index alone from which offset on a write or an erase is
still to be done; outside of that, storage agrees with the answer key
(`AgreesOutside`). `CacheInPlace` says which bytes of the page in hand have been sent,
`BlockInPlace` that an erase finds the cursor at the frontier, and `BufferFollows` how
much of the caller's buffer is what the answer key says. A lemma for each kind of step shows
the parts that it can disturb. That operations are whole (`WholeOperations`) is what foxtrot_2's
`Modulus` is needed for.

foxtrot_1 carries out five instructions of any operation, with whatever lies in memory
after a shorter one. So nothing can be said of where a call finds the device, nor of
what storage holds, and `CutShortInv` has to hold from any state that a leftover
leaves. A read's own instructions are shown to make good for that
(`ReadInStep`): either the device has followed each of them, or it took the setup
command for the clock of an address that an earlier call left it waiting for. Then it is ahead of
the driver by one or more states (`StatesAhead`), takes one address too many, and ends in
`MS_BUG` at the last address if not before; the next command makes the tracer
exit, and that read never returns. A read that does return was in step, so it has its page.
`WaitsInTime` says that a call other than an erase that returns 0 has seen the
device ready, for its wait is among the five; an erase's need not be. Both theorems assume the code's
own instruction count, 5: with fewer, a read would return without its data.

### The program

Module `Program_proofs`:

| Theorem | |
|---|---|
| `VerdictsAreExact` | `Spec => []VerdictIsExact`, for any nodes, any links between them and any limits |
| `KiloFlawsAreFound` | `Spec => []FlawsAreFound` |
| `OldDibIsKept` | `Spec => []NewDibExtendsOld` |
| `AllChangesAreCompared` | `Spec => []ChangesAreCompared` |
| `StatusIsTold` | `Spec => []StatusTellsResult` |

(`DibInvariant` and `ProgramInvariant` are the invariants' own theorems.) `WalkInv` says that
all nodes behind the walk are good and that the walk is at the node that the list
has at that place. The lists are recursive functions, and exist prefix by prefix, as
above (`DeviceList`, `ChipList`); `GoodDibByLength` turns "good up to here, and no further"
into `GoodDib`, which does not walk. That circular lists are refused is part of it: a
walk that passes the limit proves that no list that ends is that short. `KiloNodes`
and `Outcome` keep what the driver has made of its own nodes apart from what it was
given. `ChangesAreCompared` rests on `RegionInArena`: both ends of an operation's
region, rounded outwards to pages or blocks, lie in an arena that begins and ends at
block boundaries because its number of blocks is even.

### Only model-checked

* All liveness: `BusyEnds`, `TestEnds`, `TracerEnds`, `VerifyEnds`,
  `ShortOperationsReturn` and the fairness of `ImplementsArray`. It needs
  `ENABLED`, which the provers do not handle.

Every safety property of a run that passes is stated by a theorem above.

## 5. Plan

In this order; all of it is done.

1. The device: store, parser, pins, deadline, against any driver; its invariant.
2. Proofs about it.
3. The wait loops and their unit test.
4. The jump-table framework over the alpha drivers; the array of bytes that it implements.
5. The exec-op framework over the foxtrot drivers; the same array.
6. The DIB, its verification and its tests; the stochastic tester's choices.
7. The tracer loop (`de_device.c`): the stops that are not register accesses, the
   breakpoints in the two pin functions, a tracee that dies by a signal; which stop it
   takes for which, and whether the parent ends; and the register decoder (`de_ioregs.c`).
8. Proofs that the tracer implements the device, and of what it promises besides.
9. The program as a whole (`main.c`): both processes and the status that comes out.
10. Theorems about the systems: `TypeOK` and `NeverABug` of `NandSystem` over
    `DeviceInv`, by an invariant that ties the framework's place to `machine_state`;
    then `NoSpuriousTimeout`, `CursorFollowsBuffer` and `StoreMatchesMirror`; the same
    of `ExecSystem` as far as the cursor.
11. Theorems about verification, about the wait test and about `Program`.
12. The steps of the refinement of `Storage` by `NandSystem`.
13. The refinement of `Storage` by `ExecSystem`, by an invariant like `StorageInv` on the
    page or block that the instruction in hand is for, over `CursorInPlace`.
14. foxtrot_1: `FirstPageIsRead` and `OnlyErasesAreCutShort`, for an
    instruction size of 5.

## 6. Where the code and what is said of it differ

* `device_bug`. A device in `MS_BUG` should remain there until it is reset
  (`manual/device.html`). The code ends the tracer at the next access.
* `wrapped_eight`. With N or fewer instructions foxtrot_2 should be well
  (`manual/drivers.html`), with N = 8. With eight its index wraps to 0 before it is
  compared. Seven are well (`ShortOperationsReturn`).
* `stochastic_start`. `random_start()` asserts that a region ends strictly before the
  arena does, and chooses regions that end with it.
* `exit_status`. A program whose tests fail should "return a failure indication"
  (`output/Makefile`). The child does return -1, but the program's status is its
  parent's, and the parent returns 0 once the child has exited.

Seen on the way, without a run of their own: foxtrot_1 copies five instructions whatever
the operation's length, and carries out all five; the erase of one block has four, and
the fifth is whatever lies behind them (`ExecOp` makes it any instruction, and
`FirstPageIsRead` holds nevertheless). A fault in the tracee, of which `manual/building.html` 6.2
says that it may or may not halt the test rig, ends it where the device is given the
addresses of a read, and is repeated without end where it accepts the data of a
program or the address of an erase; in the first of these each repetition stores the
standing byte once more, in the cache and never in storage. A tracee that is
killed ends the rig unless the stop before was at a pin (`TracerEnds`). Every
function of `device/test_patterns.s` loads by `movq ioregisters(%rip), %rax`, so that the unit
test of the decoder, which `device/test_ioregs.c` means to have "a test for every mov
pattern", tries one of the six; `RightRegister` has them all. `random_size()` likewise may choose a size of
1 and then assert that it is more. alpha_8, scheduled late, gives up on an erase that
it means to wait for without end. So may alpha_3 pass its unit test when it is scheduled
late, and alpha_1 and alpha_7 when they are kept from the processor; `TestTellsLoopsApart` leaves
all three open by being about a quiet machine. `register_nand_device()` returns NULL for a malformed initial DIB, and
`st_dib_test()` would follow it (`crashed` in `StDib`); the program's own
initial DIB is well-formed.

## 7. What is not modelled

* A stop of the tracee before `gpio_get()` has set up its stack frame, where the answer would
  be poked into its caller's; and a load that is none of those `de_ioregs.c`
  describes but happens to follow bytes that look like one. (Such a load may decode or
  not in `Signal` and `FaultAgain`, where it is no load at all; `StrangeLoad` does not.)
* What a tracee does after the tracer has exited, but for the breakpoint that kills it: its
  register accesses go to plain memory.
* What follows once alpha_5 has written past the caller's buffer, or foxtrot_1 has
  followed a pointer from beyond the operation: `pc = "undefined"`, where the model stops.
  What foxtrot_1's array holds after a short operation is any instruction.
* Calls of size zero: no caller makes them (`IsRequest`).
* The kilo drivers' `exec_op()` and `nand_wait()` are those of foxtrot_0 to the letter.
* Logging, memory allocation that fails, and the unit tests of the
  device, which have been read for what they expect of it.
