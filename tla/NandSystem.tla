----------------------------- MODULE NandSystem -----------------------------
(***************************************************************************)
(* The whole of the tracee over the device, with an alpha driver: the      *)
(* tester, the jump-table framework, the driver's loops and the device     *)
(* emulator in the tracer.                                                 *)
(***************************************************************************)
EXTENDS JumpTable, Tester

vars == <<deviceVars, driver, waitVars, callVars, testerVars>>

-----------------------------------------------------------------------------
Init ==
  /\ ParserInit
  /\ JumpTableInit
  /\ TesterInit
  /\ driver \in Drivers

Request == \E r \in Requests : Operate(r) /\ Call(r) /\ UNCHANGED driver

Tracee == CallStep /\ UNCHANGED <<driver, testerVars>>

Time == Tick /\ UNCHANGED <<pc, driver, callVars, testerVars>>

Next == Request \/ Tracee \/ Time

Spec == Init /\ [][Next]_vars

\* The scheduler runs the tracee when it can run, and time passes.
FairSpec == Spec /\ WF_vars(Tracee) /\ WF_vars(Time)

-----------------------------------------------------------------------------
(* Properties.                                                             *)

StepName == Waiting \union Waited \union
  {"idle", "setup", "block", "page", "byte", "loop", "transfer", "execute",
   "undefined"}

TypeOK ==
  /\ TesterTypeOK
  /\ pc \in StepName
  /\ left \in Nat
  /\ byte_addr \in Digit
  /\ chunk \in 0 .. Radix
  /\ count \in Int
  /\ count <= chunk

\* Neither side tells the other where a transfer is: the framework's place in
\* the caller's buffer and the device's cursor only agree because both count
\* (a program's cursor stays in its page after the page's last byte).
CursorFollowsBuffer ==
  pc = "transfer" /\ count > 0 =>
    /\ CursorAddress = Wrap(req.offset + BufferIndex)
    /\ req.op = "read" => cache = PageAt(cursor)

\* alpha_3 gives up on a device that only needs a little longer, but what it
\* reads when it does not is right.
HastyReadsAreRight ==
  driver = "alpha_3" /\ pc = "idle" /\ rc = 0 => ReadsAsItShould

\* The bytes of a call's region that lie in the same page as the byte that
\* goes to or comes from buffer[i], as indices into the buffer.
FirstInPage(r, i) ==
  LET start == PageStart(r.offset + i) - r.offset IN IF start < 0 THEN 0 ELSE start
LastInPage(r, i) ==
  LET end == PageEnd(r.offset + i) - r.offset
  IN IF end < r.size THEN end ELSE r.size - 1

ReadBy(name) == pc = "idle" /\ driver = name /\ req.op = "read"

\* What is whole bursts of n bytes, and how many bytes alpha_4 has taken from
\* the device when it comes to a page whose bytes go to buffer[first] and on.
Whole(n) == (n \div Burst) * Burst
TakenBefore(r, first) ==
  LET rest == LastInPage(r, 0) + 1
  IN IF first = 0 THEN 0
     ELSE Whole(rest) + ((first - rest) \div Radix) * Whole(Radix)

\* Whether alpha_4 takes a byte for buffer[i], and the offset that it is from.
TakenByAlpha4(r, i) ==
  i - FirstInPage(r, i) < Whole(LastInPage(r, i) - FirstInPage(r, i) + 1)
SourceOfAlpha4(r, i) ==
  LET first == FirstInPage(r, i)
      from == r.offset + TakenBefore(r, first)
  IN PageStart(from) + ByteAddress(from + (i - first))

\* alpha_4 "fails to copy the last 1-7 bytes" (drivers.html 5.1) of what it
\* reads from each page.  The device does not know: its cursor stays where it
\* is, so that the next page of the same read is the one that the cursor is
\* still in, from there to its end and round to its beginning.
WholeBurstsAreRead ==
  ReadBy("alpha_4") =>
    \A i \in 0 .. (req.size - 1) :
      buffer[i] = IF TakenByAlpha4(req, i) THEN mirror[Wrap(SourceOfAlpha4(req, i))]
                  ELSE Junk

\* alpha_5's loop "fails to terminate if the count is not a multiple of 8"
\* (the same), for any one of the pages it reads, and is otherwise right.
OnlyWholeBurstsEnd ==
  ReadBy("alpha_5") =>
    \A i \in 0 .. (req.size - 1) :
      /\ (LastInPage(req, i) - FirstInPage(req, i) + 1) % Burst = 0
      /\ buffer[i] = mirror[Wrap(req.offset + i)]

\* alpha_6 reverses "the bytes read" (the same) of each page by itself.
PagesAreReversed ==
  ReadBy("alpha_6") =>
    \A i \in 0 .. (req.size - 1) :
      buffer[i] =
        mirror[Wrap(req.offset + FirstInPage(req, i) + LastInPage(req, i) - i)]
=============================================================================
