------------------------------- MODULE Storage -------------------------------
(***************************************************************************)
(* What the framework, the driver and the device together promise their    *)
(* caller (and what the system tests check by means of a mirror): an array *)
(* of bytes.  A call decides at once what the array will hold; when it     *)
(* returns it has succeeded, and a read returns what the array holds.      *)
(***************************************************************************)
EXTENDS Integers, StMirror

CONSTANTS
  Requests,    \* the calls that may be made
  NoRequest    \* in place of a call when there is none

VARIABLES
  contents,    \* the bytes stored
  request,     \* the call in progress
  answer       \* what the last call returned

storageVars == <<contents, request, answer>>

NoAnswer == [rc |-> 0, data |-> <<>>]

Effect(m, r) ==
  CASE r.op = "write" -> WriteMirror(m, r.data, r.offset, r.size)
    [] r.op = "erase" -> EraseMirror(m, r.offset, r.size)
    [] OTHER -> m

Result(m, r) ==
  [rc |-> 0,
   data |-> IF r.op = "read" THEN ReadMirror(m, r.offset, r.size) ELSE <<>>]

Init ==
  /\ contents = BlankMirror
  /\ request = NoRequest
  /\ answer = NoAnswer

Call(r) ==
  /\ request = NoRequest
  /\ request' = r
  /\ contents' = Effect(contents, r)
  /\ answer' = NoAnswer

Return ==
  /\ request # NoRequest
  /\ answer' = Result(contents, request)
  /\ request' = NoRequest
  /\ UNCHANGED contents

Next == Return \/ \E r \in Requests : Call(r)

Spec == Init /\ [][Next]_storageVars /\ WF_storageVars(Return)
=============================================================================
