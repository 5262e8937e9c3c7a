-------------------------------- MODULE StDib --------------------------------
(***************************************************************************)
(* The start of the tracee (main/main.c): the tester's initial DIB         *)
(* (tester/st_dib.c), the driver's registration of its device in it, where *)
(* the driver is one of the kilo drivers, and the test of the result.      *)
(*                                                                         *)
(* The program's initial DIB is one device with one storage chip.  Since   *)
(* register_nand_device() is written for any DIB, and verify_dib() for any *)
(* that is wrong in any way, the module begins with others as well, and    *)
(* lets fields of their nodes be set to anything before the registration.  *)
(*                                                                         *)
(*   "register"   in init_framework()                                      *)
(*   "check"      in st_dib_test()                                         *)
(*   "tests"      gone on to the tests of storage                          *)
(*   "failed"     main() returned -1                                       *)
(*   "crashed"    a NULL pointer followed                                  *)
(***************************************************************************)
EXTENDS Dib

CONSTANTS
  Shapes,       \* the DIBs to begin with: each device's number of storage chips
  RefCounts,    \* what the counting fields may be set to
  Drivers,
  MaxChanges    \* bound: how many fields are set before each driver comes

DriverName == {"kilo_0", "kilo_1", "kilo_2", "kilo_3", "kilo_4", "kilo_5", "other"}

ASSUME DriverAssumption ==
  Drivers \subseteq DriverName /\ MaxChanges \in [Drivers -> Nat]
ASSUME ShapeAssumption ==
  RefCounts \subseteq Nat /\ \A shape \in Shapes : Len(shape) \in 1 .. (Devices - 1)

\* st_dib_init()'s DIB: one device with one storage chip.
InitialShape == <<1>>

\* The driver's own static nodes lie apart from those of the initial DIB.
KiloDevice == Devices
KiloController == Devices
KiloStorage == StorageChips

OldDevice == DeviceNode \ {KiloDevice}
OldController == ControllerNode \ {KiloController}
OldStorage == StorageNode \ {KiloStorage}

VARIABLES
  driver,
  pc,
  changes,     \* how many fields have been set
  dib_old,     \* the first device of the initial DIB
  dib_new      \* what init_framework() returned

dibVars == <<nodeVars, verifyVars, driver, pc, changes, dib_old, dib_new>>

-----------------------------------------------------------------------------
(* The static nodes of the kilo drivers.                                   *)

KiloRefCount(right) == IF driver = "kilo_4" THEN 0 ELSE right

KiloDeviceInit ==
  [next_device |-> NULL,
   controller |-> IF driver = "kilo_2" THEN NULL ELSE KiloController,
   ref_count |-> KiloRefCount(2)]

KiloControllerInit ==
  [first_storage |-> IF driver = "kilo_3" THEN NULL ELSE KiloStorage,
   last_storage |-> IF driver \in {"kilo_3", "kilo_5"} THEN NULL ELSE KiloStorage,
   nstorage |-> 1,
   ref_count |-> KiloRefCount(1)]

KiloStorageInit ==
  [next_storage |-> NULL, controller |-> NULL, ref_count |-> KiloRefCount(1)]

DibInit ==
  /\ driver \in Drivers
  /\ pc = "register"
  /\ \E shape \in Shapes :
       /\ device = [DevicesFor(shape) EXCEPT ![KiloDevice] = KiloDeviceInit]
       /\ controller = [ControllersFor(shape) EXCEPT ![KiloController] = KiloControllerInit]
       /\ storage = [StorageFor(shape) EXCEPT ![KiloStorage] = KiloStorageInit]
  /\ dib_old = 1
  /\ dib_new = NULL
  /\ changes = 0
  /\ VerifyInit

-----------------------------------------------------------------------------
(* The initial DIB may be wrong in any way.                                *)

SetDevice(d) ==
  /\ \/ \E x \in OldDevice \union {NULL} :
          device' = [device EXCEPT ![d].next_device = x]
     \/ \E x \in OldController \union {NULL} :
          device' = [device EXCEPT ![d].controller = x]
     \/ \E x \in RefCounts : device' = [device EXCEPT ![d].ref_count = x]
  /\ UNCHANGED <<controller, storage>>

SetController(c) ==
  /\ \/ \E x \in OldStorage \union {NULL} :
          \/ controller' = [controller EXCEPT ![c].first_storage = x]
          \/ controller' = [controller EXCEPT ![c].last_storage = x]
     \/ \E x \in RefCounts :
          \/ controller' = [controller EXCEPT ![c].nstorage = x]
          \/ controller' = [controller EXCEPT ![c].ref_count = x]
  /\ UNCHANGED <<device, storage>>

SetStorage(s) ==
  /\ \/ \E x \in OldStorage \union {NULL} :
          storage' = [storage EXCEPT ![s].next_storage = x]
     \/ \E x \in OldController \union {NULL} :
          storage' = [storage EXCEPT ![s].controller = x]
     \/ \E x \in RefCounts : storage' = [storage EXCEPT ![s].ref_count = x]
  /\ UNCHANGED <<device, controller>>

Assign ==
  /\ pc = "register"
  /\ at = "building"
  /\ changes < MaxChanges[driver]
  /\ changes' = changes + 1
  /\ \/ \E d \in OldDevice : SetDevice(d)
     \/ \E c \in OldController : SetController(c)
     \/ \E s \in OldStorage : SetStorage(s)
  /\ UNCHANGED <<verifyVars, driver, pc, dib_old, dib_new>>

-----------------------------------------------------------------------------
(* init_framework() and what main() makes of it.                           *)

\* init_nand_driver() of any driver but the kilo drivers: there is no new DIB,
\* and main() has nothing to test.
LeaveDib ==
  /\ pc = "register"
  /\ driver = "other"
  /\ dib_new' = dib_old
  /\ pc' = "tests"
  /\ UNCHANGED <<nodeVars, verifyVars, driver, changes, dib_old>>

BeginRegister ==
  /\ pc = "register"
  /\ driver # "other"
  /\ at = "building"
  /\ BeginVerify(dib_old)
  /\ UNCHANGED <<nodeVars, driver, pc, changes, dib_old, dib_new>>

\* kilo_1 loses the old DIB.
NextOfKiloDevice == IF driver = "kilo_1" THEN NULL ELSE dib_old

\* kilo_5 does not link its storage chip back to the controller.
ControllerOfKiloStorage == IF driver = "kilo_5" THEN NULL ELSE KiloController

\* register_nand_device(): link the device in front, if the DIB is good.
Link ==
  /\ pc = "register"
  /\ at = "verified"
  /\ IF verdict = 0
       THEN /\ storage' = [storage EXCEPT ![KiloStorage].controller = ControllerOfKiloStorage]
            /\ device' = [device EXCEPT ![KiloDevice].next_device = NextOfKiloDevice]
            /\ dib_new' = KiloDevice
       ELSE UNCHANGED <<storage, device, dib_new>>
  /\ pc' = "check"
  /\ BeginVerify(dib_new')
  /\ UNCHANGED <<controller, driver, changes, dib_old>>

\* Faulty: the old DIB is not looked for.
CheckOnlyVerdict ==
  /\ pc = "check"
  /\ at = "verified"
  /\ pc' = IF verdict # 0 THEN "failed" ELSE "tests"
  /\ UNCHANGED <<nodeVars, verifyVars, driver, changes, dib_old, dib_new>>

\* st_dib_test()
Check ==
  /\ pc = "check"
  /\ at = "verified"
  /\ pc' = IF verdict # 0 THEN "failed"
           ELSE IF dib_new = NULL THEN "crashed"
           ELSE IF device[dib_new].next_device = NULL THEN "failed"
           ELSE IF device[dib_new].next_device # dib_old THEN "failed"
           ELSE "tests"
  /\ UNCHANGED <<nodeVars, verifyVars, driver, changes, dib_old, dib_new>>

Walk == VerifyStep /\ UNCHANGED <<nodeVars, driver, pc, changes, dib_old, dib_new>>

DibStep == LeaveDib \/ BeginRegister \/ Link \/ Check \/ Walk

\* The DIB is the one of st_dib_init(), to which the tests go on.
OwnDib == changes = 0 /\ device[dib_old] = DevicesFor(InitialShape)[1]

-----------------------------------------------------------------------------
(* Properties.                                                             *)

\* The walk accepts exactly the well-formed DIBs, although it meets a node
\* before it has seen what the node should agree with, and lists may be too
\* long by one, share nodes or run in circles.
VerdictIsExact ==
  at = "verified" =>
    (verdict = 0 <=> WellFormed(IF pc = "register" THEN dib_old ELSE dib_new))

\* The walk comes to an end on every DIB, those with circles included.
VerifyEnds == at = "device" ~> at = "verified"

\* Each flaw of the kilo drivers (drivers.html 5.3) is found before any test
\* of storage runs, by one of st_dib_test()'s checks or the other, and nothing
\* else is taken for one, if the initial DIB is good and has room for a device.
FlawsAreFound ==
  /\ pc \in {"tests", "failed", "crashed"}
  /\ WellFormed(dib_old)
  /\ DeviceNumber(dib_old)[MaxNandDevices - 1] = NULL
  => pc = IF driver \in {"kilo_0", "other"} THEN "tests" ELSE "failed"

\* What goes on to the tests is a well-formed DIB that begins with the
\* driver's device and goes on with every device that was there before,
\* whatever the initial DIB was like.
NewDibExtendsOld ==
  pc = "tests" /\ driver # "other" =>
    /\ WellFormed(dib_new)
    /\ WellFormed(dib_old)
    /\ \A k \in 1 .. MaxNandDevices :
         DeviceNumber(dib_new)[k] = DeviceNumber(dib_old)[k - 1]
=============================================================================
