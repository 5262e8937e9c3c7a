--------------------------------- MODULE Dib ---------------------------------
(***************************************************************************)
(* The device information base (framework/framework.h) and the framework's *)
(* examination of it, verify_dib() (framework/fw_dib.c).  The DIB is a     *)
(* graph of nodes that drivers link together: a list of devices, each with *)
(* a controller chip, each with a list of storage chips.  A node is a      *)
(* record of the fields that verify_dib() looks at; a pointer is a node or *)
(* NULL, and nothing keeps the links from going wrong in any way.          *)
(*                                                                         *)
(* The examination walks the graph, one step here for each node:           *)
(*                                                                         *)
(*   "building"    not begun: drivers may still link nodes                 *)
(*   "device"      at a device, or at the end of their list                *)
(*   "storage"     at one of the storage chips of the device's controller  *)
(*   "controller"  at the end of that list                                 *)
(*   "verified"    finished, with a verdict                                *)
(***************************************************************************)
EXTENDS Integers, Sequences

CONSTANTS
  Devices, StorageChips,   \* how many nodes of each kind there are in memory
  MaxNandDevices,          \* MAX_NAND_DEVICES, 64 in the code
  MaxStorageChips          \* MAX_STORAGE_CHIPS, 8 in the code

\* There are at least the nodes of a driver that registers a device.
ASSUME NodeAssumption == Devices \in Nat \ {0} /\ StorageChips \in Nat \ {0}
ASSUME MaxAssumption == MaxNandDevices \in Nat /\ MaxStorageChips \in Nat

DeviceNode == 1 .. Devices
ControllerNode == 1 .. Devices
StorageNode == 1 .. StorageChips
NULL == 0

VARIABLES
  device,         \* the fields of each device node
  controller,     \* the fields of each controller chip node
  storage,        \* the fields of each storage chip node
  at,             \* how far the examination has come
  p_device,       \* the device it is at
  device_count,   \* devices seen
  p_sc,           \* the storage chip it is at
  sc_count,       \* storage chips of this controller seen
  p_last,         \* the last of them
  verdict         \* what verify_dib() returns

nodeVars == <<device, controller, storage>>
verifyVars == <<at, p_device, device_count, p_sc, sc_count, p_last, verdict>>

-----------------------------------------------------------------------------
(* The nodes of a well-formed DIB.  shape is the number of storage chips of *)
(* each of its devices; the nodes of each kind are taken in order.          *)

\* Where the storage chips of each device end.
Ends(shape) ==
  LET end[d \in 0 .. Len(shape)] == IF d = 0 THEN 0 ELSE end[d - 1] + shape[d]
  IN end

DevicesFor(shape) ==
  [d \in DeviceNode |->
     IF d > Len(shape) THEN [next_device |-> NULL, controller |-> NULL, ref_count |-> 0]
     ELSE [next_device |-> IF d < Len(shape) THEN d + 1 ELSE NULL,
           controller |-> d,
           ref_count |-> shape[d] + 1]]

ControllersFor(shape) ==
  [c \in ControllerNode |->
     IF c > Len(shape)
       THEN [first_storage |-> NULL, last_storage |-> NULL, nstorage |-> 0, ref_count |-> 0]
       ELSE [first_storage |-> Ends(shape)[c - 1] + 1,
             last_storage |-> Ends(shape)[c],
             nstorage |-> shape[c],
             ref_count |-> shape[c]]]

StorageFor(shape) ==
  LET end == Ends(shape)
      n == Len(shape)
      owner(s) == CHOOSE d \in 1 .. n : end[d - 1] < s /\ s <= end[d]
  IN [s \in StorageNode |->
        IF s > end[n] THEN [next_storage |-> NULL, controller |-> NULL, ref_count |-> 0]
        ELSE [next_storage |-> IF s < end[owner(s)] THEN s + 1 ELSE NULL,
              controller |-> IF s \in {end[owner(s) - 1] + 1, end[owner(s)]}
                               THEN owner(s) ELSE NULL,
              ref_count |-> 1]]

-----------------------------------------------------------------------------
(* verify_storage(), for the storage chip s of the controller chip c.      *)

\* Faulty: an only storage chip is the first, so its being the last is not
\* looked at, nor is any last one's.
StorageIsGoodButLast(c, s) ==
  /\ storage[s].controller = (IF controller[c].first_storage = s THEN c ELSE NULL)
  /\ storage[s].ref_count = 1

\* The first and the last storage chip point back to the controller, those
\* between them to nothing.
StorageIsGood(c, s) ==
  /\ storage[s].controller =
       (IF s \in {controller[c].first_storage, controller[c].last_storage}
          THEN c ELSE NULL)
  /\ storage[s].ref_count = 1

\* The end of verify_controller().
ControllerIsGood(c) ==
  /\ controller[c].last_storage = p_last
  /\ controller[c].ref_count = controller[c].nstorage
  /\ controller[c].nstorage = sc_count

\* The end of verify_device().
DeviceIsGood(d) ==
  device[d].ref_count = controller[device[d].controller].ref_count + 1

-----------------------------------------------------------------------------
VerifyInit ==
  /\ at = "building"
  /\ p_device = NULL
  /\ device_count = 0
  /\ p_sc = NULL
  /\ sc_count = 0
  /\ p_last = NULL
  /\ verdict = 0

\* Call verify_dib(dib).
BeginVerify(dib) ==
  /\ at' = "device"
  /\ p_device' = dib
  /\ device_count' = 0
  /\ p_sc' = NULL
  /\ sc_count' = 0
  /\ p_last' = NULL
  /\ verdict' = 0

Verdict(result) ==
  /\ at' = "verified"
  /\ verdict' = result
  /\ UNCHANGED <<p_device, device_count, p_sc, sc_count, p_last>>

EndOfDevices == at = "device" /\ p_device = NULL /\ Verdict(0)

\* Room for one more device, and it has a controller with a storage chip.
HasChips(d) ==
  /\ device_count < MaxNandDevices
  /\ device[d].controller # NULL
  /\ controller[device[d].controller].first_storage # NULL

RejectDevice ==
  /\ at = "device"
  /\ p_device # NULL
  /\ ~HasChips(p_device)
  /\ Verdict(-1)

EnterDevice ==
  /\ at = "device"
  /\ p_device # NULL
  /\ HasChips(p_device)
  /\ at' = "storage"
  /\ device_count' = device_count + 1
  /\ p_sc' = controller[device[p_device].controller].first_storage
  /\ sc_count' = 0
  /\ UNCHANGED <<p_device, p_last, verdict>>

\* Faulty: no limit to the storage chips, and so a list in a circle is
\* walked for ever.
PassStorageUncounted ==
  /\ at = "storage"
  /\ StorageIsGood(device[p_device].controller, p_sc)
  /\ p_last' = p_sc
  /\ p_sc' = storage[p_sc].next_storage
  /\ at' = IF storage[p_sc].next_storage = NULL THEN "controller" ELSE "storage"
  /\ UNCHANGED <<p_device, device_count, sc_count, verdict>>

PassStorage ==
  /\ at = "storage"
  /\ sc_count < MaxStorageChips
  /\ StorageIsGood(device[p_device].controller, p_sc)
  /\ sc_count' = sc_count + 1
  /\ p_last' = p_sc
  /\ p_sc' = storage[p_sc].next_storage
  /\ at' = IF storage[p_sc].next_storage = NULL THEN "controller" ELSE "storage"
  /\ UNCHANGED <<p_device, device_count, verdict>>

RejectStorage ==
  /\ at = "storage"
  /\ \/ sc_count = MaxStorageChips
     \/ ~StorageIsGood(device[p_device].controller, p_sc)
  /\ Verdict(-1)

LeaveDevice ==
  /\ at = "controller"
  /\ ControllerIsGood(device[p_device].controller)
  /\ DeviceIsGood(p_device)
  /\ at' = "device"
  /\ p_device' = device[p_device].next_device
  /\ UNCHANGED <<device_count, p_sc, sc_count, p_last, verdict>>

RejectController ==
  /\ at = "controller"
  /\ ~(ControllerIsGood(device[p_device].controller) /\ DeviceIsGood(p_device))
  /\ Verdict(-1)

VerifyStep ==
  \/ EndOfDevices
  \/ RejectDevice
  \/ EnterDevice
  \/ PassStorage
  \/ RejectStorage
  \/ LeaveDevice
  \/ RejectController

-----------------------------------------------------------------------------
(* What a well-formed DIB is (framework.html 4.3, drivers.html 5.3), told  *)
(* without a walk.                                                         *)

\* The k-th node of a list, or NULL after its end.
DeviceNumber(first) ==
  LET nth[k \in 0 .. MaxNandDevices] ==
        IF k = 0 THEN first
        ELSE IF nth[k - 1] = NULL THEN NULL ELSE device[nth[k - 1]].next_device
  IN nth

StorageNumber(first) ==
  LET nth[k \in 0 .. MaxStorageChips] ==
        IF k = 0 THEN first
        ELSE IF nth[k - 1] = NULL THEN NULL ELSE storage[nth[k - 1]].next_storage
  IN nth

\* c has n storage chips, properly linked and counted.
WellFormedController(c, n) ==
  LET chip == StorageNumber(controller[c].first_storage)
  IN /\ \A k \in 0 .. (n - 1) : chip[k] # NULL
     /\ chip[n] = NULL
     /\ controller[c].last_storage = chip[n - 1]
     /\ controller[c].nstorage = n
     /\ controller[c].ref_count = n
     /\ \A k \in 0 .. (n - 1) :
          /\ storage[chip[k]].ref_count = 1
          /\ storage[chip[k]].controller = IF k \in {0, n - 1} THEN c ELSE NULL

WellFormedDevice(d) ==
  /\ device[d].controller # NULL
  /\ \E n \in 1 .. MaxStorageChips :
       /\ WellFormedController(device[d].controller, n)
       /\ device[d].ref_count = n + 1

WellFormed(dib) ==
  LET nth == DeviceNumber(dib)
  IN \E n \in 0 .. MaxNandDevices :
       /\ nth[n] = NULL
       /\ \A k \in 0 .. (n - 1) : nth[k] # NULL /\ WellFormedDevice(nth[k])
=============================================================================
