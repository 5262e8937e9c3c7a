---------------------------- MODULE Program_proofs ----------------------------
(***************************************************************************)
(* What holds of the program from its command line to its status, proved   *)
(* for storage, an arena and tests of any size, and for DIBs of any size   *)
(* and any shape.                                                          *)
(***************************************************************************)
EXTENDS Program, WellFoundedInduction, TLAPS

-----------------------------------------------------------------------------
(* The lists of nodes.                                                     *)

\* Induction on the natural numbers, as a fact about sets of them: the least
\* number outside a set has none before it.
LEMMA SetInduction ==
  ASSUME NEW S, 0 \in S, \A n \in Nat : n \in S => n + 1 \in S
  PROVE  Nat \subseteq S
  <1> DEFINE T == Nat \ S
             R == {ss \in Nat \X Nat : ss[1] < ss[2]}
  <1>1. IsWellFoundedOn(R, Nat)
    BY NatLessThanWellFounded DEF OpToRel
  <1>2. SUFFICES ASSUME T # {} PROVE FALSE
    OBVIOUS
  <1>3. \E x \in T : \A y \in T : ~(<<y, x>> \in R)
    <2> HIDE DEF R
    <2>1. T \subseteq Nat
      OBVIOUS
    <2> HIDE DEF T
    <2>2. QED
      BY <1>1, <1>2, <2>1, WFMin
  <1>4. PICK x \in T : \A y \in T : ~(<<y, x>> \in R)
    BY <1>3
  <1>5. x \in Nat /\ x # 0 /\ x - 1 \in Nat
    OBVIOUS
  <1>6. x - 1 \in T
    OBVIOUS
  <1>7. <<x - 1, x>> \in R
    BY <1>5
  <1>8. QED
    BY <1>4, <1>6, <1>7

\* The lists of Dib, in any memory.
DevicesIn(dev, first) ==
  LET nth[k \in 0 .. MaxNandDevices] ==
        IF k = 0 THEN first
        ELSE IF nth[k - 1] = NULL THEN NULL ELSE dev[nth[k - 1]].next_device
  IN nth

ChipsIn(chips, first) ==
  LET nth[k \in 0 .. MaxStorageChips] ==
        IF k = 0 THEN first
        ELSE IF nth[k - 1] = NULL THEN NULL ELSE chips[nth[k - 1]].next_storage
  IN nth

\* A list is what its definition says: each prefix of it exists.
LEMMA DeviceList ==
  ASSUME NEW dev, NEW first
  PROVE  /\ DevicesIn(dev, first)[0] = first
         /\ \A k \in 1 .. MaxNandDevices :
              DevicesIn(dev, first)[k] =
                IF DevicesIn(dev, first)[k - 1] = NULL THEN NULL
                ELSE dev[DevicesIn(dev, first)[k - 1]].next_device
  <1> DEFINE Is(h, n) == h = [k \in 0 .. n |->
                           IF k = 0 THEN first
                           ELSE IF h[k - 1] = NULL THEN NULL
                           ELSE dev[h[k - 1]].next_device]
             S == {n \in Nat : \E h : Is(h, n)}
  <1>1. 0 \in S
    <2>1. Is([k \in 0 .. 0 |-> first], 0)
      OBVIOUS
    <2>2. QED
      BY <2>1
  <1>2. ASSUME NEW n \in Nat, n \in S
        PROVE  n + 1 \in S
    <2>1. PICK h : Is(h, n)
      BY <1>2
    <2> DEFINE g == [k \in 0 .. (n + 1) |->
                      IF k <= n THEN h[k]
                      ELSE IF h[k - 1] = NULL THEN NULL ELSE dev[h[k - 1]].next_device]
    <2>2. \A k \in 0 .. n : g[k] = h[k]
      OBVIOUS
    <2>3. ASSUME NEW k \in 0 .. (n + 1)
          PROVE  g[k] = IF k = 0 THEN first
                        ELSE IF g[k - 1] = NULL THEN NULL ELSE dev[g[k - 1]].next_device
      <3>1. CASE k = 0
        BY <2>1, <3>1
      <3>2. CASE k # 0 /\ k <= n
        <4>1. k - 1 \in 0 .. n /\ k \in 0 .. n
          BY <3>2
        <4>2. h[k] = IF h[k - 1] = NULL THEN NULL ELSE dev[h[k - 1]].next_device
          BY <2>1, <3>2, <4>1
        <4>3. QED
          BY <2>2, <3>2, <4>1, <4>2
      <3>3. CASE k # 0 /\ ~(k <= n)
        <4>1. k - 1 \in 0 .. n
          BY <3>3
        <4>2. QED
          BY <2>2, <3>3, <4>1
      <3>4. QED
        BY <3>1, <3>2, <3>3
    <2>4. Is(g, n + 1)
      BY <2>3
    <2> HIDE DEF g, Is
    <2>5. \E f : Is(f, n + 1)
      BY <2>4
    <2>6. QED
      BY <2>5
  <1>3. Nat \subseteq S
    <2> HIDE DEF S
    <2>1. QED
      BY <1>1, <1>2, SetInduction
  <1>4. \E h : Is(h, MaxNandDevices)
    BY <1>3, MaxAssumption
  <1>5. DevicesIn(dev, first) = CHOOSE h : Is(h, MaxNandDevices)
    BY DEF DevicesIn
  <1>6. Is(DevicesIn(dev, first), MaxNandDevices)
    <2> HIDE DEF Is
    <2>1. QED
      BY <1>4, <1>5
  <1>7. QED
    BY <1>6, MaxAssumption
\* The same for the storage chips.
LEMMA ChipList ==
  ASSUME NEW chips, NEW first
  PROVE  /\ ChipsIn(chips, first)[0] = first
         /\ \A k \in 1 .. MaxStorageChips :
              ChipsIn(chips, first)[k] =
                IF ChipsIn(chips, first)[k - 1] = NULL THEN NULL
                ELSE chips[ChipsIn(chips, first)[k - 1]].next_storage
  <1> DEFINE Is(h, n) == h = [k \in 0 .. n |->
                           IF k = 0 THEN first
                           ELSE IF h[k - 1] = NULL THEN NULL
                           ELSE chips[h[k - 1]].next_storage]
             S == {n \in Nat : \E h : Is(h, n)}
  <1>1. 0 \in S
    <2>1. Is([k \in 0 .. 0 |-> first], 0)
      OBVIOUS
    <2>2. QED
      BY <2>1
  <1>2. ASSUME NEW n \in Nat, n \in S
        PROVE  n + 1 \in S
    <2>1. PICK h : Is(h, n)
      BY <1>2
    <2> DEFINE g == [k \in 0 .. (n + 1) |->
                      IF k <= n THEN h[k]
                      ELSE IF h[k - 1] = NULL THEN NULL ELSE chips[h[k - 1]].next_storage]
    <2>2. \A k \in 0 .. n : g[k] = h[k]
      OBVIOUS
    <2>3. ASSUME NEW k \in 0 .. (n + 1)
          PROVE  g[k] = IF k = 0 THEN first
                        ELSE IF g[k - 1] = NULL THEN NULL ELSE chips[g[k - 1]].next_storage
      <3>1. CASE k = 0
        BY <2>1, <3>1
      <3>2. CASE k # 0 /\ k <= n
        <4>1. k - 1 \in 0 .. n /\ k \in 0 .. n
          BY <3>2
        <4>2. h[k] = IF h[k - 1] = NULL THEN NULL ELSE chips[h[k - 1]].next_storage
          BY <2>1, <3>2, <4>1
        <4>3. QED
          BY <2>2, <3>2, <4>1, <4>2
      <3>3. CASE k # 0 /\ ~(k <= n)
        <4>1. k - 1 \in 0 .. n
          BY <3>3
        <4>2. QED
          BY <2>2, <3>3, <4>1
      <3>4. QED
        BY <3>1, <3>2, <3>3
    <2>4. Is(g, n + 1)
      BY <2>3
    <2> HIDE DEF g, Is
    <2>5. \E f : Is(f, n + 1)
      BY <2>4
    <2>6. QED
      BY <2>5
  <1>3. Nat \subseteq S
    <2> HIDE DEF S
    <2>1. QED
      BY <1>1, <1>2, SetInduction
  <1>4. \E h : Is(h, MaxStorageChips)
    BY <1>3, MaxAssumption
  <1>5. ChipsIn(chips, first) = CHOOSE h : Is(h, MaxStorageChips)
    BY DEF ChipsIn
  <1>6. Is(ChipsIn(chips, first), MaxStorageChips)
    <2> HIDE DEF Is
    <2>1. QED
      BY <1>4, <1>5
  <1>7. QED
    BY <1>6, MaxAssumption

\* The lists of Dib are these.
LEMMA ListsInMemory ==
  ASSUME NEW first
  PROVE  /\ DeviceNumber(first) = DevicesIn(device, first)
         /\ StorageNumber(first) = ChipsIn(storage, first)
  BY DEF DeviceNumber, StorageNumber, DevicesIn, ChipsIn

LEMMA ListsInNextMemory ==
  ASSUME NEW first
  PROVE  /\ DeviceNumber(first)' = DevicesIn(device', first)
         /\ StorageNumber(first)' = ChipsIn(storage', first)
  BY DEF DeviceNumber, StorageNumber, DevicesIn, ChipsIn

-----------------------------------------------------------------------------
(* Well-formed DIBs.                                                       *)

\* WellFormed and its parts, in any memory.
GoodController(con, chips, c, n) ==
  LET chip == ChipsIn(chips, con[c].first_storage)
  IN /\ \A k \in 0 .. (n - 1) : chip[k] # NULL
     /\ chip[n] = NULL
     /\ con[c].last_storage = chip[n - 1]
     /\ con[c].nstorage = n
     /\ con[c].ref_count = n
     /\ \A k \in 0 .. (n - 1) :
          /\ chips[chip[k]].ref_count = 1
          /\ chips[chip[k]].controller = IF k \in {0, n - 1} THEN c ELSE NULL

GoodDevice(dev, con, chips, d) ==
  /\ dev[d].controller # NULL
  /\ \E n \in 1 .. MaxStorageChips :
       /\ GoodController(con, chips, dev[d].controller, n)
       /\ dev[d].ref_count = n + 1

GoodDib(dev, con, chips, dib) ==
  LET nth == DevicesIn(dev, dib)
  IN \E n \in 0 .. MaxNandDevices :
       /\ nth[n] = NULL
       /\ \A k \in 0 .. (n - 1) : nth[k] # NULL /\ GoodDevice(dev, con, chips, nth[k])

LEMMA WellFormedIsGood ==
  ASSUME NEW dib
  PROVE  WellFormed(dib) <=> GoodDib(device, controller, storage, dib)
  <1>1. ASSUME NEW c, NEW n
        PROVE  WellFormedController(c, n) <=> GoodController(controller, storage, c, n)
    BY ListsInMemory DEF WellFormedController, GoodController
  <1>2. ASSUME NEW d
        PROVE  WellFormedDevice(d) <=> GoodDevice(device, controller, storage, d)
    BY <1>1 DEF WellFormedDevice, GoodDevice
  <1>3. QED
    BY <1>2, ListsInMemory DEF WellFormed, GoodDib

\* No storage chip between the first and the last of a list that ends is one
\* of these two: the list would go round.
LEMMA EndsApart ==
  ASSUME NEW chips, NEW first, NEW n \in 1 .. MaxStorageChips,
         NEW chip, chip = ChipsIn(chips, first),
         chip[n] = NULL, \A k \in 0 .. (n - 1) : chip[k] # NULL,
         NEW j \in 1 .. (n - 2)
  PROVE  chip[j] # chip[0] /\ chip[j] # chip[n - 1]
  <1>1. n \in Nat /\ MaxStorageChips \in Nat /\ n <= MaxStorageChips
    BY MaxAssumption
  <1>2. ASSUME NEW k \in 0 .. (n - 1)
        PROVE  chip[k + 1] = chips[chip[k]].next_storage
    <2>1. k + 1 \in 1 .. MaxStorageChips /\ (k + 1) - 1 = k
      BY <1>1
    <2>2. QED
      BY <2>1, ChipList
  <1>3. chip[j] # chip[n - 1]
    <2>1. SUFFICES ASSUME chip[j] = chip[n - 1]
                   PROVE  FALSE
      OBVIOUS
    <2>2. chip[j + 1] = chip[(n - 1) + 1]
      BY <1>1, <1>2, <2>1
    <2>3. chip[j + 1] = NULL /\ j + 1 \in 0 .. (n - 1)
      BY <1>1, <2>2
    <2>4. QED
      BY <2>3
  <1>4. chip[j] # chip[0]
    <2>1. SUFFICES ASSUME chip[j] = chip[0]
                   PROVE  FALSE
      OBVIOUS
    <2> DEFINE S == {i \in Nat : i <= n - j => chip[j + i] = chip[i]}
    <2>2. 0 \in S
      BY <2>1
    <2>3. ASSUME NEW i \in Nat, i \in S
          PROVE  i + 1 \in S
      <3>1. SUFFICES ASSUME i + 1 <= n - j
                     PROVE  chip[j + (i + 1)] = chip[i + 1]
        OBVIOUS
      <3>2. chip[j + i] = chip[i] /\ j + i \in 0 .. (n - 1) /\ i \in 0 .. (n - 1)
        BY <1>1, <2>3, <3>1
      <3>3. chip[(j + i) + 1] = chip[i + 1]
        BY <1>2, <3>2
      <3>4. j + (i + 1) = (j + i) + 1
        OBVIOUS
      <3>5. QED
        BY <3>3, <3>4
    <2>4. Nat \subseteq S
      <3> HIDE DEF S
      <3>1. QED
        BY <2>2, <2>3, SetInduction
    <2>5. n - j \in Nat /\ j + (n - j) = n /\ n - j \in 0 .. (n - 1)
      BY <1>1
    <2>6. chip[n] = chip[n - j]
      BY <2>4, <2>5
    <2>7. QED
      BY <2>5, <2>6
  <1>5. QED
    BY <1>3, <1>4

\* What verify_storage() looks for, by a chip's identity, is what a well-formed
\* list has, by a chip's place.
LEMMA EndsByPlace ==
  ASSUME NEW chips, NEW first, NEW n \in 1 .. MaxStorageChips,
         NEW chip, chip = ChipsIn(chips, first),
         chip[n] = NULL, \A k \in 0 .. (n - 1) : chip[k] # NULL,
         NEW k \in 0 .. (n - 1)
  PROVE  chip[k] \in {first, chip[n - 1]} <=> k \in {0, n - 1}
  <1>1. chip[0] = first
    BY ChipList
  <1>2. CASE k \in {0, n - 1}
    BY <1>1, <1>2
  <1>3. CASE k \notin {0, n - 1}
    <2>1. k \in 1 .. (n - 2)
      BY <1>3, MaxAssumption
    <2>2. chip[k] # chip[0] /\ chip[k] # chip[n - 1]
      BY <2>1, EndsApart
    <2>3. QED
      BY <1>1, <1>3, <2>2
  <1>4. QED
    BY <1>2, <1>3

\* A list of storage chips has only one end.
LEMMA GoodDeviceByLength ==
  ASSUME NEW dev, NEW con, NEW chips, NEW d,
         NEW c, c = dev[d].controller, c # NULL,
         NEW chip, chip = ChipsIn(chips, con[c].first_storage),
         NEW n \in 1 .. MaxStorageChips,
         chip[n] = NULL, \A k \in 0 .. (n - 1) : chip[k] # NULL
  PROVE  GoodDevice(dev, con, chips, d)
           <=> GoodController(con, chips, c, n) /\ dev[d].ref_count = n + 1
  <1>1. ASSUME NEW m \in 1 .. MaxStorageChips, GoodController(con, chips, c, m)
        PROVE  m = n
    <2>1. chip[m] = NULL /\ \A k \in 0 .. (m - 1) : chip[k] # NULL
      BY <1>1 DEF GoodController
    <2>2. ~(m < n) /\ ~(n < m)
      BY <2>1, MaxAssumption
    <2>3. QED
      BY <2>2, MaxAssumption
  <1>2. QED
    BY <1>1 DEF GoodDevice

\* A DIB that is good so far is good if it ends here, and otherwise goes on with
\* a good device.
LEMMA GoodDibByLength ==
  ASSUME NEW dev, NEW con, NEW chips, NEW dib,
         NEW nth, nth = DevicesIn(dev, dib),
         NEW m \in 0 .. MaxNandDevices, \A k \in 0 .. (m - 1) : nth[k] # NULL
  PROVE  /\ nth[m] = NULL /\ (\A k \in 0 .. (m - 1) : GoodDevice(dev, con, chips, nth[k]))
              => GoodDib(dev, con, chips, dib)
         /\ nth[m] # NULL /\ GoodDib(dev, con, chips, dib)
              => m < MaxNandDevices /\ GoodDevice(dev, con, chips, nth[m])
  <1>1. ASSUME nth[m] # NULL, GoodDib(dev, con, chips, dib)
        PROVE  m < MaxNandDevices /\ GoodDevice(dev, con, chips, nth[m])
    <2>1. PICK n \in 0 .. MaxNandDevices :
            /\ nth[n] = NULL
            /\ \A k \in 0 .. (n - 1) : nth[k] # NULL /\ GoodDevice(dev, con, chips, nth[k])
      BY <1>1 DEF GoodDib
    <2>2. ~(n < m) /\ n # m
      BY <1>1, <2>1, MaxAssumption
    <2>3. m \in 0 .. (n - 1)
      BY <2>2, MaxAssumption
    <2>4. QED
      BY <2>1, <2>3, MaxAssumption
  <1>2. QED
    BY <1>1 DEF GoodDib

-----------------------------------------------------------------------------
(* The walk of verify_dib().                                               *)

\* Which DIB is walked, or has been.
Walked == IF pc = "register" THEN dib_old ELSE dib_new

\* Its devices, and the storage chips of the one that the walk is at.
Nth == DevicesIn(device, Walked)
Chip == ChipsIn(storage, controller[device[p_device].controller].first_storage)

Passes(con, chips, c, s) ==
  /\ chips[s].controller =
       (IF s \in {con[c].first_storage, con[c].last_storage} THEN c ELSE NULL)
  /\ chips[s].ref_count = 1

\* How many devices have been left behind.
Left == IF at = "device" THEN device_count ELSE device_count - 1

\* All that has been walked is good, as far as that can be said before the end
\* of the list; for the chips of the device in hand, this is what
\* verify_storage() looks at.
WalkInv ==
  /\ at \in {"building", "device", "storage", "controller", "verified"}
  /\ at \in {"device", "storage", "controller"} =>
       /\ device_count \in 0 .. MaxNandDevices /\ Left \in 0 .. MaxNandDevices
       /\ p_device = Nth[Left]
       /\ \A k \in 0 .. (Left - 1) :
            Nth[k] # NULL /\ GoodDevice(device, controller, storage, Nth[k])
  /\ at \in {"storage", "controller"} =>
       /\ Left < MaxNandDevices
       /\ p_device # NULL /\ device[p_device].controller # NULL
       /\ sc_count \in 0 .. MaxStorageChips
       /\ p_sc = Chip[sc_count]
       /\ at = "storage" <=> p_sc # NULL
       /\ at = "controller" => sc_count > 0
       /\ sc_count > 0 => p_last = Chip[sc_count - 1]
       /\ \A k \in 0 .. (sc_count - 1) :
            /\ Chip[k] # NULL
            /\ Passes(controller, storage, device[p_device].controller, Chip[k])
  /\ at = "verified" =>
       (verdict = 0 <=> GoodDib(device, controller, storage, Walked))

LEMMA EndOfDevicesWalks ==
  ASSUME WalkInv, EndOfDevices, UNCHANGED <<nodeVars, Walked>>
  PROVE  WalkInv'
  <1>1. at = "device" /\ p_device = NULL /\ at' = "verified" /\ verdict' = 0
    BY DEF EndOfDevices, Verdict
  <1>2. Nth[Left] = NULL /\ Left \in 0 .. MaxNandDevices
    BY <1>1 DEF WalkInv
  <1>3. GoodDib(device, controller, storage, Walked)
    BY <1>1, <1>2, GoodDibByLength DEF WalkInv, Nth
  <1>4. GoodDib(device, controller, storage, Walked)'
    BY <1>3 DEF nodeVars
  <1>5. QED
    BY <1>1, <1>4 DEF WalkInv

LEMMA RejectDeviceWalks ==
  ASSUME WalkInv, RejectDevice, UNCHANGED <<nodeVars, Walked>>
  PROVE  WalkInv'
  <1>1. /\ at = "device" /\ p_device # NULL /\ ~HasChips(p_device)
        /\ at' = "verified" /\ verdict' = -1
    BY DEF RejectDevice, Verdict
  <1>2. /\ Nth[Left] # NULL /\ Left \in 0 .. MaxNandDevices /\ Left = device_count
        /\ p_device = Nth[Left]
    BY <1>1 DEF WalkInv, Left
  <1>3. ASSUME GoodDib(device, controller, storage, Walked)
        PROVE  FALSE
    <2>1. device_count < MaxNandDevices /\ GoodDevice(device, controller, storage, p_device)
      BY <1>1, <1>2, <1>3, GoodDibByLength DEF WalkInv, Nth
    <2>2. device[p_device].controller # NULL
      BY <2>1 DEF GoodDevice
    <2>3. controller[device[p_device].controller].first_storage # NULL
      <3>1. PICK n \in 1 .. MaxStorageChips :
              GoodController(controller, storage, device[p_device].controller, n)
        BY <2>1 DEF GoodDevice
      <3>2. 0 \in 0 .. (n - 1)
        BY MaxAssumption
      <3>3. Chip[0] # NULL
        BY <3>1, <3>2 DEF GoodController, Chip
      <3>4. QED
        BY <3>3, ChipList DEF Chip
    <2>4. QED
      BY <1>1, <2>1, <2>2, <2>3 DEF HasChips
  <1>4. ~GoodDib(device, controller, storage, Walked)'
    BY <1>3 DEF nodeVars
  <1>5. QED
    BY <1>1, <1>4 DEF WalkInv

LEMMA EnterDeviceWalks ==
  ASSUME WalkInv, EnterDevice, UNCHANGED <<nodeVars, Walked>>
  PROVE  WalkInv'
  <1>1. /\ at = "device" /\ p_device # NULL /\ HasChips(p_device)
        /\ at' = "storage" /\ device_count' = device_count + 1
        /\ p_sc' = controller[device[p_device].controller].first_storage
        /\ sc_count' = 0 /\ UNCHANGED <<p_device, p_last, verdict>>
    BY DEF EnterDevice
  <1>2. /\ device_count \in 0 .. MaxNandDevices /\ Left = device_count
        /\ device_count < MaxNandDevices
    BY <1>1 DEF WalkInv, Left, HasChips
  <1>3. /\ device_count' \in 0 .. MaxNandDevices /\ Left' = Left
        /\ Left' < MaxNandDevices
    BY <1>1, <1>2, MaxAssumption DEF Left
  <1>4. Nth' = Nth /\ Chip' = Chip
    BY <1>1 DEF Nth, Chip, nodeVars
  <1>5. /\ p_device' = Nth'[Left']
        /\ \A k \in 0 .. (Left' - 1) :
             Nth'[k] # NULL /\ GoodDevice(device', controller', storage', Nth'[k])
    BY <1>1, <1>3, <1>4 DEF WalkInv, nodeVars
  <1>6. p_sc' = Chip'[sc_count'] /\ p_sc' # NULL
    BY <1>1, <1>4, ChipList DEF Chip, HasChips
  <1>7. /\ device'[p_device'].controller # NULL
        /\ sc_count' \in 0 .. MaxStorageChips /\ 0 .. (sc_count' - 1) = {}
    BY <1>1, MaxAssumption DEF HasChips, nodeVars
  <1>8. QED
    BY <1>1, <1>2, <1>3, <1>5, <1>6, <1>7 DEF WalkInv

LEMMA PassStorageWalks ==
  ASSUME WalkInv, PassStorage, UNCHANGED <<nodeVars, Walked>>
  PROVE  WalkInv'
  <1>1. /\ at = "storage" /\ sc_count < MaxStorageChips
        /\ StorageIsGood(device[p_device].controller, p_sc)
        /\ sc_count' = sc_count + 1 /\ p_last' = p_sc
        /\ p_sc' = storage[p_sc].next_storage
        /\ at' = IF storage[p_sc].next_storage = NULL THEN "controller" ELSE "storage"
        /\ UNCHANGED <<p_device, device_count, verdict>>
    BY DEF PassStorage
  <1>2. /\ p_sc = Chip[sc_count] /\ p_sc # NULL
        /\ sc_count \in Nat /\ sc_count' \in 1 .. MaxStorageChips
        /\ sc_count' - 1 = sc_count
    BY <1>1, MaxAssumption DEF WalkInv
  <1>3. Nth' = Nth /\ Chip' = Chip /\ Left' = Left
    BY <1>1 DEF Nth, Chip, Left, nodeVars
  <1>4. p_sc' = Chip[sc_count']
    <2>1. Chip[sc_count'] =
            IF Chip[sc_count' - 1] = NULL THEN NULL
            ELSE storage[Chip[sc_count' - 1]].next_storage
      BY <1>2, ChipList DEF Chip
    <2>2. QED
      BY <1>1, <1>2, <2>1
  <1>5. Passes(controller, storage, device[p_device].controller, Chip[sc_count])
    BY <1>1, <1>2 DEF StorageIsGood, Passes
  <1>6. ASSUME NEW k \in 0 .. (sc_count' - 1)
        PROVE  /\ Chip[k] # NULL
               /\ Passes(controller, storage, device[p_device].controller, Chip[k])
    <2>1. k = sc_count \/ k \in 0 .. (sc_count - 1)
      BY <1>1, <1>2
    <2>2. QED
      BY <1>1, <1>2, <1>5, <2>1 DEF WalkInv
  <1>7. at' \in {"storage", "controller"} /\ (at' = "storage" <=> p_sc' # NULL)
    BY <1>1
  <1>8. /\ device_count' \in 0 .. MaxNandDevices /\ Left' \in 0 .. MaxNandDevices
        /\ p_device' = Nth'[Left'] /\ Left' < MaxNandDevices
        /\ \A k \in 0 .. (Left' - 1) :
             Nth'[k] # NULL /\ GoodDevice(device', controller', storage', Nth'[k])
        /\ p_device' # NULL /\ device'[p_device'].controller # NULL
    BY <1>1, <1>3 DEF WalkInv, nodeVars
  <1>9. \A k \in 0 .. (sc_count' - 1) :
          /\ Chip'[k] # NULL
          /\ Passes(controller', storage', device'[p_device'].controller, Chip'[k])
    BY <1>1, <1>3, <1>6 DEF nodeVars
  <1>10. /\ sc_count' \in 0 .. MaxStorageChips /\ sc_count' > 0
         /\ p_sc' = Chip'[sc_count'] /\ p_last' = Chip'[sc_count' - 1]
    BY <1>1, <1>2, <1>3, <1>4
  <1>11. QED
    BY <1>7, <1>8, <1>9, <1>10 DEF WalkInv

\* The DIB is good only if the device in hand is, as long as the walk is at its
\* chips.
LEMMA DeviceInHand ==
  ASSUME WalkInv, at \in {"storage", "controller"},
         GoodDib(device, controller, storage, Walked)
  PROVE  GoodDevice(device, controller, storage, p_device)
  <1>1. /\ Left \in 0 .. MaxNandDevices /\ p_device = Nth[Left] /\ p_device # NULL
        /\ \A k \in 0 .. (Left - 1) : Nth[k] # NULL
    BY DEF WalkInv
  <1>2. QED
    BY <1>1, GoodDibByLength DEF Nth

LEMMA RejectStorageWalks ==
  ASSUME WalkInv, RejectStorage, UNCHANGED <<nodeVars, Walked>>
  PROVE  WalkInv'
  <1> DEFINE c == device[p_device].controller
  <1>1. /\ at = "storage" /\ at' = "verified" /\ verdict' = -1
        /\ sc_count = MaxStorageChips \/ ~StorageIsGood(c, p_sc)
    BY DEF RejectStorage, Verdict
  <1>2. /\ p_sc = Chip[sc_count] /\ p_sc # NULL /\ sc_count \in 0 .. MaxStorageChips
        /\ \A k \in 0 .. (sc_count - 1) : Chip[k] # NULL
    BY <1>1 DEF WalkInv
  <1>3. ASSUME GoodDib(device, controller, storage, Walked)
        PROVE  FALSE
    <2>1. GoodDevice(device, controller, storage, p_device)
      BY <1>1, <1>3, DeviceInHand
    <2>2. PICK n \in 1 .. MaxStorageChips : GoodController(controller, storage, c, n)
      BY <2>1 DEF GoodDevice
    <2>3. /\ Chip[n] = NULL /\ \A k \in 0 .. (n - 1) : Chip[k] # NULL
          /\ controller[c].last_storage = Chip[n - 1]
          /\ \A k \in 0 .. (n - 1) :
               /\ storage[Chip[k]].ref_count = 1
               /\ storage[Chip[k]].controller = IF k \in {0, n - 1} THEN c ELSE NULL
      BY <2>2 DEF GoodController, Chip
    <2>4. ~(n < sc_count) /\ n # sc_count
      <3>1. n < sc_count => n \in 0 .. (sc_count - 1)
        BY <1>2, MaxAssumption
      <3>2. QED
        BY <1>2, <2>3, <3>1
    <2>5. sc_count \in 0 .. (n - 1) /\ sc_count < MaxStorageChips
      BY <1>2, <2>4, MaxAssumption
    <2>6. Chip[sc_count] \in {controller[c].first_storage, controller[c].last_storage}
            <=> sc_count \in {0, n - 1}
      <3>1. Chip = ChipsIn(storage, controller[c].first_storage)
        BY DEF Chip
      <3> HIDE DEF c
      <3>2. Chip[sc_count] \in {controller[c].first_storage, Chip[n - 1]}
              <=> sc_count \in {0, n - 1}
        BY <2>3, <2>5, <3>1, EndsByPlace
      <3>3. QED
        BY <2>3, <3>2
    <2>7. StorageIsGood(c, p_sc)
      BY <1>2, <2>3, <2>5, <2>6 DEF StorageIsGood
    <2>8. QED
      BY <1>1, <2>5, <2>7, MaxAssumption
  <1>4. ~GoodDib(device, controller, storage, Walked)'
    BY <1>3 DEF nodeVars
  <1>5. QED
    BY <1>1, <1>4 DEF WalkInv

\* At the end of a controller's chips.
LEMMA AtController ==
  ASSUME WalkInv, at = "controller", NEW c, c = device[p_device].controller
  PROVE  GoodDevice(device, controller, storage, p_device)
           <=> ControllerIsGood(c) /\ DeviceIsGood(p_device)
  <1>1. /\ c # NULL /\ Chip[sc_count] = NULL /\ sc_count \in 1 .. MaxStorageChips
        /\ sc_count \in Nat
        /\ p_last = Chip[sc_count - 1]
        /\ \A k \in 0 .. (sc_count - 1) :
             Chip[k] # NULL /\ Passes(controller, storage, c, Chip[k])
    BY MaxAssumption DEF WalkInv
  <1>2. GoodDevice(device, controller, storage, p_device)
          <=> /\ GoodController(controller, storage, c, sc_count)
              /\ device[p_device].ref_count = sc_count + 1
    BY <1>1, GoodDeviceByLength DEF Chip
  <1>3. GoodController(controller, storage, c, sc_count)
          <=> ControllerIsGood(c)
    <2>1. ASSUME controller[c].last_storage = p_last, NEW k \in 0 .. (sc_count - 1)
          PROVE  /\ storage[Chip[k]].ref_count = 1
                 /\ storage[Chip[k]].controller = IF k \in {0, sc_count - 1} THEN c ELSE NULL
      <3>1. Chip[k] \in {controller[c].first_storage, Chip[sc_count - 1]}
              <=> k \in {0, sc_count - 1}
        BY <1>1, EndsByPlace DEF Chip
      <3>2. QED
        BY <1>1, <2>1, <3>1 DEF Passes
    <2>2. QED
      BY <1>1, <2>1 DEF GoodController, ControllerIsGood, Chip
  <1>4. ControllerIsGood(c) =>
          (DeviceIsGood(p_device) <=> device[p_device].ref_count = sc_count + 1)
    BY DEF ControllerIsGood, DeviceIsGood
  <1>5. QED
    BY <1>2, <1>3, <1>4

LEMMA LeaveDeviceWalks ==
  ASSUME WalkInv, LeaveDevice, UNCHANGED <<nodeVars, Walked>>
  PROVE  WalkInv'
  <1>1. /\ at = "controller" /\ at' = "device"
        /\ ControllerIsGood(device[p_device].controller) /\ DeviceIsGood(p_device)
        /\ p_device' = device[p_device].next_device /\ device_count' = device_count
    BY DEF LeaveDevice
  <1>2. /\ device_count \in 0 .. MaxNandDevices /\ Left = device_count - 1
        /\ Left \in 0 .. MaxNandDevices /\ p_device = Nth[Left] /\ p_device # NULL
    BY <1>1 DEF WalkInv, Left
  <1>3. Left' = device_count /\ device_count \in 1 .. MaxNandDevices
    BY <1>1, <1>2, MaxAssumption DEF Left
  <1>4. Nth' = Nth
    BY DEF Nth, nodeVars
  <1>5. p_device' = Nth[device_count]
    BY <1>1, <1>2, <1>3, DeviceList DEF Nth
  <1>6. GoodDevice(device, controller, storage, p_device)
    BY <1>1, AtController
  <1>7. ASSUME NEW k \in 0 .. (device_count - 1)
        PROVE  Nth[k] # NULL /\ GoodDevice(device, controller, storage, Nth[k])
    <2>1. k = Left \/ k \in 0 .. (Left - 1)
      BY <1>2, <1>3, MaxAssumption
    <2>2. QED
      BY <1>1, <1>2, <1>6, <2>1 DEF WalkInv
  <1>8. \A k \in 0 .. (Left' - 1) :
          Nth'[k] # NULL /\ GoodDevice(device', controller', storage', Nth'[k])
    BY <1>3, <1>4, <1>7 DEF nodeVars
  <1>9. /\ device_count' \in 0 .. MaxNandDevices /\ Left' \in 0 .. MaxNandDevices
        /\ p_device' = Nth'[Left']
    BY <1>1, <1>2, <1>3, <1>4, <1>5
  <1>10. QED
    BY <1>1, <1>8, <1>9 DEF WalkInv

LEMMA RejectControllerWalks ==
  ASSUME WalkInv, RejectController, UNCHANGED <<nodeVars, Walked>>
  PROVE  WalkInv'
  <1>1. /\ at = "controller" /\ at' = "verified" /\ verdict' = -1
        /\ ~(ControllerIsGood(device[p_device].controller) /\ DeviceIsGood(p_device))
    BY DEF RejectController, Verdict
  <1>2. ~GoodDib(device, controller, storage, Walked)
    BY <1>1, AtController, DeviceInHand
  <1>3. ~GoodDib(device, controller, storage, Walked)'
    BY <1>2 DEF nodeVars
  <1>4. QED
    BY <1>1, <1>3 DEF WalkInv

LEMMA VerifyStepWalks ==
  ASSUME WalkInv, VerifyStep, UNCHANGED <<nodeVars, Walked>>
  PROVE  WalkInv'
  BY EndOfDevicesWalks, RejectDeviceWalks, EnterDeviceWalks, PassStorageWalks,
     RejectStorageWalks, LeaveDeviceWalks, RejectControllerWalks
  DEF VerifyStep

\* The beginning of a walk.
LEMMA BeginVerifyWalks ==
  ASSUME BeginVerify(Walked')
  PROVE  WalkInv'
  <1>1. at' = "device" /\ p_device' = Walked' /\ device_count' = 0 /\ Left' = 0
    BY DEF BeginVerify, Left
  <1>2. Nth'[0] = Walked'
    BY DeviceList DEF Nth
  <1>3. 0 .. (Left' - 1) = {} /\ 0 \in 0 .. MaxNandDevices
    BY <1>1, MaxAssumption
  <1>4. QED
    BY <1>1, <1>2, <1>3 DEF WalkInv

-----------------------------------------------------------------------------
(* The driver's registration and its test.                                 *)

\* The device in front of a list moves it one place on.
LEMMA OneMoreDevice ==
  ASSUME NEW dev, NEW new, NEW old, new # NULL, dev[new].next_device = old
  PROVE  \A k \in 1 .. MaxNandDevices : DevicesIn(dev, new)[k] = DevicesIn(dev, old)[k - 1]
  <1> DEFINE N == DevicesIn(dev, new)
             O == DevicesIn(dev, old)
             S == {k \in Nat : k + 1 \in 1 .. MaxNandDevices => N[k + 1] = O[k]}
  <1>1. 0 \in S
    <2>1. SUFFICES ASSUME 1 \in 1 .. MaxNandDevices
                   PROVE  N[1] = O[0]
      OBVIOUS
    <2>2. N[0] = new /\ O[0] = old
      BY DeviceList
    <2>3. N[1] = IF N[0] = NULL THEN NULL ELSE dev[N[0]].next_device
      BY <2>1, DeviceList
    <2>4. QED
      BY <2>2, <2>3
  <1>2. ASSUME NEW k \in Nat, k \in S
        PROVE  k + 1 \in S
    <2> DEFINE m == k + 1
    <2>1. SUFFICES ASSUME m + 1 \in 1 .. MaxNandDevices
                   PROVE  N[m + 1] = O[m]
      OBVIOUS
    <2>2. m \in 1 .. MaxNandDevices /\ (m + 1) - 1 = m /\ m - 1 = k
      BY <2>1, MaxAssumption
    <2>3. N[m] = O[k]
      BY <1>2, <2>2
    <2> HIDE DEF N, O, m
    <2>4. N[m + 1] = IF N[m] = NULL THEN NULL ELSE dev[N[m]].next_device
      BY <2>1, <2>2, DeviceList DEF N
    <2>5. O[m] = IF O[k] = NULL THEN NULL ELSE dev[O[k]].next_device
      BY <2>2, DeviceList DEF O
    <2>6. QED
      BY <2>3, <2>4, <2>5
  <1>3. Nat \subseteq S
    <2> HIDE DEF S
    <2>1. QED
      BY <1>1, <1>2, SetInduction
  <1>4. ASSUME NEW k \in 1 .. MaxNandDevices
        PROVE  N[k] = O[k - 1]
    <2>1. k - 1 \in Nat /\ (k - 1) + 1 = k
      BY MaxAssumption
    <2>2. k - 1 \in S
      BY <1>3, <2>1
    <2>3. QED
      BY <2>1, <2>2
  <1>5. QED
    BY <1>4

\* What is behind a device of a good DIB is a good DIB; a good DIB with room for
\* one more good device has it.
LEMMA OneMoreGoodDevice ==
  ASSUME NEW dev, NEW con, NEW chips, NEW new, NEW old,
         new # NULL, dev[new].next_device = old
  PROVE  /\ GoodDib(dev, con, chips, new) =>
              GoodDib(dev, con, chips, old) /\ GoodDevice(dev, con, chips, new)
         /\ /\ GoodDib(dev, con, chips, old) /\ old # NULL
            /\ GoodDevice(dev, con, chips, new)
            /\ DevicesIn(dev, old)[MaxNandDevices - 1] = NULL
            => GoodDib(dev, con, chips, new)
  <1> DEFINE N == DevicesIn(dev, new)
             O == DevicesIn(dev, old)
  <1>1. /\ N[0] = new /\ O[0] = old
        /\ \A k \in 1 .. MaxNandDevices : N[k] = O[k - 1]
    BY DeviceList, OneMoreDevice
  <1>2. ASSUME GoodDib(dev, con, chips, new)
        PROVE  GoodDib(dev, con, chips, old) /\ GoodDevice(dev, con, chips, new)
    <2>1. PICK n \in 0 .. MaxNandDevices :
            /\ N[n] = NULL
            /\ \A k \in 0 .. (n - 1) : N[k] # NULL /\ GoodDevice(dev, con, chips, N[k])
      BY <1>2 DEF GoodDib
    <2> HIDE DEF N, O
    <2>2. n # 0 /\ n - 1 \in 0 .. MaxNandDevices /\ n \in 1 .. MaxNandDevices
      BY <1>1, <2>1, MaxAssumption
    <2>3. O[n - 1] = NULL
      BY <1>1, <2>1, <2>2
    <2>4. ASSUME NEW k \in 0 .. ((n - 1) - 1)
          PROVE  O[k] # NULL /\ GoodDevice(dev, con, chips, O[k])
      <3>1. k + 1 \in 1 .. MaxNandDevices /\ k + 1 \in 0 .. (n - 1) /\ (k + 1) - 1 = k
        BY <2>2, MaxAssumption
      <3>2. N[k + 1] = O[k]
        BY <1>1, <3>1
      <3>3. QED
        BY <2>1, <3>1, <3>2
    <2>5. GoodDib(dev, con, chips, old)
      BY <2>2, <2>3, <2>4 DEF GoodDib, O
    <2>6. 0 \in 0 .. (n - 1)
      BY <2>2, MaxAssumption
    <2>7. QED
      BY <1>1, <2>1, <2>5, <2>6
  <1>3. ASSUME GoodDib(dev, con, chips, old), old # NULL,
               GoodDevice(dev, con, chips, new), O[MaxNandDevices - 1] = NULL
        PROVE  GoodDib(dev, con, chips, new)
    <2>1. PICK n \in 0 .. MaxNandDevices :
            /\ O[n] = NULL
            /\ \A k \in 0 .. (n - 1) : O[k] # NULL /\ GoodDevice(dev, con, chips, O[k])
      BY <1>3 DEF GoodDib
    <2> HIDE DEF N, O
    <2>2. n # 0 /\ MaxNandDevices \in Nat
      BY <1>1, <1>3, <2>1, MaxAssumption
    <2>3. n # MaxNandDevices
      BY <1>3, <2>1, <2>2
    <2>4. n + 1 \in 1 .. MaxNandDevices /\ n + 1 \in 0 .. MaxNandDevices
      BY <2>2, <2>3
    <2>5. N[n + 1] = NULL
      BY <1>1, <2>1, <2>4
    <2>6. ASSUME NEW k \in 0 .. ((n + 1) - 1)
          PROVE  N[k] # NULL /\ GoodDevice(dev, con, chips, N[k])
      <3>1. CASE k = 0
        BY <1>1, <1>3, <3>1
      <3>2. CASE k # 0
        <4>1. k \in 1 .. MaxNandDevices /\ k - 1 \in 0 .. (n - 1)
          BY <2>2, <3>2
        <4>2. QED
          BY <1>1, <2>1, <4>1
      <3>3. QED
        BY <3>1, <3>2
    <2>7. QED
      BY <2>4, <2>5, <2>6 DEF GoodDib, N
  <1>4. QED
    BY <1>2, <1>3

\* The driver's own nodes, before and after it has linked them in front.
Linked == dib_new # NULL

KiloNodes ==
  /\ DOMAIN device = DeviceNode
  /\ DOMAIN controller = ControllerNode
  /\ DOMAIN storage = StorageNode
  /\ device[KiloDevice] =
       IF Linked THEN [KiloDeviceInit EXCEPT !.next_device = NextOfKiloDevice]
       ELSE KiloDeviceInit
  /\ controller[KiloController] = KiloControllerInit
  /\ storage[KiloStorage] =
       IF Linked THEN [KiloStorageInit EXCEPT !.controller = ControllerOfKiloStorage]
       ELSE KiloStorageInit

\* What st_dib_test() makes of a DIB.
Outcome ==
  IF verdict # 0 THEN "failed"
  ELSE IF dib_new = NULL THEN "crashed"
  ELSE IF device[dib_new].next_device = NULL THEN "failed"
  ELSE IF device[dib_new].next_device # dib_old THEN "failed"
  ELSE "tests"

DibInv ==
  /\ WalkInv
  /\ driver \in DriverName
  /\ dib_old = 1
  /\ driver = "other" => at = "building" /\ pc \in {"register", "tests"}
  /\ driver # "other" =>
       /\ pc = "register" => dib_new = NULL
       /\ KiloNodes
       /\ pc # "register" =>
            \/ dib_new = KiloDevice
            \/ dib_new = NULL /\ ~GoodDib(device, controller, storage, dib_old)
       /\ pc \in {"tests", "failed", "crashed"} => at = "verified" /\ pc = Outcome

LEMMA KiloNodesExist ==
  /\ KiloDevice \in DeviceNode /\ KiloController \in ControllerNode
  /\ KiloStorage \in StorageNode
  /\ NULL \notin {KiloDevice, KiloController, KiloStorage}
  BY NodeAssumption
  DEF KiloDevice, KiloController, KiloStorage, DeviceNode, ControllerNode, StorageNode,
      NULL

LEMMA DibInitEstablishes ==
  ASSUME DibInit
  PROVE  DibInv
  <1>1. PICK shape \in Shapes :
          /\ device = [DevicesFor(shape) EXCEPT ![KiloDevice] = KiloDeviceInit]
          /\ controller = [ControllersFor(shape) EXCEPT ![KiloController] = KiloControllerInit]
          /\ storage = [StorageFor(shape) EXCEPT ![KiloStorage] = KiloStorageInit]
    BY DEF DibInit
  <1>2. /\ DOMAIN DevicesFor(shape) = DeviceNode
        /\ DOMAIN ControllersFor(shape) = ControllerNode
        /\ DOMAIN StorageFor(shape) = StorageNode
    BY DEF DevicesFor, ControllersFor, StorageFor
  <1>3. ~Linked
    BY DEF Linked, DibInit
  <1>4. KiloNodes
    BY <1>1, <1>2, <1>3, KiloNodesExist DEF KiloNodes
  <1>5. WalkInv
    BY DEF WalkInv, DibInit, VerifyInit
  <1>6. QED
    BY <1>4, <1>5, DriverAssumption DEF DibInv, DibInit, VerifyInit

LEMMA KiloNodesStay ==
  ASSUME KiloNodes, UNCHANGED <<nodeVars, driver, dib_old, Linked>>
  PROVE  KiloNodes'
  BY DEF KiloNodes, nodeVars, KiloDeviceInit, KiloControllerInit, KiloStorageInit,
         KiloRefCount, NextOfKiloDevice, ControllerOfKiloStorage,
         KiloDevice, KiloController, KiloStorage,
         DeviceNode, ControllerNode, StorageNode

LEMMA AssignKeepsDib ==
  ASSUME DibInv, Assign
  PROVE  DibInv'
  <1>1. /\ pc = "register" /\ at = "building"
        /\ UNCHANGED <<verifyVars, driver, pc, dib_old, dib_new>>
    BY DEF Assign
  <1>2. WalkInv'
    BY <1>1 DEF WalkInv, verifyVars
  <1>3. UNCHANGED Linked
    BY <1>1 DEF Linked
  <1>4. ASSUME KiloNodes
        PROVE  /\ DOMAIN device' = DeviceNode
               /\ DOMAIN controller' = ControllerNode
               /\ DOMAIN storage' = StorageNode
               /\ device'[KiloDevice] = device[KiloDevice]
               /\ controller'[KiloController] = controller[KiloController]
               /\ storage'[KiloStorage] = storage[KiloStorage]
    <2>1. /\ DOMAIN device = DeviceNode
          /\ DOMAIN controller = ControllerNode
          /\ DOMAIN storage = StorageNode
      BY <1>4 DEF KiloNodes
    <2>2. CASE \E d \in OldDevice : SetDevice(d)
      BY <2>1, <2>2, KiloNodesExist DEF SetDevice, OldDevice
    <2>3. CASE \E c \in OldController : SetController(c)
      BY <2>1, <2>3, KiloNodesExist DEF SetController, OldController
    <2>4. CASE \E s \in OldStorage : SetStorage(s)
      BY <2>1, <2>4, KiloNodesExist DEF SetStorage, OldStorage
    <2>5. QED
      BY <2>2, <2>3, <2>4 DEF Assign
  <1>5. ASSUME KiloNodes
        PROVE  KiloNodes'
    BY <1>1, <1>3, <1>4, <1>5
    DEF KiloNodes, KiloDeviceInit, KiloControllerInit, KiloStorageInit,
        KiloRefCount, NextOfKiloDevice, ControllerOfKiloStorage,
        KiloDevice, KiloController, KiloStorage,
        DeviceNode, ControllerNode, StorageNode
  <1>6. QED
    BY <1>1, <1>2, <1>5 DEF DibInv, verifyVars

LEMMA LeaveKeepsDib ==
  ASSUME DibInv, LeaveDib
  PROVE  DibInv'
  <1>1. /\ at = "building" /\ at' = "building"
        /\ driver = "other" /\ UNCHANGED <<driver, dib_old>> /\ pc' = "tests"
    BY DEF DibInv, LeaveDib, verifyVars
  <1>2. WalkInv'
    BY <1>1 DEF WalkInv
  <1>3. QED
    BY <1>1, <1>2 DEF DibInv

LEMMA BeginRegisterKeepsDib ==
  ASSUME DibInv, BeginRegister
  PROVE  DibInv'
  <1>1. /\ pc = "register" /\ driver # "other"
        /\ UNCHANGED <<nodeVars, driver, pc, dib_old, dib_new>>
        /\ BeginVerify(Walked')
    BY DEF BeginRegister, Walked
  <1>2. WalkInv'
    BY <1>1, BeginVerifyWalks
  <1>3. KiloNodes'
    BY <1>1, KiloNodesStay DEF DibInv, Linked
  <1>4. QED
    BY <1>1, <1>2, <1>3 DEF DibInv

LEMMA LinkKeepsDib ==
  ASSUME DibInv, Link
  PROVE  DibInv'
  <1>1. /\ pc = "register" /\ at = "verified" /\ pc' = "check"
        /\ UNCHANGED <<controller, driver, dib_old>>
        /\ BeginVerify(dib_new') /\ Walked' = dib_new'
    BY DEF Link, Walked
  <1>2. /\ driver # "other" /\ dib_new = NULL /\ KiloNodes
        /\ driver \in DriverName /\ dib_old = 1
    BY <1>1 DEF DibInv
  <1>3. WalkInv'
    BY <1>1, BeginVerifyWalks
  <1>4. CASE verdict = 0
    <2>1. /\ storage' = [storage EXCEPT ![KiloStorage].controller = ControllerOfKiloStorage]
          /\ device' = [device EXCEPT ![KiloDevice].next_device = NextOfKiloDevice]
          /\ dib_new' = KiloDevice
      BY <1>4 DEF Link
    <2>2. ~Linked /\ Linked'
      BY <1>2, <2>1, KiloNodesExist DEF Linked
    <2>3. /\ DOMAIN device = DeviceNode /\ DOMAIN storage = StorageNode
          /\ DOMAIN controller = ControllerNode
          /\ device[KiloDevice] = KiloDeviceInit
          /\ controller[KiloController] = KiloControllerInit
          /\ storage[KiloStorage] = KiloStorageInit
      BY <1>2, <2>2 DEF KiloNodes
    <2>4. /\ DOMAIN device' = DeviceNode /\ DOMAIN storage' = StorageNode
          /\ device'[KiloDevice] = [KiloDeviceInit EXCEPT !.next_device = NextOfKiloDevice]
          /\ storage'[KiloStorage] =
               [KiloStorageInit EXCEPT !.controller = ControllerOfKiloStorage]
      BY <2>1, <2>3, KiloNodesExist
    <2>5. KiloNodes'
      BY <1>1, <2>2, <2>3, <2>4
      DEF KiloNodes, KiloDeviceInit, KiloControllerInit, KiloStorageInit,
          KiloRefCount, NextOfKiloDevice, ControllerOfKiloStorage,
          KiloDevice, KiloController, KiloStorage,
          DeviceNode, ControllerNode, StorageNode
    <2>6. dib_new' = KiloDevice'
      BY <2>1 DEF KiloDevice
    <2>7. QED
      BY <1>1, <1>2, <1>3, <2>5, <2>6 DEF DibInv
  <1>5. CASE verdict # 0
    <2>1. UNCHANGED <<nodeVars, dib_new>>
      BY <1>1, <1>5 DEF Link, nodeVars
    <2>2. ~GoodDib(device, controller, storage, dib_old)
      BY <1>1, <1>5 DEF DibInv, WalkInv, Walked
    <2>3. ~GoodDib(device, controller, storage, dib_old)'
      BY <1>1, <2>1, <2>2 DEF nodeVars
    <2>4. KiloNodes'
      BY <1>1, <1>2, <2>1, KiloNodesStay DEF Linked
    <2>5. QED
      BY <1>1, <1>2, <1>3, <2>1, <2>3, <2>4 DEF DibInv
  <1>6. QED
    BY <1>4, <1>5

\* Past the registration, the driver's choice of a DIB is made.
LEMMA CheckAndWalkKeepDib ==
  ASSUME DibInv, Check \/ Walk
  PROVE  DibInv'
  <1>1. UNCHANGED <<nodeVars, driver, dib_old, dib_new>> /\ driver # "other"
    BY DEF DibInv, Check, Walk, VerifyStep, EndOfDevices, RejectDevice, EnterDevice,
           PassStorage, RejectStorage, LeaveDevice, RejectController
  <1>2. KiloNodes'
    BY <1>1, KiloNodesStay DEF DibInv, Linked
  <1>3. UNCHANGED <<KiloDevice, GoodDib(device, controller, storage, dib_old)>>
    BY <1>1 DEF KiloDevice, nodeVars
  <1>4. CASE Check
    <2>1. /\ pc = "check" /\ at = "verified" /\ pc' = Outcome
          /\ UNCHANGED verifyVars
      BY <1>4 DEF Check, Outcome
    <2>2. pc' # "register" /\ UNCHANGED <<Walked, Outcome>>
      BY <1>1, <2>1 DEF Walked, Outcome, nodeVars, verifyVars
    <2>3. WalkInv'
      BY <1>1, <2>1, <2>2 DEF DibInv, WalkInv, verifyVars, nodeVars
    <2>4. QED
      BY <1>1, <1>2, <1>3, <2>1, <2>2, <2>3 DEF DibInv, verifyVars
  <1>5. CASE Walk
    <2>1. VerifyStep /\ UNCHANGED <<pc, Walked>>
      BY <1>1, <1>5 DEF Walk, Walked
    <2>2. WalkInv'
      BY <1>1, <2>1, VerifyStepWalks DEF DibInv
    <2>3. at # "verified"
      BY <2>1 DEF VerifyStep, EndOfDevices, RejectDevice, EnterDevice,
                  PassStorage, RejectStorage, LeaveDevice, RejectController
    <2>4. QED
      BY <1>1, <1>2, <1>3, <2>1, <2>2, <2>3 DEF DibInv
  <1>6. QED
    BY <1>4, <1>5

LEMMA DibStepKeepsDib ==
  ASSUME DibInv, DibStep \/ Assign
  PROVE  DibInv'
  BY AssignKeepsDib, LeaveKeepsDib, BeginRegisterKeepsDib, LinkKeepsDib,
     CheckAndWalkKeepDib
  DEF DibStep

LEMMA VerdictIsExactly ==
  ASSUME DibInv
  PROVE  VerdictIsExact
  BY WellFormedIsGood DEF DibInv, WalkInv, Walked, VerdictIsExact

\* Where the tests go on, the driver's device has been linked in front.
LEMMA TestsHaveNewDib ==
  ASSUME DibInv, pc = "tests", driver # "other"
  PROVE  /\ dib_new = KiloDevice /\ dib_new # NULL
         /\ device[dib_new].next_device = dib_old
         /\ GoodDib(device, controller, storage, dib_new)
  <1>1. at = "verified" /\ Outcome = "tests" /\ Walked = dib_new
    BY DEF DibInv, Walked
  <1>2. verdict = 0 /\ dib_new # NULL /\ device[dib_new].next_device = dib_old
    BY <1>1 DEF Outcome
  <1>3. QED
    BY <1>1, <1>2 DEF DibInv, WalkInv

LEMMA NewDibGoesOnWithOld ==
  ASSUME DibInv
  PROVE  NewDibExtendsOld
  <1> SUFFICES ASSUME pc = "tests", driver # "other"
               PROVE  /\ WellFormed(dib_new)
                      /\ WellFormed(dib_old)
                      /\ \A k \in 1 .. MaxNandDevices :
                           DeviceNumber(dib_new)[k] = DeviceNumber(dib_old)[k - 1]
    BY DEF NewDibExtendsOld
  <1>1. /\ dib_new # NULL /\ device[dib_new].next_device = dib_old
        /\ GoodDib(device, controller, storage, dib_new)
    BY TestsHaveNewDib
  <1>2. GoodDib(device, controller, storage, dib_old)
    BY <1>1, OneMoreGoodDevice
  <1>3. \A k \in 1 .. MaxNandDevices :
          DevicesIn(device, dib_new)[k] = DevicesIn(device, dib_old)[k - 1]
    BY <1>1, OneMoreDevice
  <1>4. QED
    BY <1>1, <1>2, <1>3, WellFormedIsGood, ListsInMemory

\* The driver's device, once linked, is as good as the driver.
LEMMA KiloDeviceIsGood ==
  ASSUME KiloNodes, Linked, driver \in {"kilo_0", "kilo_1"}, 1 <= MaxStorageChips
  PROVE  GoodDevice(device, controller, storage, KiloDevice)
  <1>1. /\ device[KiloDevice].controller = KiloController
        /\ device[KiloDevice].ref_count = 2
    BY DEF KiloNodes, KiloDeviceInit, KiloRefCount
  <1>2. /\ controller[KiloController].first_storage = KiloStorage
        /\ controller[KiloController].last_storage = KiloStorage
        /\ controller[KiloController].nstorage = 1
        /\ controller[KiloController].ref_count = 1
    BY DEF KiloNodes, KiloControllerInit, KiloRefCount
  <1>3. /\ storage[KiloStorage].next_storage = NULL
        /\ storage[KiloStorage].controller = KiloController
        /\ storage[KiloStorage].ref_count = 1
    BY DEF KiloNodes, KiloStorageInit, KiloRefCount, ControllerOfKiloStorage
  <1> DEFINE chip == ChipsIn(storage, KiloStorage)
  <1>4. 1 \in 1 .. MaxStorageChips
    BY MaxAssumption
  <1>5. chip[0] = KiloStorage
    BY ChipList
  <1>6. chip[1] = NULL
    BY <1>3, <1>4, <1>5, ChipList
  <1>7. GoodController(controller, storage, KiloController, 1)
    <2> HIDE DEF chip
    <2>1. /\ \A k \in 0 .. (1 - 1) : chip[k] # NULL
          /\ controller[KiloController].last_storage = chip[1 - 1]
          /\ \A k \in 0 .. (1 - 1) :
               /\ storage[chip[k]].ref_count = 1
               /\ storage[chip[k]].controller =
                    IF k \in {0, 1 - 1} THEN KiloController ELSE NULL
      <3>1. \A k \in 0 .. (1 - 1) : k = 0
        OBVIOUS
      <3>2. QED
        BY <1>2, <1>3, <1>5, <3>1, KiloNodesExist
    <2>2. QED
      BY <1>2, <1>6, <2>1 DEF GoodController, chip
  <1>8. QED
    BY <1>1, <1>4, <1>7, KiloNodesExist DEF GoodDevice

LEMMA KiloDeviceIsFlawed ==
  ASSUME KiloNodes, Linked, driver \in {"kilo_2", "kilo_3", "kilo_4", "kilo_5"}
  PROVE  ~GoodDevice(device, controller, storage, KiloDevice)
  <1>1. SUFFICES ASSUME GoodDevice(device, controller, storage, KiloDevice)
                 PROVE  FALSE
    OBVIOUS
  <1> DEFINE c == device[KiloDevice].controller
             chip == ChipsIn(storage, controller[c].first_storage)
  <1>2. PICK n \in 1 .. MaxStorageChips :
          /\ GoodController(controller, storage, c, n)
          /\ device[KiloDevice].ref_count = n + 1
    BY <1>1 DEF GoodDevice
  <1>3. c # NULL
    BY <1>1 DEF GoodDevice
  <1>4. n >= 1 /\ n \in Nat /\ 0 \in 0 .. (n - 1) /\ n - 1 \in 0 .. (n - 1)
    BY MaxAssumption
  <1>5. chip[0] = controller[c].first_storage
    BY ChipList
  <1>6. chip[0] # NULL /\ chip[n - 1] # NULL /\ controller[c].last_storage = chip[n - 1]
    BY <1>2, <1>4 DEF GoodController
  <1> HIDE DEF chip, c
  <1>7. CASE driver = "kilo_2"
    BY <1>3, <1>7 DEF KiloNodes, KiloDeviceInit, c
  <1>8. driver # "kilo_2" => c = KiloController
    BY DEF KiloNodes, KiloDeviceInit, c
  <1>9. CASE driver \in {"kilo_3", "kilo_5"}
    <2>1. controller[c].last_storage = NULL
      BY <1>8, <1>9 DEF KiloNodes, KiloControllerInit
    <2>2. QED
      BY <1>6, <2>1
  <1>10. CASE driver = "kilo_4"
    <2>1. device[KiloDevice].ref_count = 0
      BY <1>10 DEF KiloNodes, KiloDeviceInit, KiloRefCount
    <2>2. QED
      BY <1>2, <1>4, <2>1
  <1>11. QED
    BY <1>7, <1>9, <1>10

LEMMA FlawsAreFoundOut ==
  ASSUME DibInv
  PROVE  FlawsAreFound
  <1> SUFFICES ASSUME pc \in {"tests", "failed", "crashed"}, WellFormed(dib_old),
                      DeviceNumber(dib_old)[MaxNandDevices - 1] = NULL
               PROVE  pc = IF driver \in {"kilo_0", "other"} THEN "tests" ELSE "failed"
    BY DEF FlawsAreFound
  <1>1. /\ GoodDib(device, controller, storage, dib_old)
        /\ DevicesIn(device, dib_old)[MaxNandDevices - 1] = NULL
    BY WellFormedIsGood, ListsInMemory
  <1>2. dib_old # NULL
    BY DEF DibInv, NULL
  <1>3. CASE driver = "other"
    BY <1>3 DEF DibInv
  <1>4. CASE driver # "other"
    <2>1. /\ KiloNodes /\ at = "verified" /\ pc = Outcome /\ dib_new = KiloDevice
          /\ Walked = dib_new
          /\ driver \in {"kilo_0", "kilo_1", "kilo_2", "kilo_3", "kilo_4", "kilo_5"}
      BY <1>1, <1>4 DEF DibInv, Walked, DriverName
    <2>2. Linked /\ dib_new # NULL
      BY <2>1, KiloNodesExist DEF Linked
    <2>3. verdict = 0 <=> GoodDib(device, controller, storage, dib_new)
      BY <2>1 DEF DibInv, WalkInv
    <2>4. device[dib_new].next_device = NextOfKiloDevice
      BY <2>1, <2>2 DEF KiloNodes, KiloDeviceInit
    <2>5. GoodDib(device, controller, storage, dib_new)
            => GoodDevice(device, controller, storage, dib_new)
      BY <2>2, <2>4, OneMoreGoodDevice
    <2>6. CASE driver = "kilo_0"
      <3>1. device[dib_new].next_device = dib_old
        BY <2>4, <2>6 DEF NextOfKiloDevice
      <3>2. GoodDevice(device, controller, storage, dib_old)
        <4>1. 0 \in 0 .. MaxNandDevices /\ 0 .. (0 - 1) = {}
          BY MaxAssumption
        <4>2. DevicesIn(device, dib_old)[0] = dib_old
          BY DeviceList
        <4>3. QED
          BY <1>1, <1>2, <4>1, <4>2, GoodDibByLength
      <3>3. 1 <= MaxStorageChips
        BY <3>2, MaxAssumption DEF GoodDevice
      <3>4. GoodDevice(device, controller, storage, dib_new)
        BY <2>1, <2>2, <2>6, <3>3, KiloDeviceIsGood
      <3>5. GoodDib(device, controller, storage, dib_new)
        BY <1>1, <1>2, <2>2, <3>1, <3>4, OneMoreGoodDevice
      <3>6. QED
        BY <1>2, <2>1, <2>2, <2>3, <2>6, <3>1, <3>5 DEF Outcome
    <2>7. CASE driver = "kilo_1"
      <3>1. device[dib_new].next_device = NULL
        BY <2>4, <2>7 DEF NextOfKiloDevice
      <3>2. QED
        BY <2>1, <2>2, <2>7, <3>1 DEF Outcome
    <2>8. CASE driver \in {"kilo_2", "kilo_3", "kilo_4", "kilo_5"}
      <3>1. ~GoodDevice(device, controller, storage, dib_new)
        BY <2>1, <2>2, <2>8, KiloDeviceIsFlawed
      <3>2. QED
        BY <2>1, <2>3, <2>5, <2>8, <3>1 DEF Outcome
    <2>9. QED
      BY <2>1, <2>6, <2>7, <2>8
  <1>5. QED
    BY <1>3, <1>4

-----------------------------------------------------------------------------
LEMMA OnlyDibStepsMoveDib ==
  ASSUME DibInv, [Next]_vars
  PROVE  DibInv'
  <1>1. CASE DibStep \/ Assign
    BY <1>1, DibStepKeepsDib
  <1>2. CASE UNCHANGED dibVars
    <2>1. UNCHANGED <<nodeVars, verifyVars, driver, pc, dib_old, dib_new>>
      BY <1>2 DEF dibVars
    <2>2. UNCHANGED <<device, controller, storage, Walked, Outcome, Linked, KiloDevice>>
      BY <2>1 DEF Walked, Outcome, Linked, KiloDevice, nodeVars, verifyVars
    <2>3. WalkInv'
      <3>1. UNCHANGED <<Nth, Chip, Left>>
        BY <2>1, <2>2 DEF Nth, Chip, Left, verifyVars
      <3>2. QED
        BY <2>1, <2>2, <3>1 DEF DibInv, WalkInv, verifyVars
    <2>4. KiloNodes => KiloNodes'
      BY <2>1, <2>2, KiloNodesStay
    <2>5. GoodDib(device, controller, storage, dib_old)'
            <=> GoodDib(device, controller, storage, dib_old)
      BY <2>1, <2>2
    <2>6. QED
      BY <2>1, <2>2, <2>3, <2>4, <2>5 DEF DibInv, verifyVars
  <1>3. QED
    BY <1>1, <1>2
    DEF Next, ProcessArguments, Fork, EmulatorExits, Finish, PrepareDib, FailDib,
        TestStochastically, EndStochastically, TestDeterministically, Trap, vars

\* What a walk has accepted so far is good, the driver's nodes are as it has made
\* and linked them, and st_dib_test() makes of them what it says.
THEOREM DibInvariant == Spec => []DibInv
  <1>1. Init => DibInv
    BY DibInitEstablishes DEF Init
  <1>2. DibInv /\ [Next]_vars => DibInv'
    BY OnlyDibStepsMoveDib
  <1>3. QED
    BY <1>1, <1>2, PTL DEF Spec

\* verify_dib() accepts exactly the well-formed DIBs: for any number of nodes and
\* any limits, and however the nodes are linked, in circles or shared or too many.
THEOREM VerdictsAreExact == Spec => []VerdictIsExact
  <1>1. QED
    BY VerdictIsExactly, DibInvariant, PTL

\* Each flaw of the kilo drivers is found by st_dib_test(), and nothing else is
\* taken for one.
THEOREM KiloFlawsAreFound == Spec => []FlawsAreFound
  <1>1. QED
    BY FlawsAreFoundOut, DibInvariant, PTL

\* What goes on to the tests of storage is the driver's device and behind it every
\* device that was there before, in its order, all well formed.
THEOREM OldDibIsKept == Spec => []NewDibExtendsOld
  <1>1. QED
    BY NewDibGoesOnWithOld, DibInvariant, PTL

-----------------------------------------------------------------------------
(* The stochastic tester's choices.                                        *)

\* Which calls the tester has come to, and what it makes of their outcomes.
TestsAreCounted ==
  /\ test \in Nat \ {0} /\ test <= NumTests + 1
  /\ failures \in Nat
  /\ ret_val = IF failures = 0 THEN 0 ELSE -1
  /\ place \in {"size", "start", "choose", "call"} => test <= NumTests
  /\ place = "end" => test = NumTests + 1

\* The region chosen lies in the arena.
RegionInArena ==
  /\ place = "start" => size \in 1 .. ARENA_SIZE
  /\ place \in {"choose", "call"} =>
       /\ size \in Nat \ {0} /\ start \in Nat
       /\ ARENA_START <= start
       /\ start + size <= ARENA_START + ARENA_SIZE

StochasticInv == TestsAreCounted /\ RegionInArena

\* The arena has a whole number of blocks on either side of storage's end.
LEMMA ArenaFacts ==
  \E c \in Nat, d \in Nat :
    /\ ARENA_START = c * BlockSize
    /\ ARENA_START + ARENA_SIZE = d * BlockSize
    /\ ARENA_START \in Nat /\ ARENA_SIZE \in Nat \ {0}
    /\ BlockSize \in Nat \ {0} /\ c < d
  <1> DEFINE h == ArenaBlocks \div 2
             B == BlockSize
  <1>1. B \in Nat \ {0} /\ MirrorSize = Radix * B
    BY RadixAssumption DEF BlockSize, MirrorSize
  <1>2. h \in Nat \ {0} /\ ArenaBlocks = 2 * h /\ h <= Radix /\ Radix \in Nat
    BY ArenaAssumption, RadixAssumption
  <1> HIDE DEF h
  <1>3. ARENA_SIZE = ArenaBlocks * B
    BY DEF ARENA_SIZE
  <1>4. ARENA_START = MirrorSize - (ARENA_SIZE \div 2)
    BY DEF ARENA_START
  <1> HIDE DEF B
  <1> DEFINE x == h * B
             c == Radix - h
             d == Radix + h
  <1>5. x \in Nat \ {0} /\ ARENA_SIZE = 2 * x
    BY <1>1, <1>2, <1>3
  <1>6. ARENA_SIZE \div 2 = x
    <2> HIDE DEF x
    <2>1. QED
      BY <1>5
  <1>7. ARENA_START = c * B
    BY <1>1, <1>2, <1>4, <1>6
  <1>8. ARENA_START + ARENA_SIZE = d * B
    BY <1>1, <1>2, <1>5, <1>7
  <1>9. c \in Nat /\ d \in Nat /\ c < d
    BY <1>2
  <1>10. ARENA_START \in Nat
    BY <1>1, <1>7, <1>9
  <1> HIDE DEF c, d, x
  <1>11. ARENA_SIZE \in Nat \ {0}
    BY <1>5
  <1> USE <1>9
  <1>12. WITNESS c \in Nat, d \in Nat
  <1>13. QED
    BY <1>1, <1>7, <1>8, <1>10, <1>11 DEF B

\* A call for the whole arena lies in the arena.
LEMMA ArenaIsInArena ==
  ARENA_START \in Nat /\ ARENA_SIZE \in Nat \ {0}
  BY ArenaFacts

LEMMA StochasticInitEstablishes ==
  ASSUME StochasticInit
  PROVE  StochasticInv
  BY CountAssumption DEF StochasticInit, StochasticInv, TestsAreCounted, RegionInArena

LEMMA StochasticStepPreserves ==
  ASSUME StochasticInv, StochasticNext
  PROVE  StochasticInv'
  <1> USE DEF StochasticInv, TestsAreCounted, RegionInArena
  <1>1. CASE BeginTest
    BY <1>1, ArenaIsInArena DEF BeginTest, CallForArena
  <1>2. CASE RandomSize
    BY <1>2 DEF RandomSize
  <1>3. CASE RandomStart
    <2>1. PICK simple \in 0 .. (ARENA_SIZE - size) :
            /\ start' = simple + ARENA_START
            /\ place' = IF simple + size < ARENA_SIZE THEN "choose" ELSE "aborted"
      BY <1>3 DEF RandomStart
    <2>2. size \in 1 .. ARENA_SIZE /\ size' = size
      BY <1>3 DEF RandomStart
    <2>3. RegionInArena'
      BY <2>1, <2>2, ArenaIsInArena
    <2>4. QED
      BY <1>3, <2>1, <2>3 DEF RandomStart
  <1>4. CASE Choose
    BY <1>4 DEF Choose
  <1>5. CASE Succeed
    BY <1>5, ArenaIsInArena, CountAssumption DEF Succeed, CallForArena
  <1>6. CASE Fail
    BY <1>6, CountAssumption DEF Fail
  <1>7. CASE End
    BY <1>7, CountAssumption DEF End
  <1>8. QED
    BY <1>1, <1>2, <1>3, <1>4, <1>5, <1>6, <1>7 DEF StochasticNext

\* The multiples of a size at or around a number.
LEMMA RoundingStaysBetween ==
  ASSUME NEW n \in Nat \ {0}, NEW x \in Nat, NEW c \in Nat, NEW d \in Nat
  PROVE  /\ (x \div n) * n \in Nat
         /\ c * n <= x => c * n <= (x \div n) * n
         /\ x < d * n => (x \div n) * n + n - 1 < d * n
  <1> DEFINE q == x \div n
  <1>1. q \in Nat /\ x % n \in 0 .. (n - 1) /\ x = n * q + (x % n)
    OBVIOUS
  <1> HIDE DEF q
  <1>2. q * n \in Nat /\ q * n = n * q /\ c * n \in Nat /\ d * n \in Nat
    BY <1>1
  <1>3. ASSUME c * n <= x
        PROVE  c * n <= q * n
    <2>1. c * n < (q + 1) * n
      BY <1>1, <1>2, <1>3
    <2>2. c < q + 1
      BY <1>1, <2>1
    <2>3. QED
      BY <1>1, <2>2
  <1>4. ASSUME x < d * n
        PROVE  q * n + n - 1 < d * n
    <2>1. q * n < d * n
      BY <1>1, <1>2, <1>4
    <2>2. q + 1 <= d
      BY <1>1, <2>1
    <2>3. (q + 1) * n <= d * n
      BY <1>1, <2>2
    <2>4. (q + 1) * n = q * n + n
      BY <1>1
    <2>5. QED
      BY <1>1, <1>2, <2>3, <2>4
  <1>5. QED
    BY <1>2, <1>3, <1>4 DEF q

\* Whole pages and whole blocks around a region in the arena are in the arena.
LEMMA RoundedRegionInArena ==
  ASSUME NEW x \in Nat, NEW y \in Nat, ARENA_START <= x,
         y < ARENA_START + ARENA_SIZE
  PROVE  /\ ARENA_START <= PageStart(x) /\ ARENA_START <= BlockStart(x)
         /\ PageEnd(y) < ARENA_START + ARENA_SIZE
         /\ BlockEnd(y) < ARENA_START + ARENA_SIZE
         /\ {PageStart(x), PageEnd(y), BlockStart(x), BlockEnd(y)} \subseteq Int
  <1>1. PICK c \in Nat, d \in Nat :
          /\ ARENA_START = c * BlockSize
          /\ ARENA_START + ARENA_SIZE = d * BlockSize
          /\ BlockSize \in Nat \ {0}
    BY ArenaFacts
  <1> DEFINE e == c * Radix
             f == d * Radix
  <1>2. e \in Nat /\ f \in Nat /\ Radix \in Nat \ {0}
    BY RadixAssumption
  <1>3. e * Radix = c * BlockSize /\ f * Radix = d * BlockSize
    BY RadixAssumption DEF BlockSize
  <1> HIDE DEF e, f
  <1>4. /\ ARENA_START <= PageStart(x) /\ PageStart(x) \in Nat
        /\ PageStart(y) \in Nat /\ PageStart(y) + Radix - 1 < ARENA_START + ARENA_SIZE
    <2>1. ARENA_START = e * Radix /\ ARENA_START + ARENA_SIZE = f * Radix
      BY <1>1, <1>3
    <2>2. ARENA_START <= (x \div Radix) * Radix /\ (x \div Radix) * Radix \in Nat
      BY <1>2, <2>1, RoundingStaysBetween
    <2>3. (y \div Radix) * Radix \in Nat
      BY <1>2, RoundingStaysBetween
    <2>4. (y \div Radix) * Radix + Radix - 1 < ARENA_START + ARENA_SIZE
      <3>1. y < f * Radix
        BY <2>1
      <3>2. (y \div Radix) * Radix + Radix - 1 < f * Radix
        BY <1>2, <3>1, RoundingStaysBetween
      <3>3. QED
        BY <2>1, <3>2
    <2>5. QED
      BY <2>2, <2>3, <2>4 DEF PageStart
  <1>5. /\ ARENA_START <= BlockStart(x) /\ BlockStart(x) \in Nat
        /\ BlockStart(y) \in Nat
        /\ BlockStart(y) + BlockSize - 1 < ARENA_START + ARENA_SIZE
    BY <1>1, RoundingStaysBetween DEF BlockStart
  <1>6. QED
    BY <1>1, <1>2, <1>4, <1>5 DEF PageEnd, BlockEnd

LEMMA ChangesStayInArena ==
  ASSUME StochasticInv
  PROVE  ChangesAreCompared
  <1>1. SUFFICES ASSUME place = "call"
                 PROVE  Changed \subseteq Arena
    BY DEF ChangesAreCompared
  <1> DEFINE from == IF op = "write" THEN PageStart(start) ELSE BlockStart(start)
             to == IF op = "write" THEN PageEnd(start + size - 1)
                   ELSE BlockEnd(start + size - 1)
  <1>2. /\ size \in Nat \ {0} /\ start \in Nat /\ ARENA_START <= start
        /\ start + size <= ARENA_START + ARENA_SIZE
    BY <1>1 DEF StochasticInv, RegionInArena
  <1>3. start + size - 1 \in Nat /\ start + size - 1 < ARENA_START + ARENA_SIZE
    BY <1>2, ArenaIsInArena
  <1>4. /\ from \in Int /\ to \in Int
        /\ ARENA_START <= from /\ to < ARENA_START + ARENA_SIZE
    BY <1>2, <1>3, RoundedRegionInArena
  <1> HIDE DEF from, to
  <1>5. from .. to \subseteq ARENA_START .. (ARENA_START + ARENA_SIZE - 1)
    BY <1>4, ArenaIsInArena
  <1>6. {Wrap(a) : a \in from .. to} \subseteq Arena
    BY <1>5 DEF Arena
  <1>7. QED
    BY <1>6 DEF Changed, from, to

-----------------------------------------------------------------------------
(* Both processes.                                                         *)

ProgramInv ==
  /\ StochasticInv
  /\ step \in 1 .. (Steps + 1)
  /\ parent \in {"arguments", "forking"} => child = "unborn"
  /\ StatusTellsResult

LEMMA ProgramStepPreserves ==
  ASSUME ProgramInv, [Next]_vars
  PROVE  ProgramInv'
  <1> USE DEF ProgramInv, StatusTellsResult, Steps
  <1>1. ASSUME UNCHANGED stochasticVars
        PROVE  StochasticInv' /\ UNCHANGED <<test, failures, place, ret_val>>
    BY <1>1
    DEF stochasticVars, regionVars, StochasticInv, TestsAreCounted, RegionInArena
  <1>2. CASE ProcessArguments \/ Fork \/ EmulatorExits \/ Finish
    <2>1. UNCHANGED pc
      BY <1>2 DEF ProcessArguments, Fork, EmulatorExits, Finish, dibVars
    <2>2. QED
      BY <1>1, <1>2, <2>1 DEF ProcessArguments, Fork, EmulatorExits, Finish
  <1>3. CASE PrepareDib
    BY <1>1, <1>3 DEF PrepareDib
  <1>4. CASE FailDib \/ Trap
    BY <1>1, <1>4 DEF FailDib, Trap, dibVars, InTests
  <1>5. CASE TestStochastically
    <2>1. StochasticInv' /\ UNCHANGED <<mode, parent, step>>
      BY <1>5, StochasticStepPreserves DEF TestStochastically
    <2>2. child = "running" /\ child' \in {"faulting", "running"}
      BY <1>5 DEF TestStochastically, InTests
    <2>3. QED
      BY <2>1, <2>2
  <1>6. CASE EndStochastically
    BY <1>1, <1>6
    DEF EndStochastically, InTests, dibVars, StochasticInv, TestsAreCounted
  <1>7. CASE TestDeterministically
    BY <1>1, <1>7 DEF TestDeterministically, InTests, dibVars
  <1>8. CASE UNCHANGED vars
    BY <1>1, <1>8 DEF vars, dibVars
  <1>9. QED
    BY <1>2, <1>3, <1>4, <1>5, <1>6, <1>7, <1>8 DEF Next

\* The tester's place, its choices and the processes' places agree.
THEOREM ProgramInvariant == Spec => []ProgramInv
  <1>1. Init => ProgramInv
    BY StochasticInitEstablishes DEF Init, ProgramInv, StatusTellsResult, Steps
  <1>2. ProgramInv /\ [Next]_vars => ProgramInv'
    BY ProgramStepPreserves
  <1>3. QED
    BY <1>1, <1>2, PTL DEF Spec

\* The child's status is that of all its tests: success only when every test has
\* run and none has failed, failure only when something has (main.c,
\* st_stochastic(), st_deterministic()).
THEOREM StatusIsTold == Spec => []StatusTellsResult
  <1>1. ProgramInv => StatusTellsResult
    BY DEF ProgramInv
  <1>2. QED
    BY <1>1, ProgramInvariant, PTL

\* What the calls of a stochastic test change, whole pages and whole blocks
\* included, is in the arena, which the test erases first and compares last.
THEOREM AllChangesAreCompared == Spec => []ChangesAreCompared
  <1>1. ProgramInv => ChangesAreCompared
    BY ChangesStayInArena DEF ProgramInv
  <1>2. QED
    BY <1>1, ProgramInvariant, PTL
=============================================================================
