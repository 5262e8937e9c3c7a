--------------------------- MODULE ExecSystem_proofs ---------------------------
(***************************************************************************)
(* What holds of the exec-op framework over a foxtrot driver and the       *)
(* device, proved for storage of any size, operations of any duration, any *)
(* poll interval and any calls of the tester: of the operations that the   *)
(* framework builds, of the driver that carries them out, of the bytes     *)
(* that are stored and read, and of the driver that cuts operations short. *)
(***************************************************************************)
EXTENDS ExecSystem, Tester_proofs, SequenceTheorems, WellFoundedInduction

-----------------------------------------------------------------------------
(* The instructions of a transfer.                                         *)

\* Induction on the natural numbers, as a fact about sets of them: the least
\* number outside a set has none before it.
LEMMA SetInduction ==
  ASSUME NEW S, 0 \in S, \A n \in Nat : n \in S => n + 1 \in S
  PROVE  Nat \subseteq S
  <1> DEFINE T == Nat \ S
             R == {ss \in Nat \X Nat : ss[1] < ss[2]}
  <1>1. IsWellFoundedOn(R, Nat)
    BY NatLessThanWellFounded DEF OpToRel
  <1>2. SUFFICES ASSUME T # {} PROVE FALSE
    OBVIOUS
  <1>3. \E x \in T : \A y \in T : ~(<<y, x>> \in R)
    <2> HIDE DEF R
    <2>1. T \subseteq Nat
      OBVIOUS
    <2> HIDE DEF T
    <2>2. QED
      BY <1>1, <1>2, <2>1, WFMin
  <1>4. PICK x \in T : \A y \in T : ~(<<y, x>> \in R)
    BY <1>3
  <1>5. x \in Nat /\ x # 0 /\ x - 1 \in Nat
    OBVIOUS
  <1>6. x - 1 \in T
    OBVIOUS
  <1>7. <<x - 1, x>> \in R
    BY <1>5
  <1>8. QED
    BY <1>4, <1>6, <1>7

\* How many bytes the next page's instructions are for, when there are so many
\* left.
Available(r, remaining) ==
  IF remaining = r.size THEN Radix - BYTE(r.offset) ELSE Radix
LengthOf(r, remaining) ==
  IF remaining < Available(r, remaining) THEN remaining ELSE Available(r, remaining)

\* Transfer's function.
TransferOf(r) ==
  LET from[remaining \in 0 .. r.size] ==
        IF remaining = 0 THEN <<>>
        ELSE PageInstructions(r.op, r.size - remaining, LengthOf(r, remaining))
               \o from[remaining - LengthOf(r, remaining)]
  IN from

LEMMA TransferIsTransferOf ==
  ASSUME NEW r
  PROVE  Transfer(r) = TransferOf(r)[r.size]
  BY Zenon DEF Transfer, TransferOf, LengthOf, Available

\* A page's instructions are for one byte at least.
LEMMA LengthFits ==
  ASSUME NEW r, r.offset \in Nat, NEW remaining \in Nat \ {0}
  PROVE  /\ LengthOf(r, remaining) \in 1 .. Radix
         /\ LengthOf(r, remaining) <= remaining
         /\ BYTE(r.offset) \in 0 .. (Radix - 1)
  <1>1. BYTE(r.offset) \in 0 .. (Radix - 1)
    <2>1. Radix \in Nat \ {0}
      BY RadixAssumption
    <2>2. r.offset % Radix \in 0 .. (Radix - 1)
      BY <2>1, DivMod
    <2>3. QED
      BY <2>2 DEF BYTE
  <1>2. QED
    BY <1>1, RadixAssumption DEF LengthOf, Available

\* The function is what its definition says: it exists up to any number of bytes.
LEMMA TransferEquation ==
  ASSUME NEW r, r.offset \in Nat, r.size \in Nat
  PROVE  /\ TransferOf(r)[0] = <<>>
         /\ \A remaining \in 1 .. r.size :
              TransferOf(r)[remaining] =
                PageInstructions(r.op, r.size - remaining, LengthOf(r, remaining))
                  \o TransferOf(r)[remaining - LengthOf(r, remaining)]
  <1> DEFINE P(remaining) ==
               PageInstructions(r.op, r.size - remaining, LengthOf(r, remaining))
             L(remaining) == LengthOf(r, remaining)
             Q(remaining, rest) == P(remaining) \o rest
             Is(h, n) == h = [remaining \in 0 .. n |->
                           IF remaining = 0 THEN <<>>
                           ELSE Q(remaining, h[remaining - L(remaining)])]
             S == {n \in Nat : \E h : Is(h, n)}
  <1>1. \A k \in Nat \ {0} : L(k) \in 1 .. Radix /\ L(k) <= k
    BY LengthFits
  <1>2. TransferOf(r) = CHOOSE h : Is(h, r.size)
    BY DEF TransferOf
  <1> HIDE DEF P, L, Q
  <1>3. 0 \in S
    <2>1. Is([remaining \in 0 .. 0 |-> <<>>], 0)
      OBVIOUS
    <2>2. QED
      BY <2>1
  <1>4. ASSUME NEW n \in Nat, n \in S
        PROVE  n + 1 \in S
    <2>1. PICK h : Is(h, n)
      BY <1>4
    <2> DEFINE g == [k \in 0 .. (n + 1) |->
                      IF k <= n THEN h[k] ELSE Q(k, h[k - L(k)])]
    <2>2. \A k \in 0 .. n : g[k] = h[k]
      OBVIOUS
    <2>3. ASSUME NEW k \in 0 .. (n + 1)
          PROVE  g[k] = IF k = 0 THEN <<>> ELSE Q(k, g[k - L(k)])
      <3>1. CASE k = 0
        BY <2>1, <3>1
      <3>2. CASE k # 0
        <4>1. k - L(k) \in 0 .. n
          BY <1>1, <3>2, RadixAssumption
        <4>2. g[k - L(k)] = h[k - L(k)]
          BY <2>2, <4>1
        <4>3. CASE k <= n
          <5>1. h[k] = Q(k, h[k - L(k)])
            BY <2>1, <3>2, <4>3
          <5>2. QED
            BY <2>2, <3>2, <4>2, <4>3, <5>1
        <4>4. CASE ~(k <= n)
          BY <3>2, <4>2, <4>4
        <4>5. QED
          BY <4>3, <4>4
      <3>3. QED
        BY <3>1, <3>2
    <2>4. Is(g, n + 1)
      BY <2>3
    <2> HIDE DEF g, Is
    <2>5. \E f : Is(f, n + 1)
      BY <2>4
    <2>6. QED
      BY <2>5
  <1>5. Nat \subseteq S
    <2> HIDE DEF S
    <2>1. QED
      BY <1>3, <1>4, SetInduction
  <1>6. \E h : Is(h, r.size)
    BY <1>5
  <1>7. Is(TransferOf(r), r.size)
    <2> HIDE DEF Is
    <2>1. QED
      BY <1>2, <1>6
  <1>8. /\ TransferOf(r)[0] = <<>>
        /\ \A remaining \in 1 .. r.size :
             TransferOf(r)[remaining] =
               Q(remaining, TransferOf(r)[remaining - L(remaining)])
    BY <1>7
  <1>9. QED
    BY <1>8 DEF P, L, Q

-----------------------------------------------------------------------------
(* The operations.                                                         *)

AnyInstruction ==
  [type : {"cmd"}, opcode : Command]
    \union [type : {"addr"}, addrs : Seq(Digit)]
    \union [type : {"data_in", "data_out"}, at : Int, len : Int]
    \union [type : {"wait"}, timeout : Nat]

\* How many pages a transfer touches, and where in the caller's buffer the bytes
\* of the j-th of them begin and end.
PagesOf(r) ==
  LET covered == r.size + BYTE(r.offset)
  IN covered \div Radix + (IF covered % Radix # 0 THEN 1 ELSE 0)
PageBegins(r, j) == IF j = 0 THEN 0 ELSE j * Radix - BYTE(r.offset)
PageEnds(r, j) == IF j + 1 = PagesOf(r) THEN r.size ELSE PageBegins(r, j + 1)

\* The pages between them are the region.
LEMMA PagesCoverTransfer ==
  ASSUME NEW r, r.offset \in Nat, r.size \in Nat \ {0}
  PROVE  /\ PagesOf(r) \in Nat \ {0}
         /\ \A j \in Nat :
              /\ PageBegins(r, j) \in Nat
              /\ j + 1 < PagesOf(r) => PageBegins(r, j + 1) < r.size
              /\ PageBegins(r, j + 1) =
                   PageBegins(r, j) + (IF j = 0 THEN Radix - BYTE(r.offset) ELSE Radix)
              /\ j # 0 => PageBegins(r, j) > 0
         /\ r.size <= PageBegins(r, PagesOf(r))
  <1> DEFINE b == BYTE(r.offset)
             c == r.size + b
             p == PagesOf(r)
  <1>1. b \in 0 .. (Radix - 1) /\ c \in Nat \ {0} /\ Radix \in Nat \ {0}
    <2>1. b \in 0 .. (Radix - 1)
      BY LengthFits
    <2> HIDE DEF b
    <2>2. QED
      BY <2>1, RadixAssumption
  <1>2. c \div Radix \in Nat /\ c % Radix \in 0 .. (Radix - 1)
        /\ c = Radix * (c \div Radix) + (c % Radix)
    BY <1>1, DivMod
  <1>3. p = c \div Radix + (IF c % Radix # 0 THEN 1 ELSE 0)
    BY DEF PagesOf
  <1> HIDE DEF c, p, b
  <1>4. p \in Nat /\ c <= Radix * p /\ Radix * p < c + Radix
    BY <1>1, <1>2, <1>3
  <1>5. p # 0
    BY <1>1, <1>4
  <1>6. ASSUME NEW j \in Nat
        PROVE  /\ PageBegins(r, j) \in Nat
               /\ j + 1 < p => PageBegins(r, j + 1) < r.size
               /\ PageBegins(r, j + 1) =
                    PageBegins(r, j) + (IF j = 0 THEN Radix - b ELSE Radix)
               /\ j # 0 => PageBegins(r, j) > 0
    <2>1. PageBegins(r, j) = IF j = 0 THEN 0 ELSE j * Radix - b
      BY DEF PageBegins, b
    <2>2. PageBegins(r, j + 1) = (j + 1) * Radix - b /\ j + 1 # 0
      BY DEF PageBegins, b
    <2>3. (j + 1) * Radix = j * Radix + Radix /\ j * Radix \in Nat
      BY <1>1
    <2>4. j # 0 => j * Radix >= Radix
      BY <1>1
    <2>5. j + 1 < p => (j + 1) * Radix + Radix <= Radix * p
      <3>1. SUFFICES ASSUME j + 1 < p
                     PROVE  (j + 1) * Radix + Radix <= Radix * p
        OBVIOUS
      <3> DEFINE q == p - (j + 2)
      <3>2. q \in Nat /\ p = (j + 2) + q
        BY <1>4, <3>1
      <3>3. Radix * p = Radix * (j + 2) + Radix * q /\ Radix * q >= 0
        BY <1>1, <3>2
      <3>4. Radix * (j + 2) = (j + 1) * Radix + Radix
        BY <1>1
      <3>5. (j + 1) * Radix \in Nat /\ Radix * q \in Nat /\ Radix * p \in Nat
        BY <1>1, <1>4, <3>2
      <3>6. QED
        BY <1>1, <3>3, <3>4, <3>5
    <2>6. c = r.size + b /\ Radix * p \in Nat /\ (j + 1) * Radix \in Nat
      BY <1>1, <1>4 DEF c
    <2>7. j + 1 < p => (j + 1) * Radix - b < r.size
      BY <1>1, <1>4, <2>5, <2>6
    <2>8. QED
      BY <1>1, <2>1, <2>2, <2>3, <2>4, <2>7
  <1>7. r.size <= PageBegins(r, p)
    <2>1. PageBegins(r, p) = p * Radix - b
      BY <1>5 DEF PageBegins, b
    <2>2. p * Radix = Radix * p /\ Radix * p \in Nat
      BY <1>1, <1>4
    <2>3. QED
      BY <1>1, <1>4, <2>1, <2>2 DEF c
  <1>8. QED
    BY <1>4, <1>5, <1>6, <1>7 DEF p, b

\* Each page's three instructions, in their place.
LEMMA TransferShape ==
  ASSUME NEW r, r.op \in Operation, r.offset \in Nat, r.size \in Nat \ {0}
  PROVE  /\ Transfer(r) \in Seq(AnyInstruction)
         /\ Len(Transfer(r)) = 3 * PagesOf(r)
         /\ \A j \in 0 .. (PagesOf(r) - 1) :
              \A i \in 1 .. 3 :
                Transfer(r)[3 * j + i] =
                  PageInstructions(r.op, PageBegins(r, j),
                                   PageEnds(r, j) - PageBegins(r, j))[i]
  <1> DEFINE p == PagesOf(r)
             T == TransferOf(r)
             P(j) == PageInstructions(r.op, PageBegins(r, j),
                                      PageEnds(r, j) - PageBegins(r, j))
             LeftAt(j) == IF j = p THEN 0 ELSE r.size - PageBegins(r, j)
             IsTail(s, j) ==
               /\ s \in Seq(AnyInstruction)
               /\ Len(s) = 3 * (p - j)
               /\ \A k \in 0 .. (p - j - 1) :
                    \A i \in 1 .. 3 : s[3 * k + i] = P(j + k)[i]
             S == {m \in Nat : m <= p => IsTail(T[LeftAt(p - m)], p - m)}
  <1>1. p \in Nat \ {0}
    BY PagesCoverTransfer
  <1>2. ASSUME NEW at \in Int, NEW len \in Int
        PROVE  /\ PageInstructions(r.op, at, len) \in Seq(AnyInstruction)
               /\ Len(PageInstructions(r.op, at, len)) = 3
    <2>1. Cmd(ExecuteCommand(r.op)) \in AnyInstruction
      BY CommandsOfOperation DEF Cmd, AnyInstruction
    <2>2. WaitRdy(WaitInterval(r.op)) \in AnyInstruction
      BY IntervalsAreLongEnough DEF WaitRdy, AnyInstruction
    <2>3. DataIn(at, len) \in AnyInstruction /\ DataOut(at, len) \in AnyInstruction
      BY DEF DataIn, DataOut, AnyInstruction
    <2> DEFINE a == Cmd(ExecuteCommand(r.op))
               b == WaitRdy(WaitInterval(r.op))
               c == DataIn(at, len)
               d == DataOut(at, len)
    <2>4. PageInstructions(r.op, at, len) = IF r.op = "write" THEN <<c, a, b>>
                                            ELSE <<a, b, d>>
      BY DEF PageInstructions
    <2> HIDE DEF a, b, c, d
    <2>5. a \in AnyInstruction /\ b \in AnyInstruction /\ c \in AnyInstruction
          /\ d \in AnyInstruction
      BY <2>1, <2>2, <2>3 DEF a, b, c, d
    <2>6. QED
      BY <2>4, <2>5
  <1>3. ASSUME NEW j \in 0 .. (p - 1)
        PROVE  /\ LeftAt(j) \in 1 .. r.size
               /\ r.size - LeftAt(j) = PageBegins(r, j)
               /\ LengthOf(r, LeftAt(j)) = PageEnds(r, j) - PageBegins(r, j)
               /\ LeftAt(j) - LengthOf(r, LeftAt(j)) = LeftAt(j + 1)
               /\ PageBegins(r, j) \in Nat /\ PageEnds(r, j) \in Nat
    <2>1. /\ PageBegins(r, j) \in Nat
          /\ PageBegins(r, j + 1) \in Nat
          /\ j + 1 < p => PageBegins(r, j + 1) < r.size
          /\ PageBegins(r, j + 1) =
               PageBegins(r, j) + (IF j = 0 THEN Radix - BYTE(r.offset) ELSE Radix)
          /\ j # 0 => PageBegins(r, j) > 0
          /\ r.size <= PageBegins(r, p)
      BY PagesCoverTransfer
    <2>2. PageBegins(r, j) < r.size
      <3>1. CASE j = 0
        BY <3>1 DEF PageBegins
      <3>2. CASE j # 0
        <4>1. j - 1 \in Nat /\ (j - 1) + 1 = j /\ j < p
          BY <1>1, <3>2
        <4>2. QED
          BY <4>1, PagesCoverTransfer
      <3>3. QED
        BY <3>1, <3>2
    <2>3. BYTE(r.offset) \in 0 .. (Radix - 1) /\ Radix \in Nat
      BY LengthFits, RadixAssumption
    <2>4. LeftAt(j) = r.size - PageBegins(r, j) /\ j # p
      BY <1>1
    <2>5. LeftAt(j) = r.size <=> j = 0
      <3>1. PageBegins(r, 0) = 0
        BY DEF PageBegins
      <3>2. QED
        BY <2>1, <2>4, <3>1
    <2>6. Available(r, LeftAt(j)) = PageBegins(r, j + 1) - PageBegins(r, j)
      BY <2>1, <2>3, <2>5 DEF Available
    <2>7. CASE j + 1 = p
      <3>1. PageEnds(r, j) = r.size /\ LeftAt(j + 1) = 0
        BY <2>7 DEF PageEnds
      <3>2. LengthOf(r, LeftAt(j)) = LeftAt(j)
        BY <2>1, <2>2, <2>4, <2>6, <2>7 DEF LengthOf
      <3>3. QED
        BY <2>1, <2>2, <2>4, <3>1, <3>2
    <2>8. CASE j + 1 # p
      <3>1. PageEnds(r, j) = PageBegins(r, j + 1) /\ j + 1 < p
            /\ LeftAt(j + 1) = r.size - PageBegins(r, j + 1)
        BY <1>1, <2>8 DEF PageEnds
      <3>2. LengthOf(r, LeftAt(j)) = PageBegins(r, j + 1) - PageBegins(r, j)
        BY <2>1, <2>2, <2>4, <2>6, <3>1 DEF LengthOf
      <3>3. QED
        BY <2>1, <2>2, <2>4, <3>1, <3>2
    <2>9. QED
      BY <2>7, <2>8
  <1>4. 0 \in S
    <2>1. LeftAt(p - 0) = 0 /\ p - (p - 0) = 0
      BY <1>1
    <2>2. T[0] = <<>>
      BY TransferEquation
    <2>3. <<>> \in Seq(AnyInstruction) /\ Len(<<>>) = 0
      OBVIOUS
    <2>4. IsTail(<<>>, p - 0)
      <3>1. 3 * (p - (p - 0)) = 0 /\ (0 .. (p - (p - 0) - 1)) = {}
        BY <1>1
      <3> HIDE DEF P, p
      <3>2. QED
        BY <2>3, <3>1
    <2>4a. T[LeftAt(p - 0)] = <<>>
      BY <2>1, <2>2
    <2> HIDE DEF T, LeftAt, IsTail
    <2>4b. IsTail(T[LeftAt(p - 0)], p - 0)
      BY <2>4, <2>4a
    <2>5. QED
      BY <2>4b
  <1>5. ASSUME NEW m \in Nat, m \in S
        PROVE  m + 1 \in S
    <2>1. SUFFICES ASSUME m + 1 <= p
                   PROVE  IsTail(T[LeftAt(p - (m + 1))], p - (m + 1))
      OBVIOUS
    <2> DEFINE j == p - (m + 1)
    <2>2. j \in 0 .. (p - 1) /\ j + 1 = p - m /\ p - j = m + 1 /\ p - (j + 1) = m
      BY <1>1, <2>1
    <2>3. IsTail(T[LeftAt(j + 1)], j + 1)
      BY <1>1, <1>5, <2>1, <2>2
    <2>4. T[LeftAt(j)] = P(j) \o T[LeftAt(j + 1)]
      <3> HIDE DEF j
      <3>1. T[LeftAt(j)] =
              PageInstructions(r.op, r.size - LeftAt(j), LengthOf(r, LeftAt(j)))
                \o T[LeftAt(j) - LengthOf(r, LeftAt(j))]
        BY <1>3, <2>2, TransferEquation
      <3>2. QED
        BY <1>3, <2>2, <3>1
    <2>5. P(j) \in Seq(AnyInstruction) /\ Len(P(j)) = 3
      <3> HIDE DEF j
      <3>1. PageBegins(r, j) \in Nat /\ PageEnds(r, j) \in Nat
        BY <1>3, <2>2
      <3>2. QED
        BY <1>2, <3>1
    <2> DEFINE s == P(j)
               t == T[LeftAt(j + 1)]
               u == s \o t
    <2> HIDE DEF P, T, LeftAt, j
    <2>6. /\ t \in Seq(AnyInstruction) /\ Len(t) = 3 * m
          /\ \A k \in 0 .. (m - 1) : \A i \in 1 .. 3 : t[3 * k + i] = P(j + 1 + k)[i]
      BY <2>2, <2>3
    <2> HIDE DEF s, t
    <2>7. /\ u \in Seq(AnyInstruction)
          /\ Len(u) = 3 + 3 * m
          /\ \A x \in 1 .. (3 + 3 * m) : u[x] = IF x <= 3 THEN s[x] ELSE t[x - 3]
      <3>1. s \in Seq(AnyInstruction) /\ Len(s) = 3
        BY <2>5 DEF s
      <3>2. t \in Seq(AnyInstruction) /\ Len(t) = 3 * m
        BY <2>6
      <3> HIDE DEF s, t, AnyInstruction
      <3>3. /\ s \o t \in Seq(AnyInstruction)
            /\ Len(s \o t) = Len(s) + Len(t)
            /\ \A x \in 1 .. (Len(s) + Len(t)) :
                 (s \o t)[x] = IF x <= Len(s) THEN s[x] ELSE t[x - Len(s)]
        BY <3>1, <3>2, ConcatProperties
      <3>4. QED
        BY <3>1, <3>2, <3>3
    <2> HIDE DEF u
    <2>8. ASSUME NEW k \in 0 .. m, NEW i \in 1 .. 3
          PROVE  u[3 * k + i] = P(j + k)[i]
      <3>1. 3 * k + i \in 1 .. (3 + 3 * m)
        OBVIOUS
      <3>2. CASE k = 0
        <4>1. 3 * k + i = i /\ j + k = j /\ i <= 3
          BY <2>2, <3>2
        <4>2. QED
          BY <2>7, <3>1, <4>1 DEF s
      <3>3. CASE k # 0
        <4>1. k - 1 \in 0 .. (m - 1) /\ (3 * k + i) - 3 = 3 * (k - 1) + i
              /\ ~(3 * k + i <= 3) /\ j + 1 + (k - 1) = j + k
          BY <2>2, <3>3
        <4>2. u[3 * k + i] = t[3 * (k - 1) + i]
          BY <2>7, <3>1, <4>1
        <4>3. t[3 * (k - 1) + i] = P(j + 1 + (k - 1))[i]
          BY <2>6, <4>1
        <4>4. QED
          BY <4>1, <4>2, <4>3
      <3>4. QED
        BY <3>2, <3>3
    <2>9. u = T[LeftAt(j)]
      BY <2>4 DEF u, s, t
    <2>10. IsTail(T[LeftAt(j)], j)
      <3>1. p - j = m + 1 /\ 3 * (p - j) = 3 + 3 * m
            /\ (0 .. (p - j - 1)) = 0 .. m
        BY <2>2
      <3>2. IsTail(u, j)
        BY <2>7, <2>8, <3>1
      <3> HIDE DEF IsTail
      <3>3. QED
        BY <2>9, <3>2
    <2>11. QED
      BY <2>10 DEF j
  <1>6. p \in S
    <2> HIDE DEF S
    <2>1. Nat \subseteq S
      BY <1>4, <1>5, SetInduction
    <2>2. QED
      BY <1>1, <2>1
  <1>7. IsTail(T[LeftAt(0)], 0)
    <2>1. p - p = 0
      BY <1>1
    <2>2. QED
      BY <1>1, <1>6, <2>1
  <1>8. LeftAt(0) = r.size
    BY <1>1 DEF PageBegins
  <1>9. Transfer(r) = T[LeftAt(0)]
    BY <1>8, TransferIsTransferOf
  <1>10. QED
    <2> HIDE DEF T, LeftAt, P
    <2>1. /\ Transfer(r) \in Seq(AnyInstruction)
          /\ Len(Transfer(r)) = 3 * (p - 0)
          /\ \A k \in 0 .. (p - 0 - 1) :
               \A i \in 1 .. 3 : Transfer(r)[3 * k + i] = P(0 + k)[i]
      BY <1>7, <1>9
    <2>2. p - 0 = p /\ \A k \in 0 .. (p - 1) : 0 + k = k
      BY <1>1
    <2> HIDE DEF p
    <2>3. ASSUME NEW k \in 0 .. (p - 1), NEW i \in 1 .. 3
          PROVE  Transfer(r)[3 * k + i] = P(k)[i]
      <3>1. k \in 0 .. (p - 0 - 1) /\ 0 + k = k
        BY <2>2
      <3>2. Transfer(r)[3 * k + i] = P(0 + k)[i]
        BY <2>1, <3>1
      <3>3. QED
        BY <3>1, <3>2
    <2>4. QED
      BY <2>1, <2>2, <2>3 DEF p, P

\* Each page has a byte of the transfer at least, and all that it has are in one
\* page of storage.
LEMMA PageRange ==
  ASSUME NEW r, r.offset \in Nat, r.size \in Nat \ {0},
         NEW j \in 0 .. (PagesOf(r) - 1)
  PROVE  /\ PageBegins(r, j) \in Nat /\ PageEnds(r, j) \in Nat
         /\ PageEnds(r, j) - PageBegins(r, j) \in 1 .. Radix
         /\ PageEnds(r, j) <= r.size
         /\ j = 0 => PageBegins(r, j) = 0 /\ PageEnds(r, j) <= Radix - BYTE(r.offset)
  <1> DEFINE p == PagesOf(r)
             b(i) == PageBegins(r, i)
             first == BYTE(r.offset)
  <1>1. p \in Nat \ {0} /\ r.size <= b(p)
    BY PagesCoverTransfer
  <1>2. \A i \in Nat : /\ b(i) \in Nat
                       /\ i + 1 < p => b(i + 1) < r.size
                       /\ b(i + 1) = b(i) + (IF i = 0 THEN Radix - first ELSE Radix)
    BY PagesCoverTransfer
  <1>3. first \in 0 .. (Radix - 1) /\ Radix \in Nat
    BY LengthFits, RadixAssumption
  <1>4. b(0) = 0
    BY DEF PageBegins
  <1>5. PageEnds(r, j) = IF j + 1 = p THEN r.size ELSE b(j + 1)
    BY DEF PageEnds
  <1> HIDE DEF b, p, first
  <1>6. j \in Nat /\ j + 1 <= p
    BY <1>1 DEF p
  <1>7. b(j) < r.size
    <2>1. CASE j = 0
      BY <1>4, <2>1
    <2>2. CASE j # 0
      <3> DEFINE i == j - 1
      <3>1. i \in Nat /\ i + 1 = j /\ i + 1 < p
        BY <1>1, <1>6, <2>2 DEF p
      <3> HIDE DEF i
      <3>2. b(i + 1) < r.size
        BY <1>2, <3>1
      <3>3. QED
        BY <3>1, <3>2
    <2>3. QED
      BY <2>1, <2>2
  <1>8. b(j) \in Nat /\ b(j + 1) \in Nat
        /\ b(j + 1) = b(j) + (IF j = 0 THEN Radix - first ELSE Radix)
        /\ (j + 1 < p => b(j + 1) < r.size)
    BY <1>2, <1>6
  <1>9. CASE j + 1 = p
    BY <1>1, <1>3, <1>4, <1>5, <1>7, <1>8, <1>9 DEF b, first
  <1>10. CASE j + 1 # p
    BY <1>1, <1>3, <1>4, <1>5, <1>6, <1>7, <1>8, <1>10 DEF b, first
  <1>11. QED
    BY <1>9, <1>10

\* What follows the setup command and the addresses.
BodyOf(r) == IF r.op = "erase" THEN Erasure(r) ELSE Transfer(r)

AddressesOf(r) ==
  IF r.op = "erase" THEN <<BLOCK(r.offset)>>
  ELSE <<BLOCK(r.offset), PAGE(r.offset), BYTE(r.offset)>>

\* The framework's two ways of finding the page of an offset are one.
LEMMA PageIsPageOf ==
  ASSUME NEW o \in Nat
  PROVE  PAGE(o) = PageOf(o)
  <1> DEFINE q == o \div BlockSize
             s == o % BlockSize
             t == s \div Radix
             u == s % Radix
             v == Radix * q + t
  <1>1. q \in Nat /\ s \in 0 .. (BlockSize - 1) /\ o = BlockSize * q + s
    BY DivMod, SizesArePositive
  <1> HIDE DEF q, s
  <1>2. t \in Nat /\ u \in 0 .. (Radix - 1) /\ s = Radix * t + u
    <2>1. s \in Nat /\ Radix \in Nat \ {0}
      BY <1>1, RadixAssumption, SizesArePositive
    <2>2. QED
      BY <2>1, DivMod
  <1> HIDE DEF t, u
  <1>3. Radix \in Nat \ {0} /\ BlockSize = Radix * Radix
    BY RadixAssumption DEF BlockSize
  <1>4. t \in 0 .. (Radix - 1)
    <2>1. Radix * t < Radix * Radix
      BY <1>1, <1>2, <1>3
    <2>2. t < Radix
      BY <1>2, <1>3, <2>1
    <2>3. QED
      BY <1>2, <1>3, <2>2
  <1>5. v \in Nat /\ o = Radix * v + u
    <2>1. Radix * (Radix * q + t) = Radix * Radix * q + Radix * t
      BY <1>1, <1>2, <1>3
    <2>2. QED
      BY <1>1, <1>2, <1>3, <2>1
  <1>6. o \div Radix = v
    <2> HIDE DEF v
    <2>1. (Radix * v + u) \div Radix = v
      BY <1>2, <1>3, <1>5, DivModUnique
    <2>2. QED
      BY <1>5, <2>1
  <1>7. v % Radix = t
    BY <1>1, <1>3, <1>4, DivModUnique
  <1>8. QED
    BY <1>6, <1>7 DEF PAGE, PageOf, t, s

LEMMA AddressesFit ==
  ASSUME NEW r, r.offset \in Nat
  PROVE  /\ AddressesOf(r) \in Seq(Digit)
         /\ BLOCK(r.offset) = BlockOf(r.offset)
         /\ PAGE(r.offset) = PageOf(r.offset)
         /\ BYTE(r.offset) = ByteOf(r.offset)
         /\ Len(AddressesOf(r)) = IF r.op = "erase" THEN 1 ELSE 3
         /\ AddressesOf(r)[1] = BLOCK(r.offset)
         /\ r.op # "erase" => /\ AddressesOf(r)[2] = PAGE(r.offset)
                              /\ AddressesOf(r)[3] = BYTE(r.offset)
  <1>1. /\ BLOCK(r.offset) = BlockOf(r.offset)
        /\ PAGE(r.offset) = PageOf(r.offset)
        /\ BYTE(r.offset) = ByteOf(r.offset)
    BY PageIsPageOf DEF BLOCK, BYTE, BlockOf, ByteOf
  <1>2. BLOCK(r.offset) \in Digit /\ BYTE(r.offset) \in Digit /\ PAGE(r.offset) \in Digit
    BY <1>1, DigitsOfOffset
  <1> HIDE DEF BLOCK, PAGE, BYTE, Digit
  <1>3. QED
    BY <1>1, <1>2 DEF AddressesOf

LEMMA ErasureShape ==
  ASSUME NEW r, r.op \in Operation, r.offset \in Nat, r.size \in Nat \ {0}
  PROVE  /\ BlocksToErase(r.offset, r.size) \in Nat \ {0}
         /\ Erasure(r) \in Seq(AnyInstruction)
         /\ Len(Erasure(r)) = 2 * BlocksToErase(r.offset, r.size)
         /\ \A k \in 1 .. (2 * BlocksToErase(r.offset, r.size)) :
              Erasure(r)[k] = IF k % 2 = 1 THEN Cmd(ExecuteCommand(r.op))
                              ELSE WaitRdy(WaitInterval(r.op))
  <1> DEFINE n == 2 * BlocksToErase(r.offset, r.size)
             c == Cmd(ExecuteCommand(r.op))
             w == WaitRdy(WaitInterval(r.op))
  <1>1. BlocksToErase(r.offset, r.size) \in Nat \ {0} /\ n \in Nat
    <2>1. BlocksToErase(r.offset, r.size) \in Nat \ {0}
      BY BlocksCoverRegion
    <2>2. QED
      BY <2>1
  <1>2. c \in AnyInstruction
    BY CommandsOfOperation DEF Cmd, AnyInstruction
  <1>3. w \in AnyInstruction
    BY IntervalsAreLongEnough DEF WaitRdy, AnyInstruction
  <1>4. Erasure(r) = [k \in 1 .. n |-> IF k % 2 = 1 THEN c ELSE w]
    BY DEF Erasure
  <1> HIDE DEF n, c, w, AnyInstruction
  <1>5. Erasure(r) \in Seq(AnyInstruction) /\ Len(Erasure(r)) = n
    BY <1>1, <1>2, <1>3, <1>4
  <1>6. QED
    BY <1>1, <1>4, <1>5 DEF n, c, w

\* An operation is the setup command, the addresses and the body.
LEMMA OperationParts ==
  ASSUME NEW r, r.op \in Operation, r.offset \in Nat, r.size \in Nat \ {0}
  PROVE  /\ OperationFor(r) \in Seq(AnyInstruction)
         /\ Len(OperationFor(r)) = 2 + Len(BodyOf(r))
         /\ Len(BodyOf(r)) = IF r.op = "erase"
                               THEN 2 * BlocksToErase(r.offset, r.size)
                               ELSE 3 * PagesOf(r)
         /\ OperationFor(r)[1] = Cmd(SetupCommand(r.op))
         /\ OperationFor(r)[2] = Addr(AddressesOf(r))
         /\ \A k \in 1 .. Len(BodyOf(r)) : OperationFor(r)[2 + k] = BodyOf(r)[k]
  <1> DEFINE s == Cmd(SetupCommand(r.op))
             a == Addr(AddressesOf(r))
             body == BodyOf(r)
  <1>1. OperationFor(r) = <<s, a>> \o body
    BY DEF OperationFor, BodyOf, AddressesOf
  <1>2. s \in AnyInstruction
    BY CommandsOfOperation DEF Cmd, AnyInstruction
  <1>3. a \in AnyInstruction
    BY AddressesFit DEF Addr, AnyInstruction
  <1>4. body \in Seq(AnyInstruction)
        /\ Len(body) = IF r.op = "erase" THEN 2 * BlocksToErase(r.offset, r.size)
                       ELSE 3 * PagesOf(r)
    BY ErasureShape, TransferShape DEF BodyOf
  <1> HIDE DEF s, a, body, AnyInstruction
  <1> DEFINE t == <<s, a>>
  <1>5. t \in Seq(AnyInstruction) /\ Len(t) = 2 /\ t[1] = s /\ t[2] = a
    BY <1>2, <1>3
  <1> HIDE DEF t
  <1>6. /\ t \o body \in Seq(AnyInstruction)
        /\ Len(t \o body) = 2 + Len(body)
        /\ \A k \in 1 .. (2 + Len(body)) :
             (t \o body)[k] = IF k <= 2 THEN t[k] ELSE body[k - 2]
    <2>1. body \in Seq(AnyInstruction)
      BY <1>4
    <2>2. /\ t \o body \in Seq(AnyInstruction)
          /\ Len(t \o body) = Len(t) + Len(body)
          /\ \A k \in 1 .. (Len(t) + Len(body)) :
               (t \o body)[k] = IF k <= Len(t) THEN t[k] ELSE body[k - Len(t)]
      BY <1>5, <2>1, ConcatProperties
    <2>3. QED
      BY <1>5, <2>2
  <1>7. Len(body) \in Nat
    BY <1>4
  <1>8. \A k \in 1 .. Len(body) : (t \o body)[2 + k] = body[k]
    <2>1. ASSUME NEW k \in 1 .. Len(body)
          PROVE  (t \o body)[2 + k] = body[k]
      <3>1. 2 + k \in 1 .. (2 + Len(body)) /\ ~(2 + k <= 2) /\ (2 + k) - 2 = k
        BY <1>7
      <3>2. QED
        BY <1>6, <3>1
    <2>2. QED
      BY <2>1
  <1>9. (t \o body)[1] = s /\ (t \o body)[2] = a
    BY <1>5, <1>6, <1>7
  <1>10. OperationFor(r) = t \o body
    BY <1>1 DEF t
  <1>11. QED
    BY <1>4, <1>6, <1>8, <1>9, <1>10 DEF s, a, body

\* What stands where in an operation, as its driver comes across it: one
\* instruction at a time, knowing only those on either side.  For an erase, a
\* write and a read in turn.
LEMMA StepsOfErase ==
  ASSUME NEW r, r.op = "erase", r.offset \in Nat, r.size \in Nat \ {0},
         NEW k \in 3 .. Len(OperationFor(r))
  PROVE  /\ k % 2 = 1 => /\ OperationFor(r)[k] = Cmd(ExecuteCommand(r.op))
                         /\ k < Len(OperationFor(r))
         /\ k % 2 = 0 => OperationFor(r)[k] = WaitRdy(WaitInterval(r.op)) /\ k > 3
  <1> DEFINE n == BlocksToErase(r.offset, r.size)
             op == OperationFor(r)
  <1>1. r.op \in Operation
    BY DEF Operation
  <1>2. /\ n \in Nat \ {0}
        /\ \A i \in 1 .. (2 * n) : Erasure(r)[i] =
             IF i % 2 = 1 THEN Cmd(ExecuteCommand(r.op)) ELSE WaitRdy(WaitInterval(r.op))
    BY <1>1, ErasureShape
  <1>3. Len(op) = 2 + 2 * n
        /\ \A i \in 1 .. (2 * n) : op[2 + i] = Erasure(r)[i]
    BY <1>1, OperationParts DEF BodyOf
  <1> HIDE DEF n
  <1>4. k - 2 \in 1 .. (2 * n) /\ 2 + (k - 2) = k
    BY <1>2, <1>3
  <1>5. (k - 2) % 2 = k % 2 /\ (k % 2 = 1 => k # 2 + 2 * n) /\ (k % 2 = 0 => k # 3)
    BY <1>2, <1>4
  <1>6. op[k] = IF k % 2 = 1 THEN Cmd(ExecuteCommand(r.op))
                ELSE WaitRdy(WaitInterval(r.op))
    BY <1>2, <1>3, <1>4, <1>5
  <1>7. k \in Nat /\ k <= 2 + 2 * n
    BY <1>2, <1>3
  <1> HIDE DEF op
  <1>8. QED
    BY <1>2, <1>3, <1>4, <1>5, <1>6, <1>7 DEF op

\* A transfer's instructions by the page they are for, and by their place among
\* the page's three.
PageOfStep(k) == (k - 3) \div 3
PlaceOfStep(k) == (k - 3) % 3

LEMMA StepsOfTransfer ==
  ASSUME NEW r, r.op \in {"write", "read"}, r.offset \in Nat, r.size \in Nat \ {0},
         NEW k \in 3 .. Len(OperationFor(r))
  PROVE  /\ PageOfStep(k) \in 0 .. (PagesOf(r) - 1)
         /\ PlaceOfStep(k) \in 0 .. 2
         /\ k = 3 * PageOfStep(k) + PlaceOfStep(k) + 3
         /\ Len(OperationFor(r)) = 2 + 3 * PagesOf(r)
         /\ OperationFor(r)[k] =
              PageInstructions(r.op, PageBegins(r, PageOfStep(k)),
                PageEnds(r, PageOfStep(k)) - PageBegins(r, PageOfStep(k)))
                  [PlaceOfStep(k) + 1]
  <1> DEFINE i == PlaceOfStep(k)
             j == PageOfStep(k)
             p == PagesOf(r)
             op == OperationFor(r)
             P(m) == PageInstructions(r.op, PageBegins(r, m),
                                      PageEnds(r, m) - PageBegins(r, m))
  <1>1. r.op \in Operation /\ r.op # "erase"
    BY DEF Operation
  <1>2. \A m \in 0 .. (p - 1) : \A x \in 1 .. 3 : Transfer(r)[3 * m + x] = P(m)[x]
    BY <1>1, TransferShape
  <1>3. p \in Nat \ {0}
    BY PagesCoverTransfer
  <1>4. Len(op) = 2 + 3 * p
        /\ \A x \in 1 .. (3 * p) : op[2 + x] = Transfer(r)[x]
    BY <1>1, OperationParts DEF BodyOf
  <1> HIDE DEF p, P
  <1>5. k \in 3 .. (2 + 3 * p)
    BY <1>4
  <1> HIDE DEF op
  <1>6. j \in 0 .. (p - 1) /\ i \in 0 .. 2 /\ k = 3 * j + i + 3
    BY <1>3, <1>5 DEF PageOfStep, PlaceOfStep
  <1> HIDE DEF i, j
  <1>7. 3 * j + (i + 1) \in 1 .. (3 * p) /\ 2 + (3 * j + (i + 1)) = k
        /\ i + 1 \in 1 .. 3
    BY <1>3, <1>6
  <1>8. op[k] = Transfer(r)[3 * j + (i + 1)]
    BY <1>4, <1>7
  <1>9. op[k] = P(j)[i + 1]
    BY <1>2, <1>6, <1>7, <1>8
  <1>10. QED
    BY <1>4, <1>6, <1>9 DEF p, P, op, i, j

\* The instruction's place in its page says which of the three it is.
LEMMA StepsOfWrite ==
  ASSUME NEW r, r.op = "write", r.offset \in Nat, r.size \in Nat \ {0},
         NEW k \in 3 .. Len(OperationFor(r)), NEW j, j = PageOfStep(k)
  PROVE  /\ j \in 0 .. (PagesOf(r) - 1)
         /\ k % 3 = 0 => /\ OperationFor(r)[k] =
                              DataIn(PageBegins(r, j), PageEnds(r, j) - PageBegins(r, j))
                         /\ k < Len(OperationFor(r))
                         /\ k = 3 * j + 3
         /\ k % 3 = 1 => /\ OperationFor(r)[k] = Cmd(ExecuteCommand(r.op))
                         /\ k < Len(OperationFor(r))
                         /\ k = 3 * j + 4
         /\ k % 3 = 2 => /\ OperationFor(r)[k] = WaitRdy(WaitInterval(r.op))
                         /\ k = 3 * j + 5
  <1> DEFINE i == PlaceOfStep(k)
             p == PagesOf(r)
             op == OperationFor(r)
             d == DataIn(PageBegins(r, j), PageEnds(r, j) - PageBegins(r, j))
             c == Cmd(ExecuteCommand(r.op))
             w == WaitRdy(WaitInterval(r.op))
             m == k % 3
  <1>1. /\ j \in 0 .. (p - 1) /\ i \in 0 .. 2 /\ k = 3 * j + i + 3
        /\ Len(op) = 2 + 3 * p
        /\ op[k] = PageInstructions(r.op, PageBegins(r, j),
                                    PageEnds(r, j) - PageBegins(r, j))[i + 1]
    BY StepsOfTransfer
  <1>2. p \in Nat \ {0}
    BY PagesCoverTransfer
  <1>3. PageInstructions(r.op, PageBegins(r, j), PageEnds(r, j) - PageBegins(r, j))
          = <<d, c, w>>
    BY DEF PageInstructions
  <1>4. SUFFICES /\ j \in 0 .. (p - 1)
                 /\ m = 0 => op[k] = d /\ k < Len(op) /\ k = 3 * j + 3
                 /\ m = 1 => op[k] = c /\ k < Len(op) /\ k = 3 * j + 4
                 /\ m = 2 => op[k] = w /\ k = 3 * j + 5
    OBVIOUS
  <1> HIDE DEF i, p, op, d, c, w, m
  <1>5. op[k] = <<d, c, w>>[i + 1]
    BY <1>1, <1>3
  <1>6. j \in Nat /\ 3 * j + 3 <= 3 * p /\ p \in Nat
    BY <1>1, <1>2
  <1>7. CASE i = 0
    <2>1. i + 1 = 1 /\ <<d, c, w>>[1] = d
      BY <1>7
    <2>2. op[k] = d
      BY <1>5, <2>1
    <2>3. k = 3 * (j + 1) + 0 /\ k = 3 * j + 3 /\ k < Len(op)
      BY <1>1, <1>6, <1>7
    <2>4. m = 0
      <3>1. (3 * (j + 1) + 0) % 3 = 0
        BY <1>6, DivModUnique
      <3>2. QED
        BY <2>3, <3>1 DEF m
    <2>5. m # 1 /\ m # 2
      BY <2>4
    <2>6. j \in 0 .. (p - 1)
      BY <1>1
    <2>7. QED
      BY <2>2, <2>3, <2>5, <2>6
  <1>8. CASE i = 1
    <2>1. i + 1 = 2 /\ <<d, c, w>>[2] = c
      BY <1>8
    <2>2. op[k] = c
      BY <1>5, <2>1
    <2>3. k = 3 * (j + 1) + 1 /\ k = 3 * j + 4 /\ k < Len(op)
      BY <1>1, <1>6, <1>8
    <2>4. m = 1
      <3>1. (3 * (j + 1) + 1) % 3 = 1
        BY <1>6, DivModUnique
      <3>2. QED
        BY <2>3, <3>1 DEF m
    <2>5. m # 0 /\ m # 2
      BY <2>4
    <2>6. j \in 0 .. (p - 1)
      BY <1>1
    <2>7. QED
      BY <2>2, <2>3, <2>5, <2>6
  <1>9. CASE i = 2
    <2>1. i + 1 = 3 /\ <<d, c, w>>[3] = w
      BY <1>9
    <2>2. op[k] = w
      BY <1>5, <2>1
    <2>3. k = 3 * (j + 1) + 2 /\ k = 3 * j + 5
      BY <1>1, <1>6, <1>9
    <2>4. m = 2
      <3>1. (3 * (j + 1) + 2) % 3 = 2
        BY <1>6, DivModUnique
      <3>2. QED
        BY <2>3, <3>1 DEF m
    <2>5. m # 0 /\ m # 1
      BY <2>4
    <2>6. j \in 0 .. (p - 1)
      BY <1>1
    <2>7. QED
      BY <2>2, <2>3, <2>5, <2>6
  <1>10. QED
    BY <1>1, <1>7, <1>8, <1>9

LEMMA StepsOfRead ==
  ASSUME NEW r, r.op = "read", r.offset \in Nat, r.size \in Nat \ {0},
         NEW k \in 3 .. Len(OperationFor(r)), NEW j, j = PageOfStep(k)
  PROVE  /\ j \in 0 .. (PagesOf(r) - 1)
         /\ k % 3 = 0 => /\ OperationFor(r)[k] = Cmd(ExecuteCommand(r.op))
                         /\ k < Len(OperationFor(r))
                         /\ k = 3 * j + 3
         /\ k % 3 = 1 => /\ OperationFor(r)[k] = WaitRdy(WaitInterval(r.op))
                         /\ k < Len(OperationFor(r))
                         /\ k = 3 * j + 4
         /\ k % 3 = 2 => /\ OperationFor(r)[k] =
                              DataOut(PageBegins(r, j), PageEnds(r, j) - PageBegins(r, j))
                         /\ k = 3 * j + 5
  <1> DEFINE i == PlaceOfStep(k)
             p == PagesOf(r)
             op == OperationFor(r)
             d == DataOut(PageBegins(r, j), PageEnds(r, j) - PageBegins(r, j))
             c == Cmd(ExecuteCommand(r.op))
             w == WaitRdy(WaitInterval(r.op))
             m == k % 3
  <1>1. /\ j \in 0 .. (p - 1) /\ i \in 0 .. 2 /\ k = 3 * j + i + 3
        /\ Len(op) = 2 + 3 * p
        /\ op[k] = PageInstructions(r.op, PageBegins(r, j),
                                    PageEnds(r, j) - PageBegins(r, j))[i + 1]
    BY StepsOfTransfer
  <1>2. p \in Nat \ {0}
    BY PagesCoverTransfer
  <1>3. PageInstructions(r.op, PageBegins(r, j), PageEnds(r, j) - PageBegins(r, j))
          = <<c, w, d>>
    BY DEF PageInstructions
  <1>4. SUFFICES /\ j \in 0 .. (p - 1)
                 /\ m = 0 => op[k] = c /\ k < Len(op) /\ k = 3 * j + 3
                 /\ m = 1 => op[k] = w /\ k < Len(op) /\ k = 3 * j + 4
                 /\ m = 2 => op[k] = d /\ k = 3 * j + 5
    OBVIOUS
  <1> HIDE DEF i, p, op, d, c, w, m
  <1>5. op[k] = <<c, w, d>>[i + 1]
    BY <1>1, <1>3
  <1>6. j \in Nat /\ 3 * j + 3 <= 3 * p /\ p \in Nat
    BY <1>1, <1>2
  <1>7. CASE i = 0
    <2>1. i + 1 = 1 /\ <<c, w, d>>[1] = c
      BY <1>7
    <2>2. op[k] = c
      BY <1>5, <2>1
    <2>3. k = 3 * (j + 1) + 0 /\ k = 3 * j + 3 /\ k < Len(op)
      BY <1>1, <1>6, <1>7
    <2>4. m = 0
      <3>1. (3 * (j + 1) + 0) % 3 = 0
        BY <1>6, DivModUnique
      <3>2. QED
        BY <2>3, <3>1 DEF m
    <2>5. m # 1 /\ m # 2
      BY <2>4
    <2>6. j \in 0 .. (p - 1)
      BY <1>1
    <2>7. QED
      BY <2>2, <2>3, <2>5, <2>6
  <1>8. CASE i = 1
    <2>1. i + 1 = 2 /\ <<c, w, d>>[2] = w
      BY <1>8
    <2>2. op[k] = w
      BY <1>5, <2>1
    <2>3. k = 3 * (j + 1) + 1 /\ k = 3 * j + 4 /\ k < Len(op)
      BY <1>1, <1>6, <1>8
    <2>4. m = 1
      <3>1. (3 * (j + 1) + 1) % 3 = 1
        BY <1>6, DivModUnique
      <3>2. QED
        BY <2>3, <3>1 DEF m
    <2>5. m # 0 /\ m # 2
      BY <2>4
    <2>6. j \in 0 .. (p - 1)
      BY <1>1
    <2>7. QED
      BY <2>2, <2>3, <2>5, <2>6
  <1>9. CASE i = 2
    <2>1. i + 1 = 3 /\ <<c, w, d>>[3] = d
      BY <1>9
    <2>2. op[k] = d
      BY <1>5, <2>1
    <2>3. k = 3 * (j + 1) + 2 /\ k = 3 * j + 5
      BY <1>1, <1>6, <1>9
    <2>4. m = 2
      <3>1. (3 * (j + 1) + 2) % 3 = 2
        BY <1>6, DivModUnique
      <3>2. QED
        BY <2>3, <3>1 DEF m
    <2>5. m # 0 /\ m # 1
      BY <2>4
    <2>6. j \in 0 .. (p - 1)
      BY <1>1
    <2>7. QED
      BY <2>2, <2>3, <2>5, <2>6
  <1>10. QED
    BY <1>1, <1>7, <1>8, <1>9

-----------------------------------------------------------------------------
(* The count.                                                              *)

LEMMA CountOfOperation ==
  ASSUME NEW r \in Requests
  PROVE  Len(OperationFor(r)) = InstructionCount(r)
  BY RequestFacts, OperationParts DEF InstructionCount, PagesOf

\* The framework fills its array exactly, whatever the call and whichever driver
\* is to carry it out (CountIsExact).
THEOREM OperationsFillTheirArrays == Spec => []CountIsExact
  <1> DEFINE Inv == req \in Requests \union {NoRequest}
  <1>1. Init => Inv
    BY DEF Init, ExecOpInit, FrameworkInit
  <1>2. Inv /\ [Next]_vars => Inv'
    <2> SUFFICES ASSUME Inv, [Next]_vars
                 PROVE  Inv'
      OBVIOUS
    <2>1. CASE Request
      BY <2>1 DEF Request, Call, BeginCall
    <2>2. CASE Tracee
      BY <2>2
      DEF Tracee, CallStep, Dispatch, SendCommand, SendAddress, ProgramByte, ReadByte,
          InstructionEnds, OperationEnds, GiveUp, GoOn, Transferring, Return,
          EndCall, callVars
    <2>3. CASE Time
      BY <2>3 DEF Time, callVars
    <2>4. CASE UNCHANGED vars
      BY <2>4 DEF vars, callVars
    <2>5. QED
      BY <2>1, <2>2, <2>3, <2>4 DEF Next
  <1>3. Inv => CountIsExact
    BY CountOfOperation DEF CountIsExact
  <1>4. QED
    BY <1>1, <1>2, <1>3, PTL DEF Spec

-----------------------------------------------------------------------------
(* What stands where in any operation.                                     *)

\* The kinds of instruction after the addresses, and those that precede and
\* follow them; k is an instruction's number in the operation.
StepFits(r, k) ==
  LET op == OperationFor(r)
  IN /\ op[k].type \in {"cmd", "wait", "data_in", "data_out"}
     /\ op[k].type = "cmd" => /\ op[k].opcode = ExecuteCommand(r.op)
                              /\ k < Len(op)
                              /\ op[k + 1].type = "wait"
     /\ op[k].type = "wait" => /\ op[k].timeout = WaitInterval(r.op)
                               /\ op[k - 1].type = "cmd"
                               /\ k > 3
     /\ op[k].type = "data_in" => r.op = "write" /\ k < Len(op)
     /\ op[k].type = "data_out" => /\ r.op = "read"
                                   /\ op[k - 1].type = "wait"
                                   /\ k > 3
     /\ op[k].type \in {"data_in", "data_out"} =>
          /\ op[k].at \in Nat /\ op[k].len \in 1 .. Radix
          /\ op[k].at + op[k].len <= r.size

LEMMA OperationSteps ==
  ASSUME NEW r, r.op \in Operation, r.offset \in Nat, r.size \in Nat \ {0},
         NEW k \in 3 .. Len(OperationFor(r))
  PROVE  StepFits(r, k)
  <1> DEFINE op == OperationFor(r)
             n == Len(op)
  <1>1. n \in Nat
    BY OperationParts
  <1>2. k \in Nat /\ k >= 3 /\ k <= n
    BY <1>1
  <1>3. (k < n => k + 1 \in 3 .. n) /\ (k > 3 => k - 1 \in 3 .. n)
    BY <1>1, <1>2
  <1>4. CASE r.op = "erase"
    <2>1. \A x \in 3 .. n :
            /\ x % 2 = 1 => op[x] = Cmd(ExecuteCommand(r.op)) /\ x < n
            /\ x % 2 = 0 => op[x] = WaitRdy(WaitInterval(r.op)) /\ x > 3
      BY <1>4, StepsOfErase
    <2> HIDE DEF op, n
    <2>2. CASE k % 2 = 1
      <3>1. op[k] = Cmd(ExecuteCommand(r.op)) /\ k < n
        BY <1>2, <2>1, <2>2
      <3>2. (k + 1) % 2 = 0
        BY <1>2, <2>2
      <3>3. op[k + 1] = WaitRdy(WaitInterval(r.op))
        BY <1>3, <2>1, <3>1, <3>2
      <3>4. QED
        BY <3>1, <3>3 DEF StepFits, Cmd, WaitRdy, op, n
    <2>3. CASE k % 2 = 0
      <3>1. op[k] = WaitRdy(WaitInterval(r.op)) /\ k > 3
        BY <1>2, <2>1, <2>3
      <3>2. (k - 1) % 2 = 1
        BY <1>2, <2>3
      <3>3. op[k - 1] = Cmd(ExecuteCommand(r.op))
        BY <1>3, <2>1, <3>1, <3>2
      <3>4. QED
        BY <3>1, <3>3 DEF StepFits, Cmd, WaitRdy, op, n
    <2>4. QED
      BY <1>2, <2>2, <2>3
  <1>5. CASE r.op = "write"
    <2> DEFINE d(x) == DataIn(PageBegins(r, PageOfStep(x)),
                         PageEnds(r, PageOfStep(x)) - PageBegins(r, PageOfStep(x)))
    <2>1. \A x \in 3 .. n :
            /\ PageOfStep(x) \in 0 .. (PagesOf(r) - 1)
            /\ x % 3 = 0 => op[x] = d(x) /\ x < n
            /\ x % 3 = 1 => op[x] = Cmd(ExecuteCommand(r.op)) /\ x < n
            /\ x % 3 = 2 => op[x] = WaitRdy(WaitInterval(r.op))
      BY <1>5, StepsOfWrite
    <2>2. PageOfStep(k) \in 0 .. (PagesOf(r) - 1)
      BY <2>1
    <2>3. d(k).type = "data_in" /\ d(k).at \in Nat /\ d(k).len \in 1 .. Radix
          /\ d(k).at + d(k).len <= r.size
      <3>1. /\ PageBegins(r, PageOfStep(k)) \in Nat /\ PageEnds(r, PageOfStep(k)) \in Nat
            /\ PageEnds(r, PageOfStep(k)) - PageBegins(r, PageOfStep(k)) \in 1 .. Radix
            /\ PageEnds(r, PageOfStep(k)) <= r.size
        BY <2>2, PageRange
      <3>2. QED
        BY <3>1 DEF DataIn
    <2> HIDE DEF op, n, d
    <2>4. CASE k % 3 = 0
      <3>1. op[k] = d(k) /\ k < n
        BY <1>2, <2>1, <2>4
      <3>2. QED
        BY <1>5, <2>3, <3>1 DEF StepFits, op, n
    <2>5. CASE k % 3 = 1
      <3>1. op[k] = Cmd(ExecuteCommand(r.op)) /\ k < n
        BY <1>2, <2>1, <2>5
      <3>2. (k + 1) % 3 = 2
        BY <1>2, <2>5
      <3>3. op[k + 1] = WaitRdy(WaitInterval(r.op))
        BY <1>3, <2>1, <3>1, <3>2
      <3>4. QED
        BY <3>1, <3>3 DEF StepFits, Cmd, WaitRdy, op, n
    <2>6. CASE k % 3 = 2
      <3>1. op[k] = WaitRdy(WaitInterval(r.op)) /\ k > 3
        BY <1>2, <2>1, <2>6
      <3>2. (k - 1) % 3 = 1
        BY <1>2, <2>6
      <3>3. op[k - 1] = Cmd(ExecuteCommand(r.op))
        BY <1>3, <2>1, <3>1, <3>2
      <3>4. QED
        BY <3>1, <3>3 DEF StepFits, Cmd, WaitRdy, op, n
    <2>7. QED
      BY <1>2, <2>4, <2>5, <2>6
  <1>6. CASE r.op = "read"
    <2> DEFINE d(x) == DataOut(PageBegins(r, PageOfStep(x)),
                         PageEnds(r, PageOfStep(x)) - PageBegins(r, PageOfStep(x)))
    <2>1. \A x \in 3 .. n :
            /\ PageOfStep(x) \in 0 .. (PagesOf(r) - 1)
            /\ x % 3 = 0 => op[x] = Cmd(ExecuteCommand(r.op)) /\ x < n
            /\ x % 3 = 1 => op[x] = WaitRdy(WaitInterval(r.op)) /\ x < n
            /\ x % 3 = 2 => op[x] = d(x)
      BY <1>6, StepsOfRead
    <2>2. PageOfStep(k) \in 0 .. (PagesOf(r) - 1)
      BY <2>1
    <2>3. d(k).type = "data_out" /\ d(k).at \in Nat /\ d(k).len \in 1 .. Radix
          /\ d(k).at + d(k).len <= r.size
      <3>1. /\ PageBegins(r, PageOfStep(k)) \in Nat /\ PageEnds(r, PageOfStep(k)) \in Nat
            /\ PageEnds(r, PageOfStep(k)) - PageBegins(r, PageOfStep(k)) \in 1 .. Radix
            /\ PageEnds(r, PageOfStep(k)) <= r.size
        BY <2>2, PageRange
      <3>2. QED
        BY <3>1 DEF DataOut
    <2> HIDE DEF op, n, d
    <2>4. CASE k % 3 = 0
      <3>1. op[k] = Cmd(ExecuteCommand(r.op)) /\ k < n
        BY <1>2, <2>1, <2>4
      <3>2. (k + 1) % 3 = 1
        BY <1>2, <2>4
      <3>3. op[k + 1] = WaitRdy(WaitInterval(r.op))
        BY <1>3, <2>1, <3>1, <3>2
      <3>4. QED
        BY <3>1, <3>3 DEF StepFits, Cmd, WaitRdy, op, n
    <2>5. CASE k % 3 = 1
      <3>1. op[k] = WaitRdy(WaitInterval(r.op)) /\ k > 3
        BY <1>2, <2>1, <2>5
      <3>2. (k - 1) % 3 = 0
        BY <1>2, <2>5
      <3>3. op[k - 1] = Cmd(ExecuteCommand(r.op))
        BY <1>3, <2>1, <3>1, <3>2
      <3>4. QED
        BY <3>1, <3>3 DEF StepFits, Cmd, WaitRdy, op, n
    <2>6. CASE k % 3 = 2
      <3>1. op[k] = d(k) /\ k > 3
        BY <1>2, <2>1, <2>6
      <3>2. (k - 1) % 3 = 1
        BY <1>2, <2>6
      <3>3. op[k - 1] = WaitRdy(WaitInterval(r.op))
        BY <1>3, <2>1, <3>1, <3>2
      <3>4. QED
        BY <1>6, <2>3, <3>1, <3>3 DEF StepFits, WaitRdy, op, n
    <2>7. QED
      BY <1>2, <2>4, <2>5, <2>6
  <1>7. QED
    BY <1>4, <1>5, <1>6 DEF Operation

\* The first two instructions, the third, and the one at foxtrot_2's modulus: an
\* operation begins with a setup command, and no execute command is its eighth
\* instruction.
LEMMA OperationLandmarks ==
  ASSUME NEW r, r.op \in Operation, r.offset \in Nat, r.size \in Nat \ {0}
  PROVE  /\ Len(OperationFor(r)) \in Nat /\ Len(OperationFor(r)) >= 4
         /\ OperationFor(r)[1] = Cmd(SetupCommand(r.op))
         /\ OperationFor(r)[2] = Addr(AddressesOf(r))
         /\ r.op = "write" => OperationFor(r)[3].type = "data_in"
         /\ r.op # "write" => OperationFor(r)[3].type = "cmd"
         /\ Len(OperationFor(r)) >= 8 => OperationFor(r)[8].type # "cmd"
  <1> DEFINE op == OperationFor(r)
             n == Len(op)
  <1>1. /\ n = 2 + (IF r.op = "erase" THEN 2 * BlocksToErase(r.offset, r.size)
                    ELSE 3 * PagesOf(r))
        /\ op[1] = Cmd(SetupCommand(r.op)) /\ op[2] = Addr(AddressesOf(r))
    BY OperationParts
  <1>2. BlocksToErase(r.offset, r.size) \in Nat \ {0} /\ PagesOf(r) \in Nat \ {0}
    BY BlocksCoverRegion, PagesCoverTransfer
  <1>3. n \in Nat /\ n >= 4
    <2> HIDE DEF n
    <2>1. QED
      BY <1>1, <1>2
  <1>4. 3 \in 3 .. n /\ (n >= 8 => 8 \in 3 .. n)
    BY <1>3
  <1>5. 3 % 2 = 1 /\ 3 % 3 = 0 /\ 8 % 2 = 0 /\ 8 % 3 = 2
    OBVIOUS
  <1>6. SUFFICES /\ r.op = "write" => op[3].type = "data_in"
                 /\ r.op # "write" => op[3].type = "cmd"
                 /\ n >= 8 => op[8].type # "cmd"
    <2>1. op[1] = Cmd(SetupCommand(r.op)) /\ op[2] = Addr(AddressesOf(r))
      BY <1>1
    <2> HIDE DEF n, op
    <2>2. QED
      BY <1>3, <2>1, Zenon DEF n, op
  <1>7. CASE r.op = "erase"
    <2>1. ASSUME NEW k \in 3 .. n
          PROVE  /\ k % 2 = 1 => op[k].type = "cmd"
                 /\ k % 2 = 0 => op[k].type = "wait"
      <3>1. /\ k % 2 = 1 => op[k] = Cmd(ExecuteCommand(r.op))
            /\ k % 2 = 0 => op[k] = WaitRdy(WaitInterval(r.op))
        BY <1>7, StepsOfErase
      <3> HIDE DEF op, n
      <3>2. QED
        BY <3>1 DEF Cmd, WaitRdy
    <2> HIDE DEF n, op
    <2>2. op[3].type = "cmd"
      BY <1>4, <1>5, <2>1, Zenon
    <2>3. n >= 8 => op[8].type = "wait"
      <3>1. SUFFICES ASSUME 8 \in 3 .. n
                     PROVE  op[8].type = "wait"
        BY <1>4
      <3>2. QED
        BY <1>5, <2>1, <3>1, Zenon
    <2>4. QED
      BY <1>7, <2>2, <2>3
  <1>8. CASE r.op = "write"
    <2>1. ASSUME NEW k \in 3 .. n
          PROVE  /\ k % 3 = 0 => op[k].type = "data_in"
                 /\ k % 3 = 2 => op[k].type = "wait"
      <3>1. /\ k % 3 = 0 => op[k] = DataIn(PageBegins(r, PageOfStep(k)),
                   PageEnds(r, PageOfStep(k)) - PageBegins(r, PageOfStep(k)))
            /\ k % 3 = 2 => op[k] = WaitRdy(WaitInterval(r.op))
        BY <1>8, StepsOfWrite
      <3> HIDE DEF op, n
      <3>2. QED
        BY <3>1 DEF DataIn, WaitRdy
    <2> HIDE DEF n, op
    <2>2. op[3].type = "data_in"
      BY <1>4, <1>5, <2>1, Zenon
    <2>3. n >= 8 => op[8].type = "wait"
      <3>1. SUFFICES ASSUME 8 \in 3 .. n
                     PROVE  op[8].type = "wait"
        BY <1>4
      <3>2. QED
        BY <1>5, <2>1, <3>1, Zenon
    <2>4. QED
      BY <1>8, <2>2, <2>3
  <1>9. CASE r.op = "read"
    <2>1. ASSUME NEW k \in 3 .. n
          PROVE  /\ k % 3 = 0 => op[k].type = "cmd"
                 /\ k % 3 = 2 => op[k].type = "data_out"
      <3>1. /\ k % 3 = 0 => op[k] = Cmd(ExecuteCommand(r.op))
            /\ k % 3 = 2 => op[k] = DataOut(PageBegins(r, PageOfStep(k)),
                   PageEnds(r, PageOfStep(k)) - PageBegins(r, PageOfStep(k)))
        BY <1>9, StepsOfRead
      <3> HIDE DEF op, n
      <3>2. QED
        BY <3>1 DEF DataOut, Cmd
    <2> HIDE DEF n, op
    <2>2. op[3].type = "cmd"
      BY <1>4, <1>5, <2>1, Zenon
    <2>3. n >= 8 => op[8].type = "data_out"
      <3>1. SUFFICES ASSUME 8 \in 3 .. n
                     PROVE  op[8].type = "data_out"
        BY <1>4
      <3>2. QED
        BY <1>5, <2>1, <3>1, Zenon
    <2>4. QED
      BY <1>9, <2>2, <2>3
  <1>10. QED
    BY <1>7, <1>8, <1>9 DEF Operation

-----------------------------------------------------------------------------
(* The inductive invariant of the drivers that carry out what they are     *)
(* given: foxtrot_0, and foxtrot_2, whose index comes round after the      *)
(* eighth instruction.                                                     *)

USE DEF MS_INITIAL_STATE, MS_BUG,
        MS_READ_AWAITING_BLOCK_ADDRESS, MS_READ_AWAITING_PAGE_ADDRESS,
        MS_READ_AWAITING_BYTE_ADDRESS, MS_READ_AWAITING_EXECUTE,
        MS_READ_PROVIDING_DATA, MS_PROGRAM_AWAITING_BLOCK_ADDRESS,
        MS_PROGRAM_AWAITING_PAGE_ADDRESS, MS_PROGRAM_AWAITING_BYTE_ADDRESS,
        MS_PROGRAM_ACCEPTING_DATA, MS_ERASE_AWAITING_BLOCK_ADDRESS,
        MS_ERASE_AWAITING_EXECUTE, Working

USE DEF Waiting, Waited

StepName ==
  {"idle", "next", "cmd", "addr", "data_in", "data_out", "ready"} \union Waiting

TypeOK ==
  /\ TesterTypeOK
  /\ pc \in StepName
  /\ index \in Nat
  /\ done \in Nat

\* The drivers that work from the whole operation, and the modulus that foxtrot_2
\* has in the code.
WholeOperations ==
  \/ driver = "foxtrot_0"
  \/ driver = "foxtrot_2" /\ Modulus = 8

\* The driver is where the instruction in hand says.
CallInHand ==
  /\ driver = "foxtrot_2" => index < 8
  /\ pc # "idle" =>
       /\ req \in Requests
       /\ instrs = OperationFor(req)
       /\ index <= Len(OperationFor(req))
       /\ pc # "next" => index < Len(OperationFor(req))
       /\ pc = "next" => done = 0
       /\ pc \in {"cmd", "addr", "data_in", "data_out"} => Instruction.type = pc
       /\ pc \in Waiting \union {"ready"} => Instruction.type = "wait"
       /\ pc = "addr" => done <= Len(Instruction.addrs)
       /\ pc \in {"data_in", "data_out"} => done <= Instruction.len

\* The state the device is in after so many of an operation's addresses.
AddressStateOf(op, given) ==
  CASE given = 0 -> AwaitingBlockOf(op)
    [] given = 1 /\ op # "erase" -> AwaitingPageOf(op)
    [] given = 2 /\ op # "erase" -> AwaitingByteOf(op)
    [] OTHER -> AddressedOf(op)

\* How far the driver has come says what state the device is in; it is busy only
\* while the next instruction is to wait for it.
DriverKnowsDevice ==
  /\ machine_state # MS_BUG /\ ~exited /\ rc = 0
  /\ pc = "idle" \/ index = 0 => AtRest
  /\ pc # "idle" =>
       /\ index = 1 => machine_state = AddressStateOf(req.op, done)
       /\ index = 2 => machine_state = AddressedOf(req.op)
       /\ index > 2 => machine_state = WorkingOf(req.op)
       /\ BeforeDeadline => /\ pc \in {"next"} \union Waiting
                            /\ index < Len(OperationFor(req))
                            /\ Instruction.type = "wait"
       /\ pc \in {"next", "wait"} => deadline <= DurationOf(req.op)

ExecInv ==
  /\ DeviceInv
  /\ TypeOK
  /\ CallInHand
  /\ DriverKnowsDevice
  /\ WaitsForDeadline

\* What the driver knows of the instruction in hand and of the one after it.
LEMMA InstructionInHand ==
  ASSUME ExecInv, pc # "idle"
  PROVE  LET op == OperationFor(req)
         IN /\ Len(op) \in Nat /\ Len(op) >= 4
            /\ req.op \in Operation
            /\ Instruction = op[index + 1]
            /\ index = 0 => /\ Instruction.type = "cmd"
                            /\ Instruction.opcode = SetupCommand(req.op)
                            /\ op[index + 2].type = "addr"
            /\ index = 1 => /\ Instruction.type = "addr"
                            /\ Instruction.addrs = AddressesOf(req)
            /\ index = 2 => /\ req.op = "write" => Instruction.type = "data_in"
                            /\ req.op # "write" => Instruction.type = "cmd"
            /\ index >= 2 /\ index < Len(op) =>
                 /\ Instruction.type \in {"cmd", "wait", "data_in", "data_out"}
                 /\ Instruction.type = "cmd" =>
                      /\ Instruction.opcode = ExecuteCommand(req.op)
                      /\ index + 1 < Len(op)
                      /\ op[index + 2].type = "wait"
                      /\ index # 7
                 /\ Instruction.type = "wait" =>
                      Instruction.timeout = WaitInterval(req.op) /\ index > 2
                 /\ Instruction.type = "data_in" => req.op = "write"
                 /\ Instruction.type = "data_out" => req.op = "read" /\ index > 2
                 /\ Instruction.type \in {"data_in", "data_out"} =>
                      /\ Instruction.at \in Nat /\ Instruction.len \in 1 .. Radix
                      /\ Instruction.at + Instruction.len <= req.size
  <1> DEFINE op == OperationFor(req)
             n == Len(op)
             k == index + 1
  <1>1. req \in Requests /\ Instruction = op[k] /\ index \in Nat
    BY DEF ExecInv, CallInHand, TypeOK, Instruction
  <1>2. req.op \in Operation /\ req.offset \in Nat /\ req.size \in Nat \ {0}
    BY <1>1, RequestFacts
  <1>3. /\ n \in Nat /\ n >= 4
        /\ op[1] = Cmd(SetupCommand(req.op))
        /\ op[2] = Addr(AddressesOf(req))
        /\ req.op = "write" => op[3].type = "data_in"
        /\ req.op # "write" => op[3].type = "cmd"
        /\ n >= 8 => op[8].type # "cmd"
    BY <1>2, OperationLandmarks
  <1>4. index >= 2 /\ index < n => StepFits(req, k)
    <2>1. SUFFICES ASSUME index >= 2, index < n
                   PROVE  StepFits(req, k)
      OBVIOUS
    <2>2. k \in 3 .. Len(OperationFor(req))
      BY <1>1, <1>3, <2>1
    <2> HIDE DEF k
    <2>3. QED
      BY <1>2, <2>2, OperationSteps
  <1>5. index = 7 /\ index < n => op[k].type # "cmd"
    BY <1>1, <1>3
  <1>6. index = 0 => op[k] = Cmd(SetupCommand(req.op)) /\ op[index + 2].type = "addr"
    <2>1. op[2].type = "addr"
      BY <1>3 DEF Addr
    <2> HIDE DEF op
    <2>2. QED
      BY <1>3, <2>1
  <1>7. index = 1 => op[k] = Addr(AddressesOf(req))
    BY <1>3
  <1>8. index = 2 => /\ req.op = "write" => op[k].type = "data_in"
                     /\ req.op # "write" => op[k].type = "cmd"
    BY <1>3
  <1>9. index >= 2 /\ index < n =>
          /\ op[k].type \in {"cmd", "wait", "data_in", "data_out"}
          /\ op[k].type = "cmd" => /\ op[k].opcode = ExecuteCommand(req.op)
                                   /\ k < n
                                   /\ op[index + 2].type = "wait"
                                   /\ index # 7
          /\ op[k].type = "wait" => op[k].timeout = WaitInterval(req.op) /\ index > 2
          /\ op[k].type = "data_in" => req.op = "write"
          /\ op[k].type = "data_out" => req.op = "read" /\ index > 2
          /\ op[k].type \in {"data_in", "data_out"} =>
               /\ op[k].at \in Nat /\ op[k].len \in 1 .. Radix
               /\ op[k].at + op[k].len <= req.size
    <2>1. SUFFICES ASSUME index >= 2, index < n
                   PROVE  /\ op[k].type \in {"cmd", "wait", "data_in", "data_out"}
                          /\ op[k].type = "cmd" =>
                               /\ op[k].opcode = ExecuteCommand(req.op)
                               /\ k < n
                               /\ op[index + 2].type = "wait"
                               /\ index # 7
                          /\ op[k].type = "wait" =>
                               op[k].timeout = WaitInterval(req.op) /\ index > 2
                          /\ op[k].type = "data_in" => req.op = "write"
                          /\ op[k].type = "data_out" => req.op = "read" /\ index > 2
                          /\ op[k].type \in {"data_in", "data_out"} =>
                               /\ op[k].at \in Nat /\ op[k].len \in 1 .. Radix
                               /\ op[k].at + op[k].len <= req.size
      OBVIOUS
    <2>2. StepFits(req, k) /\ k + 1 = index + 2 /\ (k > 3 <=> index > 2)
      BY <1>1, <1>4, <2>1
    <2>3. op[k].type = "cmd" => index # 7
      BY <1>5, <2>1
    <2>4. QED
      BY <2>2, <2>3 DEF StepFits
  <1> HIDE DEF op
  <1>10. QED
    BY <1>1, <1>2, <1>3, <1>6, <1>7, <1>8, <1>9 DEF Cmd, Addr, op

-----------------------------------------------------------------------------
(* The steps.                                                              *)

\* What a step inside a call leaves alone.
Inside == UNCHANGED <<driver, mirror, made, req, rc, instrs>>

\* The next call, on a device that is at rest.
LEMMA RequestPreserves ==
  ASSUME WholeOperations, ExecInv, Request
  PROVE  ExecInv'
  <1>1. PICK r \in Requests : Operate(r) /\ Call(r) /\ UNCHANGED driver
    BY DEF Request
  <1>2. /\ pc = "idle" /\ pc' = "next" /\ req' = r
        /\ index' = 0 /\ done' = 0
        /\ UNCHANGED <<rc, timeout, sleeping, driver, deviceVars>>
    BY <1>1 DEF Call, BeginCall
  <1>3. instrs' = OperationFor(r)
    BY <1>1 DEF Call, Copied, WholeOperations, ExecInv, TypeOK, TesterTypeOK
  <1>4. UNCHANGED <<machine_state, deadline, exited>> /\ DeviceInv'
        /\ BeforeDeadline' = BeforeDeadline
    BY <1>2, DeviceLeftAlone DEF ExecInv
  <1>5. mirror' \in Mirror /\ made' \in 0 .. MaxRequests
    BY <1>1, MirrorStaysAMirror DEF ExecInv, TypeOK, TesterTypeOK
  <1>6. TypeOK'
    BY <1>2, <1>4, <1>5 DEF ExecInv, TypeOK, TesterTypeOK, StepName, DeviceInv
  <1>7. Len(OperationFor(r)) \in Nat
    BY RequestFacts, OperationLandmarks
  <1>8. CallInHand'
    BY <1>2, <1>3, <1>7 DEF CallInHand
  <1>9. DriverKnowsDevice'
    <2>1. AtRest /\ AtRest'
      BY <1>2, <1>4 DEF ExecInv, DriverKnowsDevice, AtRest
    <2>2. deadline = 0 /\ DurationOf(r.op) \in Nat
      BY <2>1, RequestFacts, IntervalsAreLongEnough
      DEF AtRest, BeforeDeadline, ExecInv, DeviceInv, DeviceTypeOK, ParserTypeOK
    <2>3. QED
      BY <1>2, <1>4, <2>1, <2>2 DEF ExecInv, DriverKnowsDevice, AtRest
  <1>10. WaitsForDeadline'
    BY <1>2, <1>4 DEF ExecInv, WaitsForDeadline
  <1>11. QED
    BY <1>4, <1>6, <1>8, <1>9, <1>10 DEF ExecInv

LEMMA DispatchPreserves ==
  ASSUME ExecInv, Dispatch, Inside
  PROVE  ExecInv'
  <1> DEFINE n == Len(OperationFor(req))
             type == Instruction.type
  <1>1. /\ pc = "next" /\ index < n
        /\ pc' = IF type = "wild" THEN "undefined" ELSE type
        /\ UNCHANGED <<timeout, sleeping, req, buffer, rc, instrs, index, done,
                       driver, mirror, made>>
    BY DEF Dispatch, Inside, callVars, opVars, ExecInv, CallInHand
  <1>2. /\ UNCHANGED <<machine_state, deadline, exited>>
        /\ DeviceInv'
        /\ BeforeDeadline' = BeforeDeadline
    BY DeviceLeftAlone DEF Dispatch, ExecInv
  <1>3. Instruction' = Instruction
    BY <1>1 DEF Instruction
  <1>4. /\ type \in {"cmd", "addr", "wait", "data_in", "data_out"}
        /\ n \in Nat /\ index \in Nat /\ req.op \in Operation
        /\ type = "addr" => Instruction.addrs = AddressesOf(req)
        /\ type \in {"data_in", "data_out"} => Instruction.len \in Nat
        /\ type = "cmd" \/ type = "wait" => pc' = type
        /\ done = 0
    <2>1. index = 0 \/ index = 1 \/ index >= 2
      BY DEF ExecInv, TypeOK
    <2>2. /\ n \in Nat /\ req.op \in Operation /\ done = 0
      BY <1>1, InstructionInHand DEF ExecInv, CallInHand
    <2>3. CASE index = 0
      BY <1>1, <2>1, <2>2, <2>3, InstructionInHand
    <2>4. CASE index = 1
      BY <1>1, <2>1, <2>2, <2>4, InstructionInHand
    <2>5. CASE index >= 2
      <3>1. /\ type \in {"cmd", "wait", "data_in", "data_out"}
            /\ type \in {"data_in", "data_out"} => Instruction.len \in 1 .. Radix
        BY <1>1, <2>5, InstructionInHand
      <3>2. Radix \in Nat
        BY RadixAssumption
      <3> HIDE DEF n
      <3>3. QED
        BY <1>1, <2>1, <2>2, <3>1, <3>2 DEF ExecInv, TypeOK
    <2>6. QED
      BY <2>1, <2>3, <2>4, <2>5
  <1>5. pc' = type
    BY <1>1, <1>4
  <1>6. TypeOK'
    BY <1>1, <1>2, <1>4, <1>5 DEF ExecInv, TypeOK, TesterTypeOK, StepName, DeviceInv
  <1>7. CallInHand'
    <2>1. req.offset \in Nat
      BY <1>1, RequestFacts DEF ExecInv, CallInHand
    <2>2. Len(AddressesOf(req)) \in Nat
      BY <2>1, AddressesFit
    <2>3. /\ driver = "foxtrot_2" => index < 8
          /\ req \in Requests /\ instrs = OperationFor(req)
          /\ index <= Len(OperationFor(req))
      BY <1>1 DEF ExecInv, CallInHand
    <2>4. /\ pc' = "addr" => done <= Len(Instruction.addrs)
          /\ pc' \in {"data_in", "data_out"} => done <= Instruction.len
      BY <1>4, <1>5, <2>2
    <2>5. pc' # "next" /\ (pc' \in Waiting \union {"ready"} => pc' = "wait")
      BY <1>4, <1>5
    <2> HIDE DEF n, type
    <2>6. QED
      BY <1>1, <1>3, <1>5, <2>3, <2>4, <2>5 DEF CallInHand, n, type
  <1>8. DriverKnowsDevice'
    <2>1. AtRest' <=> AtRest
      BY <1>2 DEF AtRest
    <2>2. BeforeDeadline => type = "wait"
      BY <1>1 DEF ExecInv, DriverKnowsDevice
    <2>3. QED
      BY <1>1, <1>2, <1>3, <1>4, <1>5, <2>1, <2>2 DEF ExecInv, DriverKnowsDevice
  <1>9. WaitsForDeadline'
    BY <1>1, <1>2, <1>4, <1>5 DEF ExecInv, WaitsForDeadline
  <1>10. QED
    BY <1>2, <1>6, <1>7, <1>8, <1>9 DEF ExecInv

\* On to the next instruction: the index comes round only on foxtrot_2, and only
\* after the eighth.
LEMMA GoOnKeepsCall ==
  ASSUME WholeOperations, ExecInv, GoOn, Inside, DeviceInv',
         pc \in {"cmd", "addr", "data_in", "data_out", "ready"}
  PROVE  /\ TypeOK' /\ CallInHand' /\ WaitsForDeadline'
         /\ pc' = "next" /\ done' = 0
         /\ UNCHANGED <<req, instrs, rc>>
         /\ \/ index' = index + 1 /\ ~(driver = "foxtrot_2" /\ index = 7)
            \/ driver = "foxtrot_2" /\ index = 7 /\ index' = 0
  <1>1. /\ pc' = "next" /\ done' = 0 /\ timeout' = 0
        /\ index' = NextIndex(index)
        /\ UNCHANGED <<req, rc, instrs, sleeping, driver, mirror, made>>
    BY DEF GoOn, Inside
  <1>2. index \in Nat /\ index < Len(OperationFor(req)) /\ Len(OperationFor(req)) \in Nat
    BY InstructionInHand DEF ExecInv, CallInHand, TypeOK
  <1>3. \/ index' = index + 1 /\ ~(driver = "foxtrot_2" /\ index = 7)
        \/ driver = "foxtrot_2" /\ index = 7 /\ index' = 0
    <2>1. CASE driver = "foxtrot_2"
      <3>1. Modulus = 8 /\ index < 8
        BY <2>1 DEF WholeOperations, ExecInv, TypeOK, TesterTypeOK, CallInHand
      <3>2. index = 7 => (index + 1) % 8 = 0
        OBVIOUS
      <3>3. index # 7 => (index + 1) % 8 = index + 1
        BY <1>2, <3>1
      <3>4. QED
        BY <1>1, <2>1, <3>1, <3>2, <3>3 DEF NextIndex
    <2>2. CASE driver # "foxtrot_2"
      BY <1>1, <2>2 DEF NextIndex
    <2>3. QED
      BY <2>1, <2>2
  <1>4. index' \in Nat /\ index' <= Len(OperationFor(req))
        /\ (driver = "foxtrot_2" => index' < 8)
    BY <1>2, <1>3 DEF ExecInv, CallInHand
  <1>5. TypeOK'
    BY <1>1, <1>4 DEF ExecInv, TypeOK, TesterTypeOK, StepName, DeviceInv
  <1>6. CallInHand'
    BY <1>1, <1>4 DEF ExecInv, CallInHand
  <1>7. WaitsForDeadline'
    BY <1>1 DEF ExecInv, WaitsForDeadline
  <1>8. QED
    BY <1>1, <1>3, <1>5, <1>6, <1>7

LEMMA SendCommandPreserves ==
  ASSUME WholeOperations, ExecInv, SendCommand, Inside
  PROVE  ExecInv'
  <1> DEFINE op == OperationFor(req)
             n == Len(op)
  <1>1. pc = "cmd" /\ GoOn /\ StoreCommand(Instruction.opcode)
    BY DEF SendCommand
  <1>2. /\ index \in Nat /\ index < n /\ n \in Nat /\ n >= 4
        /\ req.op \in Operation /\ Instruction.type = "cmd"
        /\ instrs = op
    BY <1>1, InstructionInHand DEF ExecInv, CallInHand, TypeOK
  <1>3. index = 0 \/ index >= 2
    <2>1. index # 1
      BY <1>1, <1>2, InstructionInHand
    <2>2. QED
      BY <1>2, <2>1
  <1>4. CASE index = 0
    <2>1. StoreCommand(SetupCommand(req.op)) /\ op[index + 2].type = "addr"
      BY <1>1, <1>4, InstructionInHand
    <2>2. DeviceInv'
      BY <1>2, <2>1, CommandsOfOperation, AccessesPreserve DEF ExecInv
    <2>3. AtRest
      BY <1>4 DEF ExecInv, DriverKnowsDevice
    <2>4. machine_state' = AwaitingBlockOf(req.op) /\ UNCHANGED exited
      BY <1>2, <2>1, <2>3, SetupIsAccepted DEF ExecInv
    <2>5. ~BeforeDeadline' /\ deadline' = 0
      BY <2>2, <2>4
      DEF DeviceInv, BusyOnlyWhileWorking, DeviceTypeOK, ParserTypeOK, BeforeDeadline,
          AwaitingBlockOf
    <2>6. /\ TypeOK' /\ CallInHand' /\ WaitsForDeadline'
          /\ pc' = "next" /\ done' = 0 /\ index' = 1 /\ UNCHANGED <<req, rc>>
      BY <1>1, <1>4, <2>2, GoOnKeepsCall
    <2>7. DurationOf(req.op) \in Nat
      BY <1>2, IntervalsAreLongEnough
    <2>8. DriverKnowsDevice'
      BY <2>4, <2>5, <2>6, <2>7
      DEF ExecInv, DriverKnowsDevice, AddressStateOf, AwaitingBlockOf
    <2>9. QED
      BY <2>2, <2>6, <2>8 DEF ExecInv
  <1>5. CASE index >= 2
    <2>1. /\ StoreCommand(ExecuteCommand(req.op))
          /\ index + 1 < n /\ op[index + 2].type = "wait" /\ index # 7
      BY <1>1, <1>2, <1>5, InstructionInHand
    <2>2. DeviceInv'
      BY <1>2, <2>1, CommandsOfOperation, AccessesPreserve DEF ExecInv
    <2>3. machine_state \in {AddressedOf(req.op), WorkingOf(req.op)}
          /\ ~BeforeDeadline /\ ~exited
      BY <1>1, <1>2, <1>5 DEF ExecInv, DriverKnowsDevice
    <2>4. /\ machine_state' = WorkingOf(req.op) /\ deadline' = DurationOf(req.op)
          /\ UNCHANGED exited
      BY <1>2, <2>1, <2>3, ExecuteIsAccepted DEF ExecInv
    <2>5. /\ TypeOK' /\ CallInHand' /\ WaitsForDeadline'
          /\ pc' = "next" /\ done' = 0 /\ index' = index + 1
          /\ UNCHANGED <<req, instrs, rc>>
      BY <1>1, <2>1, <2>2, GoOnKeepsCall
    <2>6. Instruction'.type = "wait"
      <3>1. Instruction' = op[index + 2]
        BY <1>2, <2>5 DEF Instruction
      <3>2. QED
        BY <2>1, <3>1
    <2>7. DurationOf(req.op) \in Nat
      BY <1>2, IntervalsAreLongEnough
    <2>8. index' > 2 /\ index' < n
      BY <1>2, <1>5, <2>1, <2>5
    <2>9. DriverKnowsDevice'
      <3> HIDE DEF op
      <3>1. WorkingOf(req.op) # MS_BUG
        BY DEF WorkingOf
      <3>2. (pc' # "idle" /\ index' \notin {0, 1, 2})
        BY <1>2, <2>5, <2>8
      <3>3. QED
        BY <2>3, <2>4, <2>5, <2>6, <2>7, <2>8, <3>1, <3>2
        DEF ExecInv, DriverKnowsDevice, op
    <2>10. QED
      BY <2>2, <2>5, <2>9 DEF ExecInv
  <1>6. QED
    BY <1>3, <1>4, <1>5

\* An address byte: the device counts the addresses as the driver does.
LEMMA SendAddressPreserves ==
  ASSUME ExecInv, SendAddress, Inside
  PROVE  ExecInv'
  <1> DEFINE d == Instruction.addrs[done + 1]
  <1>1. /\ pc = "addr" /\ done < Len(Instruction.addrs) /\ StoreAddress(d)
        /\ done' = done + 1
        /\ UNCHANGED <<pc, timeout, sleeping, instrs, index, req, rc, driver, mirror,
                       made>>
    BY DEF SendAddress, Transferring, waitVars, Inside
  <1>2. /\ req \in Requests /\ index \in Nat /\ done \in Nat
        /\ index < Len(OperationFor(req)) /\ Instruction.type = "addr"
    BY <1>1 DEF ExecInv, CallInHand, TypeOK
  <1>3. req.op \in Operation /\ req.offset \in Nat /\ Len(OperationFor(req)) \in Nat
    BY <1>1, <1>2, RequestFacts, InstructionInHand
  <1>4. index = 1 /\ Instruction.addrs = AddressesOf(req)
    <2>1. index # 0 /\ ~(index >= 2)
      BY <1>1, <1>2, InstructionInHand
    <2>2. index = 1
      BY <1>2, <2>1
    <2>3. QED
      BY <1>1, <2>2, InstructionInHand
  <1>5. /\ AddressesOf(req) \in Seq(Digit)
        /\ Len(AddressesOf(req)) = IF req.op = "erase" THEN 1 ELSE 3
    BY <1>3, AddressesFit
  <1>6. d \in Digit
    BY <1>1, <1>2, <1>4, <1>5
  <1> HIDE DEF d
  <1>7. DeviceInv'
    BY <1>1, <1>6, AccessesPreserve DEF ExecInv
  <1>8. machine_state = AddressStateOf(req.op, done) /\ ~exited
    BY <1>1, <1>4 DEF ExecInv, DriverKnowsDevice
  <1>9. machine_state' = AddressStateOf(req.op, done + 1) /\ UNCHANGED exited
    <2>1. CASE done = 0
      <3>1. machine_state = AwaitingBlockOf(req.op)
        BY <1>8, <2>1 DEF AddressStateOf
      <3>2. /\ machine_state' = IF req.op = "erase" THEN AddressedOf(req.op)
                                ELSE AwaitingPageOf(req.op)
            /\ UNCHANGED exited
        BY <1>1, <1>3, <1>6, <3>1, BlockAddressIsAccepted DEF ExecInv
      <3>3. QED
        BY <2>1, <3>2 DEF AddressStateOf
    <2>2. CASE done = 1
      <3>1. req.op # "erase" /\ machine_state = AwaitingPageOf(req.op)
        BY <1>1, <1>4, <1>5, <1>8, <2>2 DEF AddressStateOf
      <3>2. machine_state' = AwaitingByteOf(req.op) /\ UNCHANGED exited
        BY <1>1, <1>3, <1>6, <3>1, PageAddressIsAccepted DEF ExecInv
      <3>3. QED
        BY <2>2, <3>1, <3>2 DEF AddressStateOf
    <2>3. CASE done = 2
      <3>1. req.op # "erase" /\ machine_state = AwaitingByteOf(req.op)
        BY <1>1, <1>4, <1>5, <1>8, <2>3 DEF AddressStateOf
      <3>2. machine_state' = AddressedOf(req.op) /\ UNCHANGED exited
        BY <1>1, <1>3, <1>6, <3>1, ByteAddressIsAccepted DEF ExecInv
      <3>3. QED
        BY <2>3, <3>2 DEF AddressStateOf
    <2>4. QED
      BY <1>1, <1>2, <1>4, <1>5, <2>1, <2>2, <2>3
  <1>10. ~BeforeDeadline'
    <2>1. ~BeforeDeadline
      BY <1>1 DEF ExecInv, DriverKnowsDevice
    <2>2. UNCHANGED deadline
      BY <1>1, <1>3, <1>6, <1>8, <1>4, <1>5, <1>2, BlockAddressIsAccepted,
         PageAddressIsAccepted, ByteAddressIsAccepted DEF ExecInv, AddressStateOf
    <2>3. QED
      BY <2>1, <2>2 DEF BeforeDeadline
  <1>11. TypeOK'
    BY <1>1, <1>2, <1>7 DEF ExecInv, TypeOK, TesterTypeOK, DeviceInv
  <1>12. Instruction' = Instruction
    BY <1>1 DEF Instruction
  <1>13. CallInHand'
    <2>1. done + 1 <= Len(Instruction.addrs)
      BY <1>1, <1>2, <1>4, <1>5
    <2>2. QED
      BY <1>1, <1>12, <2>1 DEF ExecInv, CallInHand
  <1>14. DriverKnowsDevice'
    <2>1. machine_state' # MS_BUG
      BY <1>9 DEF AddressStateOf, AwaitingBlockOf, AwaitingPageOf, AwaitingByteOf,
                  AddressedOf
    <2>2. QED
      BY <1>1, <1>4, <1>9, <1>10, <2>1 DEF ExecInv, DriverKnowsDevice
  <1>15. WaitsForDeadline'
    BY <1>1 DEF ExecInv, WaitsForDeadline
  <1>16. QED
    BY <1>7, <1>11, <1>13, <1>14, <1>15 DEF ExecInv

\* A data byte, in or out, leaves the device in its state.
LEMMA DataPreserves ==
  ASSUME ExecInv, ProgramByte \/ ReadByte, Inside
  PROVE  ExecInv'
  <1>1. /\ pc \in {"data_in", "data_out"} /\ done < Instruction.len
        /\ done' = done + 1
        /\ UNCHANGED <<pc, timeout, sleeping, instrs, index, req, rc, driver, mirror,
                       made>>
    BY DEF ProgramByte, ReadByte, Transferring, waitVars, Inside
  <1>2. /\ req \in Requests /\ index \in Nat /\ done \in Nat
        /\ index < Len(OperationFor(req)) /\ Instruction.type = pc
    BY <1>1 DEF ExecInv, CallInHand, TypeOK
  <1>3. index >= 2
    <2>1. index # 0 /\ index # 1
      BY <1>1, <1>2, InstructionInHand
    <2>2. QED
      BY <1>2, <2>1
  <1>4. /\ pc = "data_in" => req.op = "write"
        /\ pc = "data_out" => req.op = "read" /\ index > 2
        /\ Instruction.at \in Nat /\ Instruction.len \in 1 .. Radix
        /\ Instruction.at + Instruction.len <= req.size
    BY <1>1, <1>2, <1>3, InstructionInHand
  <1>5. ~BeforeDeadline /\ ~exited
    BY <1>1 DEF ExecInv, DriverKnowsDevice
  <1>6. machine_state = WorkingOf(req.op)
    <2>1. index = 2 \/ index > 2
      BY <1>2, <1>3
    <2>2. QED
      BY <1>1, <1>4, <2>1 DEF ExecInv, DriverKnowsDevice, AddressedOf, WorkingOf
  <1>7. DeviceInv' /\ UNCHANGED <<machine_state, deadline, exited>>
    <2>1. CASE ProgramByte
      <3> DEFINE v == req.data[Instruction.at + done]
      <3>1. pc = "data_in" /\ StoreData(v)
        BY <2>1 DEF ProgramByte
      <3>2. v \in Byte
        <4>1. Instruction.at + done \in 0 .. (req.size - 1)
          BY <1>1, <1>2, <1>4, RadixAssumption, RequestFacts
        <4>2. QED
          BY <1>2, <1>4, <3>1, <4>1, RequestFacts
      <3>3. machine_state = MS_PROGRAM_ACCEPTING_DATA
        BY <1>4, <1>6, <3>1 DEF WorkingOf
      <3> HIDE DEF v
      <3>4. QED
        BY <1>5, <3>1, <3>2, <3>3, DataInIsAccepted, AccessesPreserve DEF ExecInv
    <2>2. CASE ReadByte
      <3>1. pc = "data_out" /\ LoadData(TRUE)
        BY <2>2 DEF ReadByte
      <3>2. machine_state = MS_READ_PROVIDING_DATA
        BY <1>4, <1>6, <3>1 DEF WorkingOf
      <3>3. QED
        BY <1>5, <3>1, <3>2, DataOutIsProvided, AccessesPreserve DEF ExecInv
    <2>3. QED
      BY <2>1, <2>2
  <1>8. TypeOK'
    BY <1>1, <1>2, <1>7 DEF ExecInv, TypeOK, TesterTypeOK, DeviceInv
  <1>9. Instruction' = Instruction
    BY <1>1 DEF Instruction
  <1>10. CallInHand'
    <2>1. done + 1 <= Instruction.len
      BY <1>1, <1>2, <1>4, RadixAssumption
    <2>2. QED
      BY <1>1, <1>9, <2>1 DEF ExecInv, CallInHand
  <1>11. DriverKnowsDevice'
    <2>1. ~BeforeDeadline'
      BY <1>5, <1>7 DEF BeforeDeadline
    <2>2. QED
      BY <1>1, <1>2, <1>3, <1>7, <2>1 DEF ExecInv, DriverKnowsDevice
  <1>12. WaitsForDeadline'
    BY <1>1 DEF ExecInv, WaitsForDeadline
  <1>13. QED
    BY <1>7, <1>8, <1>10, <1>11, <1>12 DEF ExecInv

LEMMA WaitPreserves ==
  ASSUME WholeOperations, ExecInv, pc \in Waiting,
         WaitStep(Instruction.timeout, FALSE), UNCHANGED <<callVars, deviceVars>>, Inside
  PROVE  ExecInv'
  <1>1. UNCHANGED <<req, buffer, rc, instrs, index, done, driver, mirror, made>>
    BY DEF callVars, opVars, Inside
  <1>2. /\ UNCHANGED <<machine_state, deadline, exited>>
        /\ DeviceInv'
        /\ BeforeDeadline' = BeforeDeadline
    BY DeviceLeftAlone DEF ExecInv
  <1>3. /\ index \in Nat /\ index < Len(OperationFor(req)) /\ Instruction.type = "wait"
        /\ pc # "idle" /\ pc # "next"
    BY DEF ExecInv, CallInHand, TypeOK
  <1>4. req.op \in Operation /\ Instruction.timeout = WaitInterval(req.op)
    <2>1. index # 0 /\ index # 1
      BY <1>3, InstructionInHand
    <2>2. index >= 2
      BY <1>3, <2>1
    <2>3. QED
      BY <1>3, <2>2, InstructionInHand
  <1>5. deadline \in Nat /\ timeout \in Nat /\ sleeping \in 0 .. PollInterval
    BY DEF ExecInv, DeviceInv, DeviceTypeOK, ParserTypeOK, TypeOK, TesterTypeOK
  <1>6. pc = "wait" => deadline <= Instruction.timeout
    BY <1>4, <1>5, IntervalsAreLongEnough DEF ExecInv, DriverKnowsDevice
  <1>7. /\ WaitsForDeadline'
        /\ pc' \in (Waiting \union Waited) \ {"wait"}
        /\ timeout' \in Nat
        /\ sleeping' \in 0 .. PollInterval
    <2>1. Instruction.timeout \in Nat
      BY <1>4, IntervalsAreLongEnough
    <2>2. QED
      BY <1>1, <1>2, <1>5, <1>6, <2>1, WaitStepWaits DEF ExecInv
  <1>8. pc' # "timed_out"
    BY <1>1, <1>7 DEF WaitsForDeadline, WholeOperations
  <1>9. TypeOK'
    BY <1>1, <1>2, <1>7, <1>8
    DEF ExecInv, TypeOK, TesterTypeOK, DeviceInv, StepName
  <1>10. Instruction' = Instruction
    BY <1>1 DEF Instruction
  <1>11. CallInHand'
    BY <1>1, <1>3, <1>7, <1>8, <1>10 DEF ExecInv, CallInHand
  <1>12. DriverKnowsDevice'
    <2>1. AtRest' <=> AtRest
      BY <1>2 DEF AtRest
    <2>2. BeforeDeadline' => pc' \in Waiting
      BY <1>7, <1>8 DEF WaitsForDeadline
    <2>3. pc' \notin {"idle", "next", "wait"}
      BY <1>7
    <2>4. QED
      BY <1>1, <1>2, <1>3, <1>10, <2>1, <2>2, <2>3 DEF ExecInv, DriverKnowsDevice
  <1>13. QED
    BY <1>2, <1>7, <1>9, <1>11, <1>12 DEF ExecInv

\* The end of an instruction's loop, on a device that is ready.
LEMMA InstructionEndsPreserves ==
  ASSUME WholeOperations, ExecInv, InstructionEnds, Inside
  PROVE  ExecInv'
  <1> DEFINE n == Len(OperationFor(req))
  <1>1. /\ pc \in {"addr", "data_in", "data_out", "ready"}
        /\ pc = "addr" => done = Len(Instruction.addrs)
        /\ GoOn /\ UNCHANGED deviceVars
    BY DEF InstructionEnds
  <1>2. /\ UNCHANGED <<machine_state, deadline, exited>>
        /\ DeviceInv'
        /\ BeforeDeadline' = BeforeDeadline
    BY <1>1, DeviceLeftAlone DEF ExecInv
  <1>3. /\ TypeOK' /\ CallInHand' /\ WaitsForDeadline'
        /\ pc' = "next" /\ done' = 0
        /\ UNCHANGED <<req, instrs, rc>>
        /\ \/ index' = index + 1
           \/ index = 7 /\ index' = 0
    BY <1>1, <1>2, GoOnKeepsCall
  <1>4. /\ req \in Requests /\ index \in Nat /\ index < n
        /\ Instruction.type = IF pc = "ready" THEN "wait" ELSE pc
    BY <1>1 DEF ExecInv, CallInHand, TypeOK
  <1>5. ~BeforeDeadline /\ deadline = 0
    <2>1. ~BeforeDeadline
      BY <1>1 DEF ExecInv, DriverKnowsDevice, WaitsForDeadline
    <2>2. QED
      BY <2>1 DEF BeforeDeadline, ExecInv, DeviceInv, DeviceTypeOK, ParserTypeOK
  <1>6. req.op \in Operation /\ req.offset \in Nat
    BY <1>4, RequestFacts
  <1>7. index # 0
    BY <1>1, <1>4, InstructionInHand
  <1>8. index = 1 => machine_state = AddressedOf(req.op)
    <2>1. SUFFICES ASSUME index = 1
                   PROVE  machine_state = AddressedOf(req.op)
      OBVIOUS
    <2>2. Instruction.type = "addr" /\ Instruction.addrs = AddressesOf(req)
      BY <1>1, <2>1, InstructionInHand
    <2>3. done = IF req.op = "erase" THEN 1 ELSE 3
      BY <1>1, <1>4, <1>6, <2>2, AddressesFit
    <2>4. machine_state = AddressStateOf(req.op, done)
      BY <1>1, <2>1 DEF ExecInv, DriverKnowsDevice
    <2>5. QED
      BY <2>3, <2>4 DEF AddressStateOf
  <1>9. index > 1 => machine_state = WorkingOf(req.op)
    <2>1. CASE index = 2
      <3>1. req.op = "write"
        BY <1>1, <1>4, <2>1, InstructionInHand
      <3>2. machine_state = AddressedOf(req.op)
        BY <1>1, <2>1 DEF ExecInv, DriverKnowsDevice
      <3>3. QED
        BY <3>1, <3>2 DEF AddressedOf, WorkingOf
    <2>2. CASE index > 2
      BY <1>1, <2>2 DEF ExecInv, DriverKnowsDevice
    <2>3. QED
      BY <1>4, <2>1, <2>2
  <1>10. /\ index' = 0 => machine_state' = WorkingOf(req'.op)
         /\ index' = 1 => FALSE
         /\ index' = 2 => machine_state' = AddressedOf(req'.op)
         /\ index' > 2 => machine_state' = WorkingOf(req'.op)
    BY <1>2, <1>3, <1>4, <1>7, <1>8, <1>9
  <1>11. index' = 0 => AtRest'
    BY <1>2, <1>5, <1>6, <1>10, <1>3 DEF AtRest, WorkingOf, Operation
  <1>12. DurationOf(req'.op) \in Nat
    BY <1>3, <1>6, IntervalsAreLongEnough
  <1>13. machine_state' # MS_BUG /\ ~exited' /\ rc' = 0
    BY <1>2, <1>3 DEF ExecInv, DriverKnowsDevice
  <1>14. DriverKnowsDevice'
    <2>1. ~BeforeDeadline' /\ deadline' = 0
      BY <1>2, <1>5
    <2>2. QED
      BY <1>3, <1>10, <1>11, <1>12, <1>13, <2>1 DEF DriverKnowsDevice
  <1>15. QED
    BY <1>2, <1>3, <1>14 DEF ExecInv

\* The end of the operation leaves the device at rest.
LEMMA OperationEndsPreserves ==
  ASSUME WholeOperations, ExecInv, OperationEnds, UNCHANGED <<driver, mirror, made>>
  PROVE  ExecInv'
  <1>1. /\ pc = "next" /\ index >= Len(instrs)
        /\ pc' = "idle" /\ rc' = 0 /\ timeout' = 0
        /\ UNCHANGED <<sleeping, req, buffer, instrs, index, done>>
        /\ UNCHANGED deviceVars
    BY DEF OperationEnds, Return, EndCall, opVars
  <1>2. /\ UNCHANGED <<machine_state, deadline, exited>>
        /\ DeviceInv'
        /\ BeforeDeadline' = BeforeDeadline
    BY <1>1, DeviceLeftAlone DEF ExecInv
  <1>3. /\ req \in Requests /\ instrs = OperationFor(req)
        /\ index \in Nat /\ index <= Len(OperationFor(req))
    BY <1>1 DEF ExecInv, CallInHand, TypeOK
  <1>4. /\ Len(OperationFor(req)) \in Nat /\ Len(OperationFor(req)) >= 4
        /\ req.op \in Operation
    BY <1>1, InstructionInHand
  <1>5. index > 2 /\ ~(index < Len(OperationFor(req)))
    BY <1>1, <1>3, <1>4
  <1>6. AtRest
    <2>1. ~BeforeDeadline /\ machine_state = WorkingOf(req.op)
      BY <1>1, <1>5 DEF ExecInv, DriverKnowsDevice
    <2>2. QED
      BY <1>4, <2>1 DEF AtRest, WorkingOf, Operation
  <1>7. TypeOK'
    BY <1>1, <1>2 DEF ExecInv, TypeOK, TesterTypeOK, DeviceInv, StepName
  <1>8. CallInHand'
    BY <1>1 DEF ExecInv, CallInHand
  <1>9. DriverKnowsDevice'
    BY <1>1, <1>2, <1>6 DEF ExecInv, DriverKnowsDevice, AtRest
  <1>10. WaitsForDeadline'
    BY <1>1 DEF ExecInv, WaitsForDeadline
  <1>11. QED
    BY <1>2, <1>7, <1>8, <1>9, <1>10 DEF ExecInv

\* Time.
LEMMA TimePreserves ==
  ASSUME ExecInv, Time
  PROVE  ExecInv'
  <1>1. /\ DeadlinePasses /\ TimersRun
        /\ UNCHANGED <<storeVars, machine_state, ioregs, loaded, exited>>
        /\ UNCHANGED <<pc, driver, req, buffer, rc, instrs, index, done, mirror, made>>
    BY DEF Time, Tick, callVars, opVars, testerVars
  <1>2. DeviceInv' /\ (BeforeDeadline' => BeforeDeadline)
    BY <1>1, DeadlinePassesPreserves DEF ExecInv
  <1>3. /\ WaitsForDeadline'
        /\ deadline \in Nat /\ deadline' \in Nat /\ deadline' <= deadline
        /\ timeout' \in Nat
        /\ sleeping' \in 0 .. PollInterval
    <2>1. deadline \in Nat /\ timeout \in Nat /\ sleeping \in 0 .. PollInterval
      BY DEF ExecInv, DeviceInv, DeviceTypeOK, ParserTypeOK, TypeOK, TesterTypeOK
    <2>2. QED
      BY <1>1, <2>1, TimeWaits DEF ExecInv
  <1>4. TypeOK'
    BY <1>1, <1>2, <1>3 DEF ExecInv, TypeOK, TesterTypeOK, DeviceInv
  <1>5. CallInHand'
    <2>1. Instruction' = Instruction
      BY <1>1 DEF Instruction
    <2>2. QED
      BY <1>1, <2>1 DEF ExecInv, CallInHand
  <1>6. DriverKnowsDevice'
    <2>1. AtRest => AtRest'
      BY <1>1, <1>2 DEF AtRest
    <2>2. pc # "idle" => DurationOf(req.op) \in Nat
      BY InstructionInHand, IntervalsAreLongEnough
    <2>3. pc # "idle" /\ pc \in {"next", "wait"} => deadline' <= DurationOf(req.op)
      BY <1>3, <2>2 DEF ExecInv, DriverKnowsDevice
    <2>4. Instruction' = Instruction
      BY <1>1 DEF Instruction
    <2>5. QED
      BY <1>1, <1>2, <2>1, <2>3, <2>4 DEF ExecInv, DriverKnowsDevice
  <1>7. QED
    BY <1>2, <1>3, <1>4, <1>5, <1>6 DEF ExecInv

\* One step of the tracee, whichever it is.
LEMMA TraceePreserves ==
  ASSUME WholeOperations, ExecInv, Tracee
  PROVE  ExecInv'
  <1>1. UNCHANGED <<driver, mirror, made>>
    BY DEF Tracee, testerVars
  <1>2. CASE Dispatch \/ SendCommand \/ SendAddress \/ ProgramByte \/ ReadByte
               \/ InstructionEnds
    <2>1. Inside
      BY <1>1, <1>2
      DEF Inside, Dispatch, SendCommand, SendAddress, ProgramByte, ReadByte,
          InstructionEnds, GoOn, Transferring, callVars, opVars
    <2>2. QED
      BY <1>2, <2>1, DispatchPreserves, SendCommandPreserves, SendAddressPreserves,
         DataPreserves, InstructionEndsPreserves
  <1>3. CASE /\ pc \in Waiting
             /\ WaitStep(Instruction.timeout, FALSE)
             /\ UNCHANGED <<callVars, deviceVars>>
    <2>1. Inside
      BY <1>1, <1>3 DEF Inside, callVars, opVars
    <2>2. QED
      BY <1>3, <2>1, WaitPreserves
  <1>4. CASE OperationEnds
    BY <1>1, <1>4, OperationEndsPreserves
  <1>5. ~GiveUp
    BY DEF GiveUp, ExecInv, TypeOK, StepName
  <1>6. QED
    BY <1>2, <1>3, <1>4, <1>5 DEF Tracee, CallStep

\* A step that changes nothing.
LEMMA StutteringPreserves ==
  ASSUME ExecInv, UNCHANGED vars
  PROVE  ExecInv'
  <1>1. /\ UNCHANGED <<pc, timeout, sleeping, driver, req, buffer, rc, instrs, index,
                       done, mirror, made, machine_state, deadline, exited>>
        /\ DeviceInv'
        /\ BeforeDeadline' = BeforeDeadline
    BY DeviceLeftAlone DEF vars, waitVars, callVars, opVars, testerVars, ExecInv
  <1>2. Instruction' = Instruction
    BY <1>1 DEF Instruction
  <1>3. TypeOK'
    BY <1>1 DEF ExecInv, TypeOK, TesterTypeOK, DeviceInv
  <1>4. CallInHand'
    BY <1>1, <1>2 DEF ExecInv, CallInHand
  <1>5. DriverKnowsDevice' /\ WaitsForDeadline'
    BY <1>1, <1>2 DEF ExecInv, DriverKnowsDevice, WaitsForDeadline, AtRest
  <1>6. QED
    BY <1>1, <1>3, <1>4, <1>5 DEF ExecInv

LEMMA InitEstablishes ==
  ASSUME Init
  PROVE  ExecInv
  <1>1. /\ DeviceInv /\ ~BeforeDeadline
        /\ machine_state = MS_INITIAL_STATE /\ exited = FALSE /\ deadline = 0
    <2>1. machine_state = MS_INITIAL_STATE /\ exited = FALSE /\ deadline = 0
      BY DEF Init, ParserInit
    <2>2. ~BeforeDeadline
      BY <2>1 DEF BeforeDeadline
    <2>3. QED
      BY <2>1, <2>2, ParserInitEstablishes DEF Init
  <1>2. /\ pc = "idle" /\ timeout = 0 /\ sleeping = 0 /\ req = NoRequest /\ rc = 0
        /\ index = 0 /\ done = 0
        /\ mirror = BlankMirror /\ made = 0 /\ driver \in Drivers
    BY DEF Init, ExecOpInit, FrameworkInit, TesterInit
  <1>3. mirror \in Mirror /\ made \in 0 .. MaxRequests
    BY <1>2, ZeroAssumption, MaxRequestsAssumption DEF BlankMirror, Mirror
  <1>4. TypeOK
    BY <1>1, <1>2, <1>3, PollIntervalAssumption
    DEF TypeOK, TesterTypeOK, DeviceInv, StepName
  <1>5. CallInHand /\ DriverKnowsDevice /\ WaitsForDeadline
    BY <1>1, <1>2 DEF CallInHand, DriverKnowsDevice, WaitsForDeadline, AtRest
  <1>6. QED
    BY <1>1, <1>4, <1>5 DEF ExecInv

-----------------------------------------------------------------------------
(* The results.                                                            *)

\* The build chooses the driver once.
LEMMA DriverIsChosenOnce ==
  ASSUME [Next]_vars
  PROVE  UNCHANGED driver
  BY DEF Next, Request, Tracee, Time, vars

\* exec_op() of foxtrot_0, and foxtrot_2's, whose index goes round, keep step with
\* the device's state machine.
THEOREM ExecInvariant == Spec => [](WholeOperations => ExecInv)
  <1>1. Init => (WholeOperations => ExecInv)
    BY InitEstablishes
  <1>2. (WholeOperations => ExecInv) /\ [Next]_vars => (WholeOperations => ExecInv)'
    <2>1. SUFFICES ASSUME WholeOperations => ExecInv, [Next]_vars, WholeOperations'
                   PROVE  ExecInv'
      OBVIOUS
    <2>2. WholeOperations /\ ExecInv
      BY <2>1, DriverIsChosenOnce DEF WholeOperations
    <2>3. QED
      BY <2>1, <2>2, RequestPreserves, TraceePreserves, TimePreserves,
         StutteringPreserves DEF Next
  <1>3. QED
    BY <1>1, <1>2, PTL DEF Spec

\* The driver is one of those to be considered.
LEMMA DriverIsConsidered == Spec => [](driver \in Drivers)
  <1>1. Init => driver \in Drivers
    BY DEF Init, ExecOpInit, FrameworkInit
  <1>2. driver \in Drivers /\ [Next]_vars => (driver \in Drivers)'
    BY DriverIsChosenOnce
  <1>3. QED
    BY <1>1, <1>2, PTL DEF Spec

\* foxtrot_0 and foxtrot_2 keep to the device's protocol for ever, the calls that
\* foxtrot_2 never returns from included: the modulus that the code gives it is
\* such that the setup command that comes round again finds the device ready.
THEOREM OperationsKeepProtocol ==
  ASSUME Drivers \subseteq {"foxtrot_0", "foxtrot_2"},
         "foxtrot_2" \in Drivers => Modulus = 8
  PROVE  Spec => []NeverABug
  <1>1. driver \in Drivers => WholeOperations
    BY DEF WholeOperations
  <1>2. WholeOperations /\ ExecInv => NeverABug
    BY DEF ExecInv, DriverKnowsDevice, NeverABug
  <1>3. QED
    BY <1>1, <1>2, ExecInvariant, DriverIsConsidered, PTL

\* Nor do they time out on a device that keeps its deadlines.
THEOREM OperationsNeverTimeOut ==
  ASSUME Drivers \subseteq {"foxtrot_0", "foxtrot_2"},
         "foxtrot_2" \in Drivers => Modulus = 8
  PROVE  Spec => []NoSpuriousTimeout
  <1>1. driver \in Drivers => WholeOperations
    BY DEF WholeOperations
  <1>2. WholeOperations /\ ExecInv => NoSpuriousTimeout
    BY DEF ExecInv, TypeOK, StepName, DriverKnowsDevice, NoSpuriousTimeout
  <1>3. QED
    BY <1>1, <1>2, ExecInvariant, DriverIsConsidered, PTL

\* A step in a call ends it after the last instruction, or goes on.
LEMMA CallEndsOrGoesOn ==
  ASSUME WholeOperations, ExecInv, Next, pc # "idle"
  PROVE  \/ /\ pc' = "idle" /\ rc' = 0
            /\ index = Len(OperationFor(req))
         \/ pc' # "idle" /\ index' \in {index, NextIndex(index)}
  <1>1. CASE Dispatch \/ SendAddress \/ ProgramByte \/ ReadByte
    <2>1. UNCHANGED index
      BY <1>1
      DEF Dispatch, SendAddress, ProgramByte, ReadByte, Transferring, callVars, opVars
    <2>2. CASE Dispatch
      <3>1. /\ pc = "next" /\ index \in Nat
            /\ index < Len(OperationFor(req))
        BY <2>2 DEF Dispatch, ExecInv, CallInHand, TypeOK
      <3>2. index = 0 \/ index = 1 \/ index >= 2
        BY <3>1
      <3>3. Instruction.type \in {"cmd", "addr", "wait", "data_in", "data_out"}
        BY <3>1, <3>2, InstructionInHand
      <3>4. QED
        BY <2>1, <2>2, <3>3 DEF Dispatch
    <2>3. CASE SendAddress \/ ProgramByte \/ ReadByte
      <3>1. pc' = pc
        BY <2>3 DEF SendAddress, ProgramByte, ReadByte, Transferring, waitVars
      <3>2. QED
        BY <2>1, <3>1
    <2>4. QED
      BY <1>1, <2>2, <2>3
  <1>2. CASE SendCommand \/ InstructionEnds
    BY <1>2 DEF SendCommand, InstructionEnds, GoOn
  <1>3. CASE /\ pc \in Waiting
             /\ WaitStep(Instruction.timeout, FALSE)
             /\ UNCHANGED <<callVars, deviceVars>>
    <2>1. UNCHANGED index
      BY <1>3 DEF callVars, opVars
    <2>2. pc' # "idle"
      BY <1>3
      DEF WaitStep, StartWait, Poll, FallAsleep, WakeUp, CheckTimeout, LastPoll,
          FirstStep, AfterBusy, AfterSleep, AfterCheck, AfterTimeout
    <2>3. QED
      BY <2>1, <2>2
  <1>4. CASE OperationEnds
    <2>1. /\ pc = "next" /\ index >= Len(instrs) /\ pc' = "idle" /\ rc' = 0
      BY <1>4 DEF OperationEnds, Return, EndCall
    <2>2. /\ instrs = OperationFor(req) /\ index \in Nat
          /\ index <= Len(OperationFor(req)) /\ Len(OperationFor(req)) \in Nat
      BY <2>1, InstructionInHand DEF ExecInv, CallInHand, TypeOK
    <2>3. QED
      BY <2>1, <2>2
  <1>5. ~GiveUp
    BY DEF GiveUp, ExecInv, TypeOK, StepName
  <1>6. ~Request
    BY DEF Request, Call, BeginCall
  <1>7. CASE Time
    BY <1>7 DEF Time, callVars, opVars
  <1>8. QED
    BY <1>1, <1>2, <1>3, <1>4, <1>5, <1>6, <1>7 DEF Next, Tracee, CallStep

\* foxtrot_0 sends the device the whole of the operation, in order.
THEOREM OperationsAreSentInOrder ==
  ASSUME Drivers \subseteq {"foxtrot_0"}
  PROVE  Spec => SendsPrefix
  <1> DEFINE Step == pc # "idle" =>
        IF pc' = "idle"
          THEN IF rc' = 0 THEN index = Len(OperationFor(req))
               ELSE pc = "timed_out" /\ Instruction.type = "wait"
          ELSE index' \in {index, index + 1}
  <1>1. /\ driver \in Drivers /\ (WholeOperations => ExecInv) /\ [Next]_vars
        => [Step]_vars
    <2>1. SUFFICES ASSUME driver \in Drivers, WholeOperations => ExecInv, Next,
                          pc # "idle"
                   PROVE  Step
      OBVIOUS
    <2>2. driver = "foxtrot_0"
      BY <2>1
    <2>3. WholeOperations /\ ExecInv /\ NextIndex(index) = index + 1
      BY <2>1, <2>2 DEF WholeOperations, NextIndex
    <2>4. QED
      BY <2>1, <2>3, CallEndsOrGoesOn
  <1> HIDE DEF Step
  <1>2. Spec => [][Step]_vars
    BY <1>1, ExecInvariant, DriverIsConsidered, PTL DEF Spec
  <1>3. QED
    BY <1>2, Zenon DEF SendsPrefix, Step

\* foxtrot_2 never comes to the end of an operation longer than its modulus, and
\* never upsets the device by beginning it again: its eighth instruction is a
\* wait that found the device ready, or a transfer after one.
THEOREM LongOperationsDoNoHarm ==
  ASSUME Modulus = 8
  PROVE  Spec => LongOperationsGoOn
  <1> DEFINE Step == driver = "foxtrot_2" /\ pc # "idle"
                       /\ Len(OperationFor(req)) > Modulus
                     => pc' # "idle" /\ machine_state' # MS_BUG
  <1>1. /\ (WholeOperations => ExecInv) /\ (WholeOperations => ExecInv)'
        /\ [Next]_vars
        => [Step]_vars
    <2>1. SUFFICES ASSUME WholeOperations => ExecInv, (WholeOperations => ExecInv)',
                          Next, driver = "foxtrot_2", pc # "idle",
                          Len(OperationFor(req)) > Modulus
                   PROVE  pc' # "idle" /\ machine_state' # MS_BUG
      OBVIOUS
    <2>2. WholeOperations /\ WholeOperations'
      BY <2>1, DriverIsChosenOnce DEF WholeOperations
    <2>3. ExecInv /\ ExecInv'
      BY <2>1, <2>2
    <2>4. /\ index \in Nat /\ index < 8 /\ Len(OperationFor(req)) \in Nat
      BY <2>1, <2>3, InstructionInHand DEF ExecInv, CallInHand, TypeOK
    <2>5. pc' # "idle"
      BY <2>1, <2>2, <2>3, <2>4, CallEndsOrGoesOn
    <2>6. machine_state' # MS_BUG
      BY <2>3 DEF ExecInv, DriverKnowsDevice
    <2>7. QED
      BY <2>5, <2>6
  <1> HIDE DEF Step
  <1>2. Spec => [][Step]_vars
    BY <1>1, ExecInvariant, PTL DEF Spec
  <1>3. QED
    BY <1>2, Zenon DEF LongOperationsGoOn, Step

-----------------------------------------------------------------------------
(* Where the device's cursor is.                                           *)

\* The storage offset at which the j-th page of a transfer begins.
PageOffset(r, j) == r.offset + PageBegins(r, j)

\* The cursor is at the place that the instruction in hand is for: the addresses
\* given so far, then page after page, to which the device has gone by itself.
CursorInPlace ==
  /\ pc # "idle" /\ index = 1 =>
       /\ done >= 1 => cursor.block = BlockOf(req.offset)
       /\ done >= 2 => cursor.page = PageOf(req.offset)
       /\ done >= 3 => cursor.byte = ByteOf(req.offset)
  /\ pc # "idle" /\ index >= 2 /\ index < Len(OperationFor(req)) =>
       LET j == PageOfStep(index + 1)
           place == PlaceOfStep(index + 1)
           x == PageOffset(req, j)
           len == PageEnds(req, j) - PageBegins(req, j)
       IN /\ req.op = "write" =>
               /\ place # 2 => cursor.block = BlockOf(x) /\ cursor.page = PageOf(x)
               /\ place = 0 /\ done < len => cursor.byte = ByteOf(x) + done
               /\ place = 2 => cursor = CursorAt(PageOffset(req, j + 1))
          /\ req.op = "read" =>
               /\ place # 2 => cursor = CursorAt(x)
               /\ place = 2 => cursor = CursorAt(x + done)
               /\ place # 0 => cache = data_store[BlockOf(x)][PageOf(x)]

\* From page to page of a transfer: the first page begins where the transfer
\* does, the others at their first byte; the last ends within storage's page.
LEMMA PageOffsetFacts ==
  ASSUME NEW r, r.offset \in Nat, r.size \in Nat \ {0}, NEW j \in Nat
  PROVE  /\ PageOffset(r, j) \in Nat
         /\ PageOffset(r, 0) = r.offset
         /\ PageStart(PageOffset(r, j)) + Radix = PageOffset(r, j + 1)
         /\ ByteOf(PageOffset(r, j)) = IF j = 0 THEN BYTE(r.offset) ELSE 0
  <1> DEFINE b == BYTE(r.offset)
             q == r.offset \div Radix
             x == PageOffset(r, j)
             s == IF j = 0 THEN b ELSE 0
             p == q + j
  <1>1. /\ q \in Nat /\ b \in 0 .. (Radix - 1) /\ Radix \in Nat \ {0}
        /\ r.offset = Radix * q + b
    <2>1. Radix \in Nat \ {0}
      BY RadixAssumption
    <2>2. /\ q \in Nat /\ r.offset % Radix \in 0 .. (Radix - 1)
          /\ r.offset = Radix * q + (r.offset % Radix)
      BY <2>1, DivMod
    <2>3. b = r.offset % Radix
      BY DEF BYTE
    <2> HIDE DEF b, q
    <2>4. QED
      BY <2>1, <2>2, <2>3
  <1>2. PageBegins(r, j) = IF j = 0 THEN 0 ELSE j * Radix - b
    BY DEF PageBegins
  <1>3. PageBegins(r, j + 1) = (j + 1) * Radix - b
    BY DEF PageBegins
  <1>4. PageOffset(r, 0) = r.offset
    BY DEF PageOffset, PageBegins
  <1> HIDE DEF b, q
  <1>5. p \in Nat /\ s \in 0 .. (Radix - 1)
    BY <1>1
  <1>6. Radix * p = Radix * q + Radix * j /\ j * Radix = Radix * j
        /\ Radix * j \in Nat /\ Radix * q \in Nat
        /\ (j + 1) * Radix = Radix * j + Radix
    BY <1>1
  <1>7. x = Radix * p + s
    <2>1. x = r.offset + PageBegins(r, j)
      BY DEF PageOffset
    <2>2. CASE j = 0
      BY <1>1, <1>2, <1>6, <2>1, <2>2
    <2>3. CASE j # 0
      BY <1>1, <1>2, <1>6, <2>1, <2>3
    <2>4. QED
      BY <2>2, <2>3
  <1>8. PageOffset(r, j + 1) = Radix * p + Radix
    <2>1. PageOffset(r, j + 1) = r.offset + PageBegins(r, j + 1)
      BY DEF PageOffset
    <2> HIDE DEF p
    <2>2. QED
      BY <1>1, <1>3, <1>5, <1>6, <2>1
  <1> HIDE DEF p, s, x
  <1>9. x \in Nat /\ x \div Radix = p /\ x % Radix = s
    <2>1. (Radix * p + s) \div Radix = p /\ (Radix * p + s) % Radix = s
      BY <1>1, <1>5, DivModUnique
    <2>2. x \in Nat
      BY <1>1, <1>5, <1>7
    <2>3. QED
      BY <1>7, <2>1, <2>2
  <1>10. PageStart(x) = Radix * p
    <2>1. p * Radix = Radix * p
      BY <1>1, <1>5
    <2>2. QED
      BY <1>9, <2>1 DEF PageStart
  <1>11. ByteOf(x) = s
    BY <1>9 DEF ByteOf
  <1>12. QED
    BY <1>4, <1>8, <1>9, <1>10, <1>11 DEF x, s, b

\* A page's bytes end where the next page begins, or before it if they are the
\* last.
LEMMA PageLength ==
  ASSUME NEW r, r.offset \in Nat, r.size \in Nat \ {0},
         NEW j \in 0 .. (PagesOf(r) - 1)
  PROVE  LET x == PageOffset(r, j)
             len == PageEnds(r, j) - PageBegins(r, j)
         IN /\ len \in 1 .. Radix
            /\ ByteOf(x) \in Nat
            /\ ByteOf(x) + len <= Radix
            /\ j + 1 < PagesOf(r) => x + len = PageOffset(r, j + 1)
  <1> DEFINE x == PageOffset(r, j)
             b == PageBegins(r, j)
             e == PageEnds(r, j)
  <1>1. PagesOf(r) \in Nat \ {0} /\ j \in Nat
    BY PagesCoverTransfer
  <1>2. /\ b \in Nat /\ e \in Nat /\ e - b \in 1 .. Radix
        /\ j = 0 => b = 0 /\ e <= Radix - BYTE(r.offset)
    BY PageRange
  <1>3. ByteOf(x) = IF j = 0 THEN BYTE(r.offset) ELSE 0
    BY <1>1, PageOffsetFacts
  <1>4. BYTE(r.offset) \in 0 .. (Radix - 1) /\ Radix \in Nat
    BY LengthFits, RadixAssumption
  <1>5. j + 1 < PagesOf(r) => e = PageBegins(r, j + 1)
    BY <1>1 DEF PageEnds
  <1>6. PageBegins(r, j + 1) \in Nat
    BY <1>1, PagesCoverTransfer
  <1>7. x = r.offset + b /\ PageOffset(r, j + 1) = r.offset + PageBegins(r, j + 1)
    BY DEF PageOffset
  <1> HIDE DEF x, b, e
  <1>8. ByteOf(x) \in Nat /\ ByteOf(x) + (e - b) <= Radix
    BY <1>2, <1>3, <1>4
  <1>9. j + 1 < PagesOf(r) => x + (e - b) = PageOffset(r, j + 1)
    BY <1>2, <1>5, <1>6, <1>7
  <1>10. QED
    BY <1>2, <1>8, <1>9 DEF x, b, e

\* An instruction's page and its place there, and the next one's.
LEMMA NextStep ==
  ASSUME NEW k \in Nat, k >= 3
  PROVE  /\ PageOfStep(k) \in Nat /\ PlaceOfStep(k) \in 0 .. 2
         /\ PageOfStep(3) = 0 /\ PlaceOfStep(3) = 0
         /\ PlaceOfStep(k) # 2 => /\ PageOfStep(k + 1) = PageOfStep(k)
                                  /\ PlaceOfStep(k + 1) = PlaceOfStep(k) + 1
         /\ PlaceOfStep(k) = 2 => /\ PageOfStep(k + 1) = PageOfStep(k) + 1
                                  /\ PlaceOfStep(k + 1) = 0
  <1> DEFINE m == k - 3
  <1>1. m \in Nat /\ (k + 1) - 3 = m + 1
    OBVIOUS
  <1>2. PageOfStep(k) = m \div 3 /\ PlaceOfStep(k) = m % 3
    BY DEF PageOfStep, PlaceOfStep
  <1>3. PageOfStep(k + 1) = (m + 1) \div 3 /\ PlaceOfStep(k + 1) = (m + 1) % 3
    BY <1>1 DEF PageOfStep, PlaceOfStep
  <1>4. PageOfStep(3) = 0 /\ PlaceOfStep(3) = 0
    BY DEF PageOfStep, PlaceOfStep
  <1> HIDE DEF m
  <1>5. /\ m \div 3 \in Nat /\ m % 3 \in 0 .. 2
        /\ m % 3 # 2 => (m + 1) \div 3 = m \div 3 /\ (m + 1) % 3 = (m % 3) + 1
        /\ m % 3 = 2 => (m + 1) \div 3 = m \div 3 + 1 /\ (m + 1) % 3 = 0
    BY <1>1
  <1>6. QED
    BY <1>2, <1>3, <1>4, <1>5

\* The kind of an instruction goes with its place in its page.
LEMMA StepKinds ==
  ASSUME NEW r, r.op \in {"write", "read"}, r.offset \in Nat, r.size \in Nat \ {0},
         NEW k \in 3 .. Len(OperationFor(r))
  PROVE  LET j == PageOfStep(k)
             place == PlaceOfStep(k)
             i == OperationFor(r)[k]
         IN /\ j \in 0 .. (PagesOf(r) - 1)
            /\ k < Len(OperationFor(r)) /\ place = 2 => j + 1 < PagesOf(r)
            /\ i.type = "cmd" <=> place = IF r.op = "write" THEN 1 ELSE 0
            /\ i.type = "wait" <=> place = IF r.op = "write" THEN 2 ELSE 1
            /\ i.type = "data_in" <=> r.op = "write" /\ place = 0
            /\ i.type = "data_out" <=> r.op = "read" /\ place = 2
            /\ i.type \in {"data_in", "data_out"} =>
                 /\ i.at = PageBegins(r, j)
                 /\ i.len = PageEnds(r, j) - PageBegins(r, j)
  <1> DEFINE j == PageOfStep(k)
             place == PlaceOfStep(k)
             p == PagesOf(r)
             op == OperationFor(r)
             at == PageBegins(r, j)
             len == PageEnds(r, j) - PageBegins(r, j)
             i == op[k]
  <1>1. /\ j \in 0 .. (p - 1) /\ place \in 0 .. 2 /\ k = 3 * j + place + 3
        /\ Len(op) = 2 + 3 * p
        /\ i = PageInstructions(r.op, at, len)[place + 1]
    BY StepsOfTransfer
  <1>2. p \in Nat \ {0}
    BY PagesCoverTransfer
  <1> HIDE DEF j, place, p, op, at, len, i
  <1>3. k < Len(op) /\ place = 2 => j + 1 < p
    BY <1>1, <1>2
  <1>4. /\ r.op = "write" => /\ place = 0 => i = DataIn(at, len)
                             /\ place = 1 => i = Cmd(ExecuteCommand(r.op))
                             /\ place = 2 => i = WaitRdy(WaitInterval(r.op))
        /\ r.op = "read" => /\ place = 0 => i = Cmd(ExecuteCommand(r.op))
                            /\ place = 1 => i = WaitRdy(WaitInterval(r.op))
                            /\ place = 2 => i = DataOut(at, len)
    BY <1>1 DEF PageInstructions
  <1>5. place = 0 \/ place = 1 \/ place = 2
    BY <1>1
  <1>6. /\ i.type = "cmd" <=> place = IF r.op = "write" THEN 1 ELSE 0
        /\ i.type = "wait" <=> place = IF r.op = "write" THEN 2 ELSE 1
        /\ i.type = "data_in" <=> r.op = "write" /\ place = 0
        /\ i.type = "data_out" <=> r.op = "read" /\ place = 2
        /\ i.type \in {"data_in", "data_out"} => i.at = at /\ i.len = len
    <2>1. CASE r.op = "write"
      BY <1>4, <1>5, <2>1 DEF DataIn, Cmd, WaitRdy
    <2>2. CASE r.op = "read"
      BY <1>4, <1>5, <2>2 DEF DataOut, Cmd, WaitRdy
    <2>3. QED
      BY <2>1, <2>2
  <1>7. QED
    BY <1>1, <1>3, <1>6 DEF j, place, p, op, at, len, i

\* The instruction in hand by its place, when it is one of a transfer's.
LEMMA TransferInHand ==
  ASSUME ExecInv, pc # "idle", index >= 2, index < Len(OperationFor(req)),
         req.op # "erase"
  PROVE  LET k == index + 1
             j == PageOfStep(k)
             place == PlaceOfStep(k)
         IN /\ req.offset \in Nat /\ req.size \in Nat \ {0}
            /\ req.op \in {"write", "read"}
            /\ k \in Nat /\ k >= 3
            /\ j \in 0 .. (PagesOf(req) - 1)
            /\ k < Len(OperationFor(req)) /\ place = 2 => j + 1 < PagesOf(req)
            /\ Instruction.type = "cmd" <=> place = IF req.op = "write" THEN 1 ELSE 0
            /\ Instruction.type = "wait" <=> place = IF req.op = "write" THEN 2 ELSE 1
            /\ Instruction.type = "data_in" <=> req.op = "write" /\ place = 0
            /\ Instruction.type = "data_out" <=> req.op = "read" /\ place = 2
            /\ Instruction.type \in {"data_in", "data_out"} =>
                 /\ Instruction.at = PageBegins(req, j)
                 /\ Instruction.len = PageEnds(req, j) - PageBegins(req, j)
  <1>1. req \in Requests /\ index \in Nat
    BY DEF ExecInv, CallInHand, TypeOK
  <1>2. /\ req.op \in Operation /\ req.offset \in Nat /\ req.size \in Nat \ {0}
        /\ Len(OperationFor(req)) \in Nat
        /\ Instruction = OperationFor(req)[index + 1]
    BY <1>1, RequestFacts, InstructionInHand
  <1>3. req.op \in {"write", "read"}
    BY <1>2 DEF Operation
  <1> DEFINE k == index + 1
  <1>4. k \in Nat /\ k >= 3 /\ k \in 3 .. Len(OperationFor(req))
        /\ Instruction = OperationFor(req)[k]
    BY <1>1, <1>2
  <1> HIDE DEF k
  <1>5. QED
    BY <1>2, <1>3, <1>4, StepKinds DEF k

\* A step that leaves the device's storage, the request and the place in the
\* operation alone.
LEMMA QuietStepKeeps ==
  ASSUME CursorInPlace, pc = "idle" => pc' = "idle",
         UNCHANGED <<cursor, cache, data_store, req, index, done>>
  PROVE  CursorInPlace'
  BY DEF CursorInPlace

LEMMA SendCommandKeeps ==
  ASSUME WholeOperations, ExecInv, CursorInPlace, SendCommand, Inside
  PROVE  CursorInPlace'
  <1>1. pc = "cmd" /\ GoOn /\ StoreCommand(Instruction.opcode)
    BY DEF SendCommand
  <1>2. /\ req \in Requests /\ index \in Nat /\ index < Len(OperationFor(req))
        /\ Instruction.type = "cmd"
    BY <1>1 DEF ExecInv, CallInHand, TypeOK
  <1>3. /\ pc' = "next" /\ done' = 0 /\ UNCHANGED <<req, instrs>>
        /\ index' = index + 1 \/ index' = 0
    <2>1. DeviceInv'
      BY SendCommandPreserves DEF ExecInv
    <2>2. QED
      BY <1>1, <2>1, GoOnKeepsCall
  <1>4. CASE index = 0 \/ index' = 0
    <2>1. index' = 0 \/ index' = 1
      BY <1>3, <1>4
    <2>2. QED
      BY <1>3, <2>1 DEF CursorInPlace
  <1>5. CASE index # 0 /\ index' = index + 1
    <2>1. index >= 2
      <3>1. index # 1
        BY <1>1, <1>2, InstructionInHand
      <3>2. QED
        BY <1>2, <1>5, <3>1
    <2>2. CASE req.op = "erase"
      BY <1>3, <1>5, <2>1, <2>2 DEF CursorInPlace
    <2>3. CASE req.op # "erase"
      <3> DEFINE k == index + 1
                 j == PageOfStep(k)
                 x == PageOffset(req, j)
      <3>1. /\ req.offset \in Nat /\ req.size \in Nat \ {0}
            /\ req.op \in {"write", "read"} /\ k \in Nat /\ k >= 3
            /\ j \in 0 .. (PagesOf(req) - 1)
            /\ PlaceOfStep(k) = IF req.op = "write" THEN 1 ELSE 0
        BY <1>1, <1>2, <2>1, <2>3, TransferInHand
      <3>2. PagesOf(req) \in Nat \ {0} /\ j \in Nat
        BY <3>1, PagesCoverTransfer
      <3> HIDE DEF k
      <3>3. PageOfStep(k + 1) = j /\ PlaceOfStep(k + 1) = PlaceOfStep(k) + 1
        BY <3>1, NextStep
      <3>4. ~BeforeDeadline /\ machine_state \in {AddressedOf(req.op), WorkingOf(req.op)}
        BY <1>1, <1>2, <2>1 DEF ExecInv, DriverKnowsDevice
      <3>5. StoreCommand(ExecuteCommand(req.op)) /\ req.op \in Operation
        BY <1>1, <1>2, <2>1, InstructionInHand
      <3>6. /\ req.op = "read" =>
                 /\ cache' = PageAt(cursor)
                 /\ UNCHANGED <<cursor, data_store>>
            /\ req.op = "write" => cursor' = NextPage(cursor)
        BY <3>4, <3>5, ExecuteIsAccepted DEF ExecInv
      <3> HIDE DEF j
      <3>7. x \in Nat /\ PageStart(x) + Radix = PageOffset(req, j + 1)
        BY <3>1, <3>2, PageOffsetFacts
      <3>8. CASE req.op = "write"
        <4>1. cursor.block = BlockOf(x) /\ cursor.page = PageOf(x)
          BY <1>1, <1>2, <2>1, <3>1, <3>8 DEF CursorInPlace, j, k
        <4> HIDE DEF x
        <4>2. cursor' = CursorAt(PageOffset(req, j + 1))
          BY <3>6, <3>7, <3>8, <4>1, NextPageIsNext
        <4>3. PageOfStep(index' + 1) = j /\ PlaceOfStep(index' + 1) = 2
          BY <1>5, <3>1, <3>3, <3>8 DEF k
        <4>4. QED
          BY <1>3, <1>5, <2>1, <3>8, <4>2, <4>3 DEF CursorInPlace
      <3>9. CASE req.op = "read"
        <4>1. cursor = CursorAt(x)
          BY <1>1, <1>2, <2>1, <3>1, <3>9 DEF CursorInPlace, j, k
        <4>2. cursor' = CursorAt(x) /\ cache' = data_store'[BlockOf(x)][PageOf(x)]
          BY <3>6, <3>9, <4>1 DEF CursorAt, PageAt
        <4>3. PageOfStep(index' + 1) = j /\ PlaceOfStep(index' + 1) = 1
          BY <1>5, <3>1, <3>3, <3>9 DEF k
        <4>4. QED
          BY <1>3, <1>5, <2>1, <3>9, <4>2, <4>3 DEF CursorInPlace
      <3>10. QED
        BY <3>1, <3>8, <3>9
    <2>4. QED
      BY <2>2, <2>3
  <1>6. QED
    BY <1>3, <1>4, <1>5

LEMMA SendAddressKeeps ==
  ASSUME ExecInv, CursorInPlace, SendAddress, Inside
  PROVE  CursorInPlace'
  <1> DEFINE d == Instruction.addrs[done + 1]
             o == req.offset
  <1>1. /\ pc = "addr" /\ done < Len(Instruction.addrs) /\ StoreAddress(d)
        /\ done' = done + 1 /\ UNCHANGED <<pc, index, req>>
    BY DEF SendAddress, Transferring, waitVars, Inside
  <1>2. /\ req \in Requests /\ index \in Nat /\ done \in Nat
        /\ index < Len(OperationFor(req)) /\ Instruction.type = "addr"
    BY <1>1 DEF ExecInv, CallInHand, TypeOK
  <1>3. req.op \in Operation /\ o \in Nat
    BY <1>1, <1>2, RequestFacts, InstructionInHand
  <1>4. index = 1 /\ Instruction.addrs = AddressesOf(req)
    <2>1. index # 0 /\ ~(index >= 2)
      BY <1>1, <1>2, InstructionInHand
    <2>2. index = 1
      BY <1>2, <2>1
    <2>3. QED
      BY <1>1, <2>2, InstructionInHand
  <1>5. /\ AddressesOf(req) \in Seq(Digit)
        /\ Len(AddressesOf(req)) = IF req.op = "erase" THEN 1 ELSE 3
        /\ AddressesOf(req)[1] = BlockOf(o)
        /\ req.op # "erase" => /\ AddressesOf(req)[2] = PageOf(o)
                               /\ AddressesOf(req)[3] = ByteOf(o)
    BY <1>3, AddressesFit
  <1>6. d \in Digit
    BY <1>1, <1>2, <1>4, <1>5
  <1>7. d = CASE done = 0 -> BlockOf(o) [] done = 1 -> PageOf(o) [] OTHER -> ByteOf(o)
    BY <1>1, <1>2, <1>4, <1>5
  <1> HIDE DEF d, o
  <1>8. machine_state = AddressStateOf(req.op, done)
    BY <1>1, <1>4 DEF ExecInv, DriverKnowsDevice
  <1>9. cursor \in Cursor
    BY DEF ExecInv, DeviceInv, DeviceTypeOK, StoreTypeOK
  <1>10. /\ done >= 1 => cursor.block = BlockOf(o)
         /\ done >= 2 => cursor.page = PageOf(o)
    BY <1>1, <1>4 DEF CursorInPlace, o
  <1>11. CASE done = 0
    <2>1. cursor' = [cursor EXCEPT !.block = d]
      BY <1>1, <1>3, <1>6, <1>8, <1>11, BlockAddressIsAccepted DEF ExecInv, AddressStateOf
    <2>2. cursor'.block = BlockOf(o)
      BY <1>7, <1>9, <1>11, <2>1 DEF Cursor
    <2>3. QED
      BY <1>1, <1>4, <1>11, <2>2 DEF CursorInPlace, o
  <1>12. CASE done = 1
    <2>1. req.op # "erase" /\ machine_state = AwaitingPageOf(req.op)
      BY <1>1, <1>4, <1>5, <1>8, <1>12 DEF AddressStateOf
    <2>2. cursor' = [cursor EXCEPT !.page = d]
      BY <1>1, <1>3, <1>6, <2>1, PageAddressIsAccepted DEF ExecInv
    <2>3. cursor'.block = BlockOf(o) /\ cursor'.page = PageOf(o)
      BY <1>7, <1>9, <1>10, <1>12, <2>2 DEF Cursor
    <2>4. QED
      BY <1>1, <1>4, <1>12, <2>3 DEF CursorInPlace, o
  <1>13. CASE done = 2
    <2>1. req.op # "erase" /\ machine_state = AwaitingByteOf(req.op)
      BY <1>1, <1>4, <1>5, <1>8, <1>13 DEF AddressStateOf
    <2>2. cursor' = [cursor EXCEPT !.byte = d]
      BY <1>1, <1>3, <1>6, <2>1, ByteAddressIsAccepted DEF ExecInv
    <2>3. /\ cursor'.block = BlockOf(o) /\ cursor'.page = PageOf(o)
          /\ cursor'.byte = ByteOf(o)
      BY <1>7, <1>9, <1>10, <1>13, <2>2 DEF Cursor
    <2>4. QED
      BY <1>1, <1>4, <1>13, <2>3 DEF CursorInPlace, o
  <1>14. QED
    BY <1>1, <1>2, <1>4, <1>5, <1>11, <1>12, <1>13

\* Within a page the device's cursor goes from byte to byte.
LEMMA ProgramByteKeeps ==
  ASSUME ExecInv, CursorInPlace, ProgramByte, Inside
  PROVE  CursorInPlace'
  <1> DEFINE v == req.data[Instruction.at + done]
             k == index + 1
             j == PageOfStep(k)
             x == PageOffset(req, j)
             len == PageEnds(req, j) - PageBegins(req, j)
  <1>1. /\ pc = "data_in" /\ done < Instruction.len /\ StoreData(v)
        /\ done' = done + 1 /\ UNCHANGED <<pc, index, req>>
    BY DEF ProgramByte, Transferring, waitVars, Inside
  <1>2. /\ req \in Requests /\ index \in Nat /\ done \in Nat
        /\ index < Len(OperationFor(req)) /\ Instruction.type = "data_in"
    BY <1>1 DEF ExecInv, CallInHand, TypeOK
  <1>3. index >= 2 /\ req.op = "write"
    <2>1. index # 0 /\ index # 1
      BY <1>1, <1>2, InstructionInHand
    <2>2. index >= 2
      BY <1>2, <2>1
    <2>3. QED
      BY <1>1, <1>2, <2>2, InstructionInHand
  <1>4. /\ req.offset \in Nat /\ req.size \in Nat \ {0} /\ k \in Nat /\ k >= 3
        /\ j \in 0 .. (PagesOf(req) - 1)
        /\ PlaceOfStep(k) = 0
        /\ Instruction.at = PageBegins(req, j) /\ Instruction.len = len
    BY <1>1, <1>2, <1>3, TransferInHand
  <1> HIDE DEF k
  <1>5. len \in 1 .. Radix /\ ByteOf(x) \in Nat /\ ByteOf(x) + len <= Radix
    BY <1>4, PageLength
  <1>6. /\ cursor.block = BlockOf(x) /\ cursor.page = PageOf(x)
        /\ cursor.byte = ByteOf(x) + done
    BY <1>1, <1>2, <1>3, <1>4 DEF CursorInPlace, k
  <1>7. machine_state = MS_PROGRAM_ACCEPTING_DATA /\ ~BeforeDeadline
    <2>1. index = 2 \/ index > 2
      BY <1>2, <1>3
    <2>2. QED
      BY <1>1, <1>3, <2>1 DEF ExecInv, DriverKnowsDevice, AddressedOf, WorkingOf
  <1>8. v \in Byte
    <2>1. /\ Instruction.at \in Nat /\ Instruction.len \in 1 .. Radix
          /\ Instruction.at + Instruction.len <= req.size
      BY <1>1, <1>2, <1>3, InstructionInHand
    <2>2. Instruction.at + done \in 0 .. (req.size - 1)
      BY <1>1, <1>2, <1>4, <2>1, RadixAssumption
    <2>3. QED
      BY <1>2, <1>3, <2>2, RequestFacts
  <1> HIDE DEF v
  <1>9. cursor' = [cursor EXCEPT !.byte = Successor(@)]
    BY <1>1, <1>7, <1>8, DataInIsAccepted DEF ExecInv
  <1>10. cursor \in Cursor
    BY DEF ExecInv, DeviceInv, DeviceTypeOK, StoreTypeOK
  <1>11. /\ cursor'.block = cursor.block /\ cursor'.page = cursor.page
         /\ cursor'.byte = Successor(cursor.byte)
    BY <1>9, <1>10 DEF Cursor
  <1> HIDE DEF j
  <1>12. done + 1 < len => cursor'.byte = ByteOf(x) + (done + 1)
    <2> HIDE DEF x, len
    <2>1. done + 1 < len => cursor.byte + 1 < Radix
      BY <1>2, <1>5, <1>6, RadixAssumption
    <2>2. QED
      BY <1>2, <1>5, <1>6, <1>11, <2>1 DEF Successor
  <1>13. /\ index' = index /\ req' = req /\ done' = done + 1
         /\ index # 1
    BY <1>1, <1>2, <1>3
  <1>14. PageOfStep(index' + 1) = j /\ PlaceOfStep(index' + 1) = 0
    BY <1>4, <1>13 DEF k, j
  <1>15. QED
    BY <1>3, <1>6, <1>11, <1>12, <1>13, <1>14 DEF CursorInPlace

LEMMA ReadByteKeeps ==
  ASSUME ExecInv, CursorInPlace, ReadByte, Inside
  PROVE  CursorInPlace'
  <1> DEFINE k == index + 1
             j == PageOfStep(k)
             x == PageOffset(req, j)
  <1>1. /\ pc = "data_out" /\ done < Instruction.len /\ LoadData(TRUE)
        /\ done' = done + 1 /\ UNCHANGED <<pc, index, req>>
    BY DEF ReadByte, Transferring, waitVars, Inside
  <1>2. /\ req \in Requests /\ index \in Nat /\ done \in Nat
        /\ index < Len(OperationFor(req)) /\ Instruction.type = "data_out"
    BY <1>1 DEF ExecInv, CallInHand, TypeOK
  <1>3. index > 2 /\ req.op = "read"
    <2>1. index # 0 /\ index # 1
      BY <1>1, <1>2, InstructionInHand
    <2>2. index >= 2
      BY <1>2, <2>1
    <2>3. QED
      BY <1>1, <1>2, <2>2, InstructionInHand
  <1>4. /\ req.offset \in Nat /\ req.size \in Nat \ {0} /\ k \in Nat
        /\ j \in 0 .. (PagesOf(req) - 1) /\ PlaceOfStep(k) = 2
    BY <1>1, <1>2, <1>3, TransferInHand
  <1> HIDE DEF k
  <1>5. x \in Nat
    <2>1. PagesOf(req) \in Nat \ {0} /\ j \in Nat
      BY <1>4, PagesCoverTransfer
    <2> HIDE DEF j
    <2>2. QED
      BY <1>4, <2>1, PageOffsetFacts
  <1>6. cursor = CursorAt(x + done) /\ cache = data_store[BlockOf(x)][PageOf(x)]
    BY <1>1, <1>2, <1>3, <1>4 DEF CursorInPlace, k
  <1>7. machine_state = MS_READ_PROVIDING_DATA /\ ~BeforeDeadline
    BY <1>1, <1>3 DEF ExecInv, DriverKnowsDevice, WorkingOf
  <1>8. cursor' = NextByte(cursor) /\ UNCHANGED <<cache, data_store>>
    BY <1>1, <1>7, DataOutIsProvided DEF ExecInv
  <1> HIDE DEF j
  <1>9. cursor' = CursorAt(x + (done + 1))
    <2> HIDE DEF x
    <2>1. x + done \in Nat /\ (x + done) + 1 = x + (done + 1)
      BY <1>2, <1>5
    <2>2. NextByte(CursorAt(x + done)) = CursorAt((x + done) + 1)
      BY <2>1, NextByteIsNext
    <2>3. QED
      BY <1>6, <1>8, <2>1, <2>2
  <1>10. index' = index /\ req' = req /\ done' = done + 1 /\ index # 1
    BY <1>1, <1>2, <1>3
  <1>11. PageOfStep(index' + 1) = j /\ PlaceOfStep(index' + 1) = 2
    BY <1>4, <1>10 DEF k, j
  <1>12. QED
    BY <1>3, <1>6, <1>8, <1>9, <1>10, <1>11 DEF CursorInPlace

\* Between the instructions of a page the cursor stays where it is, and from one
\* page to the next it is where the device has gone.
LEMMA InstructionEndsKeeps ==
  ASSUME WholeOperations, ExecInv, CursorInPlace, InstructionEnds, Inside
  PROVE  CursorInPlace'
  <1>1. /\ pc \in {"addr", "data_in", "data_out", "ready"}
        /\ pc = "addr" => done = Len(Instruction.addrs)
        /\ pc \in {"data_in", "data_out"} => done = Instruction.len
        /\ GoOn /\ UNCHANGED <<cursor, cache, data_store>>
    BY DEF InstructionEnds, deviceVars, storeVars
  <1>2. /\ req \in Requests /\ index \in Nat /\ index < Len(OperationFor(req))
        /\ Instruction.type = IF pc = "ready" THEN "wait" ELSE pc
        /\ Len(OperationFor(req)) \in Nat
    BY <1>1, InstructionInHand DEF ExecInv, CallInHand, TypeOK
  <1>3. /\ pc' = "next" /\ done' = 0 /\ UNCHANGED req
        /\ index' = index + 1 \/ index' = 0
    <2>1. DeviceInv'
      BY InstructionEndsPreserves DEF ExecInv
    <2>2. QED
      BY <1>1, <2>1, GoOnKeepsCall
  <1>4. index # 0
    BY <1>1, <1>2, InstructionInHand
  <1>5. CASE index' = 0
    BY <1>5 DEF CursorInPlace
  <1>6. CASE index' = index + 1 /\ req.op = "erase"
    BY <1>2, <1>3, <1>4, <1>6 DEF CursorInPlace
  <1>7. CASE index' = index + 1 /\ index = 1 /\ req.op # "erase"
    <2> DEFINE o == req.offset
    <2>1. o \in Nat /\ req.size \in Nat \ {0}
      BY <1>2, RequestFacts
    <2>2. Instruction.type = "addr" /\ Instruction.addrs = AddressesOf(req)
      BY <1>1, <1>7, InstructionInHand
    <2>3. done = 3
      BY <1>1, <1>2, <1>7, <2>1, <2>2, AddressesFit
    <2>4. /\ cursor.block = BlockOf(o) /\ cursor.page = PageOf(o)
          /\ cursor.byte = ByteOf(o)
      BY <1>1, <1>7, <2>3 DEF CursorInPlace
    <2>5. cursor \in Cursor
      BY DEF ExecInv, DeviceInv, DeviceTypeOK, StoreTypeOK
    <2>6. cursor = CursorAt(o)
      BY <2>4, <2>5 DEF Cursor, CursorAt
    <2>7. PageOffset(req, 0) = o
      BY <2>1 DEF PageOffset, PageBegins
    <2>8. /\ index' + 1 = 3 /\ PageOfStep(3) = 0 /\ PlaceOfStep(3) = 0
          /\ index' # 1
      BY <1>7 DEF PageOfStep, PlaceOfStep
    <2> HIDE DEF o
    <2>9. ByteOf(o) + 0 = ByteOf(o)
      BY <2>1, DigitsOfOffset DEF Digit
    <2>10. QED
      BY <1>1, <1>3, <2>4, <2>6, <2>7, <2>8, <2>9 DEF CursorInPlace
  <1>8. CASE index' = index + 1 /\ index >= 2 /\ index' < Len(OperationFor(req))
               /\ req.op # "erase"
    <2> DEFINE k == index + 1
               j == PageOfStep(k)
               x == PageOffset(req, j)
               y == PageOffset(req, j + 1)
               len == PageEnds(req, j) - PageBegins(req, j)
    <2>1. /\ req.offset \in Nat /\ req.size \in Nat \ {0}
          /\ req.op \in {"write", "read"} /\ k \in Nat /\ k >= 3
          /\ j \in 0 .. (PagesOf(req) - 1)
          /\ PlaceOfStep(k) = 2 => j + 1 < PagesOf(req)
          /\ pc = "ready" <=> PlaceOfStep(k) = IF req.op = "write" THEN 2 ELSE 1
          /\ pc = "data_in" <=> req.op = "write" /\ PlaceOfStep(k) = 0
          /\ pc = "data_out" <=> req.op = "read" /\ PlaceOfStep(k) = 2
          /\ pc = "data_out" => done = len
      BY <1>1, <1>2, <1>8, TransferInHand
    <2>2. /\ index' + 1 = k + 1 /\ index' # 1 /\ index' >= 2
      BY <1>2, <1>8
    <2> HIDE DEF k
    <2>3. PagesOf(req) \in Nat \ {0} /\ j \in Nat
      BY <2>1, PagesCoverTransfer
    <2>4. /\ PlaceOfStep(k) \in 0 .. 2
          /\ PlaceOfStep(k) # 2 => /\ PageOfStep(k + 1) = j
                                   /\ PlaceOfStep(k + 1) = PlaceOfStep(k) + 1
          /\ PlaceOfStep(k) = 2 => PageOfStep(k + 1) = j + 1 /\ PlaceOfStep(k + 1) = 0
      BY <2>1, NextStep
    <2>5. j + 1 < PagesOf(req) => x + len = y
      BY <2>1, PageLength
    <2> HIDE DEF j
    <2>6. x \in Nat /\ y \in Nat
      BY <2>1, <2>3, PageOffsetFacts
    <2> HIDE DEF x, y, len
    <2>7. CASE req.op = "write" /\ PlaceOfStep(k) = 0
      <3>1. cursor.block = BlockOf(x) /\ cursor.page = PageOf(x)
        BY <1>1, <1>2, <1>8, <2>7 DEF CursorInPlace, x, j, k
      <3>2. PageOfStep(index' + 1) = j /\ PlaceOfStep(index' + 1) = 1
        BY <2>2, <2>4, <2>7
      <3>3. QED
        BY <1>1, <1>3, <2>2, <2>7, <3>1, <3>2 DEF CursorInPlace, x
    <2>8. CASE req.op = "write" /\ PlaceOfStep(k) = 2
      <3>1. cursor = CursorAt(y)
        BY <1>1, <1>2, <1>8, <2>8 DEF CursorInPlace, y, j, k
      <3>2. PageOfStep(index' + 1) = j + 1 /\ PlaceOfStep(index' + 1) = 0
        BY <2>2, <2>4, <2>8
      <3>3. ByteOf(y) + 0 = ByteOf(y)
        BY <2>6, DigitsOfOffset DEF Digit
      <3>4. /\ cursor'.block = BlockOf(y) /\ cursor'.page = PageOf(y)
            /\ cursor'.byte = ByteOf(y) + done'
        BY <1>1, <1>3, <3>1, <3>3 DEF CursorAt
      <3>5. QED
        BY <1>3, <2>2, <2>8, <3>2, <3>4 DEF CursorInPlace, y
    <2>9. CASE req.op = "read" /\ PlaceOfStep(k) = 1
      <3>1. cursor = CursorAt(x) /\ cache = data_store[BlockOf(x)][PageOf(x)]
        BY <1>1, <1>2, <1>8, <2>9 DEF CursorInPlace, x, j, k
      <3>2. PageOfStep(index' + 1) = j /\ PlaceOfStep(index' + 1) = 2
        BY <2>2, <2>4, <2>9
      <3>3. x + done' = x
        BY <1>3, <2>6
      <3>4. QED
        BY <1>1, <1>3, <2>2, <2>9, <3>1, <3>2, <3>3 DEF CursorInPlace, x
    <2>10. CASE req.op = "read" /\ PlaceOfStep(k) = 2
      <3>1. pc = "data_out" /\ done = len /\ cursor = CursorAt(x + done)
        BY <1>1, <1>2, <1>8, <2>1, <2>10 DEF CursorInPlace, x, j, k
      <3>2. cursor = CursorAt(y)
        BY <2>1, <2>5, <2>10, <3>1
      <3>3. PageOfStep(index' + 1) = j + 1 /\ PlaceOfStep(index' + 1) = 0
        BY <2>2, <2>4, <2>10
      <3>4. QED
        BY <1>1, <1>3, <2>2, <2>10, <3>2, <3>3 DEF CursorInPlace, y
    <2>11. pc # "addr"
      BY <1>1, <1>2, <1>8, InstructionInHand
    <2>12. QED
      BY <1>1, <2>1, <2>4, <2>7, <2>8, <2>9, <2>10, <2>11
  <1>9. CASE index' = index + 1 /\ ~(index' < Len(OperationFor(req)))
    <2>1. index' # 1
      BY <1>2, <1>4, <1>9
    <2>2. QED
      BY <1>3, <1>9, <2>1 DEF CursorInPlace
  <1>10. index = 1 \/ index >= 2
    BY <1>2, <1>4
  <1>11. QED
    BY <1>3, <1>5, <1>6, <1>7, <1>8, <1>9, <1>10

\* Any step.
LEMMA StepsKeepCursor ==
  ASSUME WholeOperations, ExecInv, CursorInPlace, [Next]_vars
  PROVE  CursorInPlace'
  <1>1. CASE Request
    <2>1. index' = 0
      BY <1>1 DEF Request, Call
    <2>2. QED
      BY <2>1 DEF CursorInPlace
  <1>2. CASE Tracee
    <2>1. UNCHANGED <<driver, mirror, made>>
      BY <1>2 DEF Tracee, testerVars
    <2>2. CASE SendCommand \/ SendAddress \/ ProgramByte \/ ReadByte \/ InstructionEnds
      <3>1. Inside
        BY <2>1, <2>2
        DEF Inside, SendCommand, SendAddress, ProgramByte, ReadByte, InstructionEnds,
            GoOn, Transferring
      <3>2. QED
        BY <2>2, <3>1, SendCommandKeeps, SendAddressKeeps, ProgramByteKeeps,
           ReadByteKeeps, InstructionEndsKeeps
    <2>3. CASE Dispatch \/ /\ pc \in Waiting
                           /\ WaitStep(Instruction.timeout, FALSE)
                           /\ UNCHANGED <<callVars, deviceVars>>
      <3>1. pc # "idle"
        BY <2>3 DEF Dispatch
      <3>2. UNCHANGED <<cursor, cache, data_store, req, index, done>>
        BY <2>3 DEF Dispatch, callVars, opVars, deviceVars, storeVars
      <3>3. QED
        BY <3>1, <3>2, QuietStepKeeps
    <2>4. CASE OperationEnds \/ GiveUp
      <3>1. pc' = "idle"
        BY <2>4 DEF OperationEnds, GiveUp, Return, EndCall
      <3>2. QED
        BY <3>1 DEF CursorInPlace
    <2>5. QED
      BY <1>2, <2>2, <2>3, <2>4 DEF Tracee, CallStep
  <1>3. CASE Time \/ UNCHANGED vars
    <2>1. /\ UNCHANGED <<cursor, cache, data_store, req, index, done>>
          /\ UNCHANGED pc
      BY <1>3
      DEF Time, Tick, vars, waitVars, callVars, opVars, deviceVars, storeVars
    <2>2. QED
      BY <2>1, QuietStepKeeps
  <1>4. QED
    BY <1>1, <1>2, <1>3 DEF Next

\* The device finds every byte's place by itself, from the addresses at the
\* operation's beginning, for as long as the driver carries out what it is given.
LEMMA CursorInvariant == Spec => [](WholeOperations => CursorInPlace)
  <1>1. Init => (WholeOperations => CursorInPlace)
    BY DEF Init, ExecOpInit, FrameworkInit, CursorInPlace
  <1>2. /\ (WholeOperations => ExecInv)
        /\ (WholeOperations => CursorInPlace) /\ [Next]_vars
        => (WholeOperations => CursorInPlace)'
    <2>1. SUFFICES ASSUME WholeOperations => ExecInv, WholeOperations => CursorInPlace,
                          [Next]_vars, WholeOperations'
                   PROVE  CursorInPlace'
      OBVIOUS
    <2>2. WholeOperations /\ ExecInv /\ CursorInPlace
      BY <2>1, DriverIsChosenOnce DEF WholeOperations
    <2>3. QED
      BY <2>1, <2>2, StepsKeepCursor
  <1>3. QED
    BY <1>1, <1>2, ExecInvariant, PTL DEF Spec

\* What the invariant says of a byte that is about to be transferred.
LEMMA CursorAtByte ==
  ASSUME ExecInv, CursorInPlace, pc \in {"data_in", "data_out"},
         done < Instruction.len
  PROVE  LET x == req.offset + Instruction.at + done
         IN /\ x \in Nat
            /\ cursor = CursorAt(x)
            /\ pc = "data_out" => cache = PageAt(cursor)
  <1> DEFINE k == index + 1
             j == PageOfStep(k)
             x == PageOffset(req, j)
             y == x + done
             len == PageEnds(req, j) - PageBegins(req, j)
  <1>1. /\ req \in Requests /\ index \in Nat /\ done \in Nat
        /\ index < Len(OperationFor(req)) /\ Instruction.type = pc
    BY DEF ExecInv, CallInHand, TypeOK
  <1>2. index >= 2
    <2>1. index # 0 /\ index # 1
      BY <1>1, InstructionInHand
    <2>2. QED
      BY <1>1, <2>1
  <1>3. /\ pc = "data_in" => req.op = "write"
        /\ pc = "data_out" => req.op = "read"
    BY <1>1, <1>2, InstructionInHand
  <1>4. /\ req.offset \in Nat /\ req.size \in Nat \ {0} /\ k \in Nat
        /\ j \in 0 .. (PagesOf(req) - 1)
        /\ pc = "data_in" => PlaceOfStep(k) = 0
        /\ pc = "data_out" => PlaceOfStep(k) = 2
        /\ Instruction.at = PageBegins(req, j) /\ Instruction.len = len
    BY <1>1, <1>2, <1>3, TransferInHand
  <1> HIDE DEF k
  <1>5. j \in Nat
    <2>1. PagesOf(req) \in Nat \ {0}
      BY <1>4, PagesCoverTransfer
    <2> HIDE DEF j
    <2>2. QED
      BY <1>4, <2>1
  <1>6. /\ len \in 1 .. Radix /\ ByteOf(x) \in Nat /\ ByteOf(x) + len <= Radix
    BY <1>4, PageLength
  <1>7. /\ pc = "data_in" => /\ cursor.block = BlockOf(x) /\ cursor.page = PageOf(x)
                             /\ cursor.byte = ByteOf(x) + done
        /\ pc = "data_out" => /\ cursor = CursorAt(y)
                              /\ cache = data_store[BlockOf(x)][PageOf(x)]
    BY <1>1, <1>2, <1>3, <1>4 DEF CursorInPlace, k
  <1> HIDE DEF j
  <1>8. x \in Nat
    BY <1>4, <1>5, PageOffsetFacts
  <1>9. y = req.offset + Instruction.at + done
    <2>1. PageBegins(req, j) \in Nat
      BY <1>4, <1>5, PagesCoverTransfer
    <2>2. QED
      BY <1>1, <1>4, <2>1 DEF PageOffset
  <1> HIDE DEF x, len
  <1>10. PageStart(x) \in Nat /\ x = PageStart(x) + ByteOf(x)
    BY <1>8, DigitsOfOffset
  <1>11. /\ y \in Nat /\ PageStart(x) <= y /\ y < PageStart(x) + Radix
         /\ y - PageStart(x) = ByteOf(x) + done
    <2>1. done \in Nat /\ done < len
      BY <1>1, <1>4
    <2>2. ByteOf(x) + done < Radix
      BY <1>6, <2>1, RadixAssumption
    <2>3. QED
      BY <1>6, <1>8, <1>10, <2>1, <2>2, RadixAssumption
  <1> HIDE DEF y
  <1>12. BlockOf(y) = BlockOf(x) /\ PageOf(y) = PageOf(x) /\ ByteOf(y) = ByteOf(x) + done
    BY <1>8, <1>11, InPage
  <1>13. cursor = CursorAt(y)
    <2>1. CASE pc = "data_in"
      <3>1. cursor \in Cursor
        BY DEF ExecInv, DeviceInv, DeviceTypeOK, StoreTypeOK
      <3>2. QED
        BY <1>7, <1>12, <2>1, <3>1 DEF Cursor, CursorAt
    <2>2. CASE pc = "data_out"
      BY <1>7, <2>2
    <2>3. QED
      BY <2>1, <2>2
  <1>14. pc = "data_out" => cache = PageAt(cursor)
    BY <1>7, <1>12, <1>13 DEF PageAt, CursorAt
  <1>15. QED
    BY <1>9, <1>11, <1>13, <1>14

\* No data instruction says where its bytes belong, and yet each finds the device
\* at the place that its part of the caller's buffer is for.
THEOREM CursorIsRight ==
  ASSUME Drivers \subseteq {"foxtrot_0", "foxtrot_2"},
         "foxtrot_2" \in Drivers => Modulus = 8
  PROVE  Spec => []CursorFollowsOperation
  <1>1. driver \in Drivers => WholeOperations
    BY DEF WholeOperations
  <1>2. ExecInv /\ CursorInPlace => CursorFollowsOperation
    <2>1. SUFFICES ASSUME ExecInv, CursorInPlace, pc \in {"data_in", "data_out"},
                          done < Instruction.len
                   PROVE  /\ CursorAddress = Wrap(req.offset + Instruction.at + done)
                          /\ pc = "data_out" => cache = PageAt(cursor)
      BY DEF CursorFollowsOperation
    <2> DEFINE x == req.offset + Instruction.at + done
    <2>2. /\ x \in Nat /\ cursor = CursorAt(x)
          /\ pc = "data_out" => cache = PageAt(cursor)
      BY <2>1, CursorAtByte
    <2> HIDE DEF x
    <2>3. CursorAddress = Wrap(x)
      BY <2>2, WrapFacts DEF CursorAddress, CursorAt
    <2>4. QED
      BY <2>2, <2>3 DEF x
  <1>3. QED
    BY <1>1, <1>2, ExecInvariant, CursorInvariant, DriverIsConsidered, PTL

-----------------------------------------------------------------------------
(* What is stored, and what is read.                                       *)

\* The first offset of a write or an erase that is still to be done when i of
\* the operation's instructions have been carried out.
FrontierAt(r, i) ==
  RegionStart(r)
    + (IF i = 0 THEN 0
       ELSE IF r.op = "write" THEN ((i - 1) \div 3) * Radix
       ELSE ((i - 1) \div 2) * BlockSize)

\* The offsets at which storage may differ from the answer key.
Unsettled ==
  IF pc = "idle" \/ req.op = "read" THEN {}
  ELSE FrontierAt(req, index) .. RegionEnd(req)

\* An erase finds the cursor at the block that comes next.
BlockInPlace ==
  pc # "idle" /\ req.op = "erase" /\ index >= 2 =>
    cursor.block = BlockOf(FrontierAt(req, index))

\* How many bytes of the page in hand the device has been sent.
Sent ==
  LET j == PageOfStep(index + 1)
  IN CASE PlaceOfStep(index + 1) = 0 -> done
       [] PlaceOfStep(index + 1) = 1 -> PageEnds(req, j) - PageBegins(req, j)
       [] OTHER -> 0

\* The cache holds those, and is blank elsewhere.
CacheInPlace ==
  pc # "idle" /\ req.op = "write" =>
    /\ index = 1 => cache = ZeroPage
    /\ index >= 2 /\ index < Len(OperationFor(req)) =>
         LET j == PageOfStep(index + 1)
             first == ByteOf(PageOffset(req, j))
         IN \A b \in Digit :
              cache[b] = IF b \in first .. (first + Sent - 1)
                           THEN req.data[PageBegins(req, j) + (b - first)] ELSE Zero

\* How many bytes of the caller's buffer have been filled.
BytesRead ==
  CASE pc = "idle" -> req.size
    [] pc # "idle" /\ index < 2 -> 0
    [] OTHER -> PageBegins(req, PageOfStep(index + 1))
                 + (IF PlaceOfStep(index + 1) = 2 THEN done ELSE 0)

BufferFollows ==
  /\ req.op # "read" => buffer = <<>>
  /\ req.op = "read" =>
       /\ buffer \in [0 .. (req.size - 1) -> Byte \union {Junk}]
       /\ \A i \in 0 .. (req.size - 1) :
            i < BytesRead => buffer[i] = mirror[Wrap(req.offset + i)]

StoreInv ==
  /\ MirrorHasEffect
  /\ AgreesOutside(Unsettled)
  /\ BlockInPlace
  /\ CacheInPlace
  /\ BufferFollows

-----------------------------------------------------------------------------
(* How far a write or an erase has come.                                   *)

\* The pages of a write, from one to the next.
LEMMA PagesOfWrite ==
  ASSUME NEW r, r.offset \in Nat, r.size \in Nat \ {0}, NEW j \in Nat
  PROVE  /\ PageStart(PageOffset(r, j)) = PageStart(r.offset) + j * Radix
         /\ PageEnd(r.offset + r.size - 1) + 1 =
              PageStart(r.offset) + PagesOf(r) * Radix
         /\ PagesOf(r) \in Nat \ {0}
  <1> DEFINE o == r.offset
             S == PageStart(o)
             n == PagesOf(r)
  <1>1. /\ S \in Nat /\ o = S + ByteOf(o) /\ ByteOf(o) \in Digit
        /\ BYTE(o) = ByteOf(o) /\ Radix \in Nat \ {0}
    <2>1. S \in Nat /\ o = S + ByteOf(o) /\ ByteOf(o) \in Digit
      BY DigitsOfOffset
    <2>2. BYTE(o) = ByteOf(o)
      BY DEF BYTE, ByteOf
    <2>3. QED
      BY <2>1, <2>2, RadixAssumption
  <1>2. ASSUME NEW m \in Nat
        PROVE  PageStart(PageOffset(r, m)) = S + m * Radix
    <2>1. PageStart(PageOffset(r, m)) + Radix = PageOffset(r, m + 1)
      BY PageOffsetFacts
    <2>2. PageStart(PageOffset(r, m)) \in Nat
      BY PageOffsetFacts, DigitsOfOffset
    <2>3. (m + 1) * Radix = m * Radix + Radix /\ m * Radix \in Nat /\ m + 1 # 0
      BY <1>1
    <2>4. PageOffset(r, m + 1) = o + ((m * Radix + Radix) - ByteOf(o))
      BY <1>1, <2>3 DEF PageOffset, PageBegins
    <2> HIDE DEF S, o
    <2>5. QED
      BY <1>1, <2>1, <2>2, <2>3, <2>4 DEF Digit
  <1>3. n \in Nat \ {0}
    BY PagesCoverTransfer
  <1> DEFINE l == n - 1
             x == PageOffset(r, l)
             len == PageEnds(r, l) - PageBegins(r, l)
             z == o + r.size - 1
  <1>4. l \in 0 .. (PagesOf(r) - 1) /\ l \in Nat /\ l + 1 = PagesOf(r) /\ n = l + 1
    BY <1>3
  <1> HIDE DEF l, n
  <1>5. /\ len \in 1 .. Radix /\ ByteOf(x) \in Nat /\ ByteOf(x) + len <= Radix
    BY <1>4, PageLength
  <1>6. /\ x \in Nat /\ x + len = o + r.size
    <2>1. PageEnds(r, l) = r.size
      BY <1>4 DEF PageEnds
    <2>2. PageBegins(r, l) \in Nat
      BY <1>4, PagesCoverTransfer
    <2>3. QED
      BY <1>4, <2>1, <2>2 DEF PageOffset
  <1> HIDE DEF x, len
  <1>7. PageStart(x) \in Nat /\ x = PageStart(x) + ByteOf(x)
    BY <1>6, DigitsOfOffset
  <1>8. z \in Nat /\ PageStart(x) <= z /\ z < PageStart(x) + Radix
    BY <1>1, <1>5, <1>6, <1>7
  <1> HIDE DEF z
  <1>9. PageStart(z) = PageStart(x)
    BY <1>6, <1>8, InPage
  <1>10. PageStart(x) = S + l * Radix
    BY <1>2, <1>4 DEF x
  <1>11. n * Radix = l * Radix + Radix /\ l * Radix \in Nat
    BY <1>1, <1>4
  <1>12. PageEnd(z) + 1 = S + n * Radix
    BY <1>1, <1>9, <1>10, <1>11 DEF PageEnd
  <1>13. QED
    BY <1>2, <1>3, <1>12 DEF z, n

LEMMA FrontierOfWrite ==
  ASSUME NEW r \in Requests, r.op = "write",
         NEW i \in Nat, i <= Len(OperationFor(r))
  PROVE  /\ RegionStart(r) <= FrontierAt(r, i) /\ FrontierAt(r, i) \in Nat
         /\ RegionEnd(r) \in Int /\ RegionStart(r) \in Nat
         /\ i < 2 => FrontierAt(r, i) = RegionStart(r)
         /\ i = 2 => FrontierAt(r, i) = RegionStart(r)
         /\ i = Len(OperationFor(r)) => FrontierAt(r, i) = RegionEnd(r) + 1
         /\ i >= 2 /\ PlaceOfStep(i + 1) # 2 =>
              FrontierAt(r, i) = PageStart(PageOffset(r, PageOfStep(i + 1)))
         /\ i >= 2 =>
              FrontierAt(r, i + 1) =
                FrontierAt(r, i) + (IF PlaceOfStep(i + 1) = 1 THEN Radix ELSE 0)
  <1> DEFINE S == RegionStart(r)
             u(m) == (m - 1) \div 3
             n == PagesOf(r)
             j == PageOfStep(i + 1)
             p == PlaceOfStep(i + 1)
  <1>1. /\ r.offset \in Nat /\ r.size \in Nat \ {0}
        /\ S \in Nat /\ RegionEnd(r) \in Int /\ Radix \in Nat \ {0}
        /\ S = PageStart(r.offset) /\ RegionEnd(r) = PageEnd(r.offset + r.size - 1)
    BY RequestFacts, RegionFacts, RadixAssumption DEF RegionStart, RegionEnd
  <1>2. \A m \in Nat \ {0} : FrontierAt(r, m) = S + u(m) * Radix
    BY DEF FrontierAt
  <1>3. FrontierAt(r, 0) = S
    BY <1>1 DEF FrontierAt
  <1>4. u(1) = 0 /\ u(2) = 0
    OBVIOUS
  <1>5. i # 0 => u(i) \in Nat
    OBVIOUS
  <1>6. S <= FrontierAt(r, i) /\ FrontierAt(r, i) \in Nat
    <2>1. CASE i = 0
      BY <1>1, <1>3, <2>1
    <2>2. CASE i # 0
      <3> DEFINE v == u(i)
      <3>1. v \in Nat /\ FrontierAt(r, i) = S + v * Radix
        BY <1>2, <1>5, <2>2
      <3> HIDE DEF v, S
      <3>2. v * Radix \in Nat
        BY <1>1, <3>1
      <3>3. QED
        BY <1>1, <3>1, <3>2
    <2>3. QED
      BY <2>1, <2>2
  <1>7. i < 2 \/ i = 2 => FrontierAt(r, i) = S
    <2>1. i < 2 \/ i = 2 => i = 0 \/ i = 1 \/ i = 2
      OBVIOUS
    <2>2. FrontierAt(r, 1) = S /\ FrontierAt(r, 2) = S
      BY <1>1, <1>2, <1>4
    <2>3. QED
      BY <1>3, <2>1, <2>2
  <1>8. ASSUME i = Len(OperationFor(r))
        PROVE  FrontierAt(r, i) = RegionEnd(r) + 1
    <2>1. n \in Nat \ {0} /\ RegionEnd(r) + 1 = S + n * Radix
      BY <1>1, PagesOfWrite
    <2>2. i = 2 + 3 * n
      <3>1. /\ Len(OperationFor(r)) = 2 + Len(BodyOf(r))
            /\ Len(BodyOf(r)) = 3 * n
        BY <1>1, OperationParts DEF Operation
      <3>2. QED
        BY <1>8, <3>1
    <2> HIDE DEF n
    <2>3. i - 1 = 3 * n + 1 /\ i # 0
      BY <2>1, <2>2
    <2>4. u(i) = n
      BY <2>1, <2>3
    <2>5. QED
      BY <1>2, <2>1, <2>3, <2>4
  <1>9. ASSUME i >= 2
        PROVE  /\ p # 2 => FrontierAt(r, i) = PageStart(PageOffset(r, j))
               /\ FrontierAt(r, i + 1) =
                    FrontierAt(r, i) + (IF p = 1 THEN Radix ELSE 0)
    <2>1. j \in Nat /\ p \in 0 .. 2 /\ i - 2 = 3 * j + p
      <3>1. j = (i - 2) \div 3 /\ p = (i - 2) % 3 /\ i - 2 \in Nat
        BY <1>9 DEF PageOfStep, PlaceOfStep
      <3>2. QED
        BY <3>1
    <2>2. PageStart(PageOffset(r, j)) = S + j * Radix
      BY <1>1, <2>1, PagesOfWrite
    <2> HIDE DEF j, p, S
    <2>3. u(i) = IF p = 2 THEN j + 1 ELSE j
      BY <2>1
    <2>4. u(i + 1) = IF p = 0 THEN j ELSE j + 1
      BY <2>1
    <2>5. /\ FrontierAt(r, i) = S + (IF p = 2 THEN j + 1 ELSE j) * Radix
          /\ FrontierAt(r, i + 1) = S + (IF p = 0 THEN j ELSE j + 1) * Radix
      BY <1>2, <1>9, <2>3, <2>4
    <2>6. (j + 1) * Radix = j * Radix + Radix /\ j * Radix \in Nat
      BY <1>1, <2>1
    <2>7. CASE p = 0
      BY <1>1, <2>2, <2>5, <2>6, <2>7
    <2>8. CASE p = 1
      BY <1>1, <2>2, <2>5, <2>6, <2>8
    <2>9. CASE p = 2
      BY <1>1, <2>2, <2>5, <2>6, <2>9
    <2>10. QED
      BY <2>1, <2>7, <2>8, <2>9
  <1>10. QED
    BY <1>1, <1>6, <1>7, <1>8, <1>9

\* An erase's frontier is always the start of a block, and moves with each
\* execute command.
LEMMA FrontierOfErase ==
  ASSUME NEW r \in Requests, r.op = "erase",
         NEW i \in Nat, i <= Len(OperationFor(r))
  PROVE  /\ RegionStart(r) <= FrontierAt(r, i) /\ FrontierAt(r, i) \in Nat
         /\ RegionEnd(r) \in Int /\ RegionStart(r) \in Nat
         /\ FrontierAt(r, i) = BlockStart(FrontierAt(r, i))
         /\ i < 2 => FrontierAt(r, i) = RegionStart(r)
         /\ i = 2 => FrontierAt(r, i) = RegionStart(r)
         /\ i = Len(OperationFor(r)) => FrontierAt(r, i) = RegionEnd(r) + 1
         /\ i >= 2 =>
              FrontierAt(r, i + 1) =
                FrontierAt(r, i) + (IF (i + 1) % 2 = 1 THEN BlockSize ELSE 0)
         /\ i >= 2 /\ i < Len(OperationFor(r)) /\ (i + 1) % 2 = 1 =>
              FrontierAt(r, i) + BlockSize <= RegionEnd(r) + 1
  <1> DEFINE S == RegionStart(r)
             B == BlockSize
             u(m) == IF m = 0 THEN 0 ELSE (m - 1) \div 2
             n == BlocksToErase(r.offset, r.size)
             q == r.offset \div BlockSize
  <1>1. /\ r.offset \in Nat /\ r.size \in Nat \ {0}
        /\ S \in Nat /\ RegionEnd(r) \in Int /\ B \in Nat \ {0}
        /\ S = BlockStart(r.offset) /\ RegionEnd(r) = BlockEnd(r.offset + r.size - 1)
    BY RequestFacts, RegionFacts, SizesArePositive DEF RegionStart, RegionEnd
  <1>2. n \in Nat \ {0} /\ RegionEnd(r) + 1 = S + n * B
    BY <1>1, BlocksCoverRegion
  <1>3. Len(OperationFor(r)) = 2 + 2 * n
    BY <1>1, OperationParts DEF Operation
  <1>4. q \in Nat /\ S = q * B
    BY <1>1, DivMod DEF BlockStart
  <1>5. ASSUME NEW m \in Nat
        PROVE  u(m) \in Nat /\ FrontierAt(r, m) = S + u(m) * B
    <2>1. u(m) \in Nat
      OBVIOUS
    <2>2. CASE m = 0
      BY <1>1, <2>2 DEF FrontierAt
    <2>3. CASE m # 0
      BY <2>3 DEF FrontierAt
    <2>4. QED
      BY <2>1, <2>2, <2>3
  <1> HIDE DEF S, B, n, q
  <1>6. ASSUME NEW v \in Nat
        PROVE  /\ v * B \in Nat
               /\ (v + 1) * B = v * B + B
               /\ BlockStart(S + v * B) = S + v * B
    <2>1. v * B \in Nat /\ (v + 1) * B = v * B + B
      BY <1>1
    <2>2. S + v * B = B * (q + v) + 0 /\ S + v * B = (q + v) * B /\ q + v \in Nat
      BY <1>1, <1>4
    <2>3. (B * (q + v) + 0) \div B = q + v
      <3>1. 0 \in 0 .. (B - 1) /\ q + v \in Nat
        BY <1>1, <2>2
      <3>2. QED
        BY <1>1, <3>1, DivModUnique
    <2>4. BlockStart(S + v * B) = S + v * B
      BY <2>2, <2>3 DEF BlockStart, B
    <2>5. QED
      BY <2>1, <2>4
  <1>7. /\ S <= FrontierAt(r, i) /\ FrontierAt(r, i) \in Nat
        /\ FrontierAt(r, i) = BlockStart(FrontierAt(r, i))
    <2> DEFINE v == u(i)
    <2>1. v \in Nat /\ FrontierAt(r, i) = S + v * B
      BY <1>5
    <2> HIDE DEF v
    <2>2. v * B \in Nat /\ BlockStart(S + v * B) = S + v * B
      BY <1>6, <2>1
    <2>3. QED
      BY <1>1, <2>1, <2>2
  <1>8. i < 2 \/ i = 2 => FrontierAt(r, i) = S
    <2>1. i < 2 \/ i = 2 => u(i) = 0
      <3>1. i < 2 \/ i = 2 => i = 0 \/ i = 1 \/ i = 2
        OBVIOUS
      <3>2. u(0) = 0 /\ u(1) = 0 /\ u(2) = 0
        OBVIOUS
      <3>3. QED
        BY <3>1, <3>2
    <2>2. QED
      BY <1>1, <1>5, <2>1
  <1>9. ASSUME i = Len(OperationFor(r))
        PROVE  FrontierAt(r, i) = RegionEnd(r) + 1
    <2>1. u(i) = n
      BY <1>2, <1>3, <1>9
    <2>2. QED
      BY <1>2, <1>5, <2>1
  <1>10. ASSUME i >= 2
         PROVE  FrontierAt(r, i + 1) =
                  FrontierAt(r, i) + (IF (i + 1) % 2 = 1 THEN B ELSE 0)
    <2> DEFINE v == u(i)
    <2>1. u(i + 1) = v + (IF (i + 1) % 2 = 1 THEN 1 ELSE 0)
      BY <1>10
    <2>2. v \in Nat /\ FrontierAt(r, i) = S + v * B /\ i + 1 \in Nat
      BY <1>5
    <2>3. FrontierAt(r, i + 1) = S + (v + (IF (i + 1) % 2 = 1 THEN 1 ELSE 0)) * B
      BY <1>5, <2>1, <2>2
    <2> HIDE DEF v
    <2>4. v * B \in Nat /\ (v + 1) * B = v * B + B
      BY <1>6, <2>2
    <2>5. CASE (i + 1) % 2 = 1
      BY <1>1, <2>2, <2>3, <2>4, <2>5
    <2>6. CASE (i + 1) % 2 # 1
      <3>1. FrontierAt(r, i + 1) = S + (v + 0) * B /\ v + 0 = v
        BY <2>2, <2>3, <2>6
      <3>2. QED
        BY <1>1, <2>2, <2>4, <2>6, <3>1
    <2>7. QED
      BY <2>5, <2>6
  <1>11. ASSUME i >= 2, i < Len(OperationFor(r)), (i + 1) % 2 = 1
         PROVE  FrontierAt(r, i) + B <= RegionEnd(r) + 1
    <2> DEFINE v == u(i)
    <2>1. v + 1 <= n
      BY <1>2, <1>3, <1>11
    <2>2. v \in Nat /\ FrontierAt(r, i) = S + v * B
      BY <1>5
    <2> HIDE DEF v
    <2>3. (v + 1) * B <= n * B /\ n * B \in Nat
      BY <1>1, <1>2, <2>1, <2>2
    <2>4. v * B \in Nat /\ (v + 1) * B = v * B + B
      BY <1>6, <2>2
    <2> DEFINE vB == v * B
               nB == n * B
    <2>5. vB \in Nat /\ nB \in Nat /\ vB + B <= nB
      BY <2>3, <2>4
    <2>6. FrontierAt(r, i) = S + vB /\ RegionEnd(r) + 1 = S + nB
      BY <1>2, <2>2
    <2> HIDE DEF vB, nB
    <2>7. QED
      BY <1>1, <2>5, <2>6
  <1>12. QED
    BY <1>1, <1>7, <1>8, <1>9, <1>10, <1>11 DEF S, B

-----------------------------------------------------------------------------
(* The steps of a call.                                                    *)

\* What every step of a call starts from.
LEMMA CallFacts ==
  ASSUME ExecInv, pc # "idle"
  PROVE  /\ req \in Requests /\ req.offset \in Nat /\ req.size \in Nat \ {0}
         /\ req.op \in Operation
         /\ Len(OperationFor(req)) \in Nat /\ Len(OperationFor(req)) >= 4
         /\ index \in Nat /\ index <= Len(OperationFor(req))
         /\ pc # "next" => index < Len(OperationFor(req))
         /\ done \in Nat
         /\ pc \in {"cmd", "addr", "data_in", "data_out"} => Instruction.type = pc
         /\ pc = "ready" => Instruction.type = "wait"
         /\ mirror \in Mirror
         /\ data_store \in [Digit -> Block] /\ cursor \in Cursor
         /\ cache \in [Digit -> Byte]
  <1>1. req \in Requests /\ index <= Len(OperationFor(req))
        /\ (pc # "next" => index < Len(OperationFor(req)))
        /\ (pc \in {"cmd", "addr", "data_in", "data_out"} => Instruction.type = pc)
        /\ (pc = "ready" => Instruction.type = "wait")
    BY DEF ExecInv, CallInHand
  <1>2. index \in Nat /\ done \in Nat /\ mirror \in Mirror
    BY DEF ExecInv, TypeOK, TesterTypeOK
  <1>3. data_store \in [Digit -> Block] /\ cursor \in Cursor /\ cache \in [Digit -> Byte]
    BY DEF ExecInv, DeviceInv, DeviceTypeOK, StoreTypeOK, Page
  <1>4. Len(OperationFor(req)) \in Nat /\ Len(OperationFor(req)) >= 4
    BY InstructionInHand
  <1>5. req.offset \in Nat /\ req.size \in Nat \ {0} /\ req.op \in Operation
    BY <1>1, RequestFacts
  <1>6. QED
    BY <1>1, <1>2, <1>3, <1>4, <1>5

\* The answer key and the call stay as they are inside the call.
LEMMA InsideKeepsEffect ==
  ASSUME MirrorHasEffect, UNCHANGED <<req, mirror>>, pc = "idle" => pc' = "idle"
  PROVE  MirrorHasEffect'
  BY DEF MirrorHasEffect

\* An operation starts with an empty cache and nothing stored or read.
LEMMA SetupKeepsStore ==
  ASSUME WholeOperations, ExecInv, ExecInv', StoreInv, SendCommand, Inside, index = 0
  PROVE  StoreInv'
  <1>1. pc = "cmd" /\ GoOn /\ StoreCommand(Instruction.opcode) /\ UNCHANGED buffer
    BY DEF SendCommand
  <1>2. /\ pc' = "next" /\ done' = 0 /\ UNCHANGED <<req, mirror>> /\ index' = 1
    <2>1. index' = index + 1
      BY <1>1, GoOnKeepsCall DEF ExecInv
    <2>2. QED
      BY <1>1, <2>1, GoOnKeepsCall DEF ExecInv, Inside
  <1>3. req.op \in Operation /\ req \in Requests
    BY <1>1, CallFacts
  <1>4. StoreCommand(SetupCommand(req.op))
    BY <1>1, InstructionInHand
  <1>5. machine_state' = AwaitingBlockOf(req.op) /\ UNCHANGED data_store
    <2>1. AtRest
      BY DEF ExecInv, DriverKnowsDevice
    <2>2. QED
      BY <1>3, <1>4, <2>1, SetupIsAccepted DEF ExecInv
  <1>6. req.op = "write" => cache' = ZeroPage
    <2>1. SetupStartsClean'
      BY DEF ExecInv, DeviceInv
    <2>2. QED
      BY <1>5, <2>1 DEF SetupStartsClean, AwaitingBlockOf
  <1>7. AgreesOutside(Unsettled)'
    <2>1. FrontierAt(req, index) = FrontierAt(req, 1)
      BY <1>3, RegionFacts, SizesArePositive, RadixAssumption DEF FrontierAt
    <2>2. Unsettled' = Unsettled
      BY <1>1, <1>2, <2>1 DEF Unsettled
    <2>3. QED
      BY <1>2, <1>5, <2>2 DEF StoreInv, AgreesOutside, Stored
  <1>8. BlockInPlace' /\ CacheInPlace'
    BY <1>2, <1>6 DEF BlockInPlace, CacheInPlace
  <1>9. BufferFollows'
    BY <1>1, <1>2 DEF StoreInv, BufferFollows, BytesRead
  <1>10. MirrorHasEffect'
    BY <1>1, <1>2, InsideKeepsEffect DEF StoreInv
  <1>11. QED
    BY <1>7, <1>8, <1>9, <1>10 DEF StoreInv

\* What an execute command finds and does.
LEMMA ExecuteInHand ==
  ASSUME WholeOperations, ExecInv, ExecInv', SendCommand, Inside, index # 0
  PROVE  /\ pc = "cmd" /\ pc' = "next" /\ done' = 0 /\ index >= 2 /\ index' = index + 1
         /\ index' < Len(OperationFor(req))
         /\ UNCHANGED <<req, mirror, buffer>>
         /\ req.op = "read" => UNCHANGED data_store
         /\ req.op = "write" =>
              /\ data_store' = [data_store EXCEPT ![cursor.block][cursor.page] = cache]
              /\ cache' = ZeroPage
         /\ req.op = "erase" =>
              /\ data_store' = [data_store EXCEPT ![cursor.block] = ZeroBlock]
              /\ cursor' = NextBlock(cursor)
  <1>1. pc = "cmd" /\ GoOn /\ StoreCommand(Instruction.opcode) /\ UNCHANGED buffer
    BY DEF SendCommand
  <1>2. /\ req \in Requests /\ req.op \in Operation /\ index \in Nat
        /\ index < Len(OperationFor(req)) /\ Instruction.type = "cmd"
    BY <1>1, CallFacts
  <1>3. index # 1
    BY <1>1, <1>2, InstructionInHand
  <1>4. index >= 2
    BY <1>2, <1>3
  <1>5. /\ Instruction.opcode = ExecuteCommand(req.op)
        /\ index + 1 < Len(OperationFor(req)) /\ index # 7
    BY <1>1, <1>2, <1>4, InstructionInHand
  <1>6. /\ pc' = "next" /\ done' = 0 /\ UNCHANGED <<req, mirror>> /\ index' = index + 1
    BY <1>1, <1>5, GoOnKeepsCall DEF ExecInv, Inside
  <1>7. ~BeforeDeadline /\ machine_state \in {AddressedOf(req.op), WorkingOf(req.op)}
    BY <1>1, <1>2, <1>4 DEF ExecInv, DriverKnowsDevice
  <1>8. StoreCommand(ExecuteCommand(req.op))
    BY <1>1, <1>5
  <1>9. /\ req.op = "read" => UNCHANGED data_store
        /\ req.op = "write" =>
             /\ data_store' = [data_store EXCEPT ![cursor.block][cursor.page] = cache]
             /\ cache' = ZeroPage
        /\ req.op = "erase" =>
             /\ data_store' = [data_store EXCEPT ![cursor.block] = ZeroBlock]
             /\ cursor' = NextBlock(cursor)
    BY <1>2, <1>7, <1>8, ExecuteIsAccepted DEF ExecInv
  <1>10. QED
    BY <1>1, <1>4, <1>5, <1>6, <1>9

\* The cache has what the answer key has for its page by the time that it is
\* programmed.
LEMMA CacheIsWholePage ==
  ASSUME ExecInv, StoreInv, pc = "cmd", index >= 2, req.op = "write",
         NEW x, x = PageOffset(req, PageOfStep(index + 1))
  PROVE  /\ x \in Nat
         /\ PlaceOfStep(index + 1) = 1
         /\ FrontierAt(req, index) = PageStart(x)
         /\ \A b \in Digit : cache[b] = mirror[Wrap(PageStart(x) + b)]
  <1> DEFINE j == PageOfStep(index + 1)
             B == PageBegins(req, j)
             len == PageEnds(req, j) - PageBegins(req, j)
             S == PageStart(x)
             o == req.offset
             n == req.size
             first == ByteOf(x)
  <1>1. /\ req \in Requests /\ o \in Nat /\ n \in Nat \ {0}
        /\ index \in Nat /\ index < Len(OperationFor(req))
        /\ Instruction.type = "cmd"
    BY CallFacts
  <1>2. /\ j \in 0 .. (PagesOf(req) - 1) /\ PlaceOfStep(index + 1) = 1
    BY <1>1, TransferInHand
  <1>3. PagesOf(req) \in Nat \ {0} /\ j \in Nat /\ B \in Nat
    BY <1>1, <1>2, PagesCoverTransfer
  <1>4. FrontierAt(req, index) = S
    BY <1>1, <1>2, FrontierOfWrite
  <1>5. Sent = len
    BY <1>2 DEF Sent
  <1>6. \A b \in Digit :
          cache[b] = IF b \in first .. (first + len - 1)
                       THEN req.data[B + (b - first)] ELSE Zero
    BY <1>1, <1>5 DEF StoreInv, CacheInPlace
  <1>7. /\ len \in 1 .. Radix /\ ByteOf(x) \in Nat /\ ByteOf(x) + len <= Radix
        /\ j + 1 < PagesOf(req) => x + len = PageOffset(req, j + 1)
    BY <1>1, <1>2, PageLength
  <1>8. /\ x \in Nat /\ x = o + B /\ PageOffset(req, 0) = o
        /\ S + Radix = PageOffset(req, j + 1)
    BY <1>1, <1>3, PageOffsetFacts DEF PageOffset
  <1>9. S \in Nat /\ x = S + first /\ first \in Nat
    BY <1>7, <1>8, DigitsOfOffset
  <1>10. len <= n - B /\ (j + 1 = PagesOf(req) => len = n - B)
    <2>1. PageEnds(req, j) <= n /\ PageEnds(req, j) \in Nat
      BY <1>1, <1>2, PageRange
    <2>2. j + 1 = PagesOf(req) => PageEnds(req, j) = n
      BY DEF PageEnds
    <2>3. QED
      BY <1>1, <1>3, <2>1, <2>2
  <1>11. j + 1 # PagesOf(req) => first + len = Radix
    <2>1. j + 1 # PagesOf(req) => j + 1 < PagesOf(req)
      BY <1>2, <1>3
    <2>2. QED
      BY <1>7, <1>8, <1>9, <2>1, RadixAssumption
  <1>12. B = 0 \/ first = 0
    <2>1. j = 0 \/ j # 0
      OBVIOUS
    <2>2. j = 0 => B = 0
      BY DEF PageBegins
    <2>3. j # 0 => first = 0
      BY <1>1, <1>3, PageOffsetFacts
    <2>4. QED
      BY <2>1, <2>2, <2>3
  <1>13. RegionStart(req) <= S /\ S + Radix <= RegionEnd(req) + 1
    <2>1. RegionStart(req) <= FrontierAt(req, index)
      BY <1>1, FrontierOfWrite
    <2>2. S = PageStart(o) + j * Radix /\ RegionEnd(req) + 1 = PageStart(o) + PagesOf(req) * Radix
      BY <1>1, <1>3, PagesOfWrite DEF RegionEnd
    <2>3. (j + 1) * Radix = j * Radix + Radix /\ j * Radix \in Nat
      BY <1>3, RadixAssumption
    <2>4. (j + 1) * Radix <= PagesOf(req) * Radix /\ PagesOf(req) * Radix \in Nat
      BY <1>2, <1>3, RadixAssumption
    <2>5. PageStart(o) \in Nat
      BY <1>1, DigitsOfOffset
    <2> DEFINE jR == j * Radix
               nR == PagesOf(req) * Radix
    <2>6. jR \in Nat /\ nR \in Nat /\ jR + Radix <= nR
      BY <2>3, <2>4
    <2>7. S = PageStart(o) + jR /\ RegionEnd(req) + 1 = PageStart(o) + nR
      BY <2>2
    <2> HIDE DEF S, jR, nR
    <2>8. QED
      BY <1>4, <1>9, <2>1, <2>5, <2>6, <2>7, RadixAssumption
  <1>14. RegionStart(req) \in Nat /\ RegionEnd(req) \in Int
    BY <1>1, RegionFacts
  <1> HIDE DEF S, first, len, B, j, o, n
  <1>15. ASSUME NEW b \in Digit
         PROVE  cache[b] = mirror[Wrap(S + b)]
    <2> DEFINE y == S + b
    <2>1. y \in Nat /\ y \in RegionStart(req) .. RegionEnd(req)
      BY <1>9, <1>13, <1>14, RadixAssumption DEF Digit
    <2>2. mirror[Wrap(y)] = IF y \in o .. (o + n - 1) THEN req.data[y - o] ELSE Zero
      BY <2>1 DEF StoreInv, MirrorHasEffect, o, n
    <2>3. y - o = B + (b - first)
      BY <1>1, <1>3, <1>8, <1>9 DEF Digit
    <2>4. (y \in o .. (o + n - 1)) <=> (b \in first .. (first + len - 1))
      <3>1. b \in Nat /\ b < Radix
        BY RadixAssumption DEF Digit
      <3>2. y \in Nat /\ y = (o + B) + (b - first)
        BY <1>1, <1>3, <2>1, <2>3, <1>9, <3>1
      <3>3. (y >= o) <=> (b >= first)
        BY <1>1, <1>3, <1>9, <1>12, <3>1, <3>2
      <3>4. (y <= o + n - 1) <=> (b <= first + len - 1)
        <4>1. CASE len = n - B
          BY <1>1, <1>3, <1>9, <3>1, <3>2, <4>1
        <4>2. CASE len # n - B
          <5>1. len < n - B /\ first + len = Radix
            BY <1>1, <1>3, <1>7, <1>10, <1>11, <4>2
          <5>2. QED
            BY <1>1, <1>3, <1>7, <1>9, <3>1, <3>2, <5>1, RadixAssumption
        <4>3. QED
          BY <4>1, <4>2
      <3>5. QED
        BY <1>1, <1>7, <1>9, <3>1, <3>2, <3>3, <3>4
    <2>5. QED
      BY <1>6, <2>2, <2>3, <2>4
  <1>16. QED
    BY <1>2, <1>4, <1>8, <1>15 DEF S

\* What it programs is settled.
LEMMA ProgramKeepsStore ==
  ASSUME WholeOperations, ExecInv, ExecInv', CursorInPlace, StoreInv, SendCommand,
         Inside, index # 0, req.op = "write"
  PROVE  StoreInv'
  <1> DEFINE k == index + 1
             x == PageOffset(req, PageOfStep(k))
             E == RegionEnd(req)
  <1>1. /\ pc = "cmd" /\ pc' = "next" /\ done' = 0 /\ index >= 2 /\ index' = index + 1
        /\ index' < Len(OperationFor(req))
        /\ UNCHANGED <<req, mirror, buffer>>
        /\ data_store' = [data_store EXCEPT ![cursor.block][cursor.page] = cache]
        /\ cache' = ZeroPage
    BY ExecuteInHand
  <1>2. /\ req \in Requests /\ index \in Nat /\ index < Len(OperationFor(req))
        /\ Len(OperationFor(req)) \in Nat /\ data_store \in [Digit -> Block]
    BY <1>1, CallFacts
  <1>3. /\ x \in Nat /\ PlaceOfStep(k) = 1 /\ FrontierAt(req, index) = PageStart(x)
        /\ \A b \in Digit : cache[b] = mirror[Wrap(PageStart(x) + b)]
    BY <1>1, CacheIsWholePage
  <1>4. cursor.block = BlockOf(x) /\ cursor.page = PageOf(x)
    BY <1>1, <1>2, <1>3 DEF CursorInPlace
  <1>5. E \in Int /\ FrontierAt(req, index + 1) = PageStart(x) + Radix
    <2>1. FrontierAt(req, index + 1) =
            FrontierAt(req, index) + (IF PlaceOfStep(k) = 1 THEN Radix ELSE 0)
      BY <1>1, <1>2, FrontierOfWrite
    <2>2. E \in Int
      BY <1>2, RegionFacts
    <2>3. QED
      BY <1>3, <2>1, <2>2
  <1>6. Unsettled = PageStart(x) .. E /\ Unsettled' = (PageStart(x) + Radix) .. E
    BY <1>1, <1>3, <1>5 DEF Unsettled
  <1>7. AgreesOutside(Unsettled)'
    <2> DEFINE S == PageStart(x)
    <2>1. S \in Nat
      BY <1>3, DigitsOfOffset
    <2>2. AgreesOutside(S .. E)
      BY <1>6 DEF StoreInv
    <2>3. ProgramsPageOf(x) /\ CacheIsRight(S)
      BY <1>1, <1>3, <1>4 DEF ProgramsPageOf, CacheIsRight
    <2> HIDE DEF x, E
    <2>4. WillAgreeOutside((S + Radix) .. E)
      BY <1>1, <1>2, <1>3, <1>5, <2>1, <2>2, <2>3, PageIsSettled
    <2>5. QED
      BY <1>6, <2>4 DEF AgreesOutside, WillAgreeOutside
  <1>8. PlaceOfStep(index' + 1) = 2
    BY <1>1, <1>2, <1>3, NextStep
  <1>9. CacheInPlace'
    <2>1. Sent' = 0
      BY <1>8 DEF Sent
    <2>2. \A z \in Int : \A b \in Digit : b \notin z .. (z + 0 - 1)
      BY RadixAssumption DEF Digit
    <2>3. ByteOf(PageOffset(req, PageOfStep(index' + 1))) \in Int
      <3>1. PageOfStep(index' + 1) \in Nat
        BY <1>1, <1>2, NextStep
      <3>2. PageOffset(req, PageOfStep(index' + 1)) \in Nat
        BY <1>2, <3>1, RequestFacts, PageOffsetFacts
      <3>3. QED
        BY <3>2, DigitsOfOffset DEF Digit
    <2>4. \A b \in Digit : cache'[b] = Zero
      BY <1>1 DEF ZeroPage
    <2>5. index' # 1 /\ req' = req
      BY <1>1, <1>2
    <2>6. QED
      BY <2>1, <2>2, <2>3, <2>4, <2>5 DEF CacheInPlace
  <1>10. BlockInPlace' /\ BufferFollows'
    BY <1>1 DEF BlockInPlace, StoreInv, BufferFollows
  <1>11. MirrorHasEffect'
    BY <1>1, InsideKeepsEffect DEF StoreInv
  <1>12. QED
    BY <1>7, <1>9, <1>10, <1>11 DEF StoreInv

\* So is what an erase clears.
LEMMA EraseKeepsStore ==
  ASSUME WholeOperations, ExecInv, ExecInv', StoreInv, SendCommand, Inside,
         index # 0, req.op = "erase"
  PROVE  StoreInv'
  <1> DEFINE S == FrontierAt(req, index)
             E == RegionEnd(req)
  <1>1. /\ pc = "cmd" /\ pc' = "next" /\ done' = 0 /\ index >= 2 /\ index' = index + 1
        /\ index' < Len(OperationFor(req))
        /\ UNCHANGED <<req, mirror, buffer>>
        /\ data_store' = [data_store EXCEPT ![cursor.block] = ZeroBlock]
        /\ cursor' = NextBlock(cursor)
    BY ExecuteInHand
  <1>2. /\ req \in Requests /\ index \in Nat /\ index < Len(OperationFor(req))
        /\ Len(OperationFor(req)) \in Nat /\ data_store \in [Digit -> Block]
        /\ req.offset \in Nat /\ req.size \in Nat \ {0} /\ Instruction.type = "cmd"
    BY <1>1, CallFacts
  <1>3. (index + 1) % 2 = 1
    <2>1. Instruction = OperationFor(req)[index + 1]
      BY <1>1, InstructionInHand
    <2>2. index + 1 \in 3 .. Len(OperationFor(req))
      BY <1>1, <1>2
    <2>3. (index + 1) % 2 = 0 => Instruction = WaitRdy(WaitInterval(req.op))
      BY <1>2, <2>1, <2>2, StepsOfErase
    <2>4. (index + 1) % 2 # 0
      BY <1>2, <2>3 DEF WaitRdy
    <2>5. QED
      BY <1>2, <2>4
  <1>4. /\ S \in Nat /\ S = BlockStart(S) /\ E \in Int /\ S + BlockSize <= E + 1
        /\ RegionStart(req) <= S /\ RegionStart(req) \in Nat
        /\ FrontierAt(req, index + 1) = S + BlockSize
    BY <1>1, <1>2, <1>3, FrontierOfErase
  <1>5. cursor.block = BlockOf(S)
    BY <1>1 DEF StoreInv, BlockInPlace
  <1>6. Unsettled = S .. E /\ Unsettled' = (S + BlockSize) .. E
    BY <1>1, <1>4 DEF Unsettled
  <1>7. AgreesOutside(S .. E)
    BY <1>6 DEF StoreInv
  <1>8. FrontierAt(req', index') = S + BlockSize
    BY <1>1, <1>4
  <1> HIDE DEF S, E
  <1>9. AgreesOutside(Unsettled)'
    <2>1. BlockIsBlank(S)
      <3>1. SUFFICES ASSUME NEW y \in S .. (S + BlockSize - 1)
                     PROVE  y \in RegionStart(req) .. RegionEnd(req)
        BY <1>1 DEF BlockIsBlank, StoreInv, MirrorHasEffect
      <3>2. QED
        BY <1>4, SizesArePositive DEF E
    <2>2. ErasesBlockOf(S)
      BY <1>1, <1>5 DEF ErasesBlockOf
    <2>3. WillAgreeOutside((S + BlockSize) .. E)
      BY <1>1, <1>2, <1>4, <1>7, <2>1, <2>2, BlockIsSettled
    <2>4. QED
      BY <1>6, <2>3 DEF AgreesOutside, WillAgreeOutside
  <1>10. BlockInPlace'
    <2>1. cursor' = CursorAt(S + BlockSize)
      BY <1>1, <1>4, <1>5, NextBlockIsNext
    <2>2. cursor'.block = BlockOf(S + BlockSize)
      BY <2>1 DEF CursorAt
    <2>3. QED
      BY <1>8, <2>2 DEF BlockInPlace
  <1>11. CacheInPlace' /\ BufferFollows'
    BY <1>1 DEF CacheInPlace, StoreInv, BufferFollows
  <1>12. MirrorHasEffect'
    BY <1>1, InsideKeepsEffect DEF StoreInv
  <1>13. QED
    BY <1>9, <1>10, <1>11, <1>12 DEF StoreInv

\* A page that is fetched has been read no more than before.
LEMMA FetchKeepsStore ==
  ASSUME WholeOperations, ExecInv, ExecInv', StoreInv, SendCommand, Inside,
         index # 0, req.op = "read"
  PROVE  StoreInv'
  <1>1. /\ pc = "cmd" /\ pc' = "next" /\ done' = 0 /\ index >= 2 /\ index' = index + 1
        /\ index' < Len(OperationFor(req))
        /\ UNCHANGED <<req, mirror, buffer, data_store>>
    BY ExecuteInHand
  <1>2. /\ index \in Nat /\ index < Len(OperationFor(req)) /\ Instruction.type = "cmd"
    BY <1>1, CallFacts
  <1>3. PlaceOfStep(index + 1) = 0 /\ PlaceOfStep(index' + 1) = 1
        /\ PageOfStep(index' + 1) = PageOfStep(index + 1)
    <2>1. PlaceOfStep(index + 1) = 0
      BY <1>1, <1>2, TransferInHand
    <2>2. QED
      BY <1>1, <1>2, <2>1, NextStep
  <1>4. BytesRead' = BytesRead
    <2>1. ~(index < 2) /\ ~(index' < 2)
      BY <1>1, <1>2
    <2>2. QED
      BY <1>1, <1>3, <2>1 DEF BytesRead
  <1>5. BufferFollows'
    BY <1>1, <1>4 DEF StoreInv, BufferFollows
  <1>6. AgreesOutside(Unsettled)'
    <2>1. Unsettled = {} /\ Unsettled' = {}
      BY <1>1 DEF Unsettled
    <2>2. QED
      BY <1>1, <2>1 DEF StoreInv, AgreesOutside, Stored
  <1>7. BlockInPlace' /\ CacheInPlace'
    BY <1>1 DEF BlockInPlace, CacheInPlace
  <1>8. MirrorHasEffect'
    BY <1>1, InsideKeepsEffect DEF StoreInv
  <1>9. QED
    BY <1>5, <1>6, <1>7, <1>8 DEF StoreInv

LEMMA SendCommandKeepsStore ==
  ASSUME WholeOperations, ExecInv, ExecInv', CursorInPlace, StoreInv, SendCommand,
         Inside
  PROVE  StoreInv'
  <1>1. req.op \in Operation
    BY CallFacts DEF SendCommand
  <1>2. QED
    BY <1>1, SetupKeepsStore, ProgramKeepsStore, EraseKeepsStore, FetchKeepsStore
    DEF Operation

\* The device's cursor leaves what is stored alone, while it is told where to go.
LEMMA SendAddressKeepsStore ==
  ASSUME ExecInv, StoreInv, SendAddress, Inside
  PROVE  StoreInv'
  <1> DEFINE d == Instruction.addrs[done + 1]
  <1>1. /\ pc = "addr" /\ done < Len(Instruction.addrs) /\ StoreAddress(d)
        /\ UNCHANGED <<pc, index, req, mirror, buffer>>
    BY DEF SendAddress, Transferring, waitVars, Inside
  <1>2. /\ req \in Requests /\ index \in Nat /\ done \in Nat
        /\ index < Len(OperationFor(req)) /\ Instruction.type = "addr"
        /\ req.op \in Operation /\ req.offset \in Nat /\ req.size \in Nat \ {0}
    BY <1>1, CallFacts
  <1>3. index = 1 /\ Instruction.addrs = AddressesOf(req)
    <2>1. index # 0 /\ ~(index >= 2)
      BY <1>1, <1>2, InstructionInHand
    <2>2. index = 1
      BY <1>2, <2>1
    <2>3. QED
      BY <1>1, <2>2, InstructionInHand
  <1>4. /\ AddressesOf(req) \in Seq(Digit)
        /\ Len(AddressesOf(req)) = IF req.op = "erase" THEN 1 ELSE 3
    BY <1>2, AddressesFit
  <1>5. d \in Digit
    BY <1>1, <1>2, <1>3, <1>4
  <1> HIDE DEF d
  <1>6. machine_state = AddressStateOf(req.op, done)
    BY <1>1, <1>3 DEF ExecInv, DriverKnowsDevice
  <1>7. UNCHANGED <<cache, data_store>>
    <2>1. CASE done = 0
      BY <1>1, <1>2, <1>5, <1>6, <2>1, BlockAddressIsAccepted
      DEF ExecInv, AddressStateOf
    <2>2. CASE done = 1
      <3>1. req.op # "erase" /\ machine_state = AwaitingPageOf(req.op)
        BY <1>1, <1>3, <1>4, <1>6, <2>2 DEF AddressStateOf
      <3>2. QED
        BY <1>1, <1>2, <1>5, <3>1, PageAddressIsAccepted DEF ExecInv
    <2>3. CASE done = 2
      <3>1. req.op # "erase" /\ machine_state = AwaitingByteOf(req.op)
        BY <1>1, <1>3, <1>4, <1>6, <2>3 DEF AddressStateOf
      <3>2. QED
        BY <1>1, <1>2, <1>5, <3>1, ByteAddressIsAccepted DEF ExecInv
    <2>4. QED
      BY <1>1, <1>2, <1>3, <1>4, <2>1, <2>2, <2>3
  <1>8. AgreesOutside(Unsettled)'
    <2>1. Unsettled' = Unsettled
      BY <1>1 DEF Unsettled
    <2>2. QED
      BY <1>1, <1>7, <2>1 DEF StoreInv, AgreesOutside, Stored
  <1>9. BlockInPlace' /\ CacheInPlace' /\ BufferFollows'
    BY <1>1, <1>3, <1>7
    DEF StoreInv, BlockInPlace, CacheInPlace, BufferFollows, BytesRead
  <1>10. MirrorHasEffect'
    BY <1>1, InsideKeepsEffect DEF StoreInv
  <1>11. QED
    BY <1>8, <1>9, <1>10 DEF StoreInv

\* A byte that is sent has its place in the cache.
LEMMA ProgramByteKeepsStore ==
  ASSUME ExecInv, CursorInPlace, StoreInv, ProgramByte, Inside
  PROVE  StoreInv'
  <1> DEFINE v == req.data[Instruction.at + done]
             k == index + 1
             j == PageOfStep(k)
             x == PageOffset(req, j)
             B == PageBegins(req, j)
             len == PageEnds(req, j) - PageBegins(req, j)
             first == ByteOf(x)
  <1>1. /\ pc = "data_in" /\ done < Instruction.len /\ StoreData(v)
        /\ done' = done + 1 /\ UNCHANGED <<pc, index, req, mirror, buffer>>
    BY DEF ProgramByte, Transferring, waitVars, Inside
  <1>2. /\ req \in Requests /\ index \in Nat /\ done \in Nat
        /\ index < Len(OperationFor(req)) /\ Instruction.type = "data_in"
        /\ cursor \in Cursor /\ cache \in [Digit -> Byte]
    BY <1>1, CallFacts
  <1>3. index >= 2 /\ req.op = "write"
    <2>1. index # 0 /\ index # 1
      BY <1>1, <1>2, InstructionInHand
    <2>2. index >= 2
      BY <1>2, <2>1
    <2>3. QED
      BY <1>1, <1>2, <2>2, InstructionInHand
  <1>4. /\ req.offset \in Nat /\ req.size \in Nat \ {0} /\ k \in Nat /\ k >= 3
        /\ j \in 0 .. (PagesOf(req) - 1)
        /\ PlaceOfStep(k) = 0
        /\ Instruction.at = B /\ Instruction.len = len
    BY <1>1, <1>2, <1>3, TransferInHand
  <1>5. len \in 1 .. Radix /\ first \in Nat /\ first + len <= Radix
    BY <1>4, PageLength
  <1>6. cursor.byte = first + done
    BY <1>1, <1>2, <1>3, <1>4 DEF CursorInPlace
  <1>7. machine_state = MS_PROGRAM_ACCEPTING_DATA /\ ~BeforeDeadline
    <2>1. index = 2 \/ index > 2
      BY <1>2, <1>3
    <2>2. QED
      BY <1>1, <1>3, <2>1 DEF ExecInv, DriverKnowsDevice, AddressedOf, WorkingOf
  <1>8. v \in Byte
    <2>1. /\ Instruction.at \in Nat /\ Instruction.len \in 1 .. Radix
          /\ Instruction.at + Instruction.len <= req.size
      BY <1>1, <1>2, <1>3, InstructionInHand
    <2>2. Instruction.at + done \in 0 .. (req.size - 1)
      <3>1. done \in Nat /\ done < Instruction.len /\ req.size \in Nat
        BY <1>1, <1>2, <1>4
      <3>2. QED
        BY <2>1, <3>1, RadixAssumption
    <2>3. QED
      BY <1>2, <1>3, <2>2, RequestFacts
  <1>9. v = req.data[B + done]
    BY <1>4
  <1> HIDE DEF v
  <1>10. cache' = [cache EXCEPT ![cursor.byte] = v] /\ UNCHANGED data_store
    BY <1>1, <1>7, <1>8, DataInIsAccepted DEF ExecInv
  <1>11. Sent = done /\ Sent' = done + 1
    BY <1>1, <1>4 DEF Sent
  <1>12. \A b \in Digit :
           cache[b] = IF b \in first .. (first + done - 1)
                        THEN req.data[B + (b - first)] ELSE Zero
    BY <1>1, <1>2, <1>3, <1>11 DEF StoreInv, CacheInPlace
  <1>13. \A b \in Digit :
           cache'[b] = IF b \in first .. (first + (done + 1) - 1)
                         THEN req.data[B + (b - first)] ELSE Zero
    <2> HIDE DEF first, B, len, k
    <2>1. cursor.byte \in Digit
      BY <1>2 DEF Cursor
    <2>2. ASSUME NEW b \in Digit, b = first + done
          PROVE  cache'[b] = req.data[B + (b - first)]
      <3>1. b - first = done
        BY <1>2, <1>5, <2>2
      <3>2. QED
        BY <1>2, <1>6, <1>9, <1>10, <2>1, <2>2, <3>1
    <2>3. ASSUME NEW b \in Digit, b # first + done
          PROVE  cache'[b] = cache[b]
      BY <1>2, <1>6, <1>10, <2>1, <2>3
    <2>4. \A b \in Digit :
            (b \in first .. (first + (done + 1) - 1)) <=>
              (b = first + done \/ b \in first .. (first + done - 1))
      BY <1>2, <1>5, RadixAssumption DEF Digit
    <2>5. \A b \in Digit : b = first + done => b \notin first .. (first + done - 1)
      BY <1>2, <1>5, RadixAssumption DEF Digit
    <2>6. QED
      BY <1>12, <2>2, <2>3, <2>4, <2>5
  <1>14. CacheInPlace'
    <2>1. index' = index /\ req' = req /\ index # 1
      BY <1>1, <1>2, <1>3
    <2>2. QED
      BY <1>11, <1>13, <2>1 DEF CacheInPlace
  <1>15. AgreesOutside(Unsettled)'
    <2>1. Unsettled' = Unsettled
      BY <1>1 DEF Unsettled
    <2>2. QED
      BY <1>1, <1>10, <2>1 DEF StoreInv, AgreesOutside, Stored
  <1>16. BlockInPlace' /\ BufferFollows'
    BY <1>1, <1>3 DEF BlockInPlace, StoreInv, BufferFollows
  <1>17. MirrorHasEffect'
    BY <1>1, InsideKeepsEffect DEF StoreInv
  <1>18. QED
    BY <1>14, <1>15, <1>16, <1>17 DEF StoreInv

\* A byte that is read is the answer key's, and goes to its own place.
LEMMA ReadByteKeepsStore ==
  ASSUME ExecInv, CursorInPlace, StoreInv, ReadByte, Inside
  PROVE  StoreInv'
  <1> DEFINE k == index + 1
             j == PageOfStep(k)
             i == Instruction.at + done
             x == req.offset + Instruction.at + done
  <1>1. /\ pc = "data_out" /\ done < Instruction.len /\ LoadData(TRUE)
        /\ done' = done + 1 /\ UNCHANGED <<pc, index, req, mirror>>
        /\ buffer' = [buffer EXCEPT ![i] = loaded']
    BY DEF ReadByte, Transferring, waitVars, Inside
  <1>2. /\ req \in Requests /\ index \in Nat /\ done \in Nat
        /\ index < Len(OperationFor(req)) /\ Instruction.type = "data_out"
        /\ cache \in [Digit -> Byte]
    BY <1>1, CallFacts
  <1>3. index >= 2 /\ index > 2 /\ req.op = "read"
    <2>1. index # 0 /\ index # 1
      BY <1>1, <1>2, InstructionInHand
    <2>2. index >= 2
      BY <1>2, <2>1
    <2>3. QED
      BY <1>1, <1>2, <2>2, InstructionInHand
  <1>4. /\ req.offset \in Nat /\ req.size \in Nat \ {0}
        /\ PlaceOfStep(k) = 2 /\ Instruction.at = PageBegins(req, j)
    BY <1>1, <1>2, <1>3, TransferInHand
  <1>5. /\ Instruction.at \in Nat /\ Instruction.len \in 1 .. Radix
        /\ Instruction.at + Instruction.len <= req.size
    BY <1>1, <1>2, <1>3, InstructionInHand
  <1>6. i \in 0 .. (req.size - 1) /\ x = req.offset + i /\ i \in Nat
    <2>1. done \in Nat /\ done < Instruction.len
      BY <1>1, <1>2
    <2>2. req.offset \in Nat /\ req.size \in Nat
      BY <1>4
    <2>3. QED
      BY <1>5, <2>1, <2>2, RadixAssumption
  <1>7. x \in Nat /\ cursor = CursorAt(x) /\ cache = PageAt(cursor)
    BY <1>1, CursorAtByte
  <1>8. machine_state = MS_READ_PROVIDING_DATA /\ ~BeforeDeadline
    BY <1>1, <1>3 DEF ExecInv, DriverKnowsDevice, WorkingOf
  <1>9. loaded' = cache[cursor.byte] /\ UNCHANGED <<cache, data_store>>
    BY <1>1, <1>8, DataOutIsProvided DEF ExecInv
  <1>10. BytesRead = i /\ BytesRead' = i + 1
    <2>1. ~(index < 2)
      BY <1>2, <1>3
    <2>2. BytesRead = PageBegins(req, j) + done
      BY <1>1, <1>4, <2>1 DEF BytesRead
    <2>3. BytesRead' = PageBegins(req, j) + (done + 1)
      BY <1>1, <1>4, <2>1 DEF BytesRead
    <2>4. QED
      BY <1>2, <1>4, <1>5, <2>2, <2>3
  <1> HIDE DEF i, x, k, j
  <1>11. loaded' = mirror[Wrap(x)] /\ loaded' \in Byte
    <2>1. loaded' = Stored(x) /\ ByteOf(x) \in Digit
      BY <1>7, <1>9, DigitsOfOffset DEF CursorAt, PageAt, Stored
    <2>2. Stored(Wrap(x)) = Stored(x) /\ Wrap(x) \in StorageAddress
      BY <1>7, WrapFacts DEF Stored
    <2>3. Stored(Wrap(x)) = mirror[Wrap(x)]
      BY <1>1, <1>3, <2>2 DEF StoreInv, Unsettled, AgreesOutside
    <2>4. loaded' \in Byte
      BY <1>2, <1>7, <1>9, <2>1 DEF CursorAt
    <2>5. QED
      BY <2>1, <2>2, <2>3, <2>4
  <1>12. BufferFollows'
    <2>1. /\ buffer \in [0 .. (req.size - 1) -> Byte \union {Junk}]
          /\ \A n \in 0 .. (req.size - 1) :
               n < i => buffer[n] = mirror[Wrap(req.offset + n)]
      BY <1>3, <1>10 DEF StoreInv, BufferFollows
    <2>2. buffer' \in [0 .. (req.size - 1) -> Byte \union {Junk}]
      BY <1>1, <1>11, <2>1
    <2>3. ASSUME NEW n \in 0 .. (req.size - 1), n < i + 1
          PROVE  buffer'[n] = mirror[Wrap(req.offset + n)]
      <3>1. CASE n = i
        BY <1>1, <1>6, <1>11, <2>1, <3>1
      <3>2. CASE n # i
        <4>1. n < i
          BY <1>4, <1>6, <2>3, <3>2
        <4>2. buffer'[n] = buffer[n]
          BY <1>1, <2>1, <3>2
        <4>3. QED
          BY <2>1, <4>1, <4>2
      <3>3. QED
        BY <3>1, <3>2
    <2>4. QED
      BY <1>1, <1>3, <1>10, <2>2, <2>3 DEF BufferFollows
  <1>13. AgreesOutside(Unsettled)'
    <2>1. Unsettled = {} /\ Unsettled' = {}
      BY <1>1, <1>3 DEF Unsettled
    <2>2. QED
      BY <1>1, <1>9, <2>1 DEF StoreInv, AgreesOutside, Stored
  <1>14. BlockInPlace' /\ CacheInPlace'
    BY <1>1, <1>3 DEF BlockInPlace, CacheInPlace
  <1>15. MirrorHasEffect'
    BY <1>1, InsideKeepsEffect DEF StoreInv
  <1>16. QED
    BY <1>12, <1>13, <1>14, <1>15 DEF StoreInv

\* A blank cache is right for a page of which nothing has been sent.
LEMMA BlankPage ==
  ASSUME NEW r \in Requests, NEW j \in Nat
  PROVE  \A b \in Digit :
           ZeroPage[b] =
             LET first == ByteOf(PageOffset(r, j))
             IN IF b \in first .. (first + 0 - 1)
                  THEN r.data[PageBegins(r, j) + (b - first)] ELSE Zero
  <1>1. ByteOf(PageOffset(r, j)) \in Nat
    <2>1. PageOffset(r, j) \in Nat
      BY RequestFacts, PageOffsetFacts
    <2>2. QED
      BY <2>1, DigitsOfOffset, RadixAssumption DEF Digit
  <1>2. \A z \in Nat : \A b \in Digit : b \notin z .. (z + 0 - 1)
    BY RadixAssumption DEF Digit
  <1>3. QED
    BY <1>1, <1>2 DEF ZeroPage

\* What the end of an instruction comes to.
LEMMA EndInHand ==
  ASSUME WholeOperations, ExecInv, ExecInv', InstructionEnds, Inside
  PROVE  /\ pc \in {"addr", "data_in", "data_out", "ready"} /\ pc' = "next" /\ done' = 0
         /\ Instruction.type = IF pc = "ready" THEN "wait" ELSE pc
         /\ pc = "addr" => done = Len(Instruction.addrs)
         /\ pc \in {"data_in", "data_out"} => done = Instruction.len
         /\ index \in Nat \ {0} /\ index < Len(OperationFor(req))
         /\ index' = index + 1 \/ index' = 0
         /\ UNCHANGED <<cursor, cache, data_store, req, mirror, buffer>>
  <1>1. /\ pc \in {"addr", "data_in", "data_out", "ready"}
        /\ pc = "addr" => done = Len(Instruction.addrs)
        /\ pc \in {"data_in", "data_out"} => done = Instruction.len
        /\ GoOn /\ UNCHANGED <<cursor, cache, data_store, buffer>>
    BY DEF InstructionEnds, deviceVars, storeVars
  <1>2. /\ index \in Nat /\ index < Len(OperationFor(req))
        /\ Instruction.type = IF pc = "ready" THEN "wait" ELSE pc
    BY <1>1, CallFacts
  <1>3. /\ pc' = "next" /\ done' = 0 /\ UNCHANGED <<req, mirror>>
        /\ index' = index + 1 \/ index' = 0
    BY <1>1, GoOnKeepsCall DEF ExecInv, Inside
  <1>4. index # 0
    BY <1>1, <1>2, InstructionInHand
  <1>5. QED
    BY <1>1, <1>2, <1>3, <1>4

\* Which bytes are settled does not change between instructions, and it is safe
\* to forget when an operation comes round again.
LEMMA EndKeepsAgreement ==
  ASSUME WholeOperations, ExecInv, ExecInv', StoreInv, InstructionEnds, Inside
  PROVE  AgreesOutside(Unsettled)' /\ MirrorHasEffect'
  <1>1. /\ pc \in {"addr", "data_in", "data_out", "ready"} /\ pc' = "next"
        /\ Instruction.type = IF pc = "ready" THEN "wait" ELSE pc
        /\ index \in Nat \ {0} /\ index < Len(OperationFor(req))
        /\ index' = index + 1 \/ index' = 0
        /\ UNCHANGED <<data_store, req, mirror>>
    BY EndInHand
  <1>2. /\ req \in Requests /\ req.op \in Operation
        /\ req.offset \in Nat /\ req.size \in Nat \ {0}
        /\ Len(OperationFor(req)) \in Nat
    BY <1>1, CallFacts
  <1>3. MirrorHasEffect'
    BY <1>1, InsideKeepsEffect DEF StoreInv
  <1>4. Unsettled \subseteq Unsettled'
    <2>1. CASE req.op = "read"
      BY <2>1 DEF Unsettled
    <2>2. CASE req.op = "write"
      <3>1. FrontierAt(req, 0) = RegionStart(req) /\ FrontierAt(req, 2) = RegionStart(req)
        BY <1>2, <2>2, CallFacts, <1>1, FrontierOfWrite
      <3>2. /\ RegionStart(req) <= FrontierAt(req, index) /\ FrontierAt(req, index) \in Nat
            /\ RegionStart(req) \in Nat /\ RegionEnd(req) \in Int
            /\ index < 2 => FrontierAt(req, index) = RegionStart(req)
            /\ index >= 2 =>
                 FrontierAt(req, index + 1) =
                   FrontierAt(req, index) + (IF PlaceOfStep(index + 1) = 1 THEN Radix ELSE 0)
        BY <1>1, <1>2, <2>2, FrontierOfWrite
      <3>3. index >= 2 => PlaceOfStep(index + 1) # 1
        BY <1>1, <1>2, <2>2, TransferInHand
      <3>4. index < 2 => index = 1
        BY <1>1
      <3>5. FrontierAt(req, index + 1) = FrontierAt(req, index)
        BY <1>1, <3>1, <3>2, <3>3, <3>4
      <3>6. FrontierAt(req', index') <= FrontierAt(req, index) /\ FrontierAt(req', index') \in Nat
        BY <1>1, <3>1, <3>2, <3>5
      <3>7. QED
        BY <1>1, <2>2, <3>2, <3>6 DEF Unsettled
    <2>3. CASE req.op = "erase"
      <3>1. FrontierAt(req, 0) = RegionStart(req) /\ FrontierAt(req, 2) = RegionStart(req)
        BY <1>2, <2>3, CallFacts, <1>1, FrontierOfErase
      <3>2. /\ RegionStart(req) <= FrontierAt(req, index) /\ FrontierAt(req, index) \in Nat
            /\ RegionStart(req) \in Nat /\ RegionEnd(req) \in Int
            /\ index < 2 => FrontierAt(req, index) = RegionStart(req)
            /\ index >= 2 =>
                 FrontierAt(req, index + 1) =
                   FrontierAt(req, index) + (IF (index + 1) % 2 = 1 THEN BlockSize ELSE 0)
        BY <1>1, <1>2, <2>3, FrontierOfErase
      <3>3. index >= 2 => (index + 1) % 2 # 1
        <4>1. SUFFICES ASSUME index >= 2, (index + 1) % 2 = 1
                       PROVE  FALSE
          OBVIOUS
        <4>2. index + 1 \in 3 .. Len(OperationFor(req))
          BY <1>1, <1>2, <4>1
        <4>3. Instruction = Cmd(ExecuteCommand(req.op))
          BY <1>1, <1>2, <2>3, <4>1, <4>2, StepsOfErase, InstructionInHand
        <4>4. QED
          BY <1>1, <4>3 DEF Cmd
      <3>4. index < 2 => index = 1
        BY <1>1
      <3>5. FrontierAt(req, index + 1) = FrontierAt(req, index)
        BY <1>1, <3>1, <3>2, <3>3, <3>4
      <3>6. FrontierAt(req', index') <= FrontierAt(req, index) /\ FrontierAt(req', index') \in Nat
        BY <1>1, <3>1, <3>2, <3>5
      <3>7. QED
        BY <1>1, <2>3, <3>2, <3>6 DEF Unsettled
    <2>4. QED
      BY <1>2, <2>1, <2>2, <2>3 DEF Operation
  <1>5. AgreesOutside(Unsettled)'
    BY <1>1, <1>4 DEF StoreInv, AgreesOutside, Stored
  <1>6. QED
    BY <1>3, <1>5

\* An erase's cursor stays at the block that comes next.
LEMMA EndKeepsBlock ==
  ASSUME WholeOperations, ExecInv, ExecInv', CursorInPlace, StoreInv, InstructionEnds,
         Inside
  PROVE  BlockInPlace'
  <1>1. /\ pc \in {"addr", "data_in", "data_out", "ready"} /\ pc' = "next"
        /\ Instruction.type = IF pc = "ready" THEN "wait" ELSE pc
        /\ pc = "addr" => done = Len(Instruction.addrs)
        /\ index \in Nat \ {0} /\ index < Len(OperationFor(req))
        /\ index' = index + 1 \/ index' = 0
        /\ UNCHANGED <<cursor, req>>
    BY EndInHand
  <1>2. /\ req \in Requests /\ req.offset \in Nat /\ req.size \in Nat \ {0}
        /\ Len(OperationFor(req)) \in Nat /\ Len(OperationFor(req)) >= 4
    BY <1>1, CallFacts
  <1>3. CASE index' = 0 \/ req.op # "erase"
    BY <1>1, <1>3 DEF BlockInPlace
  <1>4. CASE index' = index + 1 /\ req.op = "erase" /\ index = 1
    <2>1. Instruction.type = "addr" /\ Instruction.addrs = AddressesOf(req)
      BY <1>1, <1>4, InstructionInHand
    <2>2. pc = "addr" /\ done = 1
      BY <1>1, <1>2, <1>4, <2>1, AddressesFit
    <2>3. cursor.block = BlockOf(req.offset)
      BY <1>1, <1>4, <2>2 DEF CursorInPlace
    <2>4. FrontierAt(req, 2) = RegionStart(req) /\ RegionStart(req) = BlockStart(req.offset)
      BY <1>2, <1>4, FrontierOfErase DEF RegionStart
    <2>5. BlockOf(BlockStart(req.offset)) = BlockOf(req.offset)
      <3>1. BlockStart(req.offset) \in Nat
        BY <1>2, DigitsOfOffset
      <3>2. QED
        BY <1>2, <3>1, InBlock, SizesArePositive
    <2>6. FrontierAt(req', index') = BlockStart(req.offset)
      BY <1>1, <1>4, <2>4
    <2>7. QED
      BY <1>1, <2>3, <2>5, <2>6 DEF BlockInPlace
  <1>5. CASE index' = index + 1 /\ req.op = "erase" /\ index >= 2
    <2>1. (index + 1) % 2 # 1
      <3>1. SUFFICES ASSUME (index + 1) % 2 = 1
                     PROVE  FALSE
        OBVIOUS
      <3>2. index + 1 \in 3 .. Len(OperationFor(req))
        BY <1>1, <1>2, <1>5
      <3>3. Instruction = Cmd(ExecuteCommand(req.op))
        BY <1>1, <1>2, <1>5, <3>1, <3>2, StepsOfErase, InstructionInHand
      <3>4. QED
        BY <1>1, <3>3 DEF Cmd
    <2>2. FrontierAt(req, index + 1) = FrontierAt(req, index)
      <3>1. req.op = "erase" /\ index \in Nat /\ index <= Len(OperationFor(req))
        BY <1>1, <1>2, <1>5
      <3>2. /\ FrontierAt(req, index) \in Nat
            /\ FrontierAt(req, index + 1) =
                 FrontierAt(req, index) + (IF (index + 1) % 2 = 1 THEN BlockSize ELSE 0)
        BY <1>2, <1>5, <3>1, FrontierOfErase
      <3>3. QED
        BY <2>1, <3>2
    <2>3. cursor.block = BlockOf(FrontierAt(req, index))
      BY <1>1, <1>5 DEF StoreInv, BlockInPlace
    <2>4. FrontierAt(req', index') = FrontierAt(req, index)
      BY <1>1, <1>5, <2>2
    <2>5. QED
      BY <1>1, <2>3, <2>4 DEF BlockInPlace
  <1>6. index = 1 \/ index >= 2
    BY <1>1
  <1>7. QED
    BY <1>1, <1>3, <1>4, <1>5, <1>6

\* The bytes of a page stay in the cache until they are programmed, and a page
\* starts with none.
LEMMA EndKeepsCache ==
  ASSUME WholeOperations, ExecInv, ExecInv', StoreInv, InstructionEnds, Inside
  PROVE  CacheInPlace'
  <1> DEFINE k == index + 1
  <1>1. /\ pc \in {"addr", "data_in", "data_out", "ready"} /\ pc' = "next" /\ done' = 0
        /\ Instruction.type = IF pc = "ready" THEN "wait" ELSE pc
        /\ pc \in {"data_in", "data_out"} => done = Instruction.len
        /\ index \in Nat \ {0} /\ index < Len(OperationFor(req))
        /\ index' = index + 1 \/ index' = 0
        /\ UNCHANGED <<cache, req>>
    BY EndInHand
  <1>2. /\ req \in Requests /\ cache \in [Digit -> Byte]
        /\ Len(OperationFor(req)) \in Nat /\ Len(OperationFor(req)) >= 4
    BY <1>1, CallFacts
  <1>3. CASE index' = 0 \/ req.op # "write" \/ index' >= Len(OperationFor(req))
    <2>1. ~(index' = 0 /\ index' >= 2) /\ ~(index' = 0 /\ index' = 1)
      BY <1>1
    <2>2. index' >= Len(OperationFor(req)) => index' # 1 /\ ~(index' < Len(OperationFor(req)))
      BY <1>1, <1>2
    <2>3. QED
      BY <1>1, <1>3, <2>1, <2>2 DEF CacheInPlace
  <1>4. ASSUME index' = index + 1, req.op = "write", index = 1
        PROVE  CacheInPlace'
    <2>1. cache = ZeroPage
      BY <1>1, <1>4 DEF StoreInv, CacheInPlace
    <2>2. index' = 2 /\ PlaceOfStep(index' + 1) = 0
      BY <1>4, NextStep
    <2>3. Sent' = 0
      BY <1>1, <2>2 DEF Sent
    <2>4. CacheInPlace'
      <3>1. \A b \in Digit :
              cache'[b] =
                LET j == PageOfStep(index' + 1)
                    first == ByteOf(PageOffset(req', j))
                IN IF b \in first .. (first + 0 - 1)
                     THEN req'.data[PageBegins(req', j) + (b - first)] ELSE Zero
        BY <1>1, <1>2, <2>1, <2>2, NextStep, BlankPage
      <3>2. index' # 1
        BY <2>2
      <3>3. QED
        BY <2>3, <3>1, <3>2 DEF CacheInPlace
    <2>5. QED
      BY <2>4
  <1>5. ASSUME index' = index + 1, req.op = "write", index >= 2,
               index' < Len(OperationFor(req))
        PROVE  CacheInPlace'
    <2> DEFINE j == PageOfStep(k)
               x == PageOffset(req, j)
               len == PageEnds(req, j) - PageBegins(req, j)
    <2>1. /\ k \in Nat /\ k >= 3 /\ index' + 1 = k + 1 /\ index' # 1
          /\ PlaceOfStep(k) \in 0 .. 2
      BY <1>1, <1>5, NextStep
    <2>2. /\ pc = "data_in" => PlaceOfStep(k) = 0 /\ done = len
          /\ pc = "ready" => PlaceOfStep(k) = 2
          /\ pc \in {"data_in", "ready"}
      <3>1. pc # "addr"
        BY <1>1, <1>5, InstructionInHand
      <3>2. QED
        BY <1>1, <1>5, <3>1, TransferInHand
    <2>3. CASE pc = "data_in"
      <3>1. PageOfStep(k + 1) = j /\ PlaceOfStep(k + 1) = 1
        BY <2>1, <2>2, <2>3, NextStep
      <3>2. Sent = len
        BY <2>2, <2>3 DEF Sent
      <3>3. Sent' = len
        BY <1>1, <2>1, <3>1 DEF Sent
      <3>4. \A b \in Digit :
              cache[b] = IF b \in ByteOf(x) .. (ByteOf(x) + len - 1)
                           THEN req.data[PageBegins(req, j) + (b - ByteOf(x))] ELSE Zero
        BY <1>1, <1>5, <3>2 DEF StoreInv, CacheInPlace
      <3>5. PageOfStep(index' + 1) = j
        BY <2>1, <3>1
      <3> HIDE DEF j, len
      <3>6. QED
        BY <1>1, <2>1, <3>3, <3>4, <3>5 DEF CacheInPlace
    <2>4. CASE pc = "ready"
      <3>1. PageOfStep(k + 1) = j + 1 /\ PlaceOfStep(k + 1) = 0 /\ j + 1 \in Nat /\ j \in Nat
        BY <2>1, <2>2, <2>4, NextStep
      <3>2. Sent = 0 /\ Sent' = 0
        BY <1>1, <2>1, <2>2, <2>4, <3>1 DEF Sent
      <3>3. \A b \in Digit :
              cache[b] = IF b \in ByteOf(x) .. (ByteOf(x) + 0 - 1)
                           THEN req.data[PageBegins(req, j) + (b - ByteOf(x))] ELSE Zero
        BY <1>1, <1>5, <3>2 DEF StoreInv, CacheInPlace
      <3>4. cache = ZeroPage
        <4>1. \A b \in Digit : b \notin ByteOf(x) .. (ByteOf(x) + 0 - 1)
          <5>1. x \in Nat
            BY <1>2, <3>1, RequestFacts, PageOffsetFacts
          <5>2. ByteOf(x) \in Nat
            BY <5>1, DigitsOfOffset, RadixAssumption DEF Digit
          <5>3. QED
            BY <5>2, RadixAssumption DEF Digit
        <4>2. QED
          BY <1>2, <3>3, <4>1 DEF ZeroPage
      <3>5. \A b \in Digit :
              cache'[b] =
                LET m == PageOfStep(index' + 1)
                    first == ByteOf(PageOffset(req', m))
                IN IF b \in first .. (first + 0 - 1)
                     THEN req'.data[PageBegins(req', m) + (b - first)] ELSE Zero
        BY <1>1, <1>2, <2>1, <3>1, <3>4, BlankPage
      <3>6. QED
        BY <2>1, <3>2, <3>5 DEF CacheInPlace
    <2>5. QED
      BY <2>2, <2>3, <2>4
  <1>6. index = 1 \/ index >= 2
    BY <1>1
  <1>7. index' >= Len(OperationFor(req)) \/ index' < Len(OperationFor(req))
    BY <1>1, <1>2
  <1>8. QED
    BY <1>1, <1>3, <1>4, <1>5, <1>6, <1>7

\* A read's bytes are counted from one page to the next.
LEMMA EndKeepsBuffer ==
  ASSUME WholeOperations, ExecInv, ExecInv', StoreInv, InstructionEnds, Inside
  PROVE  BufferFollows'
  <1> DEFINE k == index + 1
             j == PageOfStep(k)
  <1>1. /\ pc \in {"addr", "data_in", "data_out", "ready"} /\ pc' = "next" /\ done' = 0
        /\ Instruction.type = IF pc = "ready" THEN "wait" ELSE pc
        /\ pc \in {"data_in", "data_out"} => done = Instruction.len
        /\ index \in Nat \ {0} /\ index < Len(OperationFor(req))
        /\ index' = index + 1 \/ index' = 0
        /\ UNCHANGED <<req, mirror, buffer>>
    BY EndInHand
  <1>2. /\ req \in Requests /\ req.offset \in Nat /\ req.size \in Nat \ {0}
    BY <1>1, CallFacts
  <1>3. CASE req.op # "read"
    BY <1>1, <1>3 DEF StoreInv, BufferFollows
  <1>4. ASSUME req.op = "read"
        PROVE  \A i \in 0 .. (req.size - 1) : i < BytesRead' => i < BytesRead
    <2>1. CASE index' = 0
      <3>1. BytesRead' = 0
        BY <1>1, <2>1 DEF BytesRead
      <3>2. QED
        BY <1>2, <3>1
    <2>2. CASE index' = index + 1 /\ index = 1
      <3>1. index' + 1 = 3 /\ ~(index' < 2)
        BY <2>2
      <3>2. BytesRead' = PageBegins(req, 0) + 0
        BY <1>1, <3>1, NextStep DEF BytesRead
      <3>3. BytesRead' = 0
        BY <3>2 DEF PageBegins
      <3>4. QED
        BY <1>2, <3>3
    <2>3. CASE index' = index + 1 /\ index >= 2
      <3>1. /\ k \in Nat /\ k >= 3 /\ index' + 1 = k + 1 /\ ~(index' < 2) /\ ~(index < 2)
            /\ PlaceOfStep(k) \in 0 .. 2 /\ j \in Nat
        BY <1>1, <2>3, NextStep
      <3>2. /\ j \in 0 .. (PagesOf(req) - 1)
            /\ pc = "ready" => PlaceOfStep(k) = 1
            /\ pc = "data_out" => /\ PlaceOfStep(k) = 2
                                  /\ done = PageEnds(req, j) - PageBegins(req, j)
            /\ pc \in {"data_out", "ready"}
        <4>1. pc # "addr"
          BY <1>1, <2>3, InstructionInHand
        <4>2. QED
          BY <1>1, <1>4, <2>3, <4>1, TransferInHand
      <3>3. /\ PageBegins(req, j) \in Nat /\ PageEnds(req, j) \in Nat
            /\ PageBegins(req, j + 1) \in Nat
            /\ PageEnds(req, j) = IF j + 1 = PagesOf(req) THEN req.size
                                  ELSE PageBegins(req, j + 1)
        <4>1. j + 1 \in Nat
          BY <3>1
        <4> HIDE DEF j
        <4>2. QED
          BY <1>2, <3>1, <3>2, <4>1, PageRange, PagesCoverTransfer DEF PageEnds
      <3>4. CASE pc = "ready"
        <4>1. PageOfStep(k + 1) = j /\ PlaceOfStep(k + 1) = 2
          BY <3>1, <3>2, <3>4, NextStep
        <4>2. BytesRead = PageBegins(req, j) + 0
          BY <1>1, <3>1, <3>2, <3>4 DEF BytesRead
        <4>3. BytesRead' = PageBegins(req, j) + 0
          BY <1>1, <3>1, <4>1 DEF BytesRead
        <4>4. QED
          BY <4>2, <4>3
      <3>5. CASE pc = "data_out"
        <4>1. PageOfStep(k + 1) = j + 1 /\ PlaceOfStep(k + 1) = 0
          BY <3>1, <3>2, <3>5, NextStep
        <4>2. BytesRead = PageBegins(req, j) + done
          BY <1>1, <3>1, <3>2, <3>5 DEF BytesRead
        <4>3. BytesRead' = PageBegins(req, j + 1) + 0
          BY <1>1, <3>1, <4>1 DEF BytesRead
        <4>4. BytesRead = PageEnds(req, j)
          BY <3>2, <3>3, <3>5, <4>2
        <4>5. QED
          BY <1>2, <3>3, <4>3, <4>4
      <3>6. QED
        BY <3>2, <3>4, <3>5
    <2>4. QED
      BY <1>1, <2>1, <2>2, <2>3
  <1>5. QED
    BY <1>1, <1>3, <1>4 DEF StoreInv, BufferFollows

LEMMA EndKeepsStore ==
  ASSUME WholeOperations, ExecInv, ExecInv', CursorInPlace, StoreInv, InstructionEnds,
         Inside
  PROVE  StoreInv'
  BY EndKeepsAgreement, EndKeepsBlock, EndKeepsCache, EndKeepsBuffer DEF StoreInv

\* By the end of an operation nothing is left to settle or to read.
LEMMA ReturnKeepsStore ==
  ASSUME ExecInv, StoreInv, OperationEnds, UNCHANGED <<driver, mirror, made>>
  PROVE  StoreInv'
  <1>1. /\ pc = "next" /\ pc' = "idle" /\ index >= Len(OperationFor(req))
        /\ UNCHANGED <<req, buffer, data_store, mirror>>
    BY DEF OperationEnds, Return, EndCall, deviceVars, storeVars, ExecInv, CallInHand
  <1>2. /\ req \in Requests /\ req.op \in Operation /\ index = Len(OperationFor(req))
        /\ req.offset \in Nat /\ req.size \in Nat \ {0} /\ index \in Nat /\ index >= 4
    BY <1>1, CallFacts
  <1>3. Unsettled = {} /\ Unsettled' = {}
    <2>1. CASE req.op = "read"
      BY <1>1, <2>1 DEF Unsettled
    <2>2. CASE req.op \in {"write", "erase"}
      <3>1. FrontierAt(req, index) = RegionEnd(req) + 1 /\ RegionEnd(req) \in Int
        BY <1>2, <2>2, FrontierOfWrite, FrontierOfErase
      <3>2. QED
        BY <1>1, <3>1 DEF Unsettled
    <2>3. QED
      BY <1>2, <2>1, <2>2 DEF Operation
  <1>4. AgreesOutside(Unsettled)'
    BY <1>1, <1>3 DEF StoreInv, AgreesOutside, Stored
  <1>5. BufferFollows'
    <2>1. ASSUME req.op = "read"
          PROVE  \A i \in 0 .. (req.size - 1) : i < BytesRead
      <3> DEFINE n == PagesOf(req)
      <3>1. n \in Nat \ {0} /\ req.size <= PageBegins(req, n) /\ PageBegins(req, n) \in Nat
        BY <1>2, PagesCoverTransfer
      <3>2. index = 2 + 3 * n
        BY <1>2, <2>1, OperationParts
      <3> HIDE DEF n
      <3>3. PageOfStep(index + 1) = n /\ PlaceOfStep(index + 1) = 0
        BY <3>1, <3>2 DEF PageOfStep, PlaceOfStep
      <3>4. BytesRead = PageBegins(req, n) + 0
        BY <1>1, <1>2, <3>3 DEF BytesRead
      <3>5. QED
        BY <1>2, <3>1, <3>4
    <2>2. QED
      BY <1>1, <2>1 DEF StoreInv, BufferFollows
  <1>6. BlockInPlace' /\ CacheInPlace' /\ MirrorHasEffect'
    BY <1>1 DEF BlockInPlace, CacheInPlace, MirrorHasEffect
  <1>7. QED
    BY <1>4, <1>5, <1>6 DEF StoreInv

\* A call begins with its own region to settle, and its buffer to fill.
LEMMA RequestKeepsStore ==
  ASSUME ExecInv, StoreInv, Request
  PROVE  StoreInv'
  <1>1. PICK r \in Requests : Operate(r) /\ Call(r)
    BY DEF Request
  <1>2. /\ pc = "idle" /\ pc' = "next" /\ req' = r /\ index' = 0 /\ done' = 0
        /\ UNCHANGED data_store
        /\ buffer' = IF r.op = "read" THEN [i \in 0 .. (r.size - 1) |-> Junk] ELSE <<>>
    BY <1>1 DEF Call, BeginCall, deviceVars, storeVars
  <1>3. mirror \in Mirror /\ r.op \in Operation /\ r.size \in Nat
    BY RequestFacts DEF ExecInv, TypeOK, TesterTypeOK
  <1>4. /\ r.op = "write" =>
             \A x \in RegionStart(r) .. RegionEnd(r) :
               mirror'[Wrap(x)] = IF x \in r.offset .. (r.offset + r.size - 1)
                                    THEN r.data[x - r.offset] ELSE Zero
        /\ r.op = "erase" =>
             \A x \in RegionStart(r) .. RegionEnd(r) : mirror'[Wrap(x)] = Zero
        /\ r.op # "read" =>
             \A a \in StorageAddress :
               (\A x \in RegionStart(r) .. RegionEnd(r) : Wrap(x) # a) =>
                 mirror'[a] = mirror[a]
    BY <1>1, <1>3, CallTakesEffect
  <1>5. MirrorHasEffect'
    BY <1>2, <1>4 DEF MirrorHasEffect
  <1>6. AgreesOutside(Unsettled)'
    <2>1. \A a \in StorageAddress : Stored(a) = mirror[a]
      BY <1>2 DEF StoreInv, AgreesOutside, Unsettled
    <2>2. CASE r.op = "read"
      <3>1. mirror' = mirror
        BY <1>1, <2>2 DEF Operate
      <3>2. QED
        BY <1>2, <2>1, <3>1 DEF AgreesOutside, Stored
    <2>3. CASE r.op # "read"
      <3>1. FrontierAt(r, 0) = RegionStart(r)
        BY RegionFacts, SizesArePositive, RadixAssumption DEF FrontierAt
      <3>2. Unsettled' = RegionStart(r) .. RegionEnd(r)
        BY <1>2, <2>3, <3>1 DEF Unsettled
      <3>3. QED
        BY <1>2, <1>4, <2>1, <2>3, <3>2 DEF AgreesOutside, Stored
    <2>4. QED
      BY <2>2, <2>3
  <1>7. BufferFollows'
    <2>1. BytesRead' = 0
      BY <1>2 DEF BytesRead
    <2>2. \A i \in 0 .. (r.size - 1) : ~(i < 0)
      BY <1>3
    <2>3. QED
      BY <1>2, <2>1, <2>2 DEF BufferFollows
  <1>8. BlockInPlace' /\ CacheInPlace'
    BY <1>2 DEF BlockInPlace, CacheInPlace
  <1>9. QED
    BY <1>5, <1>6, <1>7, <1>8 DEF StoreInv

\* Steps between the instructions, the wait among them, change none of this.
LEMMA QuietStepKeepsStore ==
  ASSUME StoreInv, (pc = "idle") <=> (pc' = "idle"),
         UNCHANGED <<cursor, cache, data_store, mirror, req, buffer, index, done>>
  PROVE  StoreInv'
  <1>1. Unsettled' = Unsettled /\ Sent' = Sent /\ BytesRead' = BytesRead
    BY DEF Unsettled, Sent, BytesRead
  <1>2. AgreesOutside(Unsettled)'
    BY <1>1 DEF StoreInv, AgreesOutside, Stored
  <1>3. BlockInPlace' /\ CacheInPlace' /\ BufferFollows'
    BY <1>1 DEF StoreInv, BlockInPlace, CacheInPlace, BufferFollows
  <1>4. MirrorHasEffect'
    BY DEF StoreInv, MirrorHasEffect
  <1>5. QED
    BY <1>2, <1>3, <1>4 DEF StoreInv

-----------------------------------------------------------------------------
(* An array of bytes.                                                      *)

\* Any step.
LEMMA StepsKeepStore ==
  ASSUME WholeOperations, ExecInv, ExecInv', CursorInPlace, StoreInv, [Next]_vars
  PROVE  StoreInv'
  <1>1. CASE Request
    BY <1>1, RequestKeepsStore
  <1>2. CASE Tracee
    <2>1. UNCHANGED <<driver, mirror, made>>
      BY <1>2 DEF Tracee, testerVars
    <2>2. CASE SendCommand \/ SendAddress \/ ProgramByte \/ ReadByte \/ InstructionEnds
      <3>1. Inside
        BY <2>1, <2>2
        DEF Inside, SendCommand, SendAddress, ProgramByte, ReadByte, InstructionEnds,
            GoOn, Transferring
      <3>2. QED
        BY <2>2, <3>1, SendCommandKeepsStore, SendAddressKeepsStore,
           ProgramByteKeepsStore, ReadByteKeepsStore, EndKeepsStore
    <2>3. CASE Dispatch \/ /\ pc \in Waiting
                           /\ WaitStep(Instruction.timeout, FALSE)
                           /\ UNCHANGED <<callVars, deviceVars>>
      <3>1. pc # "idle" /\ pc' # "idle"
        <4>1. CASE Dispatch
          BY <4>1, InstructionInHand DEF Dispatch, ExecInv, CallInHand, TypeOK
        <4>2. CASE WaitStep(Instruction.timeout, FALSE) /\ pc \in Waiting
          BY <4>2
          DEF WaitStep, StartWait, Poll, FallAsleep, WakeUp, CheckTimeout, LastPoll,
              FirstStep, AfterBusy, AfterSleep, AfterCheck, AfterTimeout
        <4>3. QED
          BY <2>3, <4>1, <4>2
      <3>2. UNCHANGED <<cursor, cache, data_store, req, buffer, index, done>>
        BY <2>3 DEF Dispatch, callVars, opVars, deviceVars, storeVars
      <3>3. QED
        BY <2>1, <3>1, <3>2, QuietStepKeepsStore
    <2>4. CASE OperationEnds
      BY <2>1, <2>4, ReturnKeepsStore
    <2>5. ~GiveUp
      BY DEF GiveUp, ExecInv, TypeOK, StepName
    <2>6. QED
      BY <1>2, <2>2, <2>3, <2>4, <2>5 DEF Tracee, CallStep
  <1>3. CASE Time \/ UNCHANGED vars
    <2>1. UNCHANGED <<pc, cursor, cache, data_store, mirror, req, buffer, index, done>>
      BY <1>3
      DEF Time, Tick, vars, waitVars, callVars, opVars, deviceVars, storeVars, testerVars
    <2>2. QED
      BY <2>1, QuietStepKeepsStore
  <1>4. QED
    BY <1>1, <1>2, <1>3 DEF Next

LEMMA InitStores ==
  ASSUME Init
  PROVE  StoreInv
  <1>1. /\ pc = "idle" /\ req = NoRequest /\ buffer = <<>>
        /\ mirror = BlankMirror /\ data_store = [b \in Digit |-> ZeroBlock]
    BY DEF Init, ExecOpInit, FrameworkInit, TesterInit, ParserInit, StoreInit
  <1>2. ASSUME NEW a \in StorageAddress
        PROVE  data_store[BlockOf(a)][PageOf(a)][ByteOf(a)] = mirror[a]
    <2>1. BlockOf(a) \in Digit /\ PageOf(a) \in Digit /\ ByteOf(a) \in Digit
      BY AddressFacts
    <2>2. data_store[BlockOf(a)][PageOf(a)][ByteOf(a)] = Zero
      BY <1>1, <2>1 DEF ZeroBlock, ZeroPage
    <2>3. QED
      BY <1>1, <2>2 DEF BlankMirror
  <1>3. AgreesOutside(Unsettled)
    BY <1>2 DEF AgreesOutside, Stored
  <1>4. MirrorHasEffect /\ BlockInPlace /\ CacheInPlace /\ BufferFollows
    BY <1>1 DEF MirrorHasEffect, BlockInPlace, CacheInPlace, BufferFollows, NoRequest
  <1>5. QED
    BY <1>3, <1>4 DEF StoreInv

\* At every instruction it is known which of the region's bytes storage has, what
\* is in the cache, and which bytes of the caller's buffer are the right ones.
THEOREM StoreInvariant == Spec => [](WholeOperations => StoreInv)
  <1>1. Init => (WholeOperations => StoreInv)
    BY InitStores
  <1>2. /\ (WholeOperations => ExecInv) /\ (WholeOperations => ExecInv)'
        /\ (WholeOperations => CursorInPlace)
        /\ (WholeOperations => StoreInv) /\ [Next]_vars
        => (WholeOperations => StoreInv)'
    <2>1. SUFFICES ASSUME WholeOperations => ExecInv, (WholeOperations => ExecInv)',
                          WholeOperations => CursorInPlace, WholeOperations => StoreInv,
                          [Next]_vars, WholeOperations'
                   PROVE  StoreInv'
      OBVIOUS
    <2>2. WholeOperations
      BY <2>1, DriverIsChosenOnce DEF WholeOperations
    <2>3. ExecInv /\ ExecInv' /\ CursorInPlace /\ StoreInv
      BY <2>1, <2>2
    <2>4. QED
      BY <2>1, <2>2, <2>3, StepsKeepStore
  <1>3. QED
    BY <1>1, <1>2, ExecInvariant, CursorInvariant, PTL DEF Spec

\* What is left when a call has returned.
LEMMA ReturnsAreRight ==
  ASSUME ExecInv, StoreInv, pc = "idle" \/ (pc = "next" /\ index = Len(OperationFor(req)))
  PROVE  ReadsAsItShould
  <1>1. SUFFICES ASSUME req.op = "read"
                 PROVE  buffer = ReadMirror(mirror, req.offset, req.size)
    BY DEF ReadsAsItShould
  <1>2. req \in Requests /\ req.size \in Nat \ {0} /\ req.offset \in Nat
    BY <1>1, RequestFacts DEF ExecInv, TypeOK, TesterTypeOK, NoRequest
  <1>3. \A i \in 0 .. (req.size - 1) : i < BytesRead
    <2>1. CASE pc = "idle"
      BY <1>2, <2>1 DEF BytesRead
    <2>2. CASE pc # "idle"
      <3> DEFINE n == PagesOf(req)
      <3>1. n \in Nat \ {0} /\ req.size <= PageBegins(req, n) /\ PageBegins(req, n) \in Nat
        BY <1>2, PagesCoverTransfer
      <3>2. index = 2 + 3 * n
        BY <1>1, <1>2, <2>2, OperationParts DEF Operation
      <3> HIDE DEF n
      <3>3. /\ PageOfStep(index + 1) = n /\ PlaceOfStep(index + 1) = 0
            /\ ~(index < 2)
        BY <3>1, <3>2 DEF PageOfStep, PlaceOfStep
      <3>4. BytesRead = PageBegins(req, n) + 0
        BY <2>2, <3>3 DEF BytesRead
      <3>5. QED
        BY <1>2, <3>1, <3>4
    <2>3. QED
      BY <2>1, <2>2
  <1>4. /\ buffer \in [0 .. (req.size - 1) -> Byte \union {Junk}]
        /\ \A i \in 0 .. (req.size - 1) : buffer[i] = mirror[Wrap(req.offset + i)]
    BY <1>1, <1>3 DEF StoreInv, BufferFollows
  <1>5. QED
    BY <1>4 DEF ReadMirror

\* After every call storage is exactly what the mirror says, the zeroes around
\* partial pages and blocks included (exec_write(), exec_erase()).
THEOREM OperationsStore ==
  ASSUME Drivers \subseteq {"foxtrot_0", "foxtrot_2"},
         "foxtrot_2" \in Drivers => Modulus = 8
  PROVE  Spec => []StoreMatchesMirror
  <1>1. driver \in Drivers => WholeOperations
    BY DEF WholeOperations
  <1>2. ExecInv /\ StoreInv => StoreMatchesMirror
    <2>1. SUFFICES ASSUME ExecInv, StoreInv, pc = "idle"
                   PROVE  Contents = mirror
      BY DEF StoreMatchesMirror
    <2>2. AgreesOutside({}) /\ mirror \in Mirror
      BY <2>1 DEF StoreInv, Unsettled, ExecInv, TypeOK, TesterTypeOK
    <2>3. QED
      BY <2>2, AgreementIsTotal
  <1>3. QED
    BY <1>1, <1>2, ExecInvariant, StoreInvariant, DriverIsConsidered, PTL

\* A call takes effect when it is made, and only its return is seen after that.
LEMMA StepsOfArray ==
  ASSUME WholeOperations, ExecInv, StoreInv, [Next]_vars
  PROVE  [Array!Next]_(Array!storageVars)
  <1> USE DEF Array!Next, Array!storageVars
  <1>1. rc = 0
    BY DEF ExecInv, DriverKnowsDevice
  <1>2. ASSUME NEW r \in Requests, Operate(r), Call(r)
        PROVE  Array!Call(r)
    <2>1. pc = "idle" /\ pc' = "next" /\ req' = r /\ rc' = rc
      BY <1>2 DEF Call, BeginCall
    <2>2. mirror' = Array!Effect(mirror, r)
      BY <1>2, ArrayIsMirror DEF Operate, Array!Effect
    <2>3. QED
      BY <2>1, <2>2 DEF Array!Call, Array!NoAnswer
  <1>3. CASE OperationEnds /\ UNCHANGED <<driver, testerVars>>
    <2>1. /\ pc = "next" /\ index >= Len(OperationFor(req)) /\ pc' = "idle" /\ rc' = 0
          /\ UNCHANGED <<req, buffer, mirror>>
      BY <1>3 DEF OperationEnds, Return, EndCall, testerVars, ExecInv, CallInHand
    <2>2. req \in Requests /\ req # NoRequest /\ index = Len(OperationFor(req))
      <3>1. /\ req \in Requests /\ req.op \in Operation /\ index \in Nat
            /\ index <= Len(OperationFor(req)) /\ Len(OperationFor(req)) \in Nat
        BY <2>1, CallFacts
      <3>2. QED
        BY <2>1, <3>1 DEF NoRequest, Operation
    <2>3. buffer = IF req.op = "read" THEN ReadMirror(mirror, req.offset, req.size)
                   ELSE <<>>
      <3>1. ReadsAsItShould
        BY <2>1, <2>2, ReturnsAreRight
      <3>2. QED
        BY <3>1 DEF ReadsAsItShould, StoreInv, BufferFollows
    <2>4. [rc |-> rc', data |-> buffer'] = Array!Result(mirror, req)
      BY <2>1, <2>3, ArrayIsMirror DEF Array!Result
    <2>5. Array!Return
      BY <2>1, <2>2, <2>4 DEF Array!Return
    <2>6. QED
      BY <2>5
  <1>4. ASSUME pc # "idle", pc' # "idle", UNCHANGED <<req, mirror>>
        PROVE  UNCHANGED Array!storageVars
    BY <1>4
  <1>5. CASE Tracee /\ ~OperationEnds
    <2>1. ~GiveUp
      BY DEF GiveUp, ExecInv, TypeOK, StepName
    <2>2. pc # "idle" /\ pc' # "idle" /\ UNCHANGED req
      <3>1. CASE /\ pc \in Waiting /\ WaitStep(Instruction.timeout, FALSE)
                 /\ UNCHANGED callVars
        BY <3>1
        DEF WaitStep, StartWait, Poll, FallAsleep, WakeUp, CheckTimeout, LastPoll,
            callVars, FirstStep, AfterBusy, AfterSleep, AfterCheck, AfterTimeout
      <3>2. CASE SendCommand \/ InstructionEnds
        BY <3>2 DEF SendCommand, InstructionEnds, GoOn
      <3>3. CASE SendAddress \/ ProgramByte \/ ReadByte
        BY <3>3 DEF SendAddress, ProgramByte, ReadByte, Transferring, waitVars
      <3>4. CASE Dispatch
        BY <3>4, InstructionInHand
        DEF Dispatch, callVars, ExecInv, CallInHand, TypeOK
      <3>5. QED
        BY <1>5, <2>1, <3>1, <3>2, <3>3, <3>4 DEF Tracee, CallStep
    <2>3. QED
      BY <1>4, <1>5, <2>2 DEF Tracee, testerVars
  <1>6. CASE Time
    BY <1>6 DEF Time, callVars, testerVars
  <1>7. CASE UNCHANGED vars
    BY <1>7 DEF vars, waitVars, callVars, testerVars
  <1>8. QED
    BY <1>2, <1>3, <1>5, <1>6, <1>7 DEF Next, Request, Tracee

\* The framework's operations, the driver that carries them out and the device are
\* an array of bytes to their caller: each call takes effect once, in the order
\* made, and returns what the array would give.  foxtrot_2 is no exception where
\* its index wraps: the calls that return at all return this.
THEOREM OperationsImplementArray ==
  ASSUME Drivers \subseteq {"foxtrot_0", "foxtrot_2"},
         "foxtrot_2" \in Drivers => Modulus = 8
  PROVE  Spec => Array!Init /\ [][Array!Next]_(Array!storageVars)
  <1>1. driver \in Drivers => WholeOperations
    BY DEF WholeOperations
  <1>2. Init => Array!Init
    BY ArrayIsMirror
    DEF Init, ExecOpInit, FrameworkInit, TesterInit, Array!Init, Array!NoAnswer
  <1>3. /\ WholeOperations /\ ExecInv /\ StoreInv /\ [Next]_vars
        => [Array!Next]_(Array!storageVars)
    BY StepsOfArray
  <1>4. QED
    BY <1>1, <1>2, <1>3, ExecInvariant, StoreInvariant, DriverIsConsidered, PTL DEF Spec

-----------------------------------------------------------------------------
(* The driver that carries out the first five instructions only, and with  *)
(* them whatever lies after a shorter operation: foxtrot_1.                *)

\* Where the driver is in its copy.
CopyInHand ==
  /\ req \in Requests \union {NoRequest}
  /\ index \in Nat /\ done \in Nat
  /\ pc # "idle" =>
       /\ req \in Requests
       /\ Len(instrs) = 5 /\ index <= 5
       /\ \A k \in 1 .. 5 : IF k <= Len(OperationFor(req))
                              THEN instrs[k] = OperationFor(req)[k]
                              ELSE instrs[k] \in Leftover
       /\ pc # "next" => index < 5
       /\ pc \notin {"addr", "data_in", "data_out"} => done = 0
       /\ pc \in {"cmd", "addr", "data_in", "data_out"} => Instruction.type = pc
       /\ pc \in Waiting \union Waited => Instruction.type = "wait"
       /\ pc = "unknown" => Instruction.type = "unknown"

\* A call that succeeds has waited for the device, unless it was an erase.
WaitsInTime ==
  /\ pc = "ready" => ~BeforeDeadline
  /\ pc # "idle" /\ req.op = "read" /\ index > 3 => ~BeforeDeadline
  /\ pc # "idle" /\ req.op = "write" /\ index > 4 => ~BeforeDeadline
  /\ pc = "idle" /\ rc = 0 /\ req.op # "erase" => ~BeforeDeadline

\* A device that a leftover has left in the middle of something may take the setup
\* command for the clock of an address.  It is then ahead of the driver by one or
\* more of its states, and a read comes to grief at its last address.
StatesAhead(given) ==
  {AddressStateOf("read", k) : k \in (given + 1) .. 3} \union {MS_BUG}

\* A read has the device where the driver takes it to be, or it never ends.
ReadInStep ==
  pc # "idle" /\ req.op = "read" =>
    /\ exited => index <= 3 /\ (index = 3 => pc \in {"next", "wait", "poll"})
    /\ index = 1 /\ ~exited =>
         \/ machine_state \in StatesAhead(done)
         \/ /\ machine_state = AddressStateOf("read", done)
            /\ done >= 1 => cursor.block = BlockOf(req.offset)
            /\ done >= 2 => cursor.page = PageOf(req.offset)
            /\ done >= 3 => cursor.byte = ByteOf(req.offset)
    /\ index = 2 /\ ~exited =>
         \/ machine_state = MS_BUG
         \/ machine_state = MS_READ_AWAITING_EXECUTE /\ cursor = CursorAt(req.offset)
    /\ index > 2 /\ ~exited =>
         /\ machine_state = MS_READ_PROVIDING_DATA
         /\ cache = data_store[BlockOf(req.offset)][PageOf(req.offset)]
         /\ index < 5 => cursor = CursorAt(req.offset + done)

\* How many bytes of its one page a read has passed on to its caller.
BytesOfPage ==
  CASE pc # "idle" /\ index < 4 -> 0
    [] pc # "idle" /\ index = 4 -> done
    [] OTHER -> PageEnds(req, 0)

OnePageIsRead ==
  req.op = "read" /\ (pc = "idle" => rc = 0) =>
    /\ pc # "idle" /\ index = 4 => done <= PageEnds(req, 0)
    /\ buffer \in [0 .. (req.size - 1) -> Byte \union {Junk}]
    /\ \A i \in 0 .. (req.size - 1) :
         buffer[i] = IF i < BytesOfPage THEN Stored(req.offset + i) ELSE Junk

CutShortInv ==
  DeviceInv /\ CopyInHand /\ WaitsInTime /\ ReadInStep /\ OnePageIsRead

\* The bytes of a request's first page.
LEMMA FirstPageLength ==
  ASSUME NEW r, r.offset \in Nat, r.size \in Nat \ {0}
  PROVE  /\ PageEnds(r, 0) \in 1 .. Radix
         /\ PageEnds(r, 0) <= r.size
         /\ ByteOf(r.offset) + PageEnds(r, 0) <= Radix
         /\ \A i \in 0 .. (r.size - 1) :
              i < PageEnds(r, 0) <=> BYTE(r.offset) + i < Radix
  <1>1. BYTE(r.offset) = ByteOf(r.offset) /\ ByteOf(r.offset) \in Digit
    <2>1. ByteOf(r.offset) \in Digit
      BY DigitsOfOffset
    <2>2. QED
      BY <2>1 DEF BYTE, ByteOf
  <1>2. PagesOf(r) \in Nat \ {0} /\ PageBegins(r, 1) = Radix - BYTE(r.offset)
    <2>1. PageBegins(r, 0 + 1) = PageBegins(r, 0) + (Radix - BYTE(r.offset))
      BY PagesCoverTransfer
    <2>2. PageBegins(r, 0) = 0
      BY DEF PageBegins
    <2>3. PagesOf(r) \in Nat \ {0} /\ 0 + 1 = 1
      BY PagesCoverTransfer
    <2>4. QED
      BY <1>1, <2>1, <2>2, <2>3, RadixAssumption DEF Digit
  <1>3. /\ PageEnds(r, 0) \in Nat /\ PageEnds(r, 0) - 0 \in 1 .. Radix
        /\ PageEnds(r, 0) <= r.size /\ PageEnds(r, 0) <= Radix - BYTE(r.offset)
    <2>1. 0 \in 0 .. (PagesOf(r) - 1)
      BY <1>2
    <2>2. PageBegins(r, 0) = 0
      BY DEF PageBegins
    <2>3. QED
      BY <2>1, <2>2, PageRange
  <1>4. PageEnds(r, 0) = r.size \/ PageEnds(r, 0) = Radix - BYTE(r.offset)
    BY <1>2 DEF PageEnds
  <1>5. QED
    BY <1>1, <1>3, <1>4, RadixAssumption DEF Digit

\* The instruction in hand: one of the operation's first five, or a leftover.
LEMMA CopiedInstruction ==
  ASSUME CopyInHand, pc # "idle", index < 5
  PROVE  /\ req \in Requests /\ req.op \in Operation
         /\ req.offset \in Nat /\ req.size \in Nat \ {0}
         /\ Instruction.type = "cmd" => Instruction.opcode \in Command
         /\ Instruction.type = "addr" =>
              /\ Len(Instruction.addrs) \in Nat
              /\ \A k \in 1 .. Len(Instruction.addrs) : Instruction.addrs[k] \in Digit
         /\ Instruction.type = "data_in" =>
              /\ req.op = "write" /\ Instruction.len \in Nat
              /\ \A i \in 0 .. (Instruction.len - 1) :
                   req.data[Instruction.at + i] \in Byte
         /\ Instruction.type = "data_out" => req.op = "read" /\ index = 4
         /\ req.op = "read" =>
              /\ index = 0 => Instruction = Cmd(SetupCommand("read"))
              /\ index = 1 => Instruction = Addr(AddressesOf(req))
              /\ index = 2 => Instruction = Cmd(ExecuteCommand("read"))
              /\ index = 3 => Instruction.type = "wait"
              /\ index = 4 => Instruction = DataOut(0, PageEnds(req, 0))
         /\ req.op = "write" /\ index = 4 => Instruction.type = "wait"
  <1> DEFINE op == OperationFor(req)
             k == index + 1
  <1>1. /\ req \in Requests /\ req.op \in Operation
        /\ req.offset \in Nat /\ req.size \in Nat \ {0}
        /\ req.op = "write" => req.data \in [0 .. (req.size - 1) -> Byte]
    BY RequestFacts DEF CopyInHand
  <1>2. /\ k \in 1 .. 5 /\ index \in Nat
        /\ Instruction = IF k <= Len(op) THEN op[k] ELSE instrs[k]
        /\ k > Len(op) => instrs[k] \in Leftover
    BY DEF CopyInHand, Instruction
  <1>3. /\ Len(op) \in Nat /\ Len(op) >= 4
        /\ op[1] = Cmd(SetupCommand(req.op))
        /\ op[2] = Addr(AddressesOf(req))
    BY <1>1, OperationLandmarks
  <1>4. ASSUME req.op # "erase"
        PROVE  /\ Len(op) >= 5
               /\ \A i \in 1 .. 3 :
                    op[2 + i] = PageInstructions(req.op, 0, PageEnds(req, 0))[i]
    <2>1. PagesOf(req) \in Nat \ {0} /\ Len(op) = 2 + 3 * PagesOf(req)
      BY <1>1, <1>4, PagesCoverTransfer, OperationParts
    <2>2. \A i \in 1 .. (3 * PagesOf(req)) : op[2 + i] = Transfer(req)[i]
      BY <1>1, <1>4, OperationParts DEF BodyOf
    <2>3. 0 \in 0 .. (PagesOf(req) - 1)
      BY <2>1
    <2>4. \A i \in 1 .. 3 :
            Transfer(req)[3 * 0 + i] =
              PageInstructions(req.op, PageBegins(req, 0),
                               PageEnds(req, 0) - PageBegins(req, 0))[i]
      BY <1>1, <2>3, TransferShape
    <2>5. PageBegins(req, 0) = 0 /\ PageEnds(req, 0) \in Nat
      BY <1>1, FirstPageLength DEF PageBegins
    <2>6. PageEnds(req, 0) - PageBegins(req, 0) = PageEnds(req, 0)
      BY <2>5
    <2> HIDE DEF op
    <2>7. \A i \in 1 .. 3 : 3 * 0 + i = i /\ i \in 1 .. (3 * PagesOf(req))
      BY <2>1
    <2>8. QED
      BY <2>1, <2>2, <2>4, <2>5, <2>6, <2>7
  <1>5. CASE k > Len(op)
    <2>1. req.op = "erase" /\ Instruction \in Leftover
      BY <1>1, <1>2, <1>3, <1>4, <1>5 DEF Operation
    <2>2. /\ Instruction.type = "cmd" => Instruction.opcode \in Command
          /\ Instruction.type = "addr" =>
               Instruction.addrs = <<>> \/ Instruction.addrs = <<0, 0>>
          /\ Instruction.type \notin {"data_in", "data_out"}
      BY <2>1 DEF Leftover, Cmd, Addr, WaitRdy
    <2>3. 0 \in Digit
      BY DigitFacts
    <2>4. QED
      BY <1>1, <2>1, <2>2, <2>3
  <1>6. CASE k <= Len(op)
    <2>1. Instruction = op[k]
      BY <1>2, <1>6
    <2>2. CASE k = 1
      <3>1. Instruction = Cmd(SetupCommand(req.op)) /\ index = 0
        BY <1>2, <1>3, <2>1, <2>2
      <3>2. QED
        BY <1>1, <3>1, CommandsOfOperation DEF Cmd
    <2>3. CASE k = 2
      <3>1. Instruction = Addr(AddressesOf(req)) /\ index = 1
        BY <1>2, <1>3, <2>1, <2>3
      <3>2. AddressesOf(req) \in Seq(Digit)
        BY <1>1, AddressesFit
      <3>3. QED
        BY <1>1, <3>1, <3>2 DEF Addr
    <2>4. CASE k >= 3
      <3>1. k \in 3 .. Len(op)
        BY <1>2, <1>3, <1>6, <2>4
      <3>2. StepFits(req, k)
        BY <1>1, <3>1, OperationSteps
      <3>3. /\ Instruction.type \in {"cmd", "wait", "data_in", "data_out"}
            /\ Instruction.type = "cmd" => Instruction.opcode \in Command
            /\ Instruction.type = "data_in" => req.op = "write"
            /\ Instruction.type = "data_out" => req.op = "read"
            /\ Instruction.type \in {"data_in", "data_out"} =>
                 /\ Instruction.at \in Nat /\ Instruction.len \in Nat
                 /\ Instruction.at + Instruction.len <= req.size
        <4>1. Instruction.type = "cmd" => Instruction.opcode = ExecuteCommand(req.op)
          BY <2>1, <3>2 DEF StepFits
        <4>2. ExecuteCommand(req.op) \in Command
          BY <1>1, CommandsOfOperation
        <4>3. QED
          BY <2>1, <3>2, <4>1, <4>2, RadixAssumption DEF StepFits
      <3>4. Instruction.type = "data_in" =>
              \A i \in 0 .. (Instruction.len - 1) : req.data[Instruction.at + i] \in Byte
        <4>1. SUFFICES ASSUME Instruction.type = "data_in",
                              NEW i \in 0 .. (Instruction.len - 1)
                       PROVE  req.data[Instruction.at + i] \in Byte
          OBVIOUS
        <4>2. /\ req.op = "write" /\ Instruction.at \in Nat /\ Instruction.len \in Nat
              /\ Instruction.at + Instruction.len <= req.size
          BY <3>3, <4>1
        <4>3. Instruction.at + i \in 0 .. (req.size - 1)
          BY <1>1, <4>2
        <4>4. QED
          BY <1>1, <4>2, <4>3
      <3>5. ASSUME req.op # "erase"
            PROVE  Instruction =
                     PageInstructions(req.op, 0, PageEnds(req, 0))[index - 1]
        <4>1. index - 1 \in 1 .. 3 /\ 2 + (index - 1) = k
          BY <1>2, <2>4
        <4>2. QED
          BY <1>4, <2>1, <3>5, <4>1
      <3>6. req.op = "read" =>
              /\ index = 2 => Instruction = Cmd(ExecuteCommand("read"))
              /\ index = 3 => Instruction = WaitRdy(WaitInterval("read"))
              /\ index = 4 => Instruction = DataOut(0, PageEnds(req, 0))
        BY <3>5 DEF PageInstructions
      <3>7. req.op = "write" /\ index = 4 => Instruction = WaitRdy(WaitInterval("write"))
        BY <3>5 DEF PageInstructions
      <3>8. index >= 2
        BY <1>2, <2>4
      <3>9. Instruction.type = "data_out" => index = 4
        BY <1>2, <3>3, <3>6, <3>8 DEF Cmd, WaitRdy
      <3>10. QED
        BY <1>1, <3>3, <3>4, <3>6, <3>7, <3>8, <3>9 DEF WaitRdy
    <2>5. QED
      BY <1>2, <2>2, <2>3, <2>4
  <1>7. QED
    BY <1>2, <1>3, <1>5, <1>6

\* The setup command of a read, whatever state it finds the device in.
LEMMA SetupOfRead ==
  ASSUME DeviceInv, StoreCommand(SetupCommand("read"))
  PROVE  \/ exited'
         \/ machine_state' = AddressStateOf("read", 0)
         \/ machine_state' \in StatesAhead(0)
  <1> USE DEF NO_COMMAND, C_READ_SETUP, C_READ_EXECUTE, C_PROGRAM_SETUP,
              C_PROGRAM_EXECUTE, C_ERASE_SETUP, C_ERASE_EXECUTE, C_DUMMY,
              Command, Setup, Execute, AwaitingBlock, AwaitingPage, AwaitingByte
  <1> DEFINE w == [ioregs EXCEPT !.command = SetupCommand("read")]
  <1>1. w.command = C_READ_SETUP /\ HandleWatchpoint(w, FALSE)
    BY DEF DeviceInv, DeviceTypeOK, ParserTypeOK, Word, SetupCommand, StoreCommand
  <1> HIDE DEF w
  <1>2. /\ AddressStateOf("read", 0) = MS_READ_AWAITING_BLOCK_ADDRESS
        /\ \A s \in {MS_READ_AWAITING_PAGE_ADDRESS, MS_READ_AWAITING_BYTE_ADDRESS,
                     MS_READ_AWAITING_EXECUTE, MS_BUG} : s \in StatesAhead(0)
    <2>1. /\ AddressStateOf("read", 0) = MS_READ_AWAITING_BLOCK_ADDRESS
          /\ AddressStateOf("read", 1) = MS_READ_AWAITING_PAGE_ADDRESS
          /\ AddressStateOf("read", 2) = MS_READ_AWAITING_BYTE_ADDRESS
          /\ AddressStateOf("read", 3) = MS_READ_AWAITING_EXECUTE
      BY DEF AddressStateOf, AwaitingBlockOf, AwaitingPageOf, AwaitingByteOf, AddressedOf
    <2>2. /\ AddressStateOf("read", 1) \in StatesAhead(0)
          /\ AddressStateOf("read", 2) \in StatesAhead(0)
          /\ AddressStateOf("read", 3) \in StatesAhead(0)
          /\ MS_BUG \in StatesAhead(0)
      BY DEF StatesAhead
    <2>3. QED
      BY <2>1, <2>2
  <1>3. CASE FirstSetup(w) \/ NextSetup(w)
    BY <1>1, <1>2, <1>3 DEF FirstSetup, NextSetup, SetupState
  <1>4. CASE AcceptBlockAddress(w)
    BY <1>1, <1>2, <1>4 DEF AcceptBlockAddress, Accepts, Expected, Setup
  <1>5. CASE AcceptPageAddress(w)
    BY <1>1, <1>2, <1>5 DEF AcceptPageAddress, Accepts, Expected, Setup
  <1>6. CASE AcceptByteAddress(w)
    BY <1>1, <1>2, <1>6 DEF AcceptByteAddress, Accepts, Expected, Setup
  <1>7. CASE RejectAccess(w)
    BY <1>2, <1>7 DEF RejectAccess
  <1>8. CASE ExitOnBug(w)
    BY <1>8 DEF ExitOnBug
  <1>9. QED
    BY <1>1, <1>3, <1>4, <1>5, <1>6, <1>7, <1>8
    DEF HandleWatchpoint, ExecuteRead, ProvideByte, FailToDecode, AcceptByte,
        ExecuteProgram, ExecuteErase

\* An address takes a device that is ahead of the driver one state further, and at
\* the last of them into its bug state.
LEMMA AddressAhead ==
  ASSUME DeviceInv, NEW given \in 0 .. 2, machine_state \in StatesAhead(given),
         NEW d \in Digit, StoreAddress(d)
  PROVE  exited' \/ machine_state' \in StatesAhead(given + 1)
  <1> USE DEF NO_COMMAND, C_READ_SETUP, C_READ_EXECUTE, C_PROGRAM_SETUP,
              C_PROGRAM_EXECUTE, C_ERASE_SETUP, C_ERASE_EXECUTE, C_DUMMY,
              Command, Setup, Execute, AwaitingBlock, AwaitingPage, AwaitingByte
  <1>1. CASE machine_state = MS_BUG
    BY <1>1, BugIsTheEnd DEF StoreAddress
  <1>2. CASE machine_state # MS_BUG
    <2>1. PICK k \in (given + 1) .. 3 : machine_state = AddressStateOf("read", k)
      BY <1>2 DEF StatesAhead
    <2>2. CASE k = 1
      <3>1. machine_state = AwaitingPageOf("read") /\ "read" \in Operation
        BY <2>1, <2>2 DEF AddressStateOf, Operation
      <3>2. machine_state' = AwaitingByteOf("read")
        BY <3>1, PageAddressIsAccepted
      <3>3. machine_state' = AddressStateOf("read", 2) /\ 2 \in (given + 2) .. 3
        BY <2>2, <3>2 DEF AddressStateOf
      <3>4. QED
        BY <3>3 DEF StatesAhead
    <2>3. CASE k = 2
      <3>1. machine_state = AwaitingByteOf("read") /\ "read" \in Operation \ {"erase"}
        BY <2>1, <2>3 DEF AddressStateOf, Operation
      <3>2. machine_state' = AddressedOf("read")
        BY <3>1, ByteAddressIsAccepted
      <3>3. machine_state' = AddressStateOf("read", 3) /\ 3 \in (given + 2) .. 3
        BY <2>3, <3>2 DEF AddressStateOf
      <3>4. QED
        BY <3>3 DEF StatesAhead
    <2>4. CASE k = 3
      <3> DEFINE w == [ioregs EXCEPT !.address = d]
      <3>1. machine_state = MS_READ_AWAITING_EXECUTE
        BY <2>1, <2>4 DEF AddressStateOf, AddressedOf
      <3>2. w.command = C_READ_SETUP /\ HandleWatchpoint(w, FALSE)
        BY <3>1
        DEF DeviceInv, DeviceTypeOK, ParserTypeOK, Word, StoreAddress,
            CommandRegisterIsStanding, Standing
      <3> HIDE DEF w
      <3>3. ~Accepts(w)
        BY <3>1, <3>2 DEF Accepts, Expected, Setup
      <3>4. RejectAccess(w)
        BY <3>1, <3>2, <3>3
        DEF HandleWatchpoint, FirstSetup, NextSetup, AcceptBlockAddress,
            AcceptPageAddress, AcceptByteAddress, ExecuteRead, ProvideByte,
            FailToDecode, AcceptByte, ExecuteProgram, ExecuteErase, ExitOnBug
      <3>5. QED
        BY <3>4 DEF RejectAccess, StatesAhead
    <2>5. QED
      BY <2>1, <2>2, <2>3, <2>4
  <1>3. QED
    BY <1>1, <1>2

\* A call copies five instructions, whatever the length of its operation.
LEMMA CallCopiesFive ==
  ASSUME InstructionSize = 5, driver = "foxtrot_1", CutShortInv, Request
  PROVE  CutShortInv'
  <1>1. PICK r \in Requests : Operate(r) /\ Call(r) /\ UNCHANGED driver
    BY DEF Request
  <1>2. /\ pc = "idle" /\ pc' = "next" /\ req' = r /\ index' = 0 /\ done' = 0
        /\ buffer' = IF r.op = "read" THEN [i \in 0 .. (r.size - 1) |-> Junk] ELSE <<>>
        /\ UNCHANGED <<rc, deviceVars>>
    BY <1>1 DEF Call, BeginCall
  <1>3. r.op \in Operation /\ r.offset \in Nat /\ r.size \in Nat \ {0}
    BY RequestFacts
  <1>4. Len(OperationFor(r)) \in Nat
    BY <1>3, OperationLandmarks
  <1>5. /\ Len(instrs') = 5
        /\ \A k \in 1 .. 5 : IF k <= Len(OperationFor(r))
                               THEN instrs'[k] = OperationFor(r)[k]
                               ELSE instrs'[k] \in Leftover
    <2> DEFINE op == OperationFor(r)
    <2>1. PICK rest \in [(Len(op) + 1) .. 5 -> Leftover] :
            instrs' = [k \in 1 .. 5 |-> IF k <= Len(op) THEN op[k] ELSE rest[k]]
      BY <1>1 DEF Call, Copied
    <2> HIDE DEF op
    <2> DEFINE S == {instrs'[k] : k \in 1 .. 5}
    <2>2. instrs' \in [1 .. 5 -> S]
      BY <2>1
    <2> HIDE DEF S
    <2>3. Len(instrs') = 5
      <3>1. instrs' \in Seq(S)
        <4>1. \E n \in Nat : instrs' \in [1 .. n -> S]
          BY <2>2
        <4>2. Seq(S) = UNION {[1 .. n -> S] : n \in Nat}
          BY SeqDef
        <4>3. QED
          BY <4>1, <4>2, Zenon
      <3>2. QED
        BY <2>2, <3>1, LenProperties
    <2>4. Len(op) \in Nat
      BY <1>4 DEF op
    <2>5. \A k \in 1 .. 5 : k > Len(op) => k \in (Len(op) + 1) .. 5
      BY <2>4
    <2>6. QED
      BY <2>1, <2>3, <2>4, <2>5 DEF op
  <1>6. DeviceInv'
    BY <1>2, DeviceLeftAlone DEF CutShortInv
  <1>7. CopyInHand'
    BY <1>2, <1>5 DEF CopyInHand
  <1>8. WaitsInTime' /\ ReadInStep'
    BY <1>2 DEF WaitsInTime, ReadInStep
  <1>9. OnePageIsRead'
    <2>1. SUFFICES ASSUME r.op = "read"
                   PROVE  OnePageIsRead'
      BY <1>2 DEF OnePageIsRead
    <2>2. BytesOfPage' = 0
      BY <1>2 DEF BytesOfPage
    <2>3. buffer' = [i \in 0 .. (r.size - 1) |-> Junk]
      BY <1>2, <2>1
    <2>4. QED
      BY <1>2, <1>3, <2>2, <2>3 DEF OnePageIsRead
  <1>10. QED
    BY <1>6, <1>7, <1>8, <1>9 DEF CutShortInv

\* On to the next instruction of the copy.
LEMMA GoOnInCopy ==
  ASSUME driver = "foxtrot_1", CopyInHand, GoOn, pc \notin {"idle", "next"}
  PROVE  /\ CopyInHand'
         /\ pc' = "next" /\ index' = index + 1 /\ done' = 0
         /\ UNCHANGED <<instrs, req, rc>>
  <1>1. /\ pc' = "next" /\ index' = index + 1 /\ done' = 0
        /\ UNCHANGED <<instrs, req, rc>>
    BY DEF GoOn, NextIndex
  <1>2. index \in Nat /\ index < 5
    BY DEF CopyInHand
  <1>3. QED
    BY <1>1, <1>2 DEF CopyInHand

\* The steps that leave the device and the buffer alone.
LEMMA QuietStepOfCopy ==
  ASSUME CutShortInv, DeviceInv', BeforeDeadline' => BeforeDeadline,
         UNCHANGED <<pc, req, rc, instrs, index, done, buffer, cursor, cache,
                     data_store, machine_state, exited>>
  PROVE  CutShortInv'
  <1>1. Instruction' = Instruction /\ BytesOfPage' = BytesOfPage
    BY DEF Instruction, BytesOfPage
  <1>2. CopyInHand'
    BY <1>1 DEF CutShortInv, CopyInHand
  <1>3. WaitsInTime' /\ ReadInStep'
    BY DEF CutShortInv, WaitsInTime, ReadInStep
  <1>4. OnePageIsRead'
    BY <1>1 DEF CutShortInv, OnePageIsRead, Stored
  <1>5. QED
    BY <1>2, <1>3, <1>4 DEF CutShortInv

\* The head of the loop.
LEMMA DispatchOfCopy ==
  ASSUME CutShortInv, Dispatch
  PROVE  CutShortInv'
  <1>1. /\ pc = "next" /\ index < Len(instrs)
        /\ pc' = IF Instruction.type = "wild" THEN "undefined" ELSE Instruction.type
        /\ UNCHANGED <<req, buffer, rc, instrs, index, done, deviceVars>>
    BY DEF Dispatch, callVars, opVars
  <1>2. /\ UNCHANGED <<cursor, cache, data_store, machine_state, exited>>
        /\ DeviceInv' /\ BeforeDeadline' = BeforeDeadline
    BY <1>1, DeviceLeftAlone DEF CutShortInv
  <1>3. index \in Nat /\ index < 5
    BY <1>1 DEF CutShortInv, CopyInHand
  <1>4. Instruction.type \in {"cmd", "addr", "data_in", "data_out", "wait", "unknown",
                              "wild"}
    <2> DEFINE k == index + 1
               op == OperationFor(req)
    <2>1. req \in Requests /\ k \in 1 .. 5 /\ Instruction = instrs[k]
      BY <1>1, <1>3 DEF CutShortInv, CopyInHand, Instruction
    <2>2. /\ req.op \in Operation /\ req.offset \in Nat /\ req.size \in Nat \ {0}
      BY <2>1, RequestFacts
    <2>3. /\ Len(op) \in Nat
          /\ op[1] = Cmd(SetupCommand(req.op))
          /\ op[2] = Addr(AddressesOf(req))
      BY <2>2, OperationLandmarks
    <2>4. k \in 3 .. Len(op) => op[k].type \in {"cmd", "wait", "data_in", "data_out"}
      BY <2>2, OperationSteps DEF StepFits
    <2>5. IF k <= Len(op) THEN instrs[k] = op[k] ELSE instrs[k] \in Leftover
      BY <1>1, <2>1 DEF CutShortInv, CopyInHand
    <2> HIDE DEF k, op
    <2>6. CASE k <= Len(op)
      <3>1. k = 1 \/ k = 2 \/ k \in 3 .. Len(op)
        BY <2>1, <2>3, <2>6
      <3>2. QED
        BY <2>1, <2>3, <2>4, <2>5, <2>6, <3>1 DEF Cmd, Addr
    <2>7. CASE ~(k <= Len(op))
      BY <2>1, <2>5, <2>7 DEF Leftover, Cmd, Addr, WaitRdy
    <2>8. QED
      BY <2>6, <2>7
  <1>5. Instruction' = Instruction /\ pc' \notin {"idle", "next", "ready"}
    BY <1>1, <1>4 DEF Instruction
  <1>6. CopyInHand'
    BY <1>1, <1>3, <1>4, <1>5 DEF CutShortInv, CopyInHand
  <1>7. WaitsInTime'
    BY <1>1, <1>2, <1>5 DEF CutShortInv, WaitsInTime
  <1>8. ReadInStep'
    <2>1. SUFFICES ASSUME req.op = "read"
                   PROVE  ReadInStep'
      BY <1>1 DEF ReadInStep
    <2>2. index = 3 => pc' = "wait"
      BY <1>1, <1>3, <2>1, CopiedInstruction DEF CutShortInv
    <2>3. QED
      BY <1>1, <1>2, <1>5, <2>1, <2>2 DEF CutShortInv, ReadInStep
  <1>9. OnePageIsRead'
    <2>1. BytesOfPage' = BytesOfPage
      BY <1>1, <1>5 DEF BytesOfPage
    <2>2. QED
      BY <1>1, <1>2, <1>5, <2>1 DEF CutShortInv, OnePageIsRead, Stored
  <1>10. QED
    BY <1>2, <1>6, <1>7, <1>8, <1>9 DEF CutShortInv

\* A command.  In a read it is the setup, which some of the device's states do not
\* take for one, or the execute, which then finds it in its bug state.
LEMMA SendCommandOfCopy ==
  ASSUME driver = "foxtrot_1", CutShortInv, SendCommand
  PROVE  CutShortInv'
  <1>1. pc = "cmd" /\ StoreCommand(Instruction.opcode) /\ GoOn /\ buffer' = buffer
    BY DEF SendCommand
  <1>2. index \in Nat /\ index < 5 /\ Instruction.type = "cmd" /\ CopyInHand
    BY <1>1 DEF CutShortInv, CopyInHand
  <1>3. /\ req \in Requests /\ req.op \in Operation
        /\ req.offset \in Nat /\ req.size \in Nat \ {0}
        /\ Instruction.opcode \in Command
        /\ req.op = "write" => index # 4
        /\ req.op = "read" => \/ index = 0 /\ StoreCommand(SetupCommand("read"))
                              \/ index = 2 /\ StoreCommand(ExecuteCommand("read"))
    <2>1. req.op = "read" => index \notin {1, 3, 4}
      BY <1>1, <1>2, CopiedInstruction DEF Addr, DataOut
    <2>2. req.op = "read" =>
            /\ index = 0 => Instruction.opcode = SetupCommand("read")
            /\ index = 2 => Instruction.opcode = ExecuteCommand("read")
      BY <1>1, <1>2, CopiedInstruction DEF Cmd
    <2>3. QED
      BY <1>1, <1>2, <2>1, <2>2, CopiedInstruction
  <1>4. DeviceInv'
    BY <1>1, <1>3, AccessesPreserve DEF CutShortInv
  <1>5. /\ CopyInHand' /\ pc' = "next" /\ index' = index + 1 /\ done' = 0
        /\ UNCHANGED <<instrs, req, rc>>
    BY <1>1, <1>2, GoOnInCopy
  <1>6. WaitsInTime'
    BY <1>2, <1>3, <1>5 DEF WaitsInTime
  <1>7. ReadInStep' /\ OnePageIsRead'
    <2>1. SUFFICES ASSUME req.op = "read"
                   PROVE  ReadInStep' /\ OnePageIsRead'
      BY <1>5 DEF ReadInStep, OnePageIsRead
    <2>2. BytesOfPage' = 0 /\ BytesOfPage = 0 /\ index' \in {1, 3}
      BY <1>1, <1>3, <1>5, <2>1 DEF BytesOfPage
    <2>3. OnePageIsRead'
      BY <1>1, <1>3, <1>5, <2>1, <2>2 DEF CutShortInv, OnePageIsRead
    <2>4. CASE index = 0
      <3>1. \/ exited'
            \/ machine_state' = AddressStateOf("read", 0)
            \/ machine_state' \in StatesAhead(0)
        BY <1>3, <2>1, <2>4, SetupOfRead DEF CutShortInv
      <3>2. index' = 1 /\ done' = 0 /\ ~(done' >= 1) /\ ~(done' >= 2) /\ ~(done' >= 3)
        BY <1>5, <2>4
      <3>3. ReadInStep'
        BY <1>5, <3>1, <3>2 DEF ReadInStep
      <3>4. QED
        BY <2>3, <3>3
    <2>5. CASE index = 2
      <3>1. StoreCommand(ExecuteCommand("read")) /\ ~exited
        <4>1. StoreCommand(ExecuteCommand("read"))
          BY <1>3, <2>1, <2>5
        <4>2. QED
          BY <4>1 DEF StoreCommand, HandleWatchpoint
      <3>2. \/ machine_state = MS_BUG
            \/ machine_state = MS_READ_AWAITING_EXECUTE /\ cursor = CursorAt(req.offset)
        BY <1>1, <2>1, <2>5, <3>1 DEF CutShortInv, ReadInStep
      <3>3. pc' = "next" /\ index' = 3 /\ done' = 0
        BY <1>5, <2>5
      <3>4. CASE machine_state = MS_BUG
        <4>1. exited'
          BY <3>1, <3>4, BugIsTheEnd DEF StoreCommand
        <4>2. QED
          BY <2>3, <3>3, <4>1 DEF ReadInStep
      <3>5. CASE machine_state = MS_READ_AWAITING_EXECUTE /\ cursor = CursorAt(req.offset)
        <4>1. ~BeforeDeadline
          BY <3>5 DEF CutShortInv, DeviceInv, BusyOnlyWhileWorking
        <4>2. /\ machine_state' = MS_READ_PROVIDING_DATA
              /\ cache' = PageAt(cursor)
              /\ UNCHANGED <<cursor, data_store, exited>>
          <5>1. "read" \in Operation /\ machine_state = AddressedOf("read")
            BY <3>5 DEF Operation, AddressedOf
          <5>2. QED
            BY <3>1, <4>1, <5>1, ExecuteIsAccepted DEF CutShortInv, WorkingOf
        <4>3. cache' = data_store'[BlockOf(req.offset)][PageOf(req.offset)]
          BY <3>5, <4>2 DEF PageAt, CursorAt
        <4>4. req.offset + done' = req.offset
          BY <1>3, <3>3
        <4>5. ReadInStep'
          BY <1>5, <3>1, <3>3, <3>5, <4>2, <4>3, <4>4 DEF ReadInStep
        <4>6. QED
          BY <2>3, <4>5
      <3>6. QED
        BY <3>2, <3>4, <3>5
    <2>6. QED
      BY <1>3, <2>1, <2>4, <2>5
  <1>8. QED
    BY <1>4, <1>5, <1>6, <1>7 DEF CutShortInv

\* An address: the device moves on as the driver does, wherever it is.
LEMMA SendAddressOfCopy ==
  ASSUME CutShortInv, SendAddress
  PROVE  CutShortInv'
  <1> DEFINE d == Instruction.addrs[done + 1]
  <1>1. /\ pc = "addr" /\ done < Len(Instruction.addrs) /\ StoreAddress(d)
        /\ done' = done + 1
        /\ UNCHANGED <<pc, instrs, index, req, rc, buffer>>
    BY DEF SendAddress, Transferring, waitVars
  <1>2. /\ index \in Nat /\ index < 5 /\ done \in Nat /\ Instruction.type = "addr"
        /\ CopyInHand
    BY <1>1 DEF CutShortInv, CopyInHand
  <1>3. /\ req \in Requests /\ req.offset \in Nat
        /\ Len(Instruction.addrs) \in Nat
        /\ \A k \in 1 .. Len(Instruction.addrs) : Instruction.addrs[k] \in Digit
        /\ req.op = "write" => index # 4
        /\ req.op = "read" => index = 1 /\ Instruction.addrs = AddressesOf(req)
    <2>1. req.op = "read" => index \notin {0, 2, 3, 4}
      BY <1>1, <1>2, CopiedInstruction DEF Cmd, DataOut
    <2>2. req.op = "read" => index = 1
      BY <1>2, <2>1
    <2>3. QED
      BY <1>1, <1>2, <2>2, CopiedInstruction DEF Addr
  <1>4. d \in Digit
    BY <1>1, <1>2, <1>3
  <1> HIDE DEF d
  <1>5. DeviceInv'
    BY <1>1, <1>4, AccessesPreserve DEF CutShortInv
  <1>6. CopyInHand'
    <2>1. Instruction' = Instruction
      BY <1>1 DEF Instruction
    <2>2. QED
      BY <1>1, <1>2, <2>1 DEF CopyInHand
  <1>7. WaitsInTime'
    BY <1>1, <1>2, <1>3 DEF WaitsInTime
  <1>8. OnePageIsRead'
    <2>1. SUFFICES ASSUME req.op = "read"
                   PROVE  OnePageIsRead'
      BY <1>1 DEF OnePageIsRead
    <2>2. BytesOfPage' = 0 /\ BytesOfPage = 0 /\ index' = 1
      BY <1>1, <1>3, <2>1 DEF BytesOfPage
    <2>3. \A i \in 0 .. (req.size - 1) : ~(i < 0)
      OBVIOUS
    <2>4. QED
      BY <1>1, <2>1, <2>2, <2>3 DEF CutShortInv, OnePageIsRead
  <1>9. ReadInStep'
    <2>1. SUFFICES ASSUME req.op = "read", ~exited'
                   PROVE  ReadInStep'
      BY <1>1, <1>3 DEF ReadInStep
    <2>2. index = 1 /\ Instruction.addrs = AddressesOf(req) /\ ~exited
      BY <1>1, <1>3, <2>1 DEF StoreAddress, HandleWatchpoint
    <2>3. /\ Len(AddressesOf(req)) = 3
          /\ AddressesOf(req)[1] = BlockOf(req.offset)
          /\ AddressesOf(req)[2] = PageOf(req.offset)
          /\ AddressesOf(req)[3] = ByteOf(req.offset)
      BY <1>3, <2>1, AddressesFit
    <2>4. done \in 0 .. 2
      BY <1>1, <1>2, <2>2, <2>3
    <2>5. "read" \in Operation /\ "read" \in Operation \ {"erase"}
      BY DEF Operation
    <2>6. CASE machine_state \in StatesAhead(done)
      <3>1. machine_state' \in StatesAhead(done + 1)
        BY <1>1, <1>4, <2>1, <2>4, <2>6, AddressAhead DEF CutShortInv
      <3>2. QED
        BY <1>1, <2>1, <2>2, <3>1 DEF ReadInStep
    <2>7. CASE /\ machine_state = AddressStateOf("read", done)
               /\ done >= 1 => cursor.block = BlockOf(req.offset)
               /\ done >= 2 => cursor.page = PageOf(req.offset)
      <3> DEFINE Right == /\ machine_state' = AddressStateOf("read", done + 1)
                          /\ done + 1 >= 1 => cursor'.block = BlockOf(req.offset)
                          /\ done + 1 >= 2 => cursor'.page = PageOf(req.offset)
                          /\ done + 1 >= 3 => cursor'.byte = ByteOf(req.offset)
      <3>1. cursor \in Cursor
        BY DEF CutShortInv, DeviceInv, DeviceTypeOK, StoreTypeOK
      <3>2. ASSUME done = 0
             PROVE  Right
        <4>1. machine_state = AwaitingBlockOf("read") /\ d = BlockOf(req.offset)
          BY <2>2, <2>3, <2>7, <3>2 DEF AddressStateOf, d
        <4>2. /\ machine_state' = AwaitingPageOf("read")
              /\ cursor' = [cursor EXCEPT !.block = d]
          BY <1>1, <1>4, <2>5, <4>1, BlockAddressIsAccepted DEF CutShortInv
        <4>3. QED
          BY <3>1, <3>2, <4>1, <4>2 DEF AddressStateOf, Cursor
      <3>3. ASSUME done = 1
             PROVE  Right
        <4>1. machine_state = AwaitingPageOf("read") /\ d = PageOf(req.offset)
          BY <2>2, <2>3, <2>7, <3>3 DEF AddressStateOf, d
        <4>2. /\ machine_state' = AwaitingByteOf("read")
              /\ cursor' = [cursor EXCEPT !.page = d]
          BY <1>1, <1>4, <2>5, <4>1, PageAddressIsAccepted DEF CutShortInv
        <4>3. QED
          BY <2>7, <3>1, <3>3, <4>1, <4>2 DEF AddressStateOf, Cursor
      <3>4. ASSUME done = 2
             PROVE  Right
        <4>1. machine_state = AwaitingByteOf("read") /\ d = ByteOf(req.offset)
          BY <2>2, <2>3, <2>7, <3>4 DEF AddressStateOf, d
        <4>2. /\ machine_state' = AddressedOf("read")
              /\ cursor' = [cursor EXCEPT !.byte = d]
          BY <1>1, <1>4, <2>5, <4>1, ByteAddressIsAccepted DEF CutShortInv
        <4>3. QED
          BY <2>7, <3>1, <3>4, <4>1, <4>2 DEF AddressStateOf, Cursor
      <3>5. Right
        BY <2>4, <3>2, <3>3, <3>4
      <3>6. QED
        BY <1>1, <2>1, <2>2, <3>5 DEF ReadInStep
    <2>8. QED
      BY <1>1, <2>1, <2>2, <2>6, <2>7 DEF CutShortInv, ReadInStep
  <1>10. QED
    BY <1>5, <1>6, <1>7, <1>8, <1>9 DEF CutShortInv

\* The bytes of a write.
LEMMA ProgramByteOfCopy ==
  ASSUME CutShortInv, ProgramByte
  PROVE  CutShortInv'
  <1> DEFINE v == req.data[Instruction.at + done]
  <1>1. /\ pc = "data_in" /\ done < Instruction.len /\ StoreData(v)
        /\ done' = done + 1
        /\ UNCHANGED <<pc, instrs, index, req, rc, buffer>>
    BY DEF ProgramByte, Transferring, waitVars
  <1>2. /\ index \in Nat /\ index < 5 /\ done \in Nat /\ Instruction.type = "data_in"
        /\ CopyInHand
    BY <1>1 DEF CutShortInv, CopyInHand
  <1>3. /\ req.op = "write" /\ index # 4 /\ Instruction.len \in Nat
        /\ \A i \in 0 .. (Instruction.len - 1) : req.data[Instruction.at + i] \in Byte
    BY <1>1, <1>2, CopiedInstruction
  <1>4. v \in Byte
    BY <1>1, <1>2, <1>3
  <1> HIDE DEF v
  <1>5. DeviceInv'
    BY <1>1, <1>4, AccessesPreserve DEF CutShortInv
  <1>6. CopyInHand'
    <2>1. Instruction' = Instruction
      BY <1>1 DEF Instruction
    <2>2. QED
      BY <1>1, <1>2, <2>1 DEF CopyInHand
  <1>7. WaitsInTime' /\ ReadInStep' /\ OnePageIsRead'
    BY <1>1, <1>2, <1>3 DEF WaitsInTime, ReadInStep, OnePageIsRead
  <1>8. QED
    BY <1>5, <1>6, <1>7 DEF CutShortInv

\* The bytes of a read: the device gives those of the page that it was asked for.
LEMMA ReadByteOfCopy ==
  ASSUME CutShortInv, ReadByte
  PROVE  CutShortInv'
  <1> DEFINE x == req.offset
             len == PageEnds(req, 0)
  <1>1. /\ pc = "data_out" /\ done < Instruction.len /\ LoadData(TRUE)
        /\ buffer' = [buffer EXCEPT ![Instruction.at + done] = loaded']
        /\ done' = done + 1
        /\ UNCHANGED <<pc, instrs, index, req, rc>>
    BY DEF ReadByte, Transferring, waitVars
  <1>2. /\ index \in Nat /\ index < 5 /\ done \in Nat /\ Instruction.type = "data_out"
        /\ CopyInHand
    BY <1>1 DEF CutShortInv, CopyInHand
  <1>3. /\ req.op = "read" /\ index = 4 /\ x \in Nat /\ req.size \in Nat \ {0}
        /\ Instruction.at = 0 /\ Instruction.len = len
    <2>1. req.op = "read" /\ index = 4 /\ x \in Nat /\ req.size \in Nat \ {0}
      BY <1>1, <1>2, CopiedInstruction
    <2>2. Instruction = DataOut(0, len)
      BY <1>1, <1>2, <2>1, CopiedInstruction
    <2>3. QED
      BY <2>1, <2>2 DEF DataOut
  <1>4. /\ len \in Nat /\ len <= req.size /\ ByteOf(x) + len <= Radix
        /\ done < len
    BY <1>1, <1>3, FirstPageLength
  <1> HIDE DEF len
  <1>5. /\ ~exited /\ ~BeforeDeadline /\ machine_state = MS_READ_PROVIDING_DATA
        /\ cache = data_store[BlockOf(x)][PageOf(x)] /\ cursor = CursorAt(x + done)
    <2>1. ~exited /\ ~BeforeDeadline
      BY <1>1, <1>3 DEF CutShortInv, ReadInStep, WaitsInTime
    <2>2. QED
      BY <1>1, <1>3, <2>1 DEF CutShortInv, ReadInStep
  <1>6. /\ loaded' = cache[cursor.byte] /\ cursor' = NextByte(cursor)
        /\ UNCHANGED <<cache, data_store, machine_state, deadline, exited>>
    BY <1>1, <1>5, DataOutIsProvided DEF CutShortInv
  <1>7. DeviceInv' /\ BeforeDeadline' = BeforeDeadline
    BY <1>1, <1>6, AccessesPreserve DEF CutShortInv, BeforeDeadline
  <1>8. cursor' = CursorAt(x + done')
    <2>1. x + done \in Nat /\ (x + done) + 1 = x + done'
      BY <1>1, <1>2, <1>3
    <2> HIDE DEF x
    <2>2. NextByte(CursorAt(x + done)) = CursorAt((x + done) + 1)
      BY <2>1, NextByteIsNext
    <2>3. QED
      BY <1>5, <1>6, <2>1, <2>2
  <1>9. loaded' = Stored(x + done)
    <2>1. x = PageStart(x) + ByteOf(x) /\ PageStart(x) \in Nat /\ ByteOf(x) \in Digit
      BY <1>3, DigitsOfOffset
    <2> HIDE DEF x
    <2>2. /\ x + done \in Nat /\ PageStart(x) <= x + done
          /\ x + done < PageStart(x) + Radix
      BY <1>2, <1>3, <1>4, <2>1, RadixAssumption DEF Digit
    <2>3. BlockOf(x + done) = BlockOf(x) /\ PageOf(x + done) = PageOf(x)
      BY <1>3, <2>2, InPage
    <2>4. cursor.byte = ByteOf(x + done)
      BY <1>5 DEF CursorAt
    <2>5. QED
      BY <1>5, <1>6, <2>3, <2>4 DEF Stored
  <1>10. CopyInHand'
    <2>1. Instruction' = Instruction
      BY <1>1 DEF Instruction
    <2>2. QED
      BY <1>1, <1>2, <2>1 DEF CopyInHand
  <1>11. WaitsInTime' /\ ReadInStep'
    BY <1>1, <1>3, <1>5, <1>6, <1>7, <1>8 DEF WaitsInTime, ReadInStep
  <1>12. OnePageIsRead'
    <2>1. /\ buffer \in [0 .. (req.size - 1) -> Byte \union {Junk}]
          /\ \A i \in 0 .. (req.size - 1) :
               buffer[i] = IF i < done THEN Stored(x + i) ELSE Junk
      BY <1>1, <1>3 DEF CutShortInv, OnePageIsRead, BytesOfPage
    <2>2. loaded' \in Byte
      BY <1>7 DEF DeviceInv, DeviceTypeOK, ParserTypeOK
    <2>3. BytesOfPage' = done + 1 /\ done + 1 <= len
      BY <1>1, <1>2, <1>3, <1>4 DEF BytesOfPage
    <2>4. buffer' = [buffer EXCEPT ![done] = loaded']
      BY <1>1, <1>2, <1>3
    <2>5. buffer' \in [0 .. (req.size - 1) -> Byte \union {Junk}]
      BY <2>1, <2>2, <2>4
    <2>6. ASSUME NEW i \in 0 .. (req.size - 1)
          PROVE  buffer'[i] = IF i < done + 1 THEN Stored(x + i) ELSE Junk
      <3>1. CASE i = done
        BY <1>2, <1>9, <2>1, <2>4, <3>1
      <3>2. CASE i # done
        <4>1. buffer'[i] = buffer[i] /\ (i < done + 1 <=> i < done)
          BY <1>2, <2>1, <2>4, <3>2
        <4>2. QED
          BY <2>1, <4>1
      <3>3. QED
        BY <3>1, <3>2
    <2>7. \A i : Stored(x + i)' = Stored(x + i)
      BY <1>1, <1>6 DEF Stored
    <2>8. QED
      BY <1>1, <1>3, <2>3, <2>5, <2>6, <2>7 DEF OnePageIsRead, len
  <1>13. QED
    BY <1>7, <1>10, <1>11, <1>12 DEF CutShortInv

\* A wait is over when the device is ready or the time is up, and it never is with
\* a tracer that has gone.
LEMMA WaitOfCopy ==
  ASSUME driver = "foxtrot_1", CutShortInv, pc \in Waiting,
         WaitStep(Instruction.timeout, FALSE), UNCHANGED <<callVars, deviceVars>>
  PROVE  CutShortInv'
  <1>1. UNCHANGED <<req, buffer, rc, instrs, index, done>>
    BY DEF callVars, opVars
  <1>2. /\ UNCHANGED <<cursor, cache, data_store, machine_state, deadline, exited>>
        /\ DeviceInv' /\ BeforeDeadline' = BeforeDeadline
    BY DeviceLeftAlone DEF CutShortInv
  <1>3. index \in Nat /\ index < 5 /\ Instruction.type = "wait" /\ CopyInHand
    BY DEF CutShortInv, CopyInHand
  <1>4. /\ pc' \in Waiting \union Waited
        /\ pc' = "ready" => ~BeforeDeadline
        /\ exited /\ pc \in {"wait", "poll"} => pc' \in {"wait", "poll"}
    BY DEF WaitStep, StartWait, Poll, FallAsleep, WakeUp, CheckTimeout, LastPoll,
           FirstStep, AfterBusy, AfterSleep, AfterCheck, AfterTimeout, GpioGet,
           PN_STATUS, DEVICE_READY, DEVICE_BUSY
  <1>5. CopyInHand'
    <2>1. Instruction' = Instruction
      BY <1>1 DEF Instruction
    <2>2. QED
      BY <1>1, <1>3, <1>4, <2>1 DEF CopyInHand
  <1>6. WaitsInTime'
    BY <1>1, <1>2, <1>3, <1>4 DEF CutShortInv, WaitsInTime
  <1>7. ReadInStep'
    <2>1. SUFFICES ASSUME req.op = "read"
                   PROVE  ReadInStep'
      BY <1>1 DEF ReadInStep
    <2>2. pc # "idle" /\ pc' # "idle"
      BY <1>4
    <2>3. exited => pc' \in {"next", "wait", "poll"} \/ index # 3
      BY <1>4, <2>1, <2>2 DEF CutShortInv, ReadInStep
    <2>4. QED
      BY <1>1, <1>2, <2>1, <2>2, <2>3 DEF CutShortInv, ReadInStep
  <1>8. OnePageIsRead'
    <2>1. pc # "idle" /\ pc' # "idle"
      BY <1>4
    <2>2. BytesOfPage' = BytesOfPage
      BY <1>1, <2>1 DEF BytesOfPage
    <2>3. QED
      BY <1>1, <1>2, <2>1, <2>2 DEF CutShortInv, OnePageIsRead, Stored
  <1>9. QED
    BY <1>2, <1>5, <1>6, <1>7, <1>8 DEF CutShortInv

\* The end of an instruction.  A read that has sent its addresses has the device at
\* its page or in its bug state, and one that has waited has it at its page.
LEMMA EndOfCopied ==
  ASSUME driver = "foxtrot_1", CutShortInv, InstructionEnds
  PROVE  CutShortInv'
  <1>1. /\ \/ pc = "addr" /\ done = Len(Instruction.addrs)
           \/ pc \in {"data_in", "data_out"} /\ done = Instruction.len
           \/ pc = "ready"
        /\ GoOn /\ UNCHANGED <<buffer, deviceVars>>
    BY DEF InstructionEnds
  <1>2. /\ pc \in {"addr", "data_in", "data_out", "ready"}
        /\ index \in Nat /\ index < 5 /\ done \in Nat /\ CopyInHand
        /\ pc \in {"addr", "data_in", "data_out"} => Instruction.type = pc
        /\ pc = "ready" => Instruction.type = "wait"
    BY <1>1 DEF CutShortInv, CopyInHand, Waited
  <1>3. /\ UNCHANGED <<cursor, cache, data_store, machine_state, exited>>
        /\ DeviceInv' /\ BeforeDeadline' = BeforeDeadline
    BY <1>1, DeviceLeftAlone DEF CutShortInv
  <1>4. /\ CopyInHand' /\ pc' = "next" /\ index' = index + 1 /\ done' = 0
        /\ UNCHANGED <<instrs, req, rc>>
    BY <1>1, <1>2, GoOnInCopy
  <1>5. /\ req.op = "write" /\ index = 4 => pc = "ready"
        /\ req.op = "read" =>
             \/ index = 1 /\ pc = "addr" /\ Instruction = Addr(AddressesOf(req))
             \/ index = 3 /\ pc = "ready"
             \/ index = 4 /\ pc = "data_out" /\ Instruction = DataOut(0, PageEnds(req, 0))
        /\ req.offset \in Nat /\ req.size \in Nat \ {0}
    <2>1. req.op = "write" /\ index = 4 => Instruction.type = "wait"
      BY <1>2, CopiedInstruction
    <2>2. req.op = "read" =>
            /\ index # 0 /\ index # 2
            /\ index = 1 => Instruction = Addr(AddressesOf(req))
            /\ index = 3 => Instruction.type = "wait"
            /\ index = 4 => Instruction = DataOut(0, PageEnds(req, 0))
      BY <1>2, CopiedInstruction DEF Cmd
    <2>3. req.offset \in Nat /\ req.size \in Nat \ {0}
      BY <1>2, CopiedInstruction
    <2>4. QED
      BY <1>2, <2>1, <2>2, <2>3 DEF Addr, DataOut
  <1>6. WaitsInTime'
    BY <1>2, <1>3, <1>4, <1>5 DEF CutShortInv, WaitsInTime
  <1>7. ReadInStep' /\ OnePageIsRead'
    <2>1. SUFFICES ASSUME req.op = "read"
                   PROVE  ReadInStep' /\ OnePageIsRead'
      BY <1>4 DEF ReadInStep, OnePageIsRead
    <2>2. req.offset + done' = req.offset
      BY <1>4, <1>5
    <2>3. CASE index = 1
      <3>1. index' = 2 /\ BytesOfPage = 0 /\ BytesOfPage' = 0
        BY <1>2, <1>4, <2>3 DEF BytesOfPage
      <3>2. done = 3
        <4>1. done = Len(Instruction.addrs) /\ Instruction.addrs = AddressesOf(req)
          BY <1>1, <1>5, <2>1, <2>3 DEF Addr
        <4>2. Len(AddressesOf(req)) = 3
          BY <1>5, <2>1, AddressesFit
        <4>3. QED
          BY <4>1, <4>2
      <3>3. ~exited => \/ machine_state = MS_BUG
                       \/ /\ machine_state = MS_READ_AWAITING_EXECUTE
                          /\ cursor = CursorAt(req.offset)
        <4>1. SUFFICES ASSUME ~exited, machine_state # MS_BUG
                       PROVE  /\ machine_state = MS_READ_AWAITING_EXECUTE
                              /\ cursor = CursorAt(req.offset)
          OBVIOUS
        <4>2. machine_state \notin StatesAhead(3)
          BY <4>1 DEF StatesAhead
        <4>3. /\ machine_state = AddressStateOf("read", 3)
              /\ cursor.block = BlockOf(req.offset)
              /\ cursor.page = PageOf(req.offset)
              /\ cursor.byte = ByteOf(req.offset)
          BY <1>2, <2>1, <2>3, <3>2, <4>1, <4>2 DEF CutShortInv, ReadInStep
        <4>4. cursor \in Cursor
          BY DEF CutShortInv, DeviceInv, DeviceTypeOK, StoreTypeOK
        <4>5. QED
          BY <4>3, <4>4 DEF AddressStateOf, AddressedOf, CursorAt, Cursor
      <3>4. ReadInStep'
        BY <1>3, <1>4, <2>1, <3>1, <3>3 DEF ReadInStep
      <3>5. OnePageIsRead'
        BY <1>1, <1>2, <1>3, <1>4, <2>1, <3>1, <2>3
        DEF CutShortInv, OnePageIsRead, Stored
      <3>6. QED
        BY <3>4, <3>5
    <2>4. CASE index = 3
      <3>1. pc = "ready" /\ index' = 4
        BY <1>4, <1>5, <2>1, <2>4
      <3>2. BytesOfPage = 0 /\ BytesOfPage' = 0 /\ PageEnds(req, 0) \in Nat
        BY <1>2, <1>4, <1>5, <2>4, <3>1, FirstPageLength DEF BytesOfPage
      <3>3. ~exited
        BY <2>1, <2>4, <3>1 DEF CutShortInv, ReadInStep
      <3>4. /\ machine_state = MS_READ_PROVIDING_DATA
            /\ cache = data_store[BlockOf(req.offset)][PageOf(req.offset)]
            /\ cursor = CursorAt(req.offset + done)
        BY <1>2, <2>1, <2>4, <3>3 DEF CutShortInv, ReadInStep
      <3>5. done = 0
        BY <1>2, <2>1, <2>4, <3>1 DEF CutShortInv, CopyInHand
      <3>6. ReadInStep'
        BY <1>3, <1>4, <2>1, <3>1, <3>3, <3>4, <3>5 DEF ReadInStep
      <3>7. OnePageIsRead'
        BY <1>1, <1>2, <1>3, <1>4, <2>1, <3>1, <3>2
        DEF CutShortInv, OnePageIsRead, Stored
      <3>8. QED
        BY <3>6, <3>7
    <2>5. CASE index = 4
      <3>1. pc = "data_out" /\ index' = 5 /\ done = PageEnds(req, 0)
        BY <1>1, <1>4, <1>5, <2>1, <2>5 DEF DataOut
      <3>2. BytesOfPage = PageEnds(req, 0) /\ BytesOfPage' = PageEnds(req', 0)
        BY <1>2, <1>4, <2>5, <3>1 DEF BytesOfPage
      <3>3. ReadInStep'
        BY <1>2, <1>3, <1>4, <2>1, <2>5, <3>1 DEF CutShortInv, ReadInStep
      <3>4. OnePageIsRead'
        BY <1>1, <1>2, <1>3, <1>4, <2>1, <3>1, <3>2
        DEF CutShortInv, OnePageIsRead, Stored
      <3>5. QED
        BY <3>3, <3>4
    <2>6. QED
      BY <1>5, <2>1, <2>3, <2>4, <2>5
  <1>8. QED
    BY <1>3, <1>4, <1>6, <1>7 DEF CutShortInv

\* The call returns: with success when it has come to the end of the copy.
LEMMA ReturnOfCopy ==
  ASSUME CutShortInv, OperationEnds \/ GiveUp
  PROVE  CutShortInv'
  <1>1. /\ pc # "idle" /\ pc' = "idle"
        /\ \/ pc = "next" /\ index >= Len(instrs) /\ rc' = 0
           \/ rc' = -1
        /\ UNCHANGED <<req, buffer, instrs, index, done, deviceVars>>
    BY DEF OperationEnds, GiveUp, Return, EndCall, opVars
  <1>2. /\ UNCHANGED <<cursor, cache, data_store, machine_state, exited>>
        /\ DeviceInv' /\ BeforeDeadline' = BeforeDeadline
    BY <1>1, DeviceLeftAlone DEF CutShortInv
  <1>3. /\ req \in Requests /\ req.op \in Operation /\ index \in Nat
        /\ rc' = 0 => index = 5
    <2>1. req \in Requests /\ index \in Nat /\ index <= 5 /\ Len(instrs) = 5
      BY <1>1 DEF CutShortInv, CopyInHand
    <2>2. QED
      BY <1>1, <2>1, RequestFacts
  <1>4. CopyInHand'
    BY <1>1 DEF CutShortInv, CopyInHand
  <1>5. WaitsInTime' /\ ReadInStep'
    BY <1>1, <1>2, <1>3 DEF CutShortInv, WaitsInTime, ReadInStep, Operation
  <1>6. OnePageIsRead'
    <2>1. SUFFICES ASSUME req.op = "read", rc' = 0
                   PROVE  OnePageIsRead'
      BY <1>1 DEF OnePageIsRead
    <2>2. BytesOfPage = PageEnds(req, 0) /\ BytesOfPage' = PageEnds(req', 0)
      BY <1>1, <1>3, <2>1 DEF BytesOfPage
    <2>3. QED
      BY <1>1, <1>2, <2>1, <2>2 DEF CutShortInv, OnePageIsRead, Stored
  <1>7. QED
    BY <1>2, <1>4, <1>5, <1>6 DEF CutShortInv

\* All of that together: no step of the tester, the driver or time breaks it.
LEMMA StepsCutShort ==
  ASSUME InstructionSize = 5, driver = "foxtrot_1", CutShortInv, [Next]_vars
  PROVE  CutShortInv'
  <1>1. CASE Request
    BY <1>1, CallCopiesFive
  <1>2. CASE Tracee
    BY <1>2, DispatchOfCopy, SendCommandOfCopy, SendAddressOfCopy, ProgramByteOfCopy,
       ReadByteOfCopy, WaitOfCopy, EndOfCopied, ReturnOfCopy
    DEF Tracee, CallStep
  <1>3. CASE Time
    <2>1. /\ DeadlinePasses
          /\ UNCHANGED <<storeVars, machine_state, ioregs, loaded, exited>>
          /\ UNCHANGED <<pc, req, buffer, rc, instrs, index, done>>
      BY <1>3 DEF Time, Tick, callVars, opVars
    <2>2. DeviceInv' /\ (BeforeDeadline' => BeforeDeadline)
      BY <2>1, DeadlinePassesPreserves DEF CutShortInv
    <2>3. QED
      BY <2>1, <2>2, QuietStepOfCopy DEF storeVars
  <1>4. CASE UNCHANGED vars
    <2>1. UNCHANGED <<deviceVars, pc, req, buffer, rc, instrs, index, done>>
      BY <1>4 DEF vars, waitVars, callVars, opVars
    <2>2. QED
      BY <2>1, DeviceLeftAlone, QuietStepOfCopy DEF CutShortInv
  <1>5. QED
    BY <1>1, <1>2, <1>3, <1>4 DEF Next

\* It holds of a device that has just started.
LEMMA InitCutShort ==
  ASSUME Init
  PROVE  CutShortInv
  <1>1. DeviceInv /\ ~BeforeDeadline
    <2>1. DeviceInv
      BY ParserInitEstablishes DEF Init
    <2>2. deadline = 0
      BY DEF Init, ParserInit
    <2>3. QED
      BY <2>1, <2>2 DEF BeforeDeadline
  <1>2. pc = "idle" /\ req = NoRequest /\ index = 0 /\ done = 0
    BY DEF Init, ExecOpInit, FrameworkInit
  <1>3. QED
    BY <1>1, <1>2
    DEF CutShortInv, CopyInHand, WaitsInTime, ReadInStep, OnePageIsRead, NoRequest

\* Whatever foxtrot_1's leftovers have done to the device, a read that gets as far as
\* its data has had the device follow each of its instructions.
THEOREM CutShortInvariant ==
  ASSUME InstructionSize = 5
  PROVE  Spec => [](driver = "foxtrot_1" => CutShortInv)
  <1>1. Init => (driver = "foxtrot_1" => CutShortInv)
    BY InitCutShort
  <1>2. (driver = "foxtrot_1" => CutShortInv) /\ [Next]_vars
          => (driver = "foxtrot_1" => CutShortInv)'
    BY DriverIsChosenOnce, StepsCutShort
  <1>3. QED
    BY <1>1, <1>2, PTL DEF Spec

\* foxtrot_1 reads the first page of what it is asked for, and leaves the rest of the
\* caller's buffer as it was: reads of any size, anywhere in storage of any size, after
\* any calls and with anything in the memory after an operation's array.
THEOREM FirstPages ==
  ASSUME InstructionSize = 5
  PROVE  Spec => []FirstPageIsRead
  <1>1. (driver = "foxtrot_1" => CutShortInv) => FirstPageIsRead
    <2>1. SUFFICES ASSUME CutShortInv, pc = "idle", rc = 0, req.op = "read",
                          NEW i \in 0 .. (req.size - 1)
                   PROVE  buffer[i] = IF BYTE(req.offset) + i < Radix
                                        THEN Contents[Wrap(req.offset + i)] ELSE Junk
      BY DEF FirstPageIsRead
    <2>2. req.offset \in Nat /\ req.size \in Nat \ {0}
      BY <2>1, RequestFacts DEF CutShortInv, CopyInHand, NoRequest
    <2>3. i < PageEnds(req, 0) <=> BYTE(req.offset) + i < Radix
      BY <2>1, <2>2, FirstPageLength
    <2>4. buffer[i] = IF i < PageEnds(req, 0) THEN Stored(req.offset + i) ELSE Junk
      BY <2>1 DEF CutShortInv, OnePageIsRead, BytesOfPage
    <2>5. Contents[Wrap(req.offset + i)] = Stored(req.offset + i)
      <3> DEFINE x == req.offset + i
      <3>1. x \in Nat
        BY <2>1, <2>2
      <3> HIDE DEF x
      <3>2. /\ Wrap(x) \in StorageAddress
            /\ BlockOf(Wrap(x)) = BlockOf(x)
            /\ PageOf(Wrap(x)) = PageOf(x)
            /\ ByteOf(Wrap(x)) = ByteOf(x)
        BY <3>1, WrapFacts
      <3>3. Contents[Wrap(x)] = Stored(Wrap(x))
        BY <3>2, ContentsAreStored
      <3>4. QED
        BY <3>2, <3>3 DEF Stored, x
    <2>6. QED
      BY <2>3, <2>4, <2>5
  <1>2. QED
    BY <1>1, CutShortInvariant, PTL

\* Only an erase that foxtrot_1 cuts short leaves work behind a call that succeeds.
THEOREM OnlyErasesLeaveWork ==
  ASSUME InstructionSize = 5,
         Drivers \subseteq {"foxtrot_0", "foxtrot_1", "foxtrot_2"},
         "foxtrot_2" \in Drivers => Modulus = 8
  PROVE  Spec => []OnlyErasesAreCutShort
  <1>1. /\ driver \in Drivers
        /\ driver = "foxtrot_1" => CutShortInv
        /\ WholeOperations => ExecInv
        => OnlyErasesAreCutShort
    <2>1. SUFFICES ASSUME driver \in Drivers,
                          driver = "foxtrot_1" => CutShortInv,
                          WholeOperations => ExecInv,
                          pc = "idle", rc = 0, BeforeDeadline
                   PROVE  driver = "foxtrot_1" /\ req.op = "erase"
      BY DEF OnlyErasesAreCutShort
    <2>2. CASE driver = "foxtrot_1"
      BY <2>1, <2>2 DEF CutShortInv, WaitsInTime
    <2>3. CASE driver # "foxtrot_1"
      <3>1. ExecInv
        BY <2>1, <2>3 DEF WholeOperations
      <3>2. ~BeforeDeadline
        BY <2>1, <3>1 DEF ExecInv, DriverKnowsDevice, AtRest
      <3>3. QED
        BY <2>1, <3>2
    <2>4. QED
      BY <2>2, <2>3
  <1>2. QED
    BY <1>1, ExecInvariant, CutShortInvariant, DriverIsConsidered, PTL
=============================================================================
