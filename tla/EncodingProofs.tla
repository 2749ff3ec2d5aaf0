--------------------------- MODULE EncodingProofs ----------------------------
(***************************************************************************)
(* The lemmas about module StateEncodings: what a writer leaves in the     *)
(* memory of a state and what a reader makes of it, for every memory.      *)
(***************************************************************************)
EXTENDS StateEncodings, StringLemmas

-----------------------------------------------------------------------------
(* Bits of bytes.                                                          *)

BitAt(b, k) == (b \div 2 ^ k) % 2

\* The byte with the bits x.
ByteOf(x) == x[0] + 2 * x[1] + 4 * x[2] + 8 * x[3] + 16 * x[4] + 32 * x[5] + 64 * x[6] + 128 * x[7]
BitsOf(b) == [k \in 0 .. 7 |-> BitAt(b, k)]

\* Powers that the provers compute.
LEMMA Powers ==
    /\ 2 ^ 0 = 1 /\ 2 ^ 1 = 2 /\ 2 ^ 2 = 4 /\ 2 ^ 3 = 8
    /\ 2 ^ 4 = 16 /\ 2 ^ 5 = 32 /\ 2 ^ 6 = 64 /\ 2 ^ 7 = 128
  OBVIOUS

\* The bits of x, without powers.
Halves(x) ==
    /\ BitAt(x, 0) = x % 2 /\ BitAt(x, 1) = (x \div 2) % 2
    /\ BitAt(x, 2) = (x \div 4) % 2 /\ BitAt(x, 3) = (x \div 8) % 2
    /\ BitAt(x, 4) = (x \div 16) % 2 /\ BitAt(x, 5) = (x \div 32) % 2
    /\ BitAt(x, 6) = (x \div 64) % 2 /\ BitAt(x, 7) = (x \div 128) % 2

\* A bit is the remainder of a quotient.
LEMMA BitIs ==
    ASSUME NEW x \in Nat
    PROVE  Halves(x)
  BY Powers DEF BitAt, Halves

\* A byte has the bits 0 to 7.
LEMMA ByteBits ==
    \A k \in 0 .. 7 : k = 0 \/ k = 1 \/ k = 2 \/ k = 3 \/ k = 4 \/ k = 5 \/ k = 6 \/ k = 7
  OBVIOUS

\* A bit is zero or one.
LEMMA BitRange ==
    ASSUME NEW b \in Nat, NEW k \in 0 .. 7
    PROVE  BitAt(b, k) \in 0 .. 1
<1>1. Halves(b)
  BY BitIs
<1> QED
  BY <1>1, ByteBits DEF Halves

\* A byte is the byte with its bits.
LEMMA ByteOfBits ==
    ASSUME NEW b \in Byte
    PROVE  BitsOf(b) \in [0 .. 7 -> 0 .. 1] /\ ByteOf(BitsOf(b)) = b
<1>1. b \in Nat /\ b <= 255
  BY DEF Byte
<1>2. BitsOf(b) \in [0 .. 7 -> 0 .. 1]
  BY <1>1, BitRange DEF BitsOf
<1>3. Halves(b)
  BY <1>1, BitIs
<1>4. /\ b = 2 * (b \div 2) + (b % 2) /\ b \div 2 = 2 * (b \div 4) + ((b \div 2) % 2)
      /\ b \div 4 = 2 * (b \div 8) + ((b \div 4) % 2)
      /\ b \div 8 = 2 * (b \div 16) + ((b \div 8) % 2)
  BY <1>1
<1>5. /\ b \div 16 = 2 * (b \div 32) + ((b \div 16) % 2)
      /\ b \div 32 = 2 * (b \div 64) + ((b \div 32) % 2)
      /\ b \div 64 = 2 * (b \div 128) + ((b \div 64) % 2)
      /\ b \div 128 = (b \div 128) % 2
  BY <1>1
<1>6. /\ b \div 2 \in Int /\ b \div 4 \in Int /\ b \div 8 \in Int /\ b \div 16 \in Int
      /\ b \div 32 \in Int /\ b \div 64 \in Int /\ b \div 128 \in Int
  BY <1>1
<1>7. \A k \in 0 .. 7 : BitsOf(b)[k] = BitAt(b, k)
  BY DEF BitsOf
<1>8. ByteOf(BitsOf(b)) = BitAt(b, 0) + 2 * BitAt(b, 1) + 4 * BitAt(b, 2) + 8 * BitAt(b, 3)
                          + 16 * BitAt(b, 4) + 32 * BitAt(b, 5) + 64 * BitAt(b, 6) + 128 * BitAt(b, 7)
  BY <1>7 DEF ByteOf
<1>9. ByteOf(BitsOf(b)) = b
  BY <1>1, <1>3, <1>4, <1>5, <1>6, <1>8 DEF Halves
<1> QED
  BY <1>2, <1>9

\* The byte with the bits x has the bits x.
LEMMA BitsOfByte ==
    ASSUME NEW x \in [0 .. 7 -> 0 .. 1]
    PROVE  ByteOf(x) \in Byte /\ \A k \in 0 .. 7 : BitAt(ByteOf(x), k) = x[k]
<1> DEFINE b == ByteOf(x)
<1>1. /\ x[0] \in 0 .. 1 /\ x[1] \in 0 .. 1 /\ x[2] \in 0 .. 1 /\ x[3] \in 0 .. 1
      /\ x[4] \in 0 .. 1 /\ x[5] \in 0 .. 1 /\ x[6] \in 0 .. 1 /\ x[7] \in 0 .. 1
  OBVIOUS
<1>2. b \in Nat /\ b <= 255 /\ b \in Byte
  BY <1>1 DEF ByteOf, Byte
<1>3. Halves(b)
  BY <1>2, BitIs
<1>4. b % 2 = x[0] /\ b \div 2 = x[1] + 2 * x[2] + 4 * x[3] + 8 * x[4] + 16 * x[5] + 32 * x[6] + 64 * x[7]
  BY <1>1 DEF ByteOf
<1>5. b \div 4 = x[2] + 2 * x[3] + 4 * x[4] + 8 * x[5] + 16 * x[6] + 32 * x[7]
  BY <1>1 DEF ByteOf
<1>6. b \div 8 = x[3] + 2 * x[4] + 4 * x[5] + 8 * x[6] + 16 * x[7]
  BY <1>1 DEF ByteOf
<1>7. b \div 16 = x[4] + 2 * x[5] + 4 * x[6] + 8 * x[7]
  BY <1>1 DEF ByteOf
<1>8. b \div 32 = x[5] + 2 * x[6] + 4 * x[7] /\ b \div 64 = x[6] + 2 * x[7] /\ b \div 128 = x[7]
  BY <1>1 DEF ByteOf
<1> HIDE DEF b
<1>9. /\ BitAt(b, 0) = x[0] /\ BitAt(b, 1) = x[1] /\ BitAt(b, 2) = x[2] /\ BitAt(b, 3) = x[3]
  BY <1>1, <1>3, <1>4, <1>5, <1>6 DEF Halves
<1>10. /\ BitAt(b, 4) = x[4] /\ BitAt(b, 5) = x[5] /\ BitAt(b, 6) = x[6] /\ BitAt(b, 7) = x[7]
  BY <1>1, <1>3, <1>7, <1>8 DEF Halves
<1>11. \A k \in 0 .. 7 : BitAt(b, k) = x[k]
  BY <1>9, <1>10, ByteBits
<1> QED
  BY <1>2, <1>11 DEF b

\* To add the power of a bit that is not set sets that bit and no other.
LEMMA AddPower ==
    ASSUME NEW b \in Byte, NEW k \in 0 .. 7, BitAt(b, k) = 0
    PROVE  /\ b + 2 ^ k \in Byte
           /\ \A l \in 0 .. 7 : BitAt(b + 2 ^ k, l) = IF l = k THEN 1 ELSE BitAt(b, l)
<1> DEFINE x == BitsOf(b)
           y == [x EXCEPT ![k] = 1]
<1>1. x \in [0 .. 7 -> 0 .. 1] /\ ByteOf(x) = b
  BY ByteOfBits
<1>2. \A l \in 0 .. 7 : x[l] = BitAt(b, l)
  BY DEF BitsOf
<1> HIDE DEF x
<1>3. y \in [0 .. 7 -> 0 .. 1] /\ \A l \in 0 .. 7 : y[l] = IF l = k THEN 1 ELSE x[l]
  BY <1>1
<1>4. x[k] = 0
  BY <1>2
<1> HIDE DEF y
<1>5. ByteOf(y) = ByteOf(x) + 2 ^ k
  <2>1. /\ x[0] \in 0 .. 1 /\ x[1] \in 0 .. 1 /\ x[2] \in 0 .. 1 /\ x[3] \in 0 .. 1
        /\ x[4] \in 0 .. 1 /\ x[5] \in 0 .. 1 /\ x[6] \in 0 .. 1 /\ x[7] \in 0 .. 1
    BY <1>1
  <2>2. CASE k = 0
    BY <1>3, <1>4, <2>1, <2>2, Powers DEF ByteOf
  <2>3. CASE k = 1
    BY <1>3, <1>4, <2>1, <2>3, Powers DEF ByteOf
  <2>4. CASE k = 2
    BY <1>3, <1>4, <2>1, <2>4, Powers DEF ByteOf
  <2>5. CASE k = 3
    BY <1>3, <1>4, <2>1, <2>5, Powers DEF ByteOf
  <2>6. CASE k = 4
    BY <1>3, <1>4, <2>1, <2>6, Powers DEF ByteOf
  <2>7. CASE k = 5
    BY <1>3, <1>4, <2>1, <2>7, Powers DEF ByteOf
  <2>8. CASE k = 6
    BY <1>3, <1>4, <2>1, <2>8, Powers DEF ByteOf
  <2>9. CASE k = 7
    BY <1>3, <1>4, <2>1, <2>9, Powers DEF ByteOf
  <2> QED
    BY <2>2, <2>3, <2>4, <2>5, <2>6, <2>7, <2>8, <2>9, ByteBits
<1>6. ByteOf(y) \in Byte /\ \A l \in 0 .. 7 : BitAt(ByteOf(y), l) = y[l]
  BY <1>3, BitsOfByte
<1> QED
  BY <1>1, <1>2, <1>3, <1>5, <1>6

-----------------------------------------------------------------------------
(* The loop over the elements.                                             *)

\* The memories after the rounds.
Rounds(f, d, set) == f = [n \in Nat |-> IF n = 0 THEN d ELSE set[f[n - 1]][n]]

\* The memory after every round is determined by the memory before the loop.
LEMMA RoundsExist ==
    ASSUME NEW d, NEW set
    PROVE  \E f : Rounds(f, d, set)
<1> DEFINE Part(g, n) == /\ g = [k \in 0 .. n |-> g[k]]
                         /\ \A k \in 0 .. n : g[k] = IF k = 0 THEN d ELSE set[g[k - 1]][k]
           Bad == {n \in Nat : ~ \E g : Part(g, n)}
<1>1. ASSUME NEW n \in Nat PROVE \E g : Part(g, n)
  <2> SUFFICES ASSUME n \in Bad PROVE FALSE
    OBVIOUS
  <2>1. Bad \subseteq Nat /\ Bad # {}
    OBVIOUS
  <2>2. PICK m \in Bad : \A k \in Bad : m <= k
    <3> HIDE DEF Bad
    <3> QED BY <2>1, LeastElement
  <2>3. CASE m = 0
    <3> DEFINE g == [k \in 0 .. 0 |-> d]
    <3>1. Part(g, 0)
      OBVIOUS
    <3> QED BY <3>1, <2>2, <2>3
  <2>4. CASE m # 0
    <3>1. m - 1 \in Nat /\ m - 1 \notin Bad
      BY <2>2, <2>4
    <3>2. PICK g : Part(g, m - 1)
      BY <3>1
    <3> DEFINE h == [k \in 0 .. m |-> IF k = m THEN set[g[m - 1]][m] ELSE g[k]]
    <3>3. ASSUME NEW k \in 0 .. m PROVE h[k] = IF k = 0 THEN d ELSE set[h[k - 1]][k]
      <4>1. CASE k = m
        <5>1. h[k] = set[g[m - 1]][m] /\ h[m - 1] = g[m - 1]
          BY <4>1, <2>2, <2>4
        <5> QED BY <5>1, <4>1, <2>4
      <4>2. CASE k # m
        <5>1. k \in 0 .. m - 1 /\ h[k] = g[k]
          BY <4>2, <2>2
        <5>2. k # 0 => k - 1 \in 0 .. m /\ k - 1 # m
          BY <5>1, <2>2
        <5>3. k # 0 => h[k - 1] = g[k - 1]
          BY <5>2
        <5> HIDE DEF h
        <5> QED BY <5>1, <5>3, <3>2
      <4> QED BY <4>1, <4>2
    <3>4. h = [k \in 0 .. m |-> h[k]]
      OBVIOUS
    <3>5. Part(h, m)
      BY <3>3, <3>4
    <3> QED BY <3>5, <2>2
  <2> QED BY <2>3, <2>4
<1>2. ASSUME NEW n \in Nat, NEW m \in Nat, m <= n, NEW g, NEW h, Part(g, n), Part(h, m)
      PROVE  \A k \in 0 .. m : g[k] = h[k]
  <2> DEFINE Wrong == {k \in 0 .. m : g[k] # h[k]}
  <2> SUFFICES ASSUME Wrong # {} PROVE FALSE
    OBVIOUS
  <2>1. Wrong \subseteq Nat
    OBVIOUS
  <2>2. PICK k \in Wrong : \A l \in Wrong : k <= l
    <3> HIDE DEF Wrong
    <3> QED BY <2>1, LeastElement
  <2>3. k \in 0 .. m /\ k \in 0 .. n
    BY <1>2
  <2>4. CASE k = 0
    BY <2>2, <2>3, <2>4, <1>2
  <2>5. CASE k # 0
    <3>1. k - 1 \in 0 .. m /\ k - 1 \notin Wrong
      BY <2>2, <2>3, <2>5
    <3>2. g[k - 1] = h[k - 1]
      BY <3>1
    <3>3. g[k] = set[g[k - 1]][k] /\ h[k] = set[h[k - 1]][k]
      BY <1>2, <2>3, <2>5
    <3> QED BY <3>2, <3>3, <2>2
  <2> QED BY <2>4, <2>5
<1> DEFINE G(n) == CHOOSE g : Part(g, n)
           f == [n \in Nat |-> G(n)[n]]
<1>3. \A n \in Nat : Part(G(n), n)
  BY <1>1
<1> HIDE DEF G
<1>4. ASSUME NEW n \in Nat PROVE f[n] = IF n = 0 THEN d ELSE set[f[n - 1]][n]
  <2>1. Part(G(n), n)
    BY <1>3
  <2>2. CASE n = 0
    BY <2>1, <2>2
  <2>3. CASE n # 0
    <3>1. n - 1 \in Nat /\ n - 1 \in 0 .. n - 1
      BY <2>3
    <3>2. Part(G(n - 1), n - 1)
      BY <3>1, <1>3
    <3>3. G(n)[n - 1] = G(n - 1)[n - 1]
      <4> HIDE DEF Part
      <4> QED BY <3>1, <3>2, <2>1, <1>2
    <3>4. G(n)[n] = set[G(n)[n - 1]][n]
      BY SMTT(20), <2>1, <2>3
    <3>5. f[n] = G(n)[n] /\ f[n - 1] = G(n - 1)[n - 1]
      BY <3>1
    <3> HIDE DEF f
    <3> QED BY <3>3, <3>4, <3>5, <2>3
  <2> QED BY <2>2, <2>3
<1>5. f = [n \in Nat |-> f[n]]
  OBVIOUS
<1>6. f = [n \in Nat |-> IF n = 0 THEN d ELSE set[f[n - 1]][n]]
  <2> HIDE DEF f
  <2> QED BY <1>4, <1>5
<1>7. Rounds(f, d, set)
  BY <1>6 DEF Rounds
<1> QED BY <1>7

\* What every round establishes from what the round before it left, the loop
\* establishes: P[i] are the memories that may be there after i rounds.
LEMMA ForEachKeeps ==
    ASSUME NEW es, Len(es) \in Nat, NEW d, NEW set, NEW P, d \in P[0],
           \A i \in 1 .. Len(es) : \A m \in P[i - 1] : set[m][i] \in P[i]
    PROVE  ForEach(es, d, set) \in P[Len(es)]
<1> DEFINE after == CHOOSE f : Rounds(f, d, set)
<1>1. Rounds(after, d, set)
  BY RoundsExist
<1>2. ForEach(es, d, set) = after[Len(es)]
  BY DEF ForEach, Rounds
<1> HIDE DEF after
<1>3. \A n \in Nat : after[n] = IF n = 0 THEN d ELSE set[after[n - 1]][n]
  BY <1>1 DEF Rounds
<1> DEFINE Bad == {n \in 0 .. Len(es) : after[n] \notin P[n]}
<1>4. Bad = {}
  <2> SUFFICES ASSUME Bad # {} PROVE FALSE
    OBVIOUS
  <2>1. Bad \subseteq Nat
    OBVIOUS
  <2>2. PICK n \in Bad : \A k \in Bad : n <= k
    <3> HIDE DEF Bad
    <3> QED BY <2>1, LeastElement
  <2>3. n \in 0 .. Len(es) /\ n \in Nat
    OBVIOUS
  <2>4. CASE n = 0
    BY <2>2, <2>3, <2>4, <1>3
  <2>5. CASE n # 0
    <3>1. n \in 1 .. Len(es) /\ n - 1 \in 0 .. Len(es) /\ n - 1 \notin Bad
      BY <2>2, <2>3, <2>5
    <3>2. after[n - 1] \in P[n - 1]
      BY <3>1
    <3>3. set[after[n - 1]][n] \in P[n]
      BY <3>1, <3>2
    <3>4. after[n] = set[after[n - 1]][n]
      BY <2>3, <2>5, <1>3
    <3> QED BY <3>3, <3>4, <2>2
  <2> QED BY <2>4, <2>5
<1> QED BY <1>2, <1>4

-----------------------------------------------------------------------------
(* Bits in memories.                                                       *)

Memory(n) == [0 .. n - 1 -> Byte]

\* m and r are the same but for the size bytes at an offset.
SameBut(m, r, at, size) ==
    DOMAIN r = DOMAIN m /\ \A a \in DOMAIN m : (a < at \/ at + size <= a) => r[a] = m[a]

\* A bit of a memory is a bit of one of its bytes.
LEMMA BitOfMemory ==
    ASSUME NEW n \in Nat, NEW m \in Memory(n), NEW at \in Nat, NEW i \in Nat, at + i \div 8 < n
    PROVE  /\ GET_1BIT(m, at, i) = BitAt(m[at + i \div 8], i % 8)
           /\ at + i \div 8 \in 0 .. n - 1 /\ i % 8 \in 0 .. 7
           /\ m[at + i \div 8] \in Byte
           /\ GET_1BIT(m, at, i) \in 0 .. 1
<1>1. at + i \div 8 \in 0 .. n - 1 /\ i % 8 \in 0 .. 7
  OBVIOUS
<1>2. m[at + i \div 8] \in Byte
  BY <1>1 DEF Memory
<1>3. m[at + i \div 8] \in Nat
  BY <1>2 DEF Byte
<1>4. GET_1BIT(m, at, i) = BitAt(m[at + i \div 8], i % 8)
  BY DEF GET_1BIT, BitAt
<1> QED
  BY <1>1, <1>2, <1>3, <1>4, BitRange

\* r has the bits of m in n bytes, but for bit i: that is set if v is odd.
BitIsSet(n, m, r, at, i, v) ==
    \A j \in Nat : at + j \div 8 < n =>
        GET_1BIT(r, at, j) = IF j = i /\ v % 2 = 1 THEN 1 ELSE GET_1BIT(m, at, j)

\* SET_1BIT sets the bit where the value is odd, and changes nothing else.
LEMMA SetBit ==
    ASSUME NEW n \in Nat, NEW m \in Memory(n), NEW at \in Nat, NEW i \in Nat, at + i \div 8 < n,
           NEW v \in Nat
    PROVE  /\ SET_1BIT(m, at, i, v) \in Memory(n)
           /\ SameBut(m, SET_1BIT(m, at, i, v), at + i \div 8, 1)
           /\ BitIsSet(n, m, SET_1BIT(m, at, i, v), at, i, v)
<1> DEFINE a == at + i \div 8
           k == i % 8
           r == SET_1BIT(m, at, i, v)
<1>1. /\ GET_1BIT(m, at, i) = BitAt(m[a], k) /\ GET_1BIT(m, at, i) \in 0 .. 1
      /\ a \in 0 .. n - 1 /\ k \in 0 .. 7 /\ m[a] \in Byte
  BY BitOfMemory
<1>2. CASE ~ (v % 2 = 1 /\ GET_1BIT(m, at, i) = 0)
  <2>1. r = m
    BY <1>2 DEF SET_1BIT
  <2>2. \A j \in Nat : j = i /\ v % 2 = 1 => GET_1BIT(m, at, j) = 1
    BY <1>1, <1>2
  <2> QED
    BY <2>1, <2>2 DEF SameBut, BitIsSet
<1>3. CASE v % 2 = 1 /\ GET_1BIT(m, at, i) = 0
  <2>1. r = [m EXCEPT ![a] = @ + 2 ^ k]
    BY <1>3 DEF SET_1BIT
  <2>2. m[a] + 2 ^ k \in Byte /\ \A l \in 0 .. 7 : BitAt(m[a] + 2 ^ k, l) = IF l = k THEN 1 ELSE BitAt(m[a], l)
    BY ZenonT(30), <1>1, <1>3, AddPower
  <2> HIDE DEF a, k, r
  <2>3. /\ r \in Memory(n) /\ r[a] = m[a] + 2 ^ k /\ DOMAIN r = DOMAIN m
        /\ \A b \in DOMAIN m : b # a => r[b] = m[b]
    BY <1>1, <2>1, <2>2 DEF Memory
  <2>4. SameBut(m, r, a, 1)
    BY <2>3, <1>1 DEF SameBut, Memory
  <2>5. ASSUME NEW j \in Nat, at + j \div 8 < n
        PROVE  GET_1BIT(r, at, j) = IF j = i THEN 1 ELSE GET_1BIT(m, at, j)
    <3> DEFINE b == at + j \div 8
               l == j % 8
    <3>1. r \in Memory(n) /\ at + j \div 8 < n
      BY <2>3, <2>5
    <3>2. GET_1BIT(r, at, j) = BitAt(r[b], l)
      BY ZenonT(30), <3>1, BitOfMemory
    <3>3. GET_1BIT(m, at, j) = BitAt(m[b], l) /\ b \in 0 .. n - 1 /\ l \in 0 .. 7
      BY ZenonT(30), <3>1, BitOfMemory
    <3>4. b = a /\ l = k <=> j = i
      BY DEF a, k
    <3>5. DOMAIN m = 0 .. n - 1
      BY DEF Memory
    <3> HIDE DEF b, l
    <3>6. CASE b = a
      BY <3>2, <3>3, <3>4, <3>6, <2>2, <2>3
    <3>7. CASE b # a
      BY <3>2, <3>3, <3>4, <3>5, <3>7, <2>3
    <3> QED
      BY <3>6, <3>7
  <2> QED
    BY <2>3, <2>4, <2>5, <1>3 DEF a, r, BitIsSet
<1> QED
  BY <1>2, <1>3

\* Neighbouring bits of a byte.
Neighbours(x) ==
    /\ x % 8 = BitAt(x, 0) + 2 * BitAt(x, 1) + 4 * BitAt(x, 2)
    /\ (x \div 2) % 8 = BitAt(x, 1) + 2 * BitAt(x, 2) + 4 * BitAt(x, 3)
    /\ (x \div 4) % 8 = BitAt(x, 2) + 2 * BitAt(x, 3) + 4 * BitAt(x, 4)
    /\ (x \div 8) % 8 = BitAt(x, 3) + 2 * BitAt(x, 4) + 4 * BitAt(x, 5)
    /\ (x \div 16) % 8 = BitAt(x, 4) + 2 * BitAt(x, 5) + 4 * BitAt(x, 6)
    /\ (x \div 32) % 8 = BitAt(x, 5) + 2 * BitAt(x, 6) + 4 * BitAt(x, 7)
    /\ (x \div 64) % 4 = BitAt(x, 6) + 2 * BitAt(x, 7) /\ (x \div 128) % 2 = BitAt(x, 7)
    /\ x % 2 = BitAt(x, 0) /\ x % 4 = BitAt(x, 0) + 2 * BitAt(x, 1)
    /\ \A k \in 0 .. 7 : BitAt(x, k) \in 0 .. 1

\* What a mask picks out of a byte is a number made of its neighbouring bits.
LEMMA NeighboursAreBits ==
    ASSUME NEW x \in Nat
    PROVE  Neighbours(x)
<1>1. Halves(x)
  BY BitIs
<1>2. /\ x % 8 = (x % 2) + 2 * ((x \div 2) % 2) + 4 * ((x \div 4) % 2)
      /\ x % 4 = (x % 2) + 2 * ((x \div 2) % 2)
  OBVIOUS
<1>3. (x \div 2) % 8 = ((x \div 2) % 2) + 2 * ((x \div 4) % 2) + 4 * ((x \div 8) % 2)
  OBVIOUS
<1>4. (x \div 4) % 8 = ((x \div 4) % 2) + 2 * ((x \div 8) % 2) + 4 * ((x \div 16) % 2)
  OBVIOUS
<1>5. (x \div 8) % 8 = ((x \div 8) % 2) + 2 * ((x \div 16) % 2) + 4 * ((x \div 32) % 2)
  OBVIOUS
<1>6. (x \div 16) % 8 = ((x \div 16) % 2) + 2 * ((x \div 32) % 2) + 4 * ((x \div 64) % 2)
  OBVIOUS
<1>7. (x \div 32) % 8 = ((x \div 32) % 2) + 2 * ((x \div 64) % 2) + 4 * ((x \div 128) % 2)
  OBVIOUS
<1>8. (x \div 64) % 4 = ((x \div 64) % 2) + 2 * ((x \div 128) % 2)
  OBVIOUS
<1>9. \A k \in 0 .. 7 : BitAt(x, k) \in 0 .. 1
  BY BitRange
<1> QED
  BY <1>1, <1>2, <1>3, <1>4, <1>5, <1>6, <1>7, <1>8, <1>9 DEF Neighbours, Halves

\* An element of three bits, which may lie in two bytes, is those bits.
LEMMA ThreeBits ==
    ASSUME NEW n \in Nat, NEW m \in Memory(n), NEW at \in Nat, NEW i \in Nat,
           at + (3 * i + 2) \div 8 < n
    PROVE  GET_3BITS(m, at, i) =
             GET_1BIT(m, at, 3 * i) + 2 * GET_1BIT(m, at, 3 * i + 1) + 4 * GET_1BIT(m, at, 3 * i + 2)
<1> DEFINE bit == (3 * i) % 8
           byte == at + (3 * i) \div 8
           x == m[byte]
           y == m[byte + 1]
<1>1. /\ GET_1BIT(m, at, 3 * i) = BitAt(m[at + (3 * i) \div 8], (3 * i) % 8)
      /\ GET_1BIT(m, at, 3 * i + 1) = BitAt(m[at + (3 * i + 1) \div 8], (3 * i + 1) % 8)
      /\ GET_1BIT(m, at, 3 * i + 2) = BitAt(m[at + (3 * i + 2) \div 8], (3 * i + 2) % 8)
  BY DEF GET_1BIT, BitAt
<1>2. /\ bit \in 0 .. 7 /\ byte \in 0 .. n - 1
      /\ bit <= 5 => /\ (3 * i + 1) \div 8 = (3 * i) \div 8 /\ (3 * i + 2) \div 8 = (3 * i) \div 8
                     /\ (3 * i + 1) % 8 = bit + 1 /\ (3 * i + 2) % 8 = bit + 2
      /\ bit = 6 => /\ (3 * i + 1) \div 8 = (3 * i) \div 8 /\ (3 * i + 2) \div 8 = (3 * i) \div 8 + 1
                    /\ (3 * i + 1) % 8 = 7 /\ (3 * i + 2) % 8 = 0
      /\ bit = 7 => /\ (3 * i + 1) \div 8 = (3 * i) \div 8 + 1 /\ (3 * i + 2) \div 8 = (3 * i) \div 8 + 1
                    /\ (3 * i + 1) % 8 = 0 /\ (3 * i + 2) % 8 = 1
  OBVIOUS
<1>3. x \in Nat /\ x <= 255 /\ Neighbours(x)
  <2>1. x \in Byte
    BY <1>2 DEF Memory
  <2> QED
    BY <2>1, NeighboursAreBits DEF Byte
<1>4. bit >= 6 => y \in Nat /\ y <= 255 /\ Neighbours(y)
  <2>1. bit >= 6 => y \in Byte
    BY <1>2 DEF Memory
  <2> QED
    BY <2>1, NeighboursAreBits DEF Byte
<1>5. GET_3BITS(m, at, i) =
        ((x \div 2 ^ bit) % (IF bit < 6 THEN 8 ELSE 2 ^ (8 - bit)))
          + (IF bit > 5 THEN (y % (2 ^ (bit - 5))) * 2 ^ (8 - bit) ELSE 0)
  BY DEF GET_3BITS
<1>6. bit <= 5 => /\ GET_1BIT(m, at, 3 * i) = BitAt(x, bit)
                  /\ GET_1BIT(m, at, 3 * i + 1) = BitAt(x, bit + 1)
                  /\ GET_1BIT(m, at, 3 * i + 2) = BitAt(x, bit + 2)
  BY <1>1, <1>2
<1>7. /\ bit = 6 => /\ GET_1BIT(m, at, 3 * i) = BitAt(x, 6)
                    /\ GET_1BIT(m, at, 3 * i + 1) = BitAt(x, 7)
                    /\ GET_1BIT(m, at, 3 * i + 2) = BitAt(y, 0)
      /\ bit = 7 => /\ GET_1BIT(m, at, 3 * i) = BitAt(x, 7)
                    /\ GET_1BIT(m, at, 3 * i + 1) = BitAt(y, 0)
                    /\ GET_1BIT(m, at, 3 * i + 2) = BitAt(y, 1)
  BY <1>1, <1>2
<1> HIDE DEF bit, x, y
<1>8. CASE bit = 0
  <2>1. GET_3BITS(m, at, i) = x % 8
    BY <1>3, <1>5, <1>8, Powers
  <2> QED
    BY <2>1, <1>3, <1>6, <1>8 DEF Neighbours
<1>9. CASE bit = 1
  <2>1. GET_3BITS(m, at, i) = (x \div 2) % 8
    BY <1>3, <1>5, <1>9, Powers
  <2> QED
    BY <2>1, <1>3, <1>6, <1>9 DEF Neighbours
<1>10. CASE bit = 2
  <2>1. GET_3BITS(m, at, i) = (x \div 4) % 8
    BY <1>3, <1>5, <1>10, Powers
  <2> QED
    BY <2>1, <1>3, <1>6, <1>10 DEF Neighbours
<1>11. CASE bit = 3
  <2>1. GET_3BITS(m, at, i) = (x \div 8) % 8
    BY <1>3, <1>5, <1>11, Powers
  <2> QED
    BY <2>1, <1>3, <1>6, <1>11 DEF Neighbours
<1>12. CASE bit = 4
  <2>1. GET_3BITS(m, at, i) = (x \div 16) % 8
    BY <1>3, <1>5, <1>12, Powers
  <2> QED
    BY <2>1, <1>3, <1>6, <1>12 DEF Neighbours
<1>13. CASE bit = 5
  <2>1. GET_3BITS(m, at, i) = (x \div 32) % 8
    BY <1>3, <1>5, <1>13, Powers
  <2> QED
    BY <2>1, <1>3, <1>6, <1>13 DEF Neighbours
<1>14. CASE bit = 6
  <2>1. GET_3BITS(m, at, i) = ((x \div 64) % 4) + (y % 2) * 4
    BY <1>3, <1>4, <1>5, <1>14, Powers
  <2> QED
    BY <2>1, <1>3, <1>4, <1>7, <1>14 DEF Neighbours
<1>15. CASE bit = 7
  <2>1. GET_3BITS(m, at, i) = ((x \div 128) % 2) + (y % 4) * 2
    BY <1>3, <1>4, <1>5, <1>15, Powers
  <2>2. /\ (x \div 128) % 2 = BitAt(x, 7) /\ y % 4 = BitAt(y, 0) + 2 * BitAt(y, 1)
        /\ BitAt(x, 7) \in 0 .. 1 /\ BitAt(y, 0) \in 0 .. 1 /\ BitAt(y, 1) \in 0 .. 1
    BY <1>3, <1>4, <1>15 DEF Neighbours
  <2> QED
    BY <2>1, <2>2, <1>7, <1>15
<1> QED
  BY <1>2, <1>8, <1>9, <1>10, <1>11, <1>12, <1>13, <1>14, <1>15, ByteBits

\* r has the elements of m in an array of count elements, but for element i,
\* which has the value v.
OneIsSet(count, m, r, at, i, v) ==
    \A k \in 0 .. count - 1 :
        GET_1BIT(r, at, k) = IF k = i /\ v % 2 = 1 THEN 1 ELSE GET_1BIT(m, at, k)
TwoAreSet(count, m, r, at, i, v) ==
    \A k \in 0 .. count - 1 : GET_2BITS(r, at, k) = IF k = i THEN v ELSE GET_2BITS(m, at, k)
ThreeAreSet(count, m, r, at, i, v) ==
    \A k \in 0 .. count - 1 : GET_3BITS(r, at, k) = IF k = i THEN v ELSE GET_3BITS(m, at, k)

\* SET_1BIT in an array of count bits.
LEMMA SetOne ==
    ASSUME NEW n \in Nat, NEW m \in Memory(n), NEW at \in Nat, NEW count \in Nat,
           at + CeilDiv(count, 8) <= n, NEW i \in 0 .. count - 1, NEW v \in Nat
    PROVE  /\ SET_1BIT(m, at, i, v) \in Memory(n)
           /\ SameBut(m, SET_1BIT(m, at, i, v), at, CeilDiv(count, 8))
           /\ OneIsSet(count, m, SET_1BIT(m, at, i, v), at, i, v)
<1> DEFINE r == SET_1BIT(m, at, i, v)
<1>1. at + i \div 8 < n /\ i \in Nat /\ i \div 8 + 1 <= CeilDiv(count, 8) /\ i \div 8 \in Nat
      /\ CeilDiv(count, 8) \in Nat
  BY DEF CeilDiv
<1>2. r \in Memory(n) /\ SameBut(m, r, at + i \div 8, 1) /\ BitIsSet(n, m, r, at, i, v)
  BY <1>1, SetBit
<1> HIDE DEF r
<1>3. SameBut(m, r, at, CeilDiv(count, 8))
  BY <1>1, <1>2 DEF SameBut, Memory
<1>4. \A k \in 0 .. count - 1 : k \in Nat /\ at + k \div 8 < n
  BY DEF CeilDiv
<1> QED
  BY <1>2, <1>3, <1>4 DEF r, BitIsSet, OneIsSet

\* To change a memory in a region twice changes it in that region only.
LEMMA SameButTwice ==
    ASSUME NEW n \in Nat, NEW m \in Memory(n), NEW r \in Memory(n), NEW q \in Memory(n),
           NEW at \in Nat, NEW size \in Nat, SameBut(m, r, at, size), SameBut(r, q, at, size)
    PROVE  SameBut(m, q, at, size)
  BY DEF SameBut, Memory

\* SET_2BITS in an array of count elements, where the element is zero.
LEMMA SetTwo ==
    ASSUME NEW n \in Nat, NEW m \in Memory(n), NEW at \in Nat, NEW count \in Nat,
           at + CeilDiv(count, 4) <= n, NEW i \in 0 .. count - 1, NEW v \in 0 .. 3,
           GET_2BITS(m, at, i) = 0
    PROVE  /\ SET_2BITS(m, at, i, v) \in Memory(n)
           /\ SameBut(m, SET_2BITS(m, at, i, v), at, CeilDiv(count, 4))
           /\ TwoAreSet(count, m, SET_2BITS(m, at, i, v), at, i, v)
<1> DEFINE r == SET_1BIT(m, at, 2 * i, v)
           q == SET_1BIT(r, at, 2 * i + 1, v \div 2)
           bits == 2 * count
<1>1. /\ CeilDiv(bits, 8) = CeilDiv(count, 4) /\ bits \in Nat /\ 2 * i \in 0 .. bits - 1
      /\ 2 * i + 1 \in 0 .. bits - 1 /\ v \in Nat /\ v \div 2 \in Nat
      /\ v = (v % 2) + 2 * ((v \div 2) % 2) /\ CeilDiv(count, 4) \in Nat
  BY DEF CeilDiv
<1>2. q = SET_2BITS(m, at, i, v)
  BY DEF SET_2BITS
<1> HIDE DEF bits
<1>3. r \in Memory(n) /\ SameBut(m, r, at, CeilDiv(count, 4)) /\ OneIsSet(bits, m, r, at, 2 * i, v)
  BY <1>1, SetOne
<1> HIDE DEF r
<1>4. /\ q \in Memory(n) /\ SameBut(r, q, at, CeilDiv(count, 4))
      /\ OneIsSet(bits, r, q, at, 2 * i + 1, v \div 2)
  BY <1>1, <1>3, SetOne
<1> HIDE DEF q
<1>5. SameBut(m, q, at, CeilDiv(count, 4))
  BY <1>1, <1>3, <1>4, SameButTwice
<1>6. \A k \in 0 .. bits - 1 : GET_1BIT(m, at, k) \in 0 .. 1
  <2>1. ASSUME NEW k \in 0 .. bits - 1 PROVE GET_1BIT(m, at, k) \in 0 .. 1
    <3>1. k \in Nat /\ at + k \div 8 < n
      BY <1>1 DEF CeilDiv, bits
    <3> QED
      BY <3>1, BitOfMemory
  <2> QED
    BY <2>1
<1>7. ASSUME NEW k \in 0 .. count - 1
      PROVE  GET_2BITS(q, at, k) = IF k = i THEN v ELSE GET_2BITS(m, at, k)
  <2>1. /\ 2 * k \in 0 .. bits - 1 /\ 2 * k + 1 \in 0 .. bits - 1
        /\ 2 * k # 2 * i + 1 /\ 2 * k + 1 # 2 * i /\ (2 * k = 2 * i <=> k = i)
        /\ (2 * k + 1 = 2 * i + 1 <=> k = i)
    BY DEF bits
  <2>2. /\ GET_1BIT(q, at, 2 * k) = IF k = i /\ v % 2 = 1 THEN 1 ELSE GET_1BIT(m, at, 2 * k)
        /\ GET_1BIT(q, at, 2 * k + 1) = IF k = i /\ (v \div 2) % 2 = 1 THEN 1 ELSE GET_1BIT(m, at, 2 * k + 1)
    BY <2>1, <1>3, <1>4 DEF OneIsSet
  <2>3. /\ GET_2BITS(q, at, k) = GET_1BIT(q, at, 2 * k) + 2 * GET_1BIT(q, at, 2 * k + 1)
        /\ GET_2BITS(m, at, k) = GET_1BIT(m, at, 2 * k) + 2 * GET_1BIT(m, at, 2 * k + 1)
        /\ GET_1BIT(m, at, 2 * k) \in 0 .. 1 /\ GET_1BIT(m, at, 2 * k + 1) \in 0 .. 1
    BY <2>1, <1>6 DEF GET_2BITS
  <2>4. v % 2 \in 0 .. 1 /\ (v \div 2) % 2 \in 0 .. 1
    OBVIOUS
  <2> QED
    BY <2>2, <2>3, <2>4, <1>1
<1> QED
  BY <1>2, <1>4, <1>5, <1>7 DEF TwoAreSet

\* SET_3BITS in an array of count elements, where the element is zero.
LEMMA SetThree ==
    ASSUME NEW n \in Nat, NEW m \in Memory(n), NEW at \in Nat, NEW count \in Nat,
           at + CeilDiv(3 * count, 8) <= n, NEW i \in 0 .. count - 1, NEW v \in 0 .. 7,
           GET_3BITS(m, at, i) = 0
    PROVE  /\ SET_3BITS(m, at, i, v) \in Memory(n)
           /\ SameBut(m, SET_3BITS(m, at, i, v), at, CeilDiv(3 * count, 8))
           /\ ThreeAreSet(count, m, SET_3BITS(m, at, i, v), at, i, v)
<1> DEFINE p == SET_1BIT(m, at, 3 * i, v)
           r == SET_1BIT(p, at, 3 * i + 1, v \div 2)
           q == SET_1BIT(r, at, 3 * i + 2, v \div 4)
           bits == 3 * count
           size == CeilDiv(bits, 8)
<1>1. /\ bits \in Nat /\ 3 * i \in 0 .. bits - 1
      /\ 3 * i + 1 \in 0 .. bits - 1 /\ 3 * i + 2 \in 0 .. bits - 1
      /\ v \in Nat /\ v \div 2 \in Nat /\ v \div 4 \in Nat
      /\ v = (v % 2) + 2 * ((v \div 2) % 2) + 4 * ((v \div 4) % 2)
      /\ size \in Nat /\ at + size <= n
  BY DEF CeilDiv
<1>2. q = SET_3BITS(m, at, i, v)
  <2>1. v \div 2 ^ 0 = v /\ v \div 2 ^ 1 = v \div 2 /\ v \div 2 ^ 2 = v \div 4 /\ 3 * i + 0 = 3 * i
    BY Powers
  <2> QED
    BY <2>1 DEF SET_3BITS
<1>b. \A k \in 0 .. bits - 1 : k \in Nat /\ at + k \div 8 < n
  BY DEF CeilDiv
<1>c. \A k \in 0 .. count - 1 :
         /\ 3 * k \in 0 .. bits - 1 /\ 3 * k + 1 \in 0 .. bits - 1 /\ 3 * k + 2 \in 0 .. bits - 1
         /\ at + (3 * k + 2) \div 8 < n
  BY DEF CeilDiv
<1> HIDE DEF bits
<1>3. p \in Memory(n) /\ SameBut(m, p, at, size) /\ OneIsSet(bits, m, p, at, 3 * i, v)
  BY <1>1, SetOne
<1> HIDE DEF p
<1>4. r \in Memory(n) /\ SameBut(p, r, at, size) /\ OneIsSet(bits, p, r, at, 3 * i + 1, v \div 2)
  BY <1>1, <1>3, SetOne
<1> HIDE DEF r
<1>5. q \in Memory(n) /\ SameBut(r, q, at, size) /\ OneIsSet(bits, r, q, at, 3 * i + 2, v \div 4)
  BY <1>1, <1>4, SetOne
<1> HIDE DEF q, size
<1>6. SameBut(m, q, at, size)
  <2>1. SameBut(m, r, at, size)
    BY <1>1, <1>3, <1>4, SameButTwice
  <2> QED
    BY <1>1, <1>4, <1>5, <2>1, SameButTwice
<1>7. \A k \in 0 .. bits - 1 : GET_1BIT(m, at, k) \in 0 .. 1
  BY <1>b, BitOfMemory
<1>8. \A k \in 0 .. count - 1 :
         /\ GET_3BITS(m, at, k) =
              GET_1BIT(m, at, 3 * k) + 2 * GET_1BIT(m, at, 3 * k + 1) + 4 * GET_1BIT(m, at, 3 * k + 2)
         /\ GET_3BITS(q, at, k) =
              GET_1BIT(q, at, 3 * k) + 2 * GET_1BIT(q, at, 3 * k + 1) + 4 * GET_1BIT(q, at, 3 * k + 2)
  BY <1>c, <1>5, ThreeBits
<1>9. ASSUME NEW k \in 0 .. count - 1
      PROVE  GET_3BITS(q, at, k) = IF k = i THEN v ELSE GET_3BITS(m, at, k)
  <2>1. /\ 3 * k # 3 * i + 1 /\ 3 * k # 3 * i + 2 /\ 3 * k + 1 # 3 * i /\ 3 * k + 1 # 3 * i + 2
        /\ 3 * k + 2 # 3 * i /\ 3 * k + 2 # 3 * i + 1
        /\ (3 * k = 3 * i <=> k = i) /\ (3 * k + 1 = 3 * i + 1 <=> k = i)
        /\ (3 * k + 2 = 3 * i + 2 <=> k = i)
    OBVIOUS
  <2>2. /\ 3 * k \in 0 .. bits - 1 /\ 3 * k + 1 \in 0 .. bits - 1 /\ 3 * k + 2 \in 0 .. bits - 1
    BY <1>c
  <2>3. GET_1BIT(q, at, 3 * k) = IF k = i /\ v % 2 = 1 THEN 1 ELSE GET_1BIT(m, at, 3 * k)
    BY <2>1, <2>2, <1>3, <1>4, <1>5 DEF OneIsSet
  <2>4. GET_1BIT(q, at, 3 * k + 1) = IF k = i /\ (v \div 2) % 2 = 1 THEN 1 ELSE GET_1BIT(m, at, 3 * k + 1)
    BY <2>1, <2>2, <1>3, <1>4, <1>5 DEF OneIsSet
  <2>5. GET_1BIT(q, at, 3 * k + 2) = IF k = i /\ (v \div 4) % 2 = 1 THEN 1 ELSE GET_1BIT(m, at, 3 * k + 2)
    BY <2>1, <2>2, <1>3, <1>4, <1>5 DEF OneIsSet
  <2>6. /\ GET_1BIT(m, at, 3 * k) \in 0 .. 1 /\ GET_1BIT(m, at, 3 * k + 1) \in 0 .. 1
        /\ GET_1BIT(m, at, 3 * k + 2) \in 0 .. 1
    BY <2>2, <1>7
  <2>7. v % 2 \in 0 .. 1 /\ (v \div 2) % 2 \in 0 .. 1 /\ (v \div 4) % 2 \in 0 .. 1
    OBVIOUS
  <2>8. CASE k # i
    BY <2>3, <2>4, <2>5, <2>8, <1>8
  <2>9. CASE k = i
    <3>1. /\ GET_1BIT(m, at, 3 * k) = 0 /\ GET_1BIT(m, at, 3 * k + 1) = 0 /\ GET_1BIT(m, at, 3 * k + 2) = 0
      BY <2>6, <2>9, <1>8
    <3>2. /\ GET_1BIT(q, at, 3 * k) = v % 2 /\ GET_1BIT(q, at, 3 * k + 1) = (v \div 2) % 2
          /\ GET_1BIT(q, at, 3 * k + 2) = (v \div 4) % 2
      BY <2>3, <2>4, <2>5, <2>7, <2>9, <3>1
    <3> QED
      BY <3>2, <2>9, <1>1, <1>8
  <2> QED
    BY <2>8, <2>9
<1> QED
  BY <1>2, <1>5, <1>6, <1>9 DEF ThreeAreSet, size, bits

\* In a region of zeros all bits are zero.
LEMMA ZeroBits ==
    ASSUME NEW n \in Nat, NEW m \in Memory(n), NEW at \in Nat, NEW size \in Nat, at + size <= n,
           \A a \in at .. at + size - 1 : m[a] = 0
    PROVE  /\ \A k \in 0 .. 8 * size - 1 : GET_1BIT(m, at, k) = 0
           /\ \A k \in Nat : 2 * k + 1 < 8 * size => GET_2BITS(m, at, k) = 0
           /\ \A k \in Nat : 3 * k + 2 < 8 * size => GET_3BITS(m, at, k) = 0
<1>1. ASSUME NEW k \in 0 .. 8 * size - 1 PROVE GET_1BIT(m, at, k) = 0
  <2>1. k \in Nat /\ at + k \div 8 \in at .. at + size - 1 /\ at + k \div 8 < n /\ k % 8 \in 0 .. 7
    OBVIOUS
  <2>5. GET_1BIT(m, at, k) = BitAt(m[at + k \div 8], k % 8)
    BY <2>1, BitOfMemory
  <2>2. GET_1BIT(m, at, k) = BitAt(0, k % 8)
    BY <2>1, <2>5
  <2>3. Halves(0)
    BY BitIs
  <2>4. \A l \in 0 .. 7 : BitAt(0, l) = 0
    BY <2>3, ByteBits DEF Halves
  <2> QED
    BY <2>1, <2>2, <2>4
<1>2. ASSUME NEW k \in Nat, 2 * k + 1 < 8 * size PROVE GET_2BITS(m, at, k) = 0
  <2>1. 2 * k \in 0 .. 8 * size - 1 /\ 2 * k + 1 \in 0 .. 8 * size - 1
    BY <1>2
  <2> QED
    BY <2>1, <1>1 DEF GET_2BITS
<1>3. ASSUME NEW k \in Nat, 3 * k + 2 < 8 * size PROVE GET_3BITS(m, at, k) = 0
  <2>1. /\ 3 * k \in 0 .. 8 * size - 1 /\ 3 * k + 1 \in 0 .. 8 * size - 1 /\ 3 * k + 2 \in 0 .. 8 * size - 1
        /\ at + (3 * k + 2) \div 8 < n
    BY <1>3
  <2>2. GET_3BITS(m, at, k) =
          GET_1BIT(m, at, 3 * k) + 2 * GET_1BIT(m, at, 3 * k + 1) + 4 * GET_1BIT(m, at, 3 * k + 2)
    BY <2>1, ThreeBits
  <2> QED
    BY <2>1, <2>2, <1>1
<1> QED
  BY <1>1, <1>2, <1>3

-----------------------------------------------------------------------------
(* Bytes and pointers in memories.                                         *)

\* The two bytes of a number of sixteen bits.
LEMMA TwoBytes ==
    ASSUME NEW v \in Nat, v <= 65535
    PROVE  Lo(v) \in Byte /\ Hi(v) \in Byte /\ Hi(v) * 256 + Lo(v) = v
<1>1. v \div 256 \in 0 .. 255 /\ v % 256 \in 0 .. 255 /\ v = 256 * (v \div 256) + (v % 256)
  OBVIOUS
<1>2. (v \div 256) % 256 = v \div 256
  BY <1>1
<1> QED
  BY <1>1, <1>2 DEF Lo, Hi, Byte

\* A pointer that was stored is read back, and nothing else has changed.
LEMMA PtrIsSet ==
    ASSUME NEW n \in Nat, NEW m \in Memory(n), NEW at \in Nat, at + 1 < n, NEW v \in Nat, v <= 65535
    PROVE  /\ SetPtr(m, at, v) \in Memory(n)
           /\ SameBut(m, SetPtr(m, at, v), at, 2)
           /\ Fetch(SetPtr(m, at, v), at) = v
<1> DEFINE r == SetPtr(m, at, v)
<1>1. Lo(v) \in Byte /\ Hi(v) \in Byte /\ Hi(v) * 256 + Lo(v) = v
  BY TwoBytes
<1>2. r = [m EXCEPT ![at] = Lo(v), ![at + 1] = Hi(v)]
  BY DEF SetPtr
<1>3. DOMAIN m = 0 .. n - 1 /\ at \in 0 .. n - 1 /\ at + 1 \in 0 .. n - 1 /\ at # at + 1
  BY DEF Memory
<1> HIDE DEF r
<1>4. /\ r \in Memory(n) /\ r[at] = Lo(v) /\ r[at + 1] = Hi(v) /\ DOMAIN r = 0 .. n - 1
      /\ \A a \in 0 .. n - 1 : a # at /\ a # at + 1 => r[a] = m[a]
  BY <1>1, <1>2, <1>3 DEF Memory
<1>5. \A a \in 0 .. n - 1 : (a < at \/ at + 2 <= a) => a # at /\ a # at + 1
  OBVIOUS
<1>6. SameBut(m, r, at, 2)
  BY <1>3, <1>4, <1>5 DEF SameBut
<1>7. Fetch(r, at) = v
  BY <1>1, <1>4 DEF Fetch
<1> QED
  BY <1>4, <1>6, <1>7 DEF r

\* Fill writes its region and nothing else.
LEMMA RegionIsFilled ==
    ASSUME NEW n \in Nat, NEW m \in Memory(n), NEW at \in Nat, NEW size \in Nat, NEW b \in Byte
    PROVE  /\ Fill(m, at, size, b) \in Memory(n)
           /\ SameBut(m, Fill(m, at, size, b), at, size)
           /\ \A a \in 0 .. n - 1 : at <= a /\ a < at + size => Fill(m, at, size, b)[a] = b
<1> DEFINE r == Fill(m, at, size, b)
<1>1. DOMAIN m = 0 .. n - 1 /\ \A a \in 0 .. n - 1 : m[a] \in Byte
  BY DEF Memory
<1>2. r = [a \in 0 .. n - 1 |-> IF a - at \in 0 .. size - 1 THEN b ELSE m[a]]
  BY <1>1 DEF Fill
<1>3. r \in Memory(n)
  BY <1>1, <1>2 DEF Memory
<1>4. \A a \in 0 .. n - 1 : r[a] = IF at <= a /\ a < at + size THEN b ELSE m[a]
  BY <1>2
<1> HIDE DEF r
<1>5. SameBut(m, r, at, size)
  BY <1>1, <1>3, <1>4 DEF SameBut, Memory
<1> QED
  BY <1>3, <1>4, <1>5 DEF r

\* A memory begins with the bytes stored at its beginning.
LEMMA HeaderIsStored ==
    ASSUME NEW n \in Nat, NEW g \in Byte, NEW bytes \in Seq(Byte), Len(bytes) <= n
    PROVE  /\ Store(malloc(n, g), 0, bytes) \in Memory(n)
           /\ \A a \in 0 .. Len(bytes) - 1 : Store(malloc(n, g), 0, bytes)[a] = bytes[a + 1]
<1>1. malloc(n, g) \in [0 .. n - 1 -> Byte] /\ \A a \in 0 .. n - 1 : malloc(n, g)[a] = g
  BY DEF malloc
<1>2. Len(bytes) \in Nat /\ \A k \in 1 .. Len(bytes) : bytes[k] \in Byte
  OBVIOUS
<1>3. Store(malloc(n, g), 0, bytes) =
        [a \in 0 .. n - 1 |-> IF a - 0 \in 0 .. Len(bytes) - 1 THEN bytes[a - 0 + 1] ELSE malloc(n, g)[a]]
  BY <1>1 DEF Store
<1>4. \A a \in 0 .. n - 1 : a - 0 = a
  OBVIOUS
<1>5. \A a \in 0 .. n - 1 : a \in 0 .. Len(bytes) - 1 => a + 1 \in 1 .. Len(bytes)
  BY <1>2
<1>6. Store(malloc(n, g), 0, bytes) \in [0 .. n - 1 -> Byte]
  BY <1>1, <1>2, <1>3, <1>4, <1>5
<1>7. \A a \in 0 .. Len(bytes) - 1 : a \in 0 .. n - 1
  BY <1>2
<1> QED
  BY <1>2, <1>3, <1>4, <1>6, <1>7 DEF Memory

\* The first byte of a state: its type and the low six bits of a size.
LEMMA HeaderByte ==
    ASSUME NEW type \in 0 .. 3, NEW size \in Nat
    PROVE  /\ Header(type, size) \in Byte
           /\ Header(type, size) % 4 = type
           /\ Header(type, size) \div 4 = size % 64
<1>1. size % 64 \in 0 .. 63
  OBVIOUS
<1> DEFINE x == size % 64
<1> HIDE DEF x
<1>2. x \in 0 .. 63
  BY <1>1 DEF x
<1>3. Header(type, size) = type + 4 * x
  BY DEF Header, x
<1>4. (type + 4 * x) % 4 = type /\ (type + 4 * x) \div 4 = x /\ type + 4 * x \in 0 .. 255
  BY <1>2
<1> QED
  BY <1>3, <1>4 DEF Byte, x

\* What is not in the region that changed is fetched as before.
LEMMA FetchOutside ==
    ASSUME NEW n \in Nat, NEW m \in Memory(n), NEW r \in Memory(n),
           NEW at \in Nat, NEW size \in Nat, SameBut(m, r, at, size),
           NEW a \in Nat, a + 1 < n, a + 1 < at \/ at + size <= a
    PROVE  Fetch(r, a) = Fetch(m, a)
<1>1. a \in 0 .. n - 1 /\ a + 1 \in 0 .. n - 1
  OBVIOUS
<1> QED
  BY <1>1 DEF SameBut, Memory, Fetch

-----------------------------------------------------------------------------
(* The pointers of type REGULAR, one behind the other.                     *)

\* How many of the first k elements have a pointer of this type.
RegularIn(es, k) == Cardinality({j \in 1 .. k : es[j].type = REGULAR})
PtrAt(ptrs, es, k) == ptrs + PTR_SIZE * RegularIn(es, k - 1)

\* There are at most as many as elements.
LEMMA RegularRange ==
    ASSUME NEW es, NEW k \in Nat
    PROVE  /\ IsFiniteSet({j \in 1 .. k : es[j].type = REGULAR})
           /\ RegularIn(es, k) \in Nat /\ RegularIn(es, k) <= k
<1> DEFINE S == {j \in 1 .. k : es[j].type = REGULAR}
<1>1. IsFiniteSet(1 .. k) /\ Cardinality(1 .. k) = k
  BY FS_Interval
<1>2. S \in SUBSET (1 .. k)
  OBVIOUS
<1>3. IsFiniteSet(S) /\ Cardinality(S) <= k
  BY <1>1, <1>2, FS_Subset
<1> QED
  BY <1>3, FS_CardinalityType DEF RegularIn

\* Every element of this type counts one.
LEMMA RegularNext ==
    ASSUME NEW es, NEW k \in Nat
    PROVE  RegularIn(es, k + 1) = RegularIn(es, k) + IF es[k + 1].type = REGULAR THEN 1 ELSE 0
<1> DEFINE S(i) == {j \in 1 .. i : es[j].type = REGULAR}
<1>1. IsFiniteSet(S(k)) /\ Cardinality(S(k)) \in Nat
  BY RegularRange DEF RegularIn
<1>2. RegularIn(es, k + 1) = Cardinality(S(k + 1)) /\ RegularIn(es, k) = Cardinality(S(k))
  BY DEF RegularIn
<1>3. CASE es[k + 1].type = REGULAR
  <2>1. S(k + 1) = S(k) \cup {k + 1} /\ k + 1 \notin S(k)
    BY <1>3
  <2> HIDE DEF S
  <2> QED
    BY <1>1, <1>2, <1>3, <2>1, FS_AddElement
<1>4. CASE es[k + 1].type # REGULAR
  <2>1. S(k + 1) = S(k)
    BY <1>4
  <2> HIDE DEF S
  <2> QED
    BY <1>1, <1>2, <1>4, <2>1
<1> QED
  BY <1>3, <1>4

\* The pointers of type REGULAR in front of an element, and with it.
LEMMA RegularBefore ==
    ASSUME NEW es, NEW k \in Nat, k # 0
    PROVE  /\ RegularIn(es, k - 1) \in Nat /\ RegularIn(es, k - 1) <= k - 1
           /\ RegularIn(es, k) = RegularIn(es, k - 1) + IF es[k].type = REGULAR THEN 1 ELSE 0
<1>1. PICK p \in Nat : p + 1 = k
  <2>1. k - 1 \in Nat /\ (k - 1) + 1 = k
    OBVIOUS
  <2> QED
    BY <2>1
<1>2. p = k - 1
  BY <1>1
<1>3. RegularIn(es, p) \in Nat /\ RegularIn(es, p) <= p
  BY RegularRange
<1>4. RegularIn(es, p + 1) = RegularIn(es, p) + IF es[p + 1].type = REGULAR THEN 1 ELSE 0
  BY RegularNext
<1> QED
  BY <1>1, <1>2, <1>3, <1>4

\* More elements have no fewer.
LEMMA RegularGrows ==
    ASSUME NEW es, NEW k \in Nat, NEW l \in Nat, k <= l
    PROVE  RegularIn(es, k) <= RegularIn(es, l)
<1> DEFINE S(i) == {j \in 1 .. i : es[j].type = REGULAR}
<1>1. S(k) \in SUBSET S(l)
  OBVIOUS
<1>2. IsFiniteSet(S(l))
  BY RegularRange
<1>3. RegularIn(es, k) = Cardinality(S(k)) /\ RegularIn(es, l) = Cardinality(S(l))
  BY DEF RegularIn
<1> HIDE DEF S
<1> QED
  BY <1>1, <1>2, <1>3, FS_Subset

\* Where the pointer of an element is: behind those of the elements in front of
\* it, and inside the memory that all the pointers take.
PtrPlace(n, ptrs, es, i) ==
    /\ PtrAt(ptrs, es, i) \in Nat /\ ptrs <= PtrAt(ptrs, es, i) /\ PtrAt(ptrs, es, i) + 1 < n
    /\ \A k \in 1 .. i - 1 : es[k].type = REGULAR =>
          PtrAt(ptrs, es, k) \in Nat /\ PtrAt(ptrs, es, k) + 1 < PtrAt(ptrs, es, i)

\* The pointer of a regular element lies before the place of the next.
LEMMA PtrsHavePlaces ==
    ASSUME NEW es, NEW l \in Nat, NEW ptrs \in Nat, NEW n \in Nat,
           ptrs + 2 * RegularIn(es, l) <= n, NEW i \in 1 .. l, es[i].type = REGULAR
    PROVE  PtrPlace(n, ptrs, es, i)
<1>1. i \in Nat /\ i # 0 /\ i <= l /\ i - 1 \in Nat
  OBVIOUS
<1>2. /\ RegularIn(es, i - 1) \in Nat /\ RegularIn(es, i) = RegularIn(es, i - 1) + 1
  BY <1>1, RegularBefore
<1>3. RegularIn(es, i) <= RegularIn(es, l)
  BY <1>1, RegularGrows
<1>4. RegularIn(es, l) \in Nat
  BY RegularRange
<1>5. \A k : PtrAt(ptrs, es, k) = ptrs + 2 * RegularIn(es, k - 1)
  BY DEF PtrAt, PTR_SIZE
<1>6. ASSUME NEW k \in 1 .. i - 1, es[k].type = REGULAR
      PROVE  PtrAt(ptrs, es, k) \in Nat /\ PtrAt(ptrs, es, k) + 1 < PtrAt(ptrs, es, i)
  <2>1. k \in Nat /\ k # 0 /\ k <= i - 1
    OBVIOUS
  <2>2. RegularIn(es, k - 1) \in Nat /\ RegularIn(es, k) = RegularIn(es, k - 1) + 1
    BY <1>6, <2>1, RegularBefore
  <2>3. RegularIn(es, k) <= RegularIn(es, i - 1)
    BY <1>1, <2>1, RegularGrows
  <2> QED
    BY <1>2, <1>5, <2>2, <2>3
<1>7. /\ PtrAt(ptrs, es, i) \in Nat /\ ptrs <= PtrAt(ptrs, es, i) /\ PtrAt(ptrs, es, i) + 1 < n
  BY <1>2, <1>3, <1>4, <1>5
<1> QED
  BY <1>6, <1>7 DEF PtrPlace

\* The pointers of the first i elements are stored in m.
PtrsAre(m, ptrs, es, i) ==
    \A k \in 1 .. i : es[k].type = REGULAR => Fetch(m, PtrAt(ptrs, es, k)) = es[k].ptr

\* StorePtr adds the next pointer and leaves alone what is in front of the
\* pointers and the pointers stored before.
LEMMA PtrIsAdded ==
    ASSUME NEW n \in Nat, NEW m \in Memory(n), NEW es, NEW i \in Nat, i # 0, NEW ptrs \in Nat,
           es[i].type = REGULAR => PtrPlace(n, ptrs, es, i) /\ es[i].ptr \in Nat /\ es[i].ptr <= 65535,
           PtrsAre(m, ptrs, es, i - 1)
    PROVE  /\ StorePtr(m, ptrs, es, i) \in Memory(n)
           /\ \A a \in 0 .. n - 1 : a < ptrs => StorePtr(m, ptrs, es, i)[a] = m[a]
           /\ PtrsAre(StorePtr(m, ptrs, es, i), ptrs, es, i)
<1>1. CASE es[i].type # REGULAR
  <2>1. StorePtr(m, ptrs, es, i) = m
    BY <1>1 DEF StorePtr
  <2>2. \A k \in 1 .. i : k = i \/ k \in 1 .. i - 1
    OBVIOUS
  <2>3. PtrsAre(m, ptrs, es, i)
    BY <1>1, <2>2 DEF PtrsAre
  <2> QED
    BY <2>1, <2>3
<1>2. CASE es[i].type = REGULAR
  <2> DEFINE r == StorePtr(m, ptrs, es, i)
             at == PtrAt(ptrs, es, i)
             v == es[i].ptr
  <2>1. r = SetPtr(m, at, v)
    BY <1>2 DEF StorePtr, PtrAt, RegularIn
  <2>2. PtrPlace(n, ptrs, es, i) /\ v \in Nat /\ v <= 65535
    BY <1>2
  <2>3. /\ at \in Nat /\ ptrs <= at /\ at + 1 < n
        /\ \A k \in 1 .. i - 1 : es[k].type = REGULAR =>
              PtrAt(ptrs, es, k) \in Nat /\ PtrAt(ptrs, es, k) + 1 < at
    BY <2>2 DEF PtrPlace
  <2> HIDE DEF r, at, v
  <2>6. r \in Memory(n) /\ SameBut(m, r, at, 2) /\ Fetch(r, at) = v
    BY <2>1, <2>2, <2>3, PtrIsSet
  <2>7. \A a \in 0 .. n - 1 : a < ptrs => r[a] = m[a]
    BY <2>3, <2>6 DEF SameBut, Memory
  <2>8. ASSUME NEW k \in 1 .. i, es[k].type = REGULAR
        PROVE  Fetch(r, PtrAt(ptrs, es, k)) = es[k].ptr
    <3>1. CASE k = i
      BY <2>6, <3>1 DEF at, v
    <3>2. CASE k # i
      <4>1. k \in 1 .. i - 1
        BY <3>2
      <4> DEFINE b == PtrAt(ptrs, es, k)
      <4>2. b \in Nat /\ b + 1 < at
        BY <2>3, <2>8, <4>1
      <4>3. Fetch(m, b) = es[k].ptr
        BY <2>8, <4>1 DEF PtrsAre
      <4> HIDE DEF b
      <4>4. b + 1 < n
        BY <2>3, <4>2
      <4>5. Fetch(r, b) = Fetch(m, b)
        BY <2>3, <2>6, <4>2, <4>4, FetchOutside
      <4> QED
        BY <4>3, <4>5 DEF b
    <3> QED
      BY <3>1, <3>2
  <2>9. PtrsAre(r, ptrs, es, i)
    BY <2>8 DEF PtrsAre
  <2> QED
    BY <2>6, <2>7, <2>9 DEF r
<1> QED
  BY <1>1, <1>2

-----------------------------------------------------------------------------
(* Regions that stay as they are.                                          *)

\* m and r hold the same bytes from one offset up to another.
Agree(m, r, from, to) == \A a \in from .. to - 1 : r[a] = m[a]

\* What lies beside a region that changed stays as it is.
LEMMA BesideAgrees ==
    ASSUME NEW n \in Nat, NEW m \in Memory(n), NEW r \in Memory(n), NEW at \in Nat, NEW size \in Nat,
           SameBut(m, r, at, size), NEW from \in Nat, NEW to \in Nat, to <= n,
           to <= at \/ at + size <= from
    PROVE  Agree(m, r, from, to)
  BY DEF SameBut, Agree, Memory

\* One byte is written.
LEMMA ByteIsSet ==
    ASSUME NEW n \in Nat, NEW m \in Memory(n), NEW at \in Nat, NEW b \in Byte
    PROVE  /\ [m EXCEPT ![at] = b] \in Memory(n)
           /\ SameBut(m, [m EXCEPT ![at] = b], at, 1)
           /\ at < n => [m EXCEPT ![at] = b][at] = b
<1> DEFINE r == [m EXCEPT ![at] = b]
<1>0. DOMAIN m = 0 .. n - 1 /\ \A a \in 0 .. n - 1 : m[a] \in Byte
  BY DEF Memory
<1>1. /\ r \in Memory(n) /\ (at < n => r[at] = b)
      /\ \A a \in 0 .. n - 1 : a # at => r[a] = m[a]
  <2>1. r = [a \in 0 .. n - 1 |-> IF a = at THEN b ELSE m[a]]
    BY <1>0
  <2>2. \A a \in 0 .. n - 1 : r[a] = IF a = at THEN b ELSE m[a]
    BY <2>1
  <2>3. r \in Memory(n)
    BY <1>0, <2>1 DEF Memory
  <2>4. at < n => at \in 0 .. n - 1
    OBVIOUS
  <2> HIDE DEF r
  <2> QED
    BY <2>2, <2>3, <2>4
<1> HIDE DEF r
<1>2. \A a \in 0 .. n - 1 : (a < at \/ at + 1 <= a) => a # at
  OBVIOUS
<1>3. SameBut(m, r, at, 1)
  BY <1>1, <1>2 DEF SameBut, Memory
<1> QED
  BY <1>1, <1>3 DEF r

\* Agreement is transitive, and holds of parts.
LEMMA AgreeTwice ==
    ASSUME NEW m, NEW r, NEW q, NEW from \in Nat, NEW to \in Nat,
           Agree(m, r, from, to), Agree(r, q, from, to)
    PROVE  Agree(m, q, from, to)
  BY DEF Agree

\* Where memories agree they agree on every part.
LEMMA PartAgrees ==
    ASSUME NEW m, NEW r, NEW from \in Nat, NEW to \in Nat, Agree(m, r, from, to),
           NEW a \in Nat, NEW b \in Nat, from <= a, b <= to
    PROVE  Agree(m, r, a, b)
  BY DEF Agree

\* In a region that stays as it is, all bits do.
LEMMA BitsAgree ==
    ASSUME NEW n \in Nat, NEW m \in Memory(n), NEW r \in Memory(n), NEW at \in Nat, NEW to \in Nat,
           to <= n, Agree(m, r, at, to)
    PROVE  /\ \A k \in Nat : at + k \div 8 < to => GET_1BIT(r, at, k) = GET_1BIT(m, at, k)
           /\ \A k \in Nat : at + (2 * k + 1) \div 8 < to => GET_2BITS(r, at, k) = GET_2BITS(m, at, k)
           /\ \A k \in Nat : at + (3 * k + 2) \div 8 < to => GET_3BITS(r, at, k) = GET_3BITS(m, at, k)
<1>1. ASSUME NEW k \in Nat, at + k \div 8 < to
      PROVE  GET_1BIT(r, at, k) = GET_1BIT(m, at, k)
  <2>1. at + k \div 8 \in at .. to - 1
    BY <1>1
  <2> QED
    BY <2>1 DEF Agree, GET_1BIT
<1>2. ASSUME NEW k \in Nat, at + (2 * k + 1) \div 8 < to
      PROVE  GET_2BITS(r, at, k) = GET_2BITS(m, at, k)
  <2>1. 2 * k \in Nat /\ 2 * k + 1 \in Nat /\ at + (2 * k) \div 8 < to
    BY <1>2
  <2> QED
    BY <1>1, <1>2, <2>1 DEF GET_2BITS
<1>3. ASSUME NEW k \in Nat, at + (3 * k + 2) \div 8 < to
      PROVE  GET_3BITS(r, at, k) = GET_3BITS(m, at, k)
  <2>1. /\ 3 * k \in Nat /\ 3 * k + 1 \in Nat /\ 3 * k + 2 \in Nat
        /\ at + (3 * k) \div 8 < to /\ at + (3 * k + 1) \div 8 < to /\ at + (3 * k + 2) \div 8 < n
    BY <1>3
  <2>2. GET_3BITS(m, at, k) =
          GET_1BIT(m, at, 3 * k) + 2 * GET_1BIT(m, at, 3 * k + 1) + 4 * GET_1BIT(m, at, 3 * k + 2)
    BY <2>1, ThreeBits
  <2>3. GET_3BITS(r, at, k) =
          GET_1BIT(r, at, 3 * k) + 2 * GET_1BIT(r, at, 3 * k + 1) + 4 * GET_1BIT(r, at, 3 * k + 2)
    BY <2>1, ThreeBits
  <2>4. /\ GET_1BIT(r, at, 3 * k) = GET_1BIT(m, at, 3 * k)
        /\ GET_1BIT(r, at, 3 * k + 1) = GET_1BIT(m, at, 3 * k + 1)
        /\ GET_1BIT(r, at, 3 * k + 2) = GET_1BIT(m, at, 3 * k + 2)
    BY <1>1, <1>3, <2>1
  <2> QED
    BY <2>2, <2>3, <2>4
<1> QED
  BY <1>1, <1>2, <1>3

\* Where the pointers lie nothing changes: they are stored still.
LEMMA PtrsStay ==
    ASSUME NEW n \in Nat, NEW m \in Memory(n), NEW r \in Memory(n), NEW es, NEW l \in Nat,
           NEW ptrs \in Nat, ptrs + 2 * RegularIn(es, l) <= n, Agree(m, r, ptrs, n),
           NEW i \in Nat, i <= l, PtrsAre(m, ptrs, es, i)
    PROVE  PtrsAre(r, ptrs, es, i)
<1> SUFFICES ASSUME NEW k \in 1 .. i, es[k].type = REGULAR
             PROVE  Fetch(r, PtrAt(ptrs, es, k)) = Fetch(m, PtrAt(ptrs, es, k))
  BY DEF PtrsAre
<1> DEFINE b == PtrAt(ptrs, es, k)
<1>1. k \in 1 .. l
  OBVIOUS
<1>2. b \in Nat /\ ptrs <= b /\ b + 1 < n
  BY <1>1, PtrsHavePlaces DEF PtrPlace
<1> HIDE DEF b
<1>3. r[b] = m[b] /\ r[b + 1] = m[b + 1]
  BY <1>2 DEF Agree
<1> QED
  BY <1>3 DEF Fetch, b

-----------------------------------------------------------------------------
(* The flags and the pointers of linear and bitmap encoded states.         *)

\* Of the flags of l elements the first i are stored, the others are zero.
FlagsAre(m, flags, es, l, i) ==
    \A k \in 0 .. l - 1 : GET_3BITS(m, flags, k) = IF k < i THEN Flag(es[k + 1]) ELSE 0

\* The elements as the layouts need them.
Fits(e) == Flag(e) \in 0 .. 7 /\ e.ptr \in Nat /\ e.ptr <= 65535

\* A round stores the next flag and the next pointer.
LEMMA FlagAndPtrAreSet ==
    ASSUME NEW n \in Nat, NEW m \in Memory(n), NEW es, NEW l \in Nat, NEW i \in 1 .. l, Fits(es[i]),
           NEW flags \in Nat, NEW ptrs \in Nat, ptrs = flags + CeilDiv(3 * l, 8),
           ptrs + 2 * RegularIn(es, l) <= n,
           FlagsAre(m, flags, es, l, i - 1), PtrsAre(m, ptrs, es, i - 1),
           NEW r, r = StorePtr(SET_3BITS(m, flags, i - 1, Flag(es[i])), ptrs, es, i)
    PROVE  /\ r \in Memory(n) /\ Agree(m, r, 0, flags)
           /\ FlagsAre(r, flags, es, l, i) /\ PtrsAre(r, ptrs, es, i)
<1> DEFINE v == Flag(es[i])
           j == i - 1
           q == SET_3BITS(m, flags, j, v)
           size == CeilDiv(3 * l, 8)
<1>0. v \in 0 .. 7 /\ size \in Nat /\ RegularIn(es, l) \in Nat
  <2>1. RegularIn(es, l) \in Nat
    BY RegularRange
  <2>2. size \in Nat
    BY DEF CeilDiv
  <2> QED
    BY <2>1, <2>2 DEF Fits
<1>1. /\ v \in 0 .. 7 /\ j \in 0 .. l - 1 /\ size \in Nat /\ RegularIn(es, l) \in Nat
      /\ flags + size <= n /\ ptrs <= n /\ i \in Nat /\ i # 0 /\ j + 1 = i
  <2> HIDE DEF v, size
  <2>1. ptrs = flags + size
    BY DEF size
  <2> QED
    BY <1>0, <2>1
<1>2. GET_3BITS(m, flags, j) = 0
  BY <1>1 DEF FlagsAre
<1>3. r = StorePtr(q, ptrs, es, i)
  OBVIOUS
<1> HIDE DEF v, j
<1>4. q \in Memory(n) /\ SameBut(m, q, flags, size) /\ ThreeAreSet(l, m, q, flags, j, v)
  BY <1>1, <1>2, SetThree
<1> HIDE DEF q
<1>5. Agree(m, q, 0, flags) /\ Agree(m, q, ptrs, n)
  BY <1>1, <1>4, BesideAgrees DEF size
<1>6. PtrsAre(q, ptrs, es, i - 1)
  <2>1. i - 1 \in Nat /\ i - 1 <= l
    OBVIOUS
  <2> QED
    BY <1>4, <1>5, <2>1, PtrsStay
<1>7. es[i].type = REGULAR => PtrPlace(n, ptrs, es, i) /\ es[i].ptr \in Nat /\ es[i].ptr <= 65535
  BY PtrsHavePlaces DEF Fits
<1>8. /\ r \in Memory(n) /\ \A a \in 0 .. n - 1 : a < ptrs => r[a] = q[a]
      /\ PtrsAre(r, ptrs, es, i)
  BY <1>1, <1>3, <1>4, <1>6, <1>7, PtrIsAdded
<1>9. Agree(q, r, 0, ptrs)
  BY <1>1, <1>8 DEF Agree
<1>10. Agree(q, r, 0, flags) /\ Agree(q, r, flags, ptrs)
  BY <1>1, <1>9 DEF Agree, size
<1>11. Agree(m, r, 0, flags)
  BY <1>5, <1>10, AgreeTwice
<1>12. ASSUME NEW k \in 0 .. l - 1
       PROVE  GET_3BITS(r, flags, k) = IF k < i THEN Flag(es[k + 1]) ELSE 0
  <2>1. k \in Nat /\ flags + (3 * k + 2) \div 8 < ptrs
    BY DEF CeilDiv
  <2>2. GET_3BITS(r, flags, k) = GET_3BITS(q, flags, k)
    BY <1>1, <1>4, <1>8, <1>10, <2>1, BitsAgree
  <2>3. GET_3BITS(q, flags, k) = IF k = j THEN v ELSE GET_3BITS(m, flags, k)
    BY <1>4 DEF ThreeAreSet
  <2>4. GET_3BITS(m, flags, k) = IF k < i - 1 THEN Flag(es[k + 1]) ELSE 0
    BY DEF FlagsAre
  <2>5. k = j => v = Flag(es[k + 1])
    BY <1>1 DEF v
  <2>6. /\ k < i - 1 => k < i /\ k # j
        /\ ~ (k < i - 1) /\ k # j => ~ (k < i)
        /\ k = j => k < i
    BY <1>1, <2>1 DEF j
  <2> QED
    BY <2>2, <2>3, <2>4, <2>5, <2>6
<1>13. FlagsAre(r, flags, es, l, i)
  BY <1>12 DEF FlagsAre
<1> QED
  BY <1>8, <1>11, <1>13

\* The same, with the round's hypotheses under one name.
RoundReady(n, m, es, l, i, flags, ptrs) ==
    /\ n \in Nat /\ m \in Memory(n) /\ l \in Nat /\ i \in 1 .. l /\ Fits(es[i])
    /\ flags \in Nat /\ ptrs \in Nat /\ ptrs = flags + CeilDiv(3 * l, 8)
    /\ ptrs + 2 * RegularIn(es, l) <= n
    /\ FlagsAre(m, flags, es, l, i - 1) /\ PtrsAre(m, ptrs, es, i - 1)
AfterRound(m, es, i, flags, ptrs) == StorePtr(SET_3BITS(m, flags, i - 1, Flag(es[i])), ptrs, es, i)

LEMMA RoundStores ==
    ASSUME NEW n, NEW m, NEW es, NEW l, NEW i, NEW flags, NEW ptrs,
           RoundReady(n, m, es, l, i, flags, ptrs), NEW r, r = AfterRound(m, es, i, flags, ptrs)
    PROVE  /\ r \in Memory(n) /\ Agree(m, r, 0, flags)
           /\ FlagsAre(r, flags, es, l, i) /\ PtrsAre(r, ptrs, es, i)
<1>1. /\ n \in Nat /\ m \in Memory(n) /\ l \in Nat /\ i \in 1 .. l /\ Fits(es[i])
      /\ flags \in Nat /\ ptrs \in Nat /\ ptrs = flags + CeilDiv(3 * l, 8)
      /\ ptrs + 2 * RegularIn(es, l) <= n
      /\ FlagsAre(m, flags, es, l, i - 1) /\ PtrsAre(m, ptrs, es, i - 1)
      /\ r = StorePtr(SET_3BITS(m, flags, i - 1, Flag(es[i])), ptrs, es, i)
  BY DEF RoundReady, AfterRound
<1> QED
  BY <1>1, FlagAndPtrAreSet, SMTT(60)

\* A change in front of the flags leaves them and the pointers alone.
LEMMA FlagsAndPtrsStay ==
    ASSUME NEW n \in Nat, NEW m \in Memory(n), NEW r \in Memory(n), NEW es, NEW l \in Nat,
           NEW flags \in Nat, NEW ptrs \in Nat, ptrs = flags + CeilDiv(3 * l, 8),
           ptrs + 2 * RegularIn(es, l) <= n, NEW i \in Nat, i <= l,
           FlagsAre(m, flags, es, l, i), PtrsAre(m, ptrs, es, i), Agree(m, r, flags, n)
    PROVE  FlagsAre(r, flags, es, l, i) /\ PtrsAre(r, ptrs, es, i)
<1>1. flags <= ptrs /\ RegularIn(es, l) \in Nat /\ ptrs <= n
  <2>1. RegularIn(es, l) \in Nat
    BY RegularRange
  <2>2. CeilDiv(3 * l, 8) \in Nat
    BY DEF CeilDiv
  <2> QED
    BY <2>1, <2>2
<1>2. Agree(m, r, ptrs, n)
  BY <1>1 DEF Agree
<1>3. PtrsAre(r, ptrs, es, i)
  BY <1>2, PtrsStay
<1>4. ASSUME NEW k \in 0 .. l - 1 PROVE GET_3BITS(r, flags, k) = GET_3BITS(m, flags, k)
  <2>1. k \in Nat /\ flags + (3 * k + 2) \div 8 < ptrs
    BY DEF CeilDiv
  <2>2. k \in Nat /\ flags + (3 * k + 2) \div 8 < n
    BY <1>1, <2>1
  <2> QED
    BY <2>2, BitsAgree
<1> QED
  BY <1>3, <1>4 DEF FlagsAre

-----------------------------------------------------------------------------
(* Elements, and the memory the writers start their loops with.            *)

\* An id takes two bytes, and no entry of a table is the missing one.
LEMMA StateIdRange ==
    ASSUME NEW x \in StateId
    PROVE  x \in Nat /\ x <= 65535 /\ x # LOOKUP_VALUE_NOT_FOUND
<1>1. LOOKUP_VALUE_NOT_FOUND \in Nat
  BY DEF LOOKUP_VALUE_NOT_FOUND
<1>2. x \in 0 .. LOOKUP_VALUE_NOT_FOUND - 1
  BY DEF StateId
<1>3. x \in Nat /\ x < LOOKUP_VALUE_NOT_FOUND /\ x # LOOKUP_VALUE_NOT_FOUND
  BY <1>1, <1>2
<1>4. x <= 65535
  BY <1>3 DEF LOOKUP_VALUE_NOT_FOUND
<1> QED
  BY <1>3, <1>4

\* An element fits the layouts, and its flag is made of its type and its match.
LEMMA ElementFits ==
    ASSUME NEW e \in Element
    PROVE  /\ Fits(e) /\ e.c \in Byte /\ e.ptr \in StateId /\ e.match \in {0, 1}
           /\ e.type \in {REGULAR, LEVEL1, LEVEL2}
           /\ GET_PTR_TYPE(Flag(e)) = e.type /\ GET_MATCH_BIT(Flag(e)) = e.match
<1>1. e.c \in Byte /\ e.ptr \in StateId /\ e.match \in {0, 1} /\ e.type \in {REGULAR, LEVEL1, LEVEL2}
  BY DEF Element
<1>2. e.ptr \in Nat /\ e.ptr <= 65535
  <2>1. \A x \in StateId : x \in Nat /\ x <= 65535
    BY StateIdRange
  <2> QED
    BY <1>1, <2>1
<1> DEFINE t == e.type
           b == e.match
<1>3. t \in {0, 2, 3} /\ b \in {0, 1} /\ Flag(e) = 2 * t + b
  BY <1>1 DEF REGULAR, LEVEL1, LEVEL2, Flag
<1> HIDE DEF t, b
<1>4. Flag(e) \in 0 .. 7 /\ Flag(e) % 2 = b /\ (Flag(e) \div 2) % 4 = t
  BY <1>3
<1> QED
  BY <1>1, <1>2, <1>4 DEF Fits, GET_PTR_TYPE, GET_MATCH_BIT, t, b

\* The elements that a writer stores: the first of those it is given.
LEMMA Given ==
    ASSUME NEW given \in Seq(Element), NEW l \in Nat, l <= Len(given)
    PROVE  /\ SubSeq(given, 1, l) \in Seq(Element) /\ Len(SubSeq(given, 1, l)) = l
           /\ \A k \in 1 .. l : SubSeq(given, 1, l)[k] = given[k] /\ given[k] \in Element
<1>1. /\ Len(SubSeq(given, 1, l)) = l
      /\ \A k \in 1 .. l : SubSeq(given, 1, l)[k] = given[k]
      /\ \A k \in 1 .. l : given[k] \in Element
  OBVIOUS
<1>2. SubSeq(given, 1, l) \in Seq(Element)
  OBVIOUS
<1> QED
  BY <1>1, <1>2

\* A memory is one of those a loop may reach.
LEMMA MemoryOf ==
    ASSUME NEW n \in Nat, NEW d \in Memory(n), NEW m \in Memory(n)
    PROVE  m \in Memories(d)
<1>1. DOMAIN d = 0 .. n - 1 /\ m \in [0 .. n - 1 -> Byte]
  BY DEF Memory
<1>2. \A a \in 0 .. n - 1 : m[a] \in Int
  <2>1. \A a \in 0 .. n - 1 : m[a] \in Byte
    BY <1>1
  <2>2. \A b \in Byte : b \in Int
    BY DEF Byte
  <2> QED
    BY <2>1, <2>2
<1>3. m \in [0 .. n - 1 -> Int]
  BY <1>1, <1>2
<1> QED
  BY <1>1, <1>3 DEF Memories

\* The failure is stored and the region behind it is zero.
LEMMA FailureAndZeros ==
    ASSUME NEW n \in Nat, NEW d \in Memory(n), NEW idx \in Nat, NEW fail \in StateId,
           NEW at \in Nat, NEW size \in Nat, idx + 2 <= at, at + size <= n,
           NEW m, m = Fill(SetPtr(d, idx, fail), at, size, 0)
    PROVE  /\ m \in Memory(n) /\ Agree(d, m, 0, idx) /\ Fetch(m, idx) = fail
           /\ \A a \in at .. at + size - 1 : m[a] = 0
<1> DEFINE p == SetPtr(d, idx, fail)
<1>1. fail \in Nat /\ fail <= 65535 /\ idx + 1 < n /\ at <= n /\ idx <= n /\ 0 \in Nat /\ 2 \in Nat
  <2>1. fail \in Nat /\ fail <= 65535
    BY StateIdRange
  <2> QED
    BY <2>1
<1>2. p \in Memory(n) /\ SameBut(d, p, idx, 2) /\ Fetch(p, idx) = fail
  BY <1>1, PtrIsSet
<1> HIDE DEF p
<1>3. m = Fill(p, at, size, 0) /\ 0 \in Byte
  BY DEF p, Byte
<1>4. /\ m \in Memory(n) /\ SameBut(p, m, at, size)
      /\ \A a \in 0 .. n - 1 : at <= a /\ a < at + size => m[a] = 0
  <2>1. \A b \in Byte :
          /\ Fill(p, at, size, b) \in Memory(n) /\ SameBut(p, Fill(p, at, size, b), at, size)
          /\ \A a \in 0 .. n - 1 : at <= a /\ a < at + size => Fill(p, at, size, b)[a] = b
    BY <1>2, RegionIsFilled
  <2> QED
    BY <1>3, <2>1
<1>5. Agree(d, p, 0, idx) /\ Agree(p, m, 0, idx)
  BY <1>1, <1>2, <1>4, BesideAgrees
<1>6. Fetch(m, idx) = Fetch(p, idx)
  BY <1>1, <1>2, <1>4, FetchOutside
<1>7. \A a \in at .. at + size - 1 : a \in 0 .. n - 1 /\ at <= a /\ a < at + size
  OBVIOUS
<1> QED
  BY <1>1, <1>2, <1>4, <1>5, <1>6, <1>7, AgreeTwice

-----------------------------------------------------------------------------
(* The writer of linear encoded states.                                    *)

\* The memories with the first i elements.
LinearHas(n, d, es, fail, i) ==
    {m \in Memory(n) :
        /\ Agree(d, m, 0, FAIL_IDX) /\ Fetch(m, FAIL_IDX) = fail
        /\ \A k \in 1 .. i : m[FAIL_IDX + 1 + k] = es[k].c
        /\ FlagsAre(m, FlagsOf_LE(d), es, Len(es), i)
        /\ PtrsAre(m, PtrsOf_LE(d), es, i)}

\* A round of its loop adds an element.
LEMMA LinearRound ==
    ASSUME NEW n \in Nat, NEW d, NEW es \in Seq(Element), NEW l \in Nat, Len(es) = l,
           HeaderSize(d) = l, PtrsOf_LE(d) + 2 * RegularIn(es, l) <= n, NEW fail,
           NEW i \in 1 .. l, NEW m \in LinearHas(n, d, es, fail, i - 1)
    PROVE  SetChild_LE(d, es, m, i) \in LinearHas(n, d, es, fail, i)
<1> DEFINE flags == FlagsOf_LE(d)
           ptrs == PtrsOf_LE(d)
           at == FAIL_IDX + 1 + i
           p == [m EXCEPT ![at] = es[i].c]
           r == SetChild_LE(d, es, m, i)
<1>1. /\ flags = 6 + l /\ ptrs = flags + CeilDiv(3 * l, 8) /\ at = 5 + i
  BY DEF FlagsOf_LE, PtrsOf_LE, FAIL_IDX
<1>2. r = StorePtr(SET_3BITS(p, flags, i - 1, Flag(es[i])), ptrs, es, i)
  BY DEF SetChild_LE
<1>3. /\ m \in Memory(n) /\ Agree(d, m, 0, 4) /\ Fetch(m, 4) = fail
      /\ \A k \in 1 .. i - 1 : m[5 + k] = es[k].c
      /\ FlagsAre(m, flags, es, l, i - 1) /\ PtrsAre(m, ptrs, es, i - 1)
  BY DEF LinearHas, FAIL_IDX
<1>4. es[i] \in Element
  OBVIOUS
<1>5. es[i].c \in Byte /\ Fits(es[i])
  BY <1>4, ElementFits
<1>6. ptrs + 2 * RegularIn(es, l) <= n
  OBVIOUS
<1> HIDE DEF flags, ptrs, at, p, r
<1>7. /\ flags \in Nat /\ ptrs \in Nat /\ at \in Nat /\ CeilDiv(3 * l, 8) \in Nat /\ RegularIn(es, l) \in Nat
  <2>1. RegularIn(es, l) \in Nat
    BY RegularRange
  <2>2. CeilDiv(3 * l, 8) \in Nat
    BY DEF CeilDiv
  <2> QED
    BY <1>1, <2>1, <2>2
<1>8. /\ at < flags /\ flags <= n /\ at < n /\ 4 \in Nat /\ 1 \in Nat
  BY SMTT(20), <1>1, <1>6, <1>7
<1>9. p \in Memory(n) /\ SameBut(m, p, at, 1) /\ p[at] = es[i].c
  BY <1>3, <1>5, <1>7, <1>8, ByteIsSet DEF p
<1>10. Agree(m, p, flags, n) /\ Agree(m, p, 0, at)
  <2>1. n <= n /\ at + 1 <= flags /\ 0 \in Nat /\ at <= at /\ at <= n
    BY <1>7, <1>8
  <2>2. m \in Memory(n)
    BY <1>3
  <2>3. Agree(m, p, flags, n)
    BY <1>7, <1>8, <1>9, <2>1, <2>2, BesideAgrees
  <2>4. Agree(m, p, 0, at)
    BY <1>7, <1>8, <1>9, <2>1, <2>2, BesideAgrees
  <2> QED
    BY <2>3, <2>4
<1>11. i - 1 \in Nat /\ i - 1 <= l
  OBVIOUS
<1> DEFINE j == i - 1
<1> HIDE DEF j
<1>12. FlagsAre(p, flags, es, l, j) /\ PtrsAre(p, ptrs, es, j)
  <2>1. /\ m \in Memory(n) /\ FlagsAre(m, flags, es, l, j) /\ PtrsAre(m, ptrs, es, j)
        /\ ptrs = flags + CeilDiv(3 * l, 8) /\ j \in Nat /\ j <= l
    BY <1>1, <1>3, <1>11 DEF j
  <2> QED
    BY <1>6, <1>7, <1>9, <1>10, <2>1, FlagsAndPtrsStay, SMTT(60)
<1>13. /\ r \in Memory(n) /\ Agree(p, r, 0, flags)
       /\ FlagsAre(r, flags, es, l, i) /\ PtrsAre(r, ptrs, es, i)
  <2>1. /\ FlagsAre(p, flags, es, l, i - 1) /\ PtrsAre(p, ptrs, es, i - 1)
        /\ ptrs = flags + CeilDiv(3 * l, 8) /\ p \in Memory(n)
    BY <1>1, <1>9, <1>12 DEF j
  <2> QED
    <3>1. RoundReady(n, p, es, l, i, flags, ptrs)
      BY <1>5, <1>6, <1>7, <2>1 DEF RoundReady
    <3>2. r = AfterRound(p, es, i, flags, ptrs)
      BY <1>2 DEF AfterRound
    <3> QED
      BY <3>1, <3>2, RoundStores
<1>14. \A a \in 0 .. flags - 1 : r[a] = p[a]
  BY <1>13 DEF Agree
<1>15. \A a \in 0 .. at - 1 : r[a] = m[a]
  BY <1>7, <1>8, <1>10, <1>14 DEF Agree
<1>16. Agree(d, r, 0, 4) /\ Fetch(r, 4) = fail
  <2>1. 4 \in 0 .. at - 1 /\ 5 \in 0 .. at - 1 /\ \A a \in 0 .. 3 : a \in 0 .. at - 1
    BY <1>1
  <2> QED
    BY <2>1, <1>3, <1>15 DEF Agree, Fetch
<1>17. ASSUME NEW k \in 1 .. i PROVE r[5 + k] = es[k].c
  <2>1. CASE k = i
    <3>1. at \in 0 .. flags - 1 /\ 5 + k = at
      BY <1>1, <1>7, <1>8, <2>1
    <3> QED
      BY <3>1, <1>9, <1>14, <2>1
  <2>2. CASE k # i
    <3>1. k \in 1 .. i - 1 /\ 5 + k \in 0 .. at - 1
      BY <1>1, <2>2
    <3> QED
      BY <3>1, <1>3, <1>15
  <2> QED
    BY <2>1, <2>2
<1>18. r \in LinearHas(n, d, es, fail, i)
  BY <1>13, <1>16, <1>17 DEF LinearHas, FAIL_IDX, flags, ptrs
<1> QED
  BY <1>18 DEF r

\* The writer leaves a memory with all of them.
LEMMA LinearIsSet ==
    ASSUME NEW n \in Nat, NEW d \in Memory(n), NEW given \in Seq(Element), NEW l \in Nat,
           HeaderSize(d) = l, l <= Len(given), NEW fail \in StateId,
           NEW es, es = SubSeq(given, 1, l), PtrsOf_LE(d) + 2 * RegularIn(es, l) <= n
    PROVE  setStateData_LE(d, given, fail) \in LinearHas(n, d, es, fail, l)
<1> DEFINE set == [m \in Memories(d) |-> [i \in Nat |-> SetChild_LE(d, es, m, i)]]
           size == CeilDiv(3 * l, 8)
           flags == FlagsOf_LE(d)
           clean == Fill(SetPtr(d, FAIL_IDX, fail), flags, size, 0)
           P == [i \in Nat |-> LinearHas(n, d, es, fail, i)]
<1>1. es \in Seq(Element) /\ Len(es) = l
  BY Given
<1>2. setStateData_LE(d, given, fail) = ForEach(es, clean, set)
  BY DEF setStateData_LE
<1>3. ASSUME NEW m \in Memory(n), NEW i \in Nat PROVE set[m][i] = SetChild_LE(d, es, m, i)
  <2>1. m \in Memories(d)
    BY MemoryOf
  <2> QED
    BY <2>1
<1>4. ASSUME NEW i \in 1 .. l, NEW m \in LinearHas(n, d, es, fail, i - 1)
      PROVE  SetChild_LE(d, es, m, i) \in LinearHas(n, d, es, fail, i)
  BY <1>1, LinearRound
<1>5. clean \in LinearHas(n, d, es, fail, 0)
  <2>1. flags = 6 + l /\ FAIL_IDX = 4 /\ size \in Nat /\ PtrsOf_LE(d) = flags + size
    BY DEF FlagsOf_LE, FAIL_IDX, CeilDiv, PtrsOf_LE
  <2>2. RegularIn(es, l) \in Nat
    BY RegularRange
  <2> HIDE DEF flags, size, clean
  <2>3. flags \in Nat /\ FAIL_IDX \in Nat /\ FAIL_IDX + 2 <= flags /\ flags + size <= n
    BY <2>1, <2>2
  <2>4. clean = Fill(SetPtr(d, FAIL_IDX, fail), flags, size, 0)
    BY DEF clean
  <2>5. /\ clean \in Memory(n) /\ Agree(d, clean, 0, FAIL_IDX) /\ Fetch(clean, FAIL_IDX) = fail
        /\ \A a \in flags .. flags + size - 1 : clean[a] = 0
    BY <2>1, <2>3, <2>4, FailureAndZeros
  <2>6. \A k \in Nat : 3 * k + 2 < 8 * size => GET_3BITS(clean, flags, k) = 0
    BY SMTT(20), <2>1, <2>3, <2>5, ZeroBits
  <2>7. \A k \in 0 .. l - 1 : k \in Nat /\ 3 * k + 2 < 8 * size /\ ~ (k < 0)
    BY DEF size, CeilDiv
  <2>8. FlagsAre(clean, flags, es, Len(es), 0)
    BY <1>1, <2>6, <2>7 DEF FlagsAre
  <2>9. PtrsAre(clean, PtrsOf_LE(d), es, 0) /\ 1 .. 0 = {}
    BY DEF PtrsAre
  <2> QED
    BY <2>5, <2>8, <2>9 DEF LinearHas, flags
<1> HIDE DEF set, clean
<1>6. clean \in P[0] /\ \A i \in 1 .. l : \A m \in P[i - 1] : set[m][i] \in P[i]
  <2>1. clean \in P[0]
    BY <1>5
  <2>2. ASSUME NEW i \in 1 .. l, NEW m \in P[i - 1] PROVE set[m][i] \in P[i]
    <3>1. i \in Nat /\ i - 1 \in Nat
      OBVIOUS
    <3>2. m \in LinearHas(n, d, es, fail, i - 1)
      BY <3>1
    <3>3. m \in Memory(n)
      BY <3>2 DEF LinearHas
    <3> QED
      BY <1>3, <1>4, <3>1, <3>2, <3>3
  <2> QED
    BY <2>1, <2>2
<1> HIDE DEF P
<1>7. Len(es) \in Nat
  BY <1>1
<1>8. ForEach(es, clean, set) \in P[Len(es)]
  BY <1>1, <1>6, <1>7, ForEachKeeps
<1> QED
  BY <1>1, <1>2, <1>8 DEF P

-----------------------------------------------------------------------------
(* The writer of bitmap encoded states.                                    *)

\* The memories with the first i elements: a bit for every character, and the
\* flags and pointers in the order of the elements.
BitmapHas(n, d, es, fail, i) ==
    {m \in Memory(n) :
        /\ Agree(d, m, 0, FAIL_IDX) /\ Fetch(m, FAIL_IDX) = fail
        /\ \A c \in Byte : GET_1BIT(m, BitmapOf_BM, c) = IF \E k \in 1 .. i : es[k].c = c THEN 1 ELSE 0
        /\ FlagsAre(m, FlagsOf_BM, es, Len(es), i)
        /\ PtrsAre(m, PtrsOf_BM(d), es, i)}

\* A round of its loop adds an element.
LEMMA BitmapRound ==
    ASSUME NEW n \in Nat, NEW d, NEW es \in Seq(Element), NEW l \in Nat, Len(es) = l,
           HeaderSize(d) = l, PtrsOf_BM(d) + 2 * RegularIn(es, l) <= n, NEW fail,
           NEW i \in 1 .. l, NEW m \in BitmapHas(n, d, es, fail, i - 1)
    PROVE  SetChild_BM(d, es, m, i) \in BitmapHas(n, d, es, fail, i)
<1> DEFINE flags == FlagsOf_BM
           bitmap == BitmapOf_BM
           count == 256
           ptrs == PtrsOf_BM(d)
           c == es[i].c
           p == SET_1BIT(m, bitmap, c, 1)
           r == SetChild_BM(d, es, m, i)
           j == i - 1
<1>1. /\ flags = 38 /\ ptrs = flags + CeilDiv(3 * l, 8) /\ bitmap = 6 /\ FAIL_IDX = 4
  BY DEF FlagsOf_BM, PtrsOf_BM, FAIL_IDX, BitmapOf_BM
<1>2. r = StorePtr(SET_3BITS(p, flags, i - 1, Flag(es[i])), ptrs, es, i)
  BY <1>1 DEF SetChild_BM
<1>3. /\ m \in Memory(n) /\ Agree(d, m, 0, 4) /\ Fetch(m, 4) = fail
      /\ \A b \in Byte : GET_1BIT(m, bitmap, b) = IF \E k \in 1 .. j : es[k].c = b THEN 1 ELSE 0
      /\ FlagsAre(m, flags, es, l, j) /\ PtrsAre(m, ptrs, es, j)
  BY <1>1 DEF BitmapHas
<1>4. es[i] \in Element
  OBVIOUS
<1>5. c \in Byte /\ Fits(es[i])
  BY <1>4, ElementFits
<1>6. ptrs + 2 * RegularIn(es, l) <= n /\ j \in Nat /\ j <= l /\ j + 1 = i
  OBVIOUS
<1>0. count = 256
  OBVIOUS
<1> HIDE DEF flags, bitmap, count, ptrs, c, p, r, j
<1>7. /\ flags \in Nat /\ ptrs \in Nat /\ CeilDiv(3 * l, 8) \in Nat /\ RegularIn(es, l) \in Nat
  <2>1. RegularIn(es, l) \in Nat
    BY RegularRange
  <2>2. CeilDiv(3 * l, 8) \in Nat
    BY DEF CeilDiv
  <2> QED
    BY <1>1, <2>1, <2>2
<1>8. /\ flags <= n /\ CeilDiv(count, 8) = 32 /\ count \in Nat /\ bitmap \in Nat /\ 1 \in Nat
      /\ 0 \in Nat
  <2>1. CeilDiv(count, 8) = 32
    BY <1>0 DEF CeilDiv
  <2> QED
    BY SMTT(20), <1>0, <1>1, <1>6, <1>7, <2>1
<1> DEFINE size == CeilDiv(count, 8)
<1>9. p \in Memory(n) /\ SameBut(m, p, bitmap, size) /\ OneIsSet(count, m, p, bitmap, c, 1)
  <2>1. bitmap + CeilDiv(count, 8) <= n /\ c \in 0 .. count - 1
    <3>1. c \in 0 .. 255
      BY <1>5 DEF Byte
    <3> QED
      BY <1>0, <1>1, <1>8, <3>1
  <2> QED
    BY <1>3, <1>8, <2>1, SetOne DEF p
<1>10. Agree(m, p, flags, n) /\ Agree(m, p, 0, bitmap)
  <2>1. /\ n <= n /\ bitmap + size <= flags /\ bitmap <= bitmap /\ bitmap <= n /\ m \in Memory(n)
        /\ size \in Nat
    BY <1>1, <1>3, <1>8
  <2> HIDE DEF size
  <2>2. Agree(m, p, flags, n)
    BY <1>7, <1>8, <1>9, <2>1, BesideAgrees
  <2>3. Agree(m, p, 0, bitmap)
    BY <1>7, <1>8, <1>9, <2>1, BesideAgrees
  <2> QED
    BY <2>2, <2>3
<1>12. FlagsAre(p, flags, es, l, j) /\ PtrsAre(p, ptrs, es, j)
  <2>1. /\ m \in Memory(n) /\ FlagsAre(m, flags, es, l, j) /\ PtrsAre(m, ptrs, es, j)
        /\ ptrs = flags + CeilDiv(3 * l, 8) /\ j \in Nat /\ j <= l
    BY <1>1, <1>3, <1>6
  <2> QED
    BY <1>6, <1>7, <1>9, <1>10, <2>1, FlagsAndPtrsStay, SMTT(60)
<1>13. /\ r \in Memory(n) /\ Agree(p, r, 0, flags)
       /\ FlagsAre(r, flags, es, l, i) /\ PtrsAre(r, ptrs, es, i)
  <2>1. /\ FlagsAre(p, flags, es, l, i - 1) /\ PtrsAre(p, ptrs, es, i - 1)
        /\ ptrs = flags + CeilDiv(3 * l, 8) /\ p \in Memory(n)
    BY <1>1, <1>9, <1>12 DEF j
  <2> QED
    <3>1. RoundReady(n, p, es, l, i, flags, ptrs)
      BY <1>5, <1>6, <1>7, <2>1 DEF RoundReady
    <3>2. r = AfterRound(p, es, i, flags, ptrs)
      BY <1>2 DEF AfterRound
    <3> QED
      BY <3>1, <3>2, RoundStores
<1>14. \A a \in 0 .. flags - 1 : r[a] = p[a]
  BY <1>13 DEF Agree
<1>15. Agree(d, r, 0, 4) /\ Fetch(r, 4) = fail
  <2>1. 0 <= 0 /\ bitmap <= flags
    BY <1>1
  <2>0. Agree(p, r, 0, bitmap)
    BY <1>7, <1>8, <1>13, <2>1, PartAgrees
  <2>2. \A a \in 0 .. bitmap - 1 : r[a] = m[a]
    BY <2>0, <1>10 DEF Agree
  <2>3. 4 \in 0 .. bitmap - 1 /\ 5 \in 0 .. bitmap - 1 /\ \A a \in 0 .. 3 : a \in 0 .. bitmap - 1
    BY <1>1
  <2>4. r[4] = m[4] /\ r[5] = m[5] /\ \A a \in 0 .. 3 : r[a] = m[a]
    BY <2>2, <2>3
  <2> QED
    BY <2>4, <1>3 DEF Agree, Fetch
<1>16. ASSUME NEW b \in Byte
       PROVE  GET_1BIT(r, bitmap, b) = IF \E k \in 1 .. i : es[k].c = b THEN 1 ELSE 0
  <2>1. b \in Nat /\ b \in 0 .. count - 1 /\ bitmap + b \div 8 < flags
    BY <1>0, <1>1 DEF Byte
  <2>2. Agree(p, r, bitmap, flags)
    <3>1. 0 <= bitmap /\ flags <= flags
      BY <1>1
    <3> QED
      BY <1>7, <1>8, <1>13, <3>1, PartAgrees
  <2>3. GET_1BIT(r, bitmap, b) = GET_1BIT(p, bitmap, b)
    BY <1>7, <1>8, <1>9, <1>13, <2>1, <2>2, BitsAgree
  <2>4. 1 % 2 = 1
    OBVIOUS
  <2>5. GET_1BIT(p, bitmap, b) = IF b = c THEN 1 ELSE GET_1BIT(m, bitmap, b)
    BY <1>9, <2>1, <2>4 DEF OneIsSet
  <2>6. (\E k \in 1 .. i : es[k].c = b) <=> (b = c \/ \E k \in 1 .. j : es[k].c = b)
    <3>1. \A k : k \in 1 .. i <=> (k = i \/ k \in 1 .. j)
      BY <1>6
    <3> QED
      BY <3>1 DEF c
  <2> QED
    BY <1>3, <2>3, <2>5, <2>6
<1>17. r \in BitmapHas(n, d, es, fail, i)
  BY <1>1, <1>13, <1>15, <1>16 DEF BitmapHas, flags, ptrs, bitmap
<1> QED
  BY <1>17 DEF r

\* The writer leaves a memory with all of them.
LEMMA BitmapIsSet ==
    ASSUME NEW n \in Nat, NEW d \in Memory(n), NEW given \in Seq(Element), NEW l \in Nat,
           HeaderSize(d) = l, l <= Len(given), NEW fail \in StateId,
           NEW es, es = SubSeq(given, 1, l), PtrsOf_BM(d) + 2 * RegularIn(es, l) <= n
    PROVE  setStateData_BM(d, given, fail) \in BitmapHas(n, d, es, fail, l)
<1> DEFINE set == [m \in Memories(d) |-> [i \in Nat |-> SetChild_BM(d, es, m, i)]]
           size == CeilDiv(3 * l, 8)
           clean == Fill(SetPtr(d, FAIL_IDX, fail), BitmapOf_BM, 32 + size, 0)
           P == [i \in Nat |-> BitmapHas(n, d, es, fail, i)]
<1>1. es \in Seq(Element) /\ Len(es) = l
  BY Given
<1>2. setStateData_BM(d, given, fail) = ForEach(es, clean, set)
  BY DEF setStateData_BM
<1>3. ASSUME NEW m \in Memory(n), NEW i \in Nat PROVE set[m][i] = SetChild_BM(d, es, m, i)
  <2>1. m \in Memories(d)
    BY MemoryOf
  <2> QED
    BY <2>1
<1>4. ASSUME NEW i \in 1 .. l, NEW m \in BitmapHas(n, d, es, fail, i - 1)
      PROVE  SetChild_BM(d, es, m, i) \in BitmapHas(n, d, es, fail, i)
  BY <1>1, BitmapRound
<1>5. clean \in BitmapHas(n, d, es, fail, 0)
  <2> DEFINE region == 32 + size
             bitmap == BitmapOf_BM
             flags == FlagsOf_BM
             idx == FAIL_IDX
  <2>1. /\ flags = 38 /\ bitmap = 6 /\ idx = 4 /\ size \in Nat /\ region \in Nat
        /\ PtrsOf_BM(d) = flags + size /\ region = 32 + size
    BY DEF FlagsOf_BM, BitmapOf_BM, FAIL_IDX, CeilDiv, PtrsOf_BM
  <2>2. RegularIn(es, l) \in Nat
    BY RegularRange
  <2>3. clean = Fill(SetPtr(d, idx, fail), bitmap, region, 0)
    BY <2>1
  <2>4. \A k \in 0 .. l - 1 : k \in Nat /\ 3 * k + 2 < 8 * size /\ ~ (k < 0)
    BY DEF CeilDiv
  <2> HIDE DEF size, clean, region, bitmap, flags, idx
  <2>5. /\ bitmap \in Nat /\ idx \in Nat /\ idx + 2 <= bitmap /\ bitmap + region <= n
        /\ flags \in Nat /\ flags + size <= n
    BY <2>1, <2>2
  <2>6. /\ clean \in Memory(n) /\ Agree(d, clean, 0, idx) /\ Fetch(clean, idx) = fail
        /\ \A a \in bitmap .. bitmap + region - 1 : clean[a] = 0
    BY SMTT(20), <2>1, <2>3, <2>5, FailureAndZeros
  <2>7. \A k \in 0 .. 8 * region - 1 : GET_1BIT(clean, bitmap, k) = 0
    <3>1. region \in Nat
      BY <2>1
    <3> QED
      BY <2>5, <2>6, <3>1, ZeroBits
  <2>8. \A k \in Nat : 3 * k + 2 < 8 * size => GET_3BITS(clean, flags, k) = 0
    <3>1. \A a \in flags .. flags + size - 1 : clean[a] = 0
      BY <2>1, <2>6
    <3> QED
      BY <2>1, <2>5, <2>6, <3>1, ZeroBits
  <2>9. FlagsAre(clean, flags, es, Len(es), 0)
    BY <1>1, <2>1, <2>4, <2>8 DEF FlagsAre
  <2>10. PtrsAre(clean, PtrsOf_BM(d), es, 0) /\ 1 .. 0 = {}
    BY DEF PtrsAre
  <2>11. \A c \in Byte : GET_1BIT(clean, bitmap, c) = IF \E k \in 1 .. 0 : es[k].c = c THEN 1 ELSE 0
    <3>1. \A c \in Byte : c \in 0 .. 8 * region - 1
      BY <2>1 DEF Byte
    <3> QED
      BY <2>1, <2>7, <2>10, <3>1
  <2> QED
    BY <2>6, <2>9, <2>10, <2>11 DEF BitmapHas, bitmap, flags, idx
<1> HIDE DEF set, clean
<1>6. clean \in P[0] /\ \A i \in 1 .. l : \A m \in P[i - 1] : set[m][i] \in P[i]
  <2>1. clean \in P[0]
    BY <1>5
  <2>2. ASSUME NEW i \in 1 .. l, NEW m \in P[i - 1] PROVE set[m][i] \in P[i]
    <3>1. i \in Nat /\ i - 1 \in Nat
      OBVIOUS
    <3>2. m \in BitmapHas(n, d, es, fail, i - 1)
      BY <3>1
    <3>3. m \in Memory(n)
      BY <3>2 DEF BitmapHas
    <3> QED
      BY <1>3, <1>4, <3>1, <3>2, <3>3
  <2> QED
    BY <2>1, <2>2
<1> HIDE DEF P
<1>7. Len(es) \in Nat
  BY <1>1
<1>8. ForEach(es, clean, set) \in P[Len(es)]
  BY <1>1, <1>6, <1>7, ForEachKeeps
<1> QED
  BY <1>1, <1>2, <1>8 DEF P

-----------------------------------------------------------------------------
(* The writer of lookup tables.                                            *)

\* No two elements have the same character.
Distinct(es) == \A i, j \in DOMAIN es : es[i].c = es[j].c => i = j

\* The memories with the first i elements; the entries of the other characters
\* are ones, and their bits zero.
LookupHas(n, d, es, fail, i) ==
    {m \in Memory(n) :
        /\ Agree(d, m, 0, FAIL_IDX_LT) /\ Fetch(m, FAIL_IDX_LT) = fail
        /\ \A k \in 1 .. i : /\ TableEntry(m, es[k].c) = es[k].ptr
                             /\ GET_1BIT(m, BitmapOf_LT, es[k].c) = es[k].match
        /\ \A c \in Byte : (\A k \in 1 .. i : es[k].c # c) =>
              TableEntry(m, c) = LOOKUP_VALUE_NOT_FOUND /\ GET_1BIT(m, BitmapOf_LT, c) = 0}

\* A pointer in a table is stored without a change to the others.
LEMMA EntryIsSet ==
    ASSUME NEW n \in Nat, n = SIZE_IN_BYTES, NEW m \in Memory(n), NEW c \in Byte,
           NEW v \in Nat, v <= 65535, NEW r, r = SetPtr(m, TableOf_LT + PTR_SIZE * c, v)
    PROVE  /\ r \in Memory(n) /\ Agree(m, r, 0, TableOf_LT)
           /\ \A b \in Byte : TableEntry(r, b) = IF b = c THEN v ELSE TableEntry(m, b)
<1> DEFINE at == TableOf_LT + PTR_SIZE * c
<1>1. n = 551 /\ TableOf_LT = 39 /\ PTR_SIZE = 2
  BY DEF SIZE_IN_BYTES, TableOf_LT, FAIL_IDX_LT, PTR_SIZE
<1>2. c \in Nat /\ c <= 255
  BY DEF Byte
<1>3. at \in Nat /\ at + 1 < n /\ at = 39 + 2 * c
  BY <1>1, <1>2
<1> HIDE DEF at
<1>4. r \in Memory(n) /\ SameBut(m, r, at, 2) /\ Fetch(r, at) = v
  BY <1>3, PtrIsSet DEF at
<1>5. Agree(m, r, 0, TableOf_LT)
  <2>1. \A a \in 0 .. TableOf_LT - 1 : a \in 0 .. n - 1 /\ a < at
    BY <1>1, <1>2, <1>3
  <2> QED
    BY <1>4, <2>1 DEF SameBut, Agree, Memory
<1>6. ASSUME NEW b \in Byte
      PROVE  TableEntry(r, b) = IF b = c THEN v ELSE TableEntry(m, b)
  <2> DEFINE a == TableOf_LT + PTR_SIZE * b
  <2>1. TableEntry(r, b) = Fetch(r, a) /\ TableEntry(m, b) = Fetch(m, a)
    BY DEF TableEntry
  <2>2. CASE b = c
    BY <1>4, <2>1, <2>2 DEF at
  <2>3. CASE b # c
    <3>1. b \in Nat /\ b <= 255
      BY DEF Byte
    <3>2. a \in Nat /\ a + 1 < n /\ (a + 1 < at \/ at + 2 <= a) /\ 2 \in Nat
      BY <1>1, <1>2, <1>3, <2>3, <3>1
    <3> HIDE DEF a
    <3>3. Fetch(r, a) = Fetch(m, a)
      BY <1>3, <1>4, <3>2, FetchOutside
    <3> QED
      BY <2>1, <2>3, <3>3
  <2> QED
    BY <2>2, <2>3
<1> QED
  BY <1>4, <1>5, <1>6

\* A bit of the bitmap is set without a change to the table.
LEMMA TableBitIsSet ==
    ASSUME NEW n \in Nat, n = SIZE_IN_BYTES, NEW m \in Memory(n), NEW c \in Byte, NEW v \in Nat,
           NEW r, r = SET_1BIT(m, BitmapOf_LT, c, v)
    PROVE  /\ r \in Memory(n) /\ Agree(m, r, 0, BitmapOf_LT)
           /\ \A b \in Byte : /\ TableEntry(r, b) = TableEntry(m, b)
                              /\ GET_1BIT(r, BitmapOf_LT, b) =
                                   IF b = c /\ v % 2 = 1 THEN 1 ELSE GET_1BIT(m, BitmapOf_LT, b)
<1> DEFINE count == 256
           bitmap == BitmapOf_LT
           size == CeilDiv(count, 8)
<1>1. n = 551 /\ TableOf_LT = 39 /\ PTR_SIZE = 2 /\ bitmap = 7 /\ count = 256
  BY DEF SIZE_IN_BYTES, TableOf_LT, FAIL_IDX_LT, PTR_SIZE, BitmapOf_LT
<1>2. size = 32
  BY DEF CeilDiv
<1>3. \A b \in Byte : b \in 0 .. count - 1
  BY DEF Byte
<1> HIDE DEF count, bitmap
<1>4. bitmap \in Nat /\ count \in Nat /\ bitmap + CeilDiv(count, 8) <= n /\ size \in Nat
  BY <1>1, <1>2
<1>5. r \in Memory(n) /\ SameBut(m, r, bitmap, size) /\ OneIsSet(count, m, r, bitmap, c, v)
  <2>1. c \in 0 .. count - 1
    BY <1>3
  <2> QED
    BY <1>4, <2>1, SetOne DEF bitmap
<1> HIDE DEF size
<1>6. Agree(m, r, 0, bitmap)
  <2>1. 0 \in Nat /\ bitmap <= n /\ bitmap <= bitmap
    BY <1>1
  <2> QED
    BY <1>4, <1>5, <2>1, BesideAgrees
<1>7. ASSUME NEW b \in Byte PROVE TableEntry(r, b) = TableEntry(m, b)
  <2> DEFINE a == TableOf_LT + PTR_SIZE * b
  <2>1. b \in Nat /\ b <= 255
    BY DEF Byte
  <2>2. a \in Nat /\ a + 1 < n /\ bitmap + size <= a
    BY <1>1, <1>2, <2>1
  <2>3. TableEntry(r, b) = Fetch(r, a) /\ TableEntry(m, b) = Fetch(m, a)
    BY DEF TableEntry
  <2> HIDE DEF a
  <2>4. Fetch(r, a) = Fetch(m, a)
    BY <1>4, <1>5, <2>2, FetchOutside
  <2> QED
    BY <2>3, <2>4
<1>8. \A b \in Byte : GET_1BIT(r, bitmap, b) = IF b = c /\ v % 2 = 1 THEN 1 ELSE GET_1BIT(m, bitmap, b)
  BY <1>3, <1>5 DEF OneIsSet
<1> QED
  BY <1>5, <1>6, <1>7, <1>8 DEF bitmap

\* A round of its loop adds an element.
LEMMA LookupRound ==
    ASSUME NEW n \in Nat, n = SIZE_IN_BYTES, NEW d, NEW es \in Seq(Element), Distinct(es), NEW fail,
           NEW i \in 1 .. Len(es), NEW m \in LookupHas(n, d, es, fail, i - 1)
    PROVE  SetChild_LT(es, m, i) \in LookupHas(n, d, es, fail, i)
<1> DEFINE e == es[i]
           p == SET_1BIT(m, BitmapOf_LT, e.c, e.match)
           r == SetPtr(p, TableOf_LT + PTR_SIZE * e.c, e.ptr)
           j == i - 1
<1>1. SetChild_LT(es, m, i) = r
  BY DEF SetChild_LT
<1>2. e \in Element
  OBVIOUS
<1> DEFINE c == e.c
           b == e.match
           v == e.ptr
<1>3. c \in Byte /\ b \in {0, 1} /\ v \in Nat /\ v <= 65535
  BY <1>2, ElementFits DEF Fits
<1>4. b \in Nat /\ (b % 2 = 1 <=> b = 1) /\ (b # 1 => b = 0)
  BY <1>3
<1>5. /\ m \in Memory(n) /\ Agree(d, m, 0, FAIL_IDX_LT) /\ Fetch(m, FAIL_IDX_LT) = fail
      /\ \A k \in 1 .. j : /\ TableEntry(m, es[k].c) = es[k].ptr
                           /\ GET_1BIT(m, BitmapOf_LT, es[k].c) = es[k].match
      /\ \A x \in Byte : (\A k \in 1 .. j : es[k].c # x) =>
            TableEntry(m, x) = LOOKUP_VALUE_NOT_FOUND /\ GET_1BIT(m, BitmapOf_LT, x) = 0
  BY DEF LookupHas
<1>6. \A k \in 1 .. i : k = i \/ k \in 1 .. j
  OBVIOUS
<1>7. \A k \in 1 .. j : k \in 1 .. i /\ es[k].c # c /\ es[k].c \in Byte
  <2> SUFFICES ASSUME NEW k \in 1 .. j PROVE k \in 1 .. i /\ es[k].c # c /\ es[k].c \in Byte
    OBVIOUS
  <2>1. k \in 1 .. i /\ k # i /\ k \in DOMAIN es /\ i \in DOMAIN es /\ es[k] \in Element
    OBVIOUS
  <2>2. es[k].c # es[i].c
    BY <2>1 DEF Distinct
  <2> QED
    BY <2>1, <2>2, ElementFits
<1>8. i \in 1 .. i
  OBVIOUS
<1> HIDE DEF e, p, r, c, b, v, j
<1>9. /\ p \in Memory(n) /\ Agree(m, p, 0, BitmapOf_LT)
      /\ \A x \in Byte : /\ TableEntry(p, x) = TableEntry(m, x)
                         /\ GET_1BIT(p, BitmapOf_LT, x) =
                              IF x = c /\ b % 2 = 1 THEN 1 ELSE GET_1BIT(m, BitmapOf_LT, x)
  BY <1>3, <1>4, <1>5, TableBitIsSet, SMTT(60) DEF p, c, b
<1>10. /\ r \in Memory(n) /\ Agree(p, r, 0, TableOf_LT)
       /\ \A x \in Byte : TableEntry(r, x) = IF x = c THEN v ELSE TableEntry(p, x)
  BY <1>3, <1>9, EntryIsSet DEF r, c, v
<1>11. \A x \in Byte : GET_1BIT(r, BitmapOf_LT, x) = GET_1BIT(p, BitmapOf_LT, x)
  <2> DEFINE bitmap == BitmapOf_LT
             table == TableOf_LT
  <2>1. bitmap = 7 /\ table = 39 /\ n = 551
    BY DEF BitmapOf_LT, TableOf_LT, FAIL_IDX_LT, SIZE_IN_BYTES
  <2> HIDE DEF bitmap, table
  <2>2. bitmap \in Nat /\ table \in Nat /\ table <= n /\ 0 \in Nat /\ 0 <= bitmap /\ table <= table
    BY <2>1
  <2>3. Agree(p, r, 0, table)
    BY <1>10 DEF table
  <2>4. Agree(p, r, bitmap, table)
    BY <2>2, <2>3, PartAgrees
  <2>5. \A x \in Byte : x \in Nat /\ bitmap + x \div 8 < table
    BY <2>1 DEF Byte
  <2>6. \A x \in Nat : bitmap + x \div 8 < table => GET_1BIT(r, bitmap, x) = GET_1BIT(p, bitmap, x)
    BY <1>9, <1>10, <2>2, <2>4, BitsAgree
  <2> QED
    BY <2>5, <2>6 DEF bitmap
<1>12. Agree(d, r, 0, FAIL_IDX_LT) /\ Fetch(r, FAIL_IDX_LT) = fail
  <2>1. FAIL_IDX_LT = 5 /\ BitmapOf_LT = 7 /\ TableOf_LT = 39
    BY DEF BitmapOf_LT, TableOf_LT, FAIL_IDX_LT
  <2>2. \A a \in 0 .. 6 : r[a] = m[a]
    <3>1. \A a \in 0 .. 6 : a \in 0 .. BitmapOf_LT - 1 /\ a \in 0 .. TableOf_LT - 1
      BY <2>1
    <3> QED
      BY <3>1, <1>9, <1>10 DEF Agree
  <2>3. 5 \in 0 .. 6 /\ 6 \in 0 .. 6 /\ FAIL_IDX_LT + 1 = 6 /\ \A a \in 0 .. FAIL_IDX_LT - 1 : a \in 0 .. 6
    BY <2>1
  <2> QED
    BY <2>1, <2>2, <2>3, <1>5 DEF Agree, Fetch
<1>13. ASSUME NEW k \in 1 .. i
       PROVE  TableEntry(r, es[k].c) = es[k].ptr /\ GET_1BIT(r, BitmapOf_LT, es[k].c) = es[k].match
  <2>1. CASE k = i
    <3>1. TableEntry(r, c) = v
      BY <1>3, <1>10
    <3>2. \A q \in 1 .. j : es[q].c # c
      BY <1>7
    <3>3. GET_1BIT(m, BitmapOf_LT, c) = 0
      BY <1>3, <1>5, <3>2
    <3>4. GET_1BIT(r, BitmapOf_LT, c) = b
      BY <1>3, <1>4, <1>9, <1>11, <3>3
    <3> QED
      BY <2>1, <3>1, <3>4 DEF c, b, v, e
  <2>2. CASE k # i
    <3>1. k \in 1 .. j
      BY <1>6, <2>2
    <3> DEFINE x == es[k].c
    <3>2. x \in Byte /\ x # c
      BY <1>7, <3>1
    <3>3. TableEntry(m, x) = es[k].ptr /\ GET_1BIT(m, BitmapOf_LT, x) = es[k].match
      BY <1>5, <3>1
    <3> HIDE DEF x
    <3>4. TableEntry(r, x) = TableEntry(m, x) /\ GET_1BIT(r, BitmapOf_LT, x) = GET_1BIT(m, BitmapOf_LT, x)
      BY <1>9, <1>10, <1>11, <3>2
    <3> QED
      BY <3>3, <3>4 DEF x
  <2> QED
    BY <2>1, <2>2
<1>14. ASSUME NEW x \in Byte, \A k \in 1 .. i : es[k].c # x
       PROVE  TableEntry(r, x) = LOOKUP_VALUE_NOT_FOUND /\ GET_1BIT(r, BitmapOf_LT, x) = 0
  <2>1. x # c /\ \A k \in 1 .. j : es[k].c # x
    BY <1>7, <1>8, <1>14 DEF c, e
  <2>2. TableEntry(m, x) = LOOKUP_VALUE_NOT_FOUND /\ GET_1BIT(m, BitmapOf_LT, x) = 0
    BY <1>5, <2>1
  <2> QED
    BY <1>9, <1>10, <1>11, <2>1, <2>2
<1>15. r \in LookupHas(n, d, es, fail, i)
  BY <1>10, <1>12, <1>13, <1>14 DEF LookupHas
<1> QED
  BY <1>1, <1>15

\* What the loop starts with: a table of ones and a bitmap of zeros.
LEMMA LookupIsClean ==
    ASSUME NEW n \in Nat, n = SIZE_IN_BYTES, NEW d \in Memory(n), NEW es, NEW fail \in StateId, NEW m,
           m = Fill(Fill(SetPtr(d, FAIL_IDX_LT, fail), BitmapOf_LT, 32, 0), TableOf_LT, 256 * PTR_SIZE, 255)
    PROVE  m \in LookupHas(n, d, es, fail, 0)
<1> DEFINE idx == FAIL_IDX_LT
           bitmap == BitmapOf_LT
           table == TableOf_LT
           size == 32
           length == 256 * PTR_SIZE
           b == 255
           p == Fill(SetPtr(d, idx, fail), bitmap, size, 0)
<1>1. idx = 5 /\ bitmap = 7 /\ table = 39 /\ n = 551 /\ size = 32 /\ length = 512 /\ PTR_SIZE = 2
  BY DEF BitmapOf_LT, TableOf_LT, FAIL_IDX_LT, SIZE_IN_BYTES, PTR_SIZE
<1>2. m = Fill(p, table, length, b) /\ b \in Byte /\ b = 255
  BY DEF Byte
<1> HIDE DEF idx, bitmap, table, size, length, b, p
<1>3. /\ idx \in Nat /\ bitmap \in Nat /\ table \in Nat /\ size \in Nat /\ length \in Nat
      /\ idx + 2 <= bitmap /\ bitmap + size <= n /\ bitmap + size <= table /\ idx <= table /\ idx <= n
      /\ idx + 1 < table /\ idx + 1 < n /\ 0 \in Nat /\ table <= table /\ table <= n
  BY <1>1
<1>4. /\ p \in Memory(n) /\ Agree(d, p, 0, idx) /\ Fetch(p, idx) = fail
      /\ \A a \in bitmap .. bitmap + size - 1 : p[a] = 0
  BY <1>3, FailureAndZeros DEF p
<1>5. /\ m \in Memory(n) /\ SameBut(p, m, table, length)
      /\ \A a \in 0 .. n - 1 : table <= a /\ a < table + length => m[a] = b
  <2>1. \A x \in Byte :
          /\ Fill(p, table, length, x) \in Memory(n) /\ SameBut(p, Fill(p, table, length, x), table, length)
          /\ \A a \in 0 .. n - 1 : table <= a /\ a < table + length => Fill(p, table, length, x)[a] = x
    BY <1>3, <1>4, RegionIsFilled
  <2> QED
    BY <1>2, <2>1
<1>6. Agree(p, m, 0, table)
  BY <1>3, <1>4, <1>5, BesideAgrees
<1>7. Agree(d, m, 0, idx)
  <2>1. Agree(p, m, 0, idx)
    BY <1>1, <1>6 DEF Agree
  <2> QED
    BY <1>3, <1>4, <2>1, AgreeTwice
<1>8. Fetch(m, idx) = fail
  <2>1. Fetch(m, idx) = Fetch(p, idx)
    BY <1>3, <1>4, <1>5, FetchOutside
  <2> QED
    BY <2>1, <1>4
<1>9. ASSUME NEW c \in Byte PROVE TableEntry(m, c) = LOOKUP_VALUE_NOT_FOUND
  <2> DEFINE a == TableOf_LT + PTR_SIZE * c
  <2>1. c \in Nat /\ c <= 255
    BY DEF Byte
  <2>2. a = 39 + 2 * c
    BY <1>1, <2>1 DEF table
  <2>3. TableEntry(m, c) = m[a + 1] * 256 + m[a]
    BY DEF TableEntry, Fetch
  <2> HIDE DEF a
  <2>4. /\ a \in 0 .. n - 1 /\ table <= a /\ a < table + length
        /\ a + 1 \in 0 .. n - 1 /\ table <= a + 1 /\ a + 1 < table + length
    BY <1>1, <2>1, <2>2
  <2>5. m[a] = 255 /\ m[a + 1] = 255
    BY <1>2, <1>5, <2>4
  <2> QED
    BY <2>3, <2>5 DEF LOOKUP_VALUE_NOT_FOUND
<1>10. ASSUME NEW c \in Byte PROVE GET_1BIT(m, bitmap, c) = 0
  <2>1. \A a \in bitmap .. bitmap + size - 1 : m[a] = 0
    <3>1. \A a \in bitmap .. bitmap + size - 1 : a \in 0 .. table - 1
      BY <1>1
    <3> QED
      BY <3>1, <1>4, <1>6 DEF Agree
  <2>2. \A k \in 0 .. 8 * size - 1 : GET_1BIT(m, bitmap, k) = 0
    BY <1>3, <1>5, <2>1, ZeroBits
  <2>3. c \in 0 .. 8 * size - 1
    BY <1>1 DEF Byte
  <2> QED
    BY <2>2, <2>3
<1>11. 1 .. 0 = {}
  OBVIOUS
<1> QED
  BY <1>5, <1>7, <1>8, <1>9, <1>10, <1>11 DEF LookupHas, idx, bitmap

\* The writer leaves a memory with all of them.
LEMMA LookupIsSet ==
    ASSUME NEW n \in Nat, n = SIZE_IN_BYTES, NEW d \in Memory(n), NEW given \in Seq(Element),
           NEW l \in Nat, Length14(d) = l, l <= Len(given), NEW fail \in StateId,
           NEW es, es = SubSeq(given, 1, l), Distinct(es)
    PROVE  setStateData_LT(d, given, fail) \in LookupHas(n, d, es, fail, l)
<1> DEFINE set == [m \in Memories(d) |-> [i \in Nat |-> SetChild_LT(es, m, i)]]
           clean == Fill(Fill(SetPtr(d, FAIL_IDX_LT, fail), BitmapOf_LT, 32, 0), TableOf_LT, 256 * PTR_SIZE, 255)
           P == [i \in Nat |-> LookupHas(n, d, es, fail, i)]
<1>1. es \in Seq(Element) /\ Len(es) = l
  BY Given
<1>2. setStateData_LT(d, given, fail) = ForEach(es, clean, set)
  BY DEF setStateData_LT
<1>3. ASSUME NEW m \in Memory(n), NEW i \in Nat PROVE set[m][i] = SetChild_LT(es, m, i)
  <2>1. m \in Memories(d)
    BY MemoryOf
  <2> QED
    BY <2>1
<1>4. ASSUME NEW i \in 1 .. l, NEW m \in LookupHas(n, d, es, fail, i - 1)
      PROVE  SetChild_LT(es, m, i) \in LookupHas(n, d, es, fail, i)
  BY <1>1, LookupRound
<1>5. clean \in LookupHas(n, d, es, fail, 0)
  BY LookupIsClean
<1> HIDE DEF set, clean
<1>6. clean \in P[0] /\ \A i \in 1 .. l : \A m \in P[i - 1] : set[m][i] \in P[i]
  <2>1. clean \in P[0]
    BY <1>5
  <2>2. ASSUME NEW i \in 1 .. l, NEW m \in P[i - 1] PROVE set[m][i] \in P[i]
    <3>1. i \in Nat /\ i - 1 \in Nat
      OBVIOUS
    <3>2. m \in LookupHas(n, d, es, fail, i - 1)
      BY <3>1
    <3>3. m \in Memory(n)
      BY <3>2 DEF LookupHas
    <3> QED
      BY <1>3, <1>4, <3>1, <3>2, <3>3
  <2> QED
    BY <2>1, <2>2
<1> HIDE DEF P
<1>7. Len(es) \in Nat
  BY <1>1
<1>8. ForEach(es, clean, set) \in P[Len(es)]
  BY <1>1, <1>6, <1>7, ForEachKeeps
<1> QED
  BY <1>1, <1>2, <1>8 DEF P

-----------------------------------------------------------------------------
(* The writer of compressed paths.                                         *)

\* The elements of a path as its layout needs them.
PathFits(e) == e.c \in Byte /\ e.match \in {0, 1} /\ e.type \in 0 .. 3 /\ e.ptr \in Nat /\ e.ptr <= 65535

\* The matches and the types of the first i elements are stored, the others
\* are zero.
MatchesAre(m, matches, es, l, i) ==
    \A k \in 0 .. l - 1 : GET_1BIT(m, matches, k) = IF k < i THEN es[k + 1].match ELSE 0
TypesAre(m, flags, es, l, i) ==
    \A k \in 0 .. l - 1 : GET_2BITS(m, flags, k) = IF k < i THEN es[k + 1].type ELSE 0

\* The memories with the first i elements.
PathHas(n, d, es, next, i) ==
    {m \in Memory(n) :
        /\ Agree(d, m, 0, GOTO_IDX) /\ Fetch(m, GOTO_IDX) = next
        /\ \A k \in 1 .. i : m[GOTO_IDX + 1 + k] = es[k].c
        /\ MatchesAre(m, MatchesOf_PC(d), es, Len(es), i)
        /\ TypesAre(m, FlagsOf_PC(d), es, Len(es), i)
        /\ PtrsAre(m, FailuresOf_PC(d), es, i)}

\* Where nothing changes the matches and the types stay.
LEMMA MatchesStay ==
    ASSUME NEW n \in Nat, NEW m \in Memory(n), NEW r \in Memory(n), NEW es, NEW l \in Nat,
           NEW at \in Nat, NEW to \in Nat, at + CeilDiv(l, 8) <= to, to <= n, Agree(m, r, at, to),
           NEW i, MatchesAre(m, at, es, l, i)
    PROVE  MatchesAre(r, at, es, l, i)
<1>1. ASSUME NEW k \in 0 .. l - 1 PROVE GET_1BIT(r, at, k) = GET_1BIT(m, at, k)
  <2>1. k \in Nat /\ at + k \div 8 < at + CeilDiv(l, 8) /\ CeilDiv(l, 8) \in Nat
    BY DEF CeilDiv
  <2>2. k \div 8 \in Nat
    OBVIOUS
  <2>3. at + k \div 8 < to
    BY <2>1, <2>2
  <2> QED
    BY <2>1, <2>3, BitsAgree
<1> QED
  BY <1>1 DEF MatchesAre

\* As MatchesStay, for the types.
LEMMA TypesStay ==
    ASSUME NEW n \in Nat, NEW m \in Memory(n), NEW r \in Memory(n), NEW es, NEW l \in Nat,
           NEW at \in Nat, NEW to \in Nat, at + CeilDiv(l, 4) <= to, to <= n, Agree(m, r, at, to),
           NEW i, TypesAre(m, at, es, l, i)
    PROVE  TypesAre(r, at, es, l, i)
<1>1. ASSUME NEW k \in 0 .. l - 1 PROVE GET_2BITS(r, at, k) = GET_2BITS(m, at, k)
  <2>1. k \in Nat /\ at + (2 * k + 1) \div 8 < at + CeilDiv(l, 4) /\ CeilDiv(l, 4) \in Nat
    BY DEF CeilDiv
  <2>2. (2 * k + 1) \div 8 \in Nat
    OBVIOUS
  <2>3. at + (2 * k + 1) \div 8 < to
    BY <2>1, <2>2
  <2> QED
    BY <2>1, <2>3, BitsAgree
<1> QED
  BY <1>1 DEF TypesAre

\* The next match and the next type are added.
LEMMA MatchIsAdded ==
    ASSUME NEW n \in Nat, NEW m \in Memory(n), NEW es, NEW l \in Nat, NEW i \in 1 .. l,
           es[i].match \in {0, 1}, NEW at \in Nat, at + CeilDiv(l, 8) <= n,
           MatchesAre(m, at, es, l, i - 1), NEW r, r = SET_1BIT(m, at, i - 1, es[i].match)
    PROVE  /\ r \in Memory(n) /\ SameBut(m, r, at, CeilDiv(l, 8)) /\ MatchesAre(r, at, es, l, i)
<1> DEFINE v == es[i].match
           j == i - 1
<1>1. v \in Nat /\ j \in 0 .. l - 1 /\ j + 1 = i /\ (v % 2 = 1 => v = 1) /\ (v % 2 # 1 => v = 0)
  OBVIOUS
<1>2. r = SET_1BIT(m, at, j, v) /\ MatchesAre(m, at, es, l, j)
  OBVIOUS
<1> HIDE DEF v, j
<1>3. r \in Memory(n) /\ SameBut(m, r, at, CeilDiv(l, 8)) /\ OneIsSet(l, m, r, at, j, v)
  BY <1>1, <1>2, SetOne
<1>4. ASSUME NEW k \in 0 .. l - 1
      PROVE  GET_1BIT(r, at, k) = IF k < i THEN es[k + 1].match ELSE 0
  <2>1. GET_1BIT(r, at, k) = IF k = j /\ v % 2 = 1 THEN 1 ELSE GET_1BIT(m, at, k)
    BY <1>3 DEF OneIsSet
  <2>2. GET_1BIT(m, at, k) = IF k < j THEN es[k + 1].match ELSE 0
    BY <1>2 DEF MatchesAre
  <2>3. k = j => v = es[k + 1].match
    BY <1>1 DEF v
  <2>4. /\ k < j => k < i /\ k # j
        /\ ~ (k < j) /\ k # j => ~ (k < i)
        /\ k = j => k < i /\ ~ (k < j)
    BY <1>1
  <2> QED
    BY <1>1, <2>1, <2>2, <2>3, <2>4
<1> QED
  BY <1>3, <1>4 DEF MatchesAre

\* As MatchIsAdded, for the types.
LEMMA TypeIsAdded ==
    ASSUME NEW n \in Nat, NEW m \in Memory(n), NEW es, NEW l \in Nat, NEW i \in 1 .. l,
           es[i].type \in 0 .. 3, NEW at \in Nat, at + CeilDiv(l, 4) <= n,
           TypesAre(m, at, es, l, i - 1), NEW r, r = SET_2BITS(m, at, i - 1, es[i].type)
    PROVE  /\ r \in Memory(n) /\ SameBut(m, r, at, CeilDiv(l, 4)) /\ TypesAre(r, at, es, l, i)
<1> DEFINE v == es[i].type
           j == i - 1
<1>1. v \in 0 .. 3 /\ j \in 0 .. l - 1 /\ j + 1 = i
  OBVIOUS
<1>2. r = SET_2BITS(m, at, j, v) /\ TypesAre(m, at, es, l, j)
  OBVIOUS
<1> HIDE DEF v, j
<1>0. GET_2BITS(m, at, j) = 0
  BY <1>1, <1>2 DEF TypesAre
<1>3. r \in Memory(n) /\ SameBut(m, r, at, CeilDiv(l, 4)) /\ TwoAreSet(l, m, r, at, j, v)
  BY <1>0, <1>1, <1>2, SetTwo
<1>4. ASSUME NEW k \in 0 .. l - 1
      PROVE  GET_2BITS(r, at, k) = IF k < i THEN es[k + 1].type ELSE 0
  <2>1. GET_2BITS(r, at, k) = IF k = j THEN v ELSE GET_2BITS(m, at, k)
    BY <1>3 DEF TwoAreSet
  <2>2. GET_2BITS(m, at, k) = IF k < j THEN es[k + 1].type ELSE 0
    BY <1>2 DEF TypesAre
  <2>3. k = j => v = es[k + 1].type
    BY <1>1 DEF v
  <2>4. /\ k < j => k < i /\ k # j
        /\ ~ (k < j) /\ k # j => ~ (k < i)
        /\ k = j => k < i /\ ~ (k < j)
    BY <1>1
  <2> QED
    BY <2>1, <2>2, <2>3, <2>4
<1> QED
  BY <1>3, <1>4 DEF TypesAre

\* A round of the loop adds a position.
LEMMA PathRound ==
    ASSUME NEW n \in Nat, NEW d, NEW es, NEW l \in Nat, Len(es) = l, Length14(d) = l,
           FailuresOf_PC(d) + 2 * RegularIn(es, l) <= n, NEW next,
           NEW i \in 1 .. l, PathFits(es[i]), NEW m \in PathHas(n, d, es, next, i - 1)
    PROVE  SetPosition_PC(d, es, m, i) \in PathHas(n, d, es, next, i)
<1> DEFINE matches == MatchesOf_PC(d)
           flags == FlagsOf_PC(d)
           ptrs == FailuresOf_PC(d)
           at == GOTO_IDX + 1 + i
           j == i - 1
           p == [m EXCEPT ![at] = es[i].c]
           q == SET_1BIT(p, matches, j, es[i].match)
           s == SET_2BITS(q, flags, j, es[i].type)
           r == SetPosition_PC(d, es, m, i)
           size1 == CeilDiv(l, 8)
           size2 == CeilDiv(l, 4)
<1>1. /\ matches = 8 + l /\ flags = matches + size1 /\ ptrs = flags + size2 /\ at = 7 + i
      /\ j + 1 = i /\ j \in Nat /\ j <= l
  BY DEF MatchesOf_PC, FlagsOf_PC, FailuresOf_PC, GOTO_IDX
<1>2. r = StorePtr(s, ptrs, es, i)
  BY DEF SetPosition_PC
<1>3. /\ m \in Memory(n) /\ Agree(d, m, 0, 6) /\ Fetch(m, 6) = next
      /\ \A k \in 1 .. j : m[7 + k] = es[k].c
      /\ MatchesAre(m, matches, es, l, j) /\ TypesAre(m, flags, es, l, j) /\ PtrsAre(m, ptrs, es, j)
  BY DEF PathHas, GOTO_IDX
<1>4. /\ es[i].c \in Byte /\ es[i].match \in {0, 1} /\ es[i].type \in 0 .. 3
      /\ es[i].ptr \in Nat /\ es[i].ptr <= 65535
  BY DEF PathFits
<1>5. ptrs + 2 * RegularIn(es, l) <= n
  OBVIOUS
<1>6. size1 \in Nat /\ size2 \in Nat /\ RegularIn(es, l) \in Nat
  <2>1. RegularIn(es, l) \in Nat
    BY RegularRange
  <2>2. size1 \in Nat /\ size2 \in Nat
    BY DEF CeilDiv
  <2> QED
    BY <2>1, <2>2
<1>7. flags = matches + CeilDiv(l, 8) /\ ptrs = flags + CeilDiv(l, 4)
  BY <1>1
<1> HIDE DEF matches, flags, ptrs, at, p, q, s, r, size1, size2
<1>8. /\ matches \in Nat /\ flags \in Nat /\ ptrs \in Nat /\ at \in Nat /\ at < n /\ at + 1 <= matches
      /\ matches <= flags /\ flags <= ptrs /\ ptrs <= n /\ at <= n /\ at <= at /\ n <= n /\ 0 \in Nat /\ 1 \in Nat
      /\ matches <= n /\ flags <= n /\ matches + size1 <= flags /\ flags + size2 <= ptrs
      /\ matches <= matches /\ flags <= flags /\ ptrs <= ptrs /\ flags + size2 <= n /\ matches + size1 <= n
  BY <1>1, <1>5, <1>6
<1>9. matches + CeilDiv(l, 8) <= flags /\ flags + CeilDiv(l, 4) <= ptrs
  BY <1>7, <1>8
<1>10. matches + CeilDiv(l, 8) <= n /\ flags + CeilDiv(l, 4) <= n
  BY <1>7, <1>8
\* The character.
<1>11. p \in Memory(n) /\ SameBut(m, p, at, 1) /\ p[at] = es[i].c
  BY <1>3, <1>4, <1>8, ByteIsSet DEF p
<1>12. Agree(m, p, 0, at)
  BY <1>3, <1>8, <1>11, BesideAgrees
<1>13. Agree(m, p, matches, n)
  BY <1>3, <1>8, <1>11, BesideAgrees
<1>14. Agree(m, p, flags, n) /\ Agree(m, p, ptrs, n)
  BY <1>1, <1>6, <1>8, <1>13 DEF Agree
<1>15. MatchesAre(p, matches, es, l, j)
  BY <1>3, <1>8, <1>10, <1>11, <1>13, MatchesStay
<1>16. TypesAre(p, flags, es, l, j)
  BY <1>3, <1>8, <1>10, <1>11, <1>14, TypesStay
<1>17. PtrsAre(p, ptrs, es, j)
  BY <1>1, <1>3, <1>5, <1>8, <1>11, <1>14, PtrsStay
\* The match.
<1>18. q \in Memory(n) /\ SameBut(p, q, matches, size1) /\ MatchesAre(q, matches, es, l, i)
  BY SMTT(20), <1>4, <1>8, <1>10, <1>11, <1>15, MatchIsAdded DEF q, size1
<1>19. Agree(p, q, 0, matches)
  BY <1>6, <1>8, <1>11, <1>18, BesideAgrees
<1>20. Agree(p, q, flags, n)
  BY <1>6, <1>8, <1>11, <1>18, BesideAgrees
<1>21. Agree(p, q, ptrs, n)
  BY <1>1, <1>6, <1>8, <1>20 DEF Agree
<1>22. TypesAre(q, flags, es, l, j)
  BY <1>8, <1>10, <1>11, <1>16, <1>18, <1>20, TypesStay
<1>23. PtrsAre(q, ptrs, es, j)
  BY <1>1, <1>5, <1>8, <1>11, <1>17, <1>18, <1>21, PtrsStay
\* The type.
<1>24. s \in Memory(n) /\ SameBut(q, s, flags, size2) /\ TypesAre(s, flags, es, l, i)
  BY SMTT(20), <1>4, <1>8, <1>10, <1>18, <1>22, TypeIsAdded DEF s, size2
<1>25. Agree(q, s, 0, flags)
  BY <1>6, <1>8, <1>18, <1>24, BesideAgrees
<1>26. Agree(q, s, ptrs, n)
  BY <1>6, <1>8, <1>18, <1>24, BesideAgrees
<1>27. Agree(q, s, matches, flags)
  BY <1>8, <1>25, PartAgrees
<1>28. MatchesAre(s, matches, es, l, i)
  BY <1>8, <1>9, <1>18, <1>24, <1>27, MatchesStay
<1>29. PtrsAre(s, ptrs, es, i - 1)
  BY <1>1, <1>5, <1>8, <1>18, <1>23, <1>24, <1>26, PtrsStay
\* The pointer.
<1>30. es[i].type = REGULAR => PtrPlace(n, ptrs, es, i) /\ es[i].ptr \in Nat /\ es[i].ptr <= 65535
  BY <1>4, <1>5, <1>8, PtrsHavePlaces
<1>31. /\ r \in Memory(n) /\ \A a \in 0 .. n - 1 : a < ptrs => r[a] = s[a]
       /\ PtrsAre(r, ptrs, es, i)
  <2>1. i \in Nat /\ i # 0
    OBVIOUS
  <2> QED
    BY <1>2, <1>8, <1>24, <1>29, <1>30, <2>1, PtrIsAdded
<1>32. Agree(s, r, 0, ptrs)
  BY <1>8, <1>31 DEF Agree
<1>33. Agree(s, r, matches, flags) /\ Agree(s, r, flags, ptrs)
  <2>1. 0 <= matches /\ 0 <= flags
    BY <1>8
  <2>2. Agree(s, r, matches, flags)
    BY <1>8, <1>32, <2>1, PartAgrees
  <2>3. Agree(s, r, flags, ptrs)
    BY <1>8, <1>32, <2>1, PartAgrees
  <2> QED
    BY <2>2, <2>3
<1>34. MatchesAre(r, matches, es, l, i)
  BY <1>8, <1>9, <1>24, <1>28, <1>31, <1>33, MatchesStay
<1>35. TypesAre(r, flags, es, l, i)
  BY <1>8, <1>9, <1>24, <1>31, <1>33, TypesStay
<1>36. \A a \in 0 .. matches - 1 : r[a] = p[a]
  <2>1. \A a \in 0 .. matches - 1 : a \in 0 .. flags - 1 /\ a \in 0 .. ptrs - 1
    BY <1>8
  <2> QED
    BY <2>1, <1>19, <1>25, <1>32 DEF Agree
<1>37. \A a \in 0 .. at - 1 : a \in 0 .. matches - 1 /\ r[a] = m[a]
  <2>1. \A a \in 0 .. at - 1 : a \in 0 .. matches - 1
    BY <1>8
  <2> QED
    BY <2>1, <1>12, <1>36 DEF Agree
<1>38. Agree(d, r, 0, 6) /\ Fetch(r, 6) = next
  <2>1. 6 \in 0 .. at - 1 /\ 7 \in 0 .. at - 1 /\ \A a \in 0 .. 5 : a \in 0 .. at - 1
    BY <1>1
  <2> QED
    BY <2>1, <1>3, <1>37 DEF Agree, Fetch
<1>39. ASSUME NEW k \in 1 .. i PROVE r[7 + k] = es[k].c
  <2>1. CASE k = i
    <3>1. at \in 0 .. matches - 1 /\ 7 + k = at
      BY <1>1, <1>8, <2>1
    <3> QED
      BY <3>1, <1>11, <1>36, <2>1
  <2>2. CASE k # i
    <3>1. k \in 1 .. j /\ 7 + k \in 0 .. at - 1
      BY <1>1, <2>2
    <3> QED
      BY <3>1, <1>3, <1>37
  <2> QED
    BY <2>1, <2>2
<1>40. r \in PathHas(n, d, es, next, i)
  BY <1>31, <1>34, <1>35, <1>38, <1>39 DEF PathHas, GOTO_IDX, matches, flags, ptrs
<1> QED
  BY <1>40 DEF r

\* In a path a failure to the root has type LEVEL0; all else is as it was.
LEMMA Level0 ==
    ASSUME NEW given \in Seq(Element)
    PROVE  /\ Len(WithLevel0(given)) = Len(given) /\ DOMAIN WithLevel0(given) = 1 .. Len(given)
           /\ \A k \in 1 .. Len(given) :
                 /\ PathFits(WithLevel0(given)[k])
                 /\ WithLevel0(given)[k].c = given[k].c /\ WithLevel0(given)[k].ptr = given[k].ptr
                 /\ WithLevel0(given)[k].match = given[k].match
                 /\ WithLevel0(given)[k].type = IF given[k].ptr = 0 THEN LEVEL0 ELSE given[k].type
<1> DEFINE l == Len(given)
           At(k) == IF given[k].ptr = 0 THEN [given[k] EXCEPT !.type = LEVEL0] ELSE given[k]
           es == WithLevel0(given)
<1>1. l \in Nat /\ DOMAIN given = 1 .. l /\ \A k \in 1 .. l : given[k] \in Element
  OBVIOUS
<1>2. es = [k \in 1 .. l |-> At(k)]
  BY <1>1 DEF WithLevel0
<1>3. ASSUME NEW k \in 1 .. l
      PROVE  /\ PathFits(At(k)) /\ At(k).c = given[k].c /\ At(k).ptr = given[k].ptr
             /\ At(k).match = given[k].match
             /\ At(k).type = IF given[k].ptr = 0 THEN LEVEL0 ELSE given[k].type
  <2> DEFINE e == given[k]
             f == At(k)
  <2>1. e \in Element
    BY <1>1
  <2>2. e \in [c : Byte, ptr : StateId, type : {REGULAR, LEVEL1, LEVEL2}, match : {0, 1}]
    BY <2>1 DEF Element
  <2>3. /\ f.c = e.c /\ f.ptr = e.ptr /\ f.match = e.match
        /\ f.type = IF e.ptr = 0 THEN LEVEL0 ELSE e.type
    <3>1. CASE e.ptr = 0
      <4>1. f = [e EXCEPT !.type = LEVEL0]
        BY <3>1
      <4> HIDE DEF f, e
      <4> QED
        BY <2>2, <3>1, <4>1
    <3>2. CASE e.ptr # 0
      BY <3>2
    <3> QED
      BY <3>1, <3>2
  <2>4. /\ e.c \in Byte /\ e.match \in {0, 1} /\ e.type \in {REGULAR, LEVEL1, LEVEL2}
        /\ e.ptr \in Nat /\ e.ptr <= 65535
    BY <2>1, ElementFits DEF Fits
  <2>5. e.type \in 0 .. 3 /\ LEVEL0 \in 0 .. 3
    BY <2>4 DEF REGULAR, LEVEL0, LEVEL1, LEVEL2
  <2> HIDE DEF e, f
  <2>6. PathFits(f)
    BY <2>3, <2>4, <2>5 DEF PathFits
  <2> QED
    BY <2>3, <2>6 DEF e, f
<1> HIDE DEF At
<1>4. Len(es) = l /\ DOMAIN es = 1 .. l
  BY <1>1, <1>2
<1>5. \A k \in 1 .. l : es[k] = At(k)
  BY <1>2
<1> HIDE DEF es
<1>6. \A k \in 1 .. l : /\ PathFits(es[k])
                 /\ es[k].c = given[k].c /\ es[k].ptr = given[k].ptr
                 /\ es[k].match = given[k].match
                 /\ es[k].type = IF given[k].ptr = 0 THEN LEVEL0 ELSE given[k].type
  BY <1>3, <1>5
<1> QED
  BY <1>4, <1>6 DEF es

\* The writer leaves a memory with all of them.
LEMMA PathIsSet ==
    ASSUME NEW n \in Nat, NEW d \in Memory(n), NEW given \in Seq(Element), NEW l \in Nat,
           Length14(d) = l, l <= Len(given), NEW next \in StateId,
           NEW es, es = WithLevel0(SubSeq(given, 1, l)), FailuresOf_PC(d) + 2 * RegularIn(es, l) <= n
    PROVE  setStateData_PC(d, given, next) \in PathHas(n, d, es, next, l)
<1> DEFINE set == [m \in Memories(d) |-> [i \in Nat |-> SetPosition_PC(d, es, m, i)]]
           size1 == CeilDiv(l, 8)
           size2 == CeilDiv(l, 4)
           size == size1 + size2
           matches == MatchesOf_PC(d)
           flags == FlagsOf_PC(d)
           idx == GOTO_IDX
           clean == Fill(SetPtr(d, idx, next), matches, size, 0)
           P == [i \in Nat |-> PathHas(n, d, es, next, i)]
<1>1. Len(es) = l /\ \A k \in 1 .. l : PathFits(es[k])
  <2>1. SubSeq(given, 1, l) \in Seq(Element) /\ Len(SubSeq(given, 1, l)) = l
    BY Given
  <2> QED
    BY <2>1, Level0
<1>2. setStateData_PC(d, given, next) = ForEach(es, clean, set)
  BY DEF setStateData_PC
<1>3. ASSUME NEW m \in Memory(n), NEW i \in Nat PROVE set[m][i] = SetPosition_PC(d, es, m, i)
  <2>1. m \in Memories(d)
    BY MemoryOf
  <2> QED
    BY <2>1
<1>4. ASSUME NEW i \in 1 .. l, NEW m \in PathHas(n, d, es, next, i - 1)
      PROVE  SetPosition_PC(d, es, m, i) \in PathHas(n, d, es, next, i)
  <2>1. PathFits(es[i])
    BY <1>1
  <2> QED
    BY <1>1, <2>1, PathRound
<1>5. clean \in PathHas(n, d, es, next, 0)
  <2>1. /\ idx = 6 /\ matches = 8 + l /\ flags = matches + size1 /\ FailuresOf_PC(d) = flags + size2
    BY DEF MatchesOf_PC, FlagsOf_PC, FailuresOf_PC, GOTO_IDX
  <2>2. size1 \in Nat /\ size2 \in Nat
    BY DEF CeilDiv
  <2>3. RegularIn(es, l) \in Nat
    BY RegularRange
  <2>4. \A k \in 0 .. l - 1 : k \in Nat /\ k \in 0 .. 8 * size1 - 1 /\ 2 * k + 1 < 8 * size2 /\ ~ (k < 0)
    BY DEF CeilDiv
  <2>5. clean = Fill(SetPtr(d, idx, next), matches, size, 0) /\ size = size1 + size2
    OBVIOUS
  <2> HIDE DEF size1, size2, size, matches, flags, idx, clean
  <2>6. /\ idx \in Nat /\ matches \in Nat /\ flags \in Nat /\ size \in Nat
        /\ idx + 2 <= matches /\ matches + size <= n /\ matches + size1 <= n /\ flags + size2 <= n
    BY <2>1, <2>2, <2>3, <2>5
  <2>7. /\ clean \in Memory(n) /\ Agree(d, clean, 0, idx) /\ Fetch(clean, idx) = next
        /\ \A a \in matches .. matches + size - 1 : clean[a] = 0
    BY <2>5, <2>6, FailureAndZeros
  <2>8. MatchesAre(clean, matches, es, Len(es), 0)
    <3>1. \A a \in matches .. matches + size1 - 1 : clean[a] = 0
      <4>1. \A a \in matches .. matches + size1 - 1 : a \in matches .. matches + size - 1
        BY <2>2, <2>5, <2>6
      <4> QED
        BY <4>1, <2>7
    <3>2. \A k \in 0 .. 8 * size1 - 1 : GET_1BIT(clean, matches, k) = 0
      BY <2>2, <2>6, <2>7, <3>1, ZeroBits
    <3> QED
      BY <1>1, <2>4, <3>2 DEF MatchesAre
  <2>9. TypesAre(clean, flags, es, Len(es), 0)
    <3>1. \A a \in flags .. flags + size2 - 1 : clean[a] = 0
      <4>1. \A a \in flags .. flags + size2 - 1 : a \in matches .. matches + size - 1
        BY <2>1, <2>2, <2>5, <2>6
      <4> QED
        BY <4>1, <2>7
    <3>2. \A k \in Nat : 2 * k + 1 < 8 * size2 => GET_2BITS(clean, flags, k) = 0
      BY <2>2, <2>6, <2>7, <3>1, ZeroBits
    <3> QED
      BY <1>1, <2>4, <3>2 DEF TypesAre
  <2>10. PtrsAre(clean, FailuresOf_PC(d), es, 0) /\ 1 .. 0 = {}
    BY DEF PtrsAre
  <2> QED
    BY <2>7, <2>8, <2>9, <2>10 DEF PathHas, matches, flags, idx
<1> HIDE DEF set, clean
<1>6. clean \in P[0] /\ \A i \in 1 .. l : \A m \in P[i - 1] : set[m][i] \in P[i]
  <2>1. clean \in P[0]
    BY <1>5
  <2>2. ASSUME NEW i \in 1 .. l, NEW m \in P[i - 1] PROVE set[m][i] \in P[i]
    <3>1. i \in Nat /\ i - 1 \in Nat
      OBVIOUS
    <3>2. m \in PathHas(n, d, es, next, i - 1)
      BY <3>1
    <3>3. m \in Memory(n)
      BY <3>2 DEF PathHas
    <3> QED
      BY <1>3, <1>4, <3>1, <3>2, <3>3
  <2> QED
    BY <2>1, <2>2
<1> HIDE DEF P
<1>7. Len(es) \in Nat
  BY <1>1
<1>8. ForEach(es, clean, set) \in P[Len(es)]
  BY <1>1, <1>6, <1>7, ForEachKeeps
<1> QED
  BY <1>1, <1>2, <1>8 DEF P

-----------------------------------------------------------------------------
(* The writers of simple states leave bytes.                               *)

\* A pointer set at any place inside the memory leaves a memory.
LEMMA PtrAnywhere ==
    ASSUME NEW n \in Nat, NEW m \in Memory(n), NEW at \in Nat, NEW v \in Nat
    PROVE  SetPtr(m, at, v) \in Memory(n)
<1>1. Lo(v) \in Byte /\ Hi(v) \in Byte
  <2>1. v % 256 \in 0 .. 255 /\ v \div 256 \in Nat
    OBVIOUS
  <2> DEFINE w == v \div 256
  <2> HIDE DEF w
  <2>2. w \in Nat
    BY <2>1 DEF w
  <2>3. w % 256 \in 0 .. 255
    BY <2>2
  <2> QED
    BY <2>1, <2>3 DEF Lo, Hi, Byte, w
<1> DEFINE p == [m EXCEPT ![at] = Lo(v)]
<1>2. p \in Memory(n)
  BY <1>1, ByteIsSet
<1>3. SetPtr(m, at, v) = [p EXCEPT ![at + 1] = Hi(v)]
  BY DEF SetPtr
<1> HIDE DEF p
<1> DEFINE a == at + 1
           b == Hi(v)
<1>4. a \in Nat /\ b \in Byte
  BY <1>1
<1> HIDE DEF a, b
<1>5. [p EXCEPT ![a] = b] \in Memory(n)
  BY <1>2, <1>4, ByteIsSet
<1> QED
  BY <1>3, <1>5 DEF a, b

\* A bit set at any place inside the memory leaves a memory.
LEMMA BitAnywhere ==
    ASSUME NEW n \in Nat, NEW m \in Memory(n), NEW at \in Nat, NEW i \in Nat, NEW v \in Nat
    PROVE  SET_1BIT(m, at, i, v) \in Memory(n)
<1>1. CASE at + i \div 8 < n
  BY <1>1, SetBit
<1>2. CASE ~ (at + i \div 8 < n)
  <2> DEFINE a == at + i \div 8
  <2>1. DOMAIN m = 0 .. n - 1 /\ a \notin 0 .. n - 1
    BY <1>2 DEF Memory
  <2>2. SET_1BIT(m, at, i, v) = m \/ SET_1BIT(m, at, i, v) = [m EXCEPT ![a] = @ + 2 ^ (i % 8)]
    BY DEF SET_1BIT
  <2> HIDE DEF a
  <2>3. \A x : [m EXCEPT ![a] = x] = m
    BY <2>1 DEF Memory
  <2> QED
    BY <2>2, <2>3
<1> QED
  BY <1>1, <1>2

\* A round of either loop.
LEMMA SimpleRounds ==
    ASSUME NEW n \in Nat, NEW m \in Memory(n), NEW given \in Seq(Element), NEW i \in 1 .. Len(given),
           NEW bits \in Nat, NEW ptrs \in Nat
    PROVE  /\ SetChild_Table(bits, ptrs, given, m, i) \in Memory(n)
           /\ SetChild_SLE(bits, ptrs, given, m, i) \in Memory(n)
<1> DEFINE c == given[i].c
           v == given[i].ptr
           j == i - 1
<1>1. given[i] \in Element
  OBVIOUS
<1>2. c \in Byte /\ v \in Nat
  BY <1>1, ElementFits DEF Fits
<1>3. c \in Nat /\ j \in Nat
  <2>1. \A b \in Byte : b \in Nat
    BY DEF Byte
  <2>2. j \in Nat
    OBVIOUS
  <2> HIDE DEF c, j
  <2> QED
    BY <1>2, <2>1, <2>2
<1>4. /\ SetChild_Table(bits, ptrs, given, m, i) = SetPtr(HighBits(m, bits, c, v), ptrs + PTR_SIZE * c, v)
      /\ SetChild_SLE(bits, ptrs, given, m, i) =
           SetPtr(HighBits([m EXCEPT ![FAIL_IDX_SLE + 1 + i] = c], bits, j, v), ptrs + PTR_SIZE * j, v)
  BY DEF SetChild_Table, SetChild_SLE
<1> HIDE DEF c, v, j
<1>5. ASSUME NEW p \in Memory(n), NEW k \in Nat
      PROVE  SetPtr(HighBits(p, bits, k, v), ptrs + PTR_SIZE * k, v) \in Memory(n)
  <2> DEFINE x == v \div 65536
             y == v \div 131072
             a == 2 * k
             b == 2 * k + 1
             q == SET_1BIT(p, bits, a, x)
             s == SET_1BIT(q, bits, b, y)
             at == ptrs + PTR_SIZE * k
  <2>1. x \in Nat /\ y \in Nat
    BY <1>2
  <2>2. a \in Nat /\ b \in Nat /\ at \in Nat
    BY DEF PTR_SIZE
  <2>3. HighBits(p, bits, k, v) = s
    BY DEF HighBits
  <2> HIDE DEF x, y, a, b, at
  <2>4. q \in Memory(n)
    BY <2>1, <2>2, BitAnywhere
  <2> HIDE DEF q
  <2>5. s \in Memory(n)
    BY <2>1, <2>2, <2>4, BitAnywhere
  <2> HIDE DEF s
  <2>6. SetPtr(s, at, v) \in Memory(n)
    BY <1>2, <2>2, <2>5, PtrAnywhere
  <2> QED
    BY <2>3, <2>6 DEF at
<1>6. [m EXCEPT ![FAIL_IDX_SLE + 1 + i] = c] \in Memory(n)
  <2> DEFINE at == FAIL_IDX_SLE + 1 + i
  <2>1. at \in Nat
    BY DEF FAIL_IDX_SLE
  <2> HIDE DEF at
  <2>2. [m EXCEPT ![at] = c] \in Memory(n)
    BY <1>2, <2>1, ByteIsSet
  <2> QED
    BY <2>2 DEF at
<1> QED
  BY <1>3, <1>4, <1>5, <1>6

\* The failure and the match bit of a state whose first byte has no match bit.
LEMMA SimpleFailure ==
    ASSUME NEW n \in Nat, NEW d \in Memory(n), d[0] <= 127, NEW fail \in StateId, NEW match \in BOOLEAN
    PROVE  SetFailure_SLE(d, fail, match) \in Memory(n)
<1> DEFINE add == 4 * (((fail \div 65536) % 16) + IF match THEN 32 ELSE 0)
           p == [d EXCEPT ![0] = d[0] + add]
<1>1. fail \in Nat /\ fail <= 65535
  BY StateIdRange
<1>2. add = 0 \/ add = 128
  <2>1. fail \div 65536 = 0 /\ 0 % 16 = 0
    BY <1>1
  <2>2. add = 4 * (0 + IF match THEN 32 ELSE 0)
    BY <2>1
  <2> QED
    BY <2>2
<1>3. SetFailure_SLE(d, fail, match) = SetPtr(p, FAIL_IDX_SLE, fail) /\ FAIL_IDX_SLE \in Nat
  BY DEF SetFailure_SLE, FAIL_IDX_SLE
<1> HIDE DEF add
<1>4. p \in Memory(n)
  <2>1. CASE n = 0
    <3>1. 0 \notin DOMAIN d
      BY <2>1 DEF Memory
    <3>2. p = d
      BY <3>1 DEF Memory
    <3> QED
      BY <3>2
  <2>2. CASE n # 0
    <3>1. 0 \in 0 .. n - 1 /\ d[0] \in Byte /\ 0 \in Nat
      BY <2>2 DEF Memory
    <3>2. d[0] + add \in Byte
      BY <1>2, <3>1 DEF Byte
    <3> QED
      BY <3>1, <3>2, ByteIsSet
  <2> QED
    BY <2>1, <2>2
<1> HIDE DEF p
<1> QED
  BY <1>1, <1>3, <1>4, PtrAnywhere

\* Both writers.
LEMMA SimpleIsSet ==
    ASSUME NEW n \in Nat, NEW d \in Memory(n), d[0] <= 127, d[1] \in Nat, NEW given \in Seq(Element),
           d[1] <= Len(given), NEW fail \in StateId, NEW match \in BOOLEAN
    PROVE  setStateData_SLE(d, given, fail, match) \in Memory(n)
<1> DEFINE l == d[1]
           es == SubSeq(given, 1, l)
           p == SetFailure_SLE(d, fail, match)
<1>1. l \in Nat /\ l <= Len(given) /\ p \in Memory(n)
  BY SimpleFailure
<1> HIDE DEF l
<1>2. Len(es) = l
  BY <1>1, Given
<1>3. \A i \in 1 .. l : i \in 1 .. Len(given) /\ i \in Nat /\ i - 1 \in Nat
  BY <1>1
<1> HIDE DEF es, p
<1>4. \A q \in Memory(n), at \in Nat, size \in Nat, b \in Byte : Fill(q, at, size, b) \in Memory(n)
  BY RegionIsFilled
<1> DEFINE P == [i \in Nat |-> Memory(n)]
<1>5. setTableStateData(d, given, fail, match) \in Memory(n)
  <2> DEFINE bits == FAIL_IDX_SLE + 2
             ptrs == FAIL_IDX_SLE + 2 + 32 + 32
             set == [m \in Memories(d) |-> [i \in Nat |-> SetChild_Table(bits, ptrs, given, m, i)]]
             size == 256 * PTR_SIZE
             clean == Fill(Fill(p, bits, 64, 0), ptrs, size, 255)
  <2>1. setTableStateData(d, given, fail, match) = ForEach(es, clean, set)
    BY DEF setTableStateData, es, p, l
  <2>2. bits \in Nat /\ ptrs \in Nat /\ 64 \in Nat /\ size \in Nat /\ 0 \in Byte /\ 255 \in Byte
    BY DEF FAIL_IDX_SLE, PTR_SIZE, Byte
  <2> HIDE DEF bits, ptrs, size
  <2>3. clean \in Memory(n)
    BY <1>1, <1>4, <2>2
  <2>4. ASSUME NEW i \in 1 .. l, NEW m \in P[i - 1] PROVE set[m][i] \in P[i]
    <3>1. m \in Memory(n) /\ P[i] = Memory(n) /\ i \in Nat /\ i \in 1 .. Len(given)
      BY <1>3
    <3>2. m \in Memories(d)
      BY <3>1, MemoryOf
    <3>3. set[m][i] = SetChild_Table(bits, ptrs, given, m, i)
      BY <3>1, <3>2
    <3> HIDE DEF set, P
    <3> QED
      BY SMTT(20), <2>2, <3>1, <3>3, SimpleRounds
  <2>5. clean \in P[0]
    BY <2>3
  <2> HIDE DEF set, clean, P
  <2>6. ForEach(es, clean, set) \in P[Len(es)]
    BY <1>1, <1>2, <2>4, <2>5, ForEachKeeps
  <2> QED
    BY <1>1, <1>2, <2>1, <2>6 DEF P
<1>6. CASE GET_STATE_TYPE(d) # LOOKUP_TABLE
  <2> DEFINE bits == FAIL_IDX_SLE + 2 + d[1]
             size == CeilDiv(2 * d[1], 8)
             ptrs == bits + size
             set == [m \in Memories(d) |-> [i \in Nat |-> SetChild_SLE(bits, ptrs, given, m, i)]]
             clean == Fill(p, bits, size, 0)
  <2>1. setStateData_SLE(d, given, fail, match) = ForEach(es, clean, set)
    BY <1>6 DEF setStateData_SLE, es, p, l
  <2>2. bits \in Nat /\ ptrs \in Nat /\ size \in Nat /\ 0 \in Byte
    <3>1. size \in Nat
      BY DEF CeilDiv
    <3>2. bits \in Nat /\ 0 \in Byte
      BY DEF FAIL_IDX_SLE, Byte
    <3> HIDE DEF bits, size
    <3> QED
      BY <3>1, <3>2
  <2> HIDE DEF bits, ptrs, size
  <2>3. clean \in Memory(n)
    BY <1>1, <1>4, <2>2
  <2>4. ASSUME NEW i \in 1 .. l, NEW m \in P[i - 1] PROVE set[m][i] \in P[i]
    <3>1. m \in Memory(n) /\ P[i] = Memory(n) /\ i \in Nat /\ i \in 1 .. Len(given)
      BY <1>3
    <3>2. m \in Memories(d)
      BY <3>1, MemoryOf
    <3>3. set[m][i] = SetChild_SLE(bits, ptrs, given, m, i)
      BY <3>1, <3>2
    <3> HIDE DEF set, P
    <3> QED
      BY SMTT(20), <2>2, <3>1, <3>3, SimpleRounds
  <2>5. clean \in P[0]
    BY <2>3
  <2> HIDE DEF set, clean, P
  <2>6. ForEach(es, clean, set) \in P[Len(es)]
    BY <1>1, <1>2, <2>4, <2>5, ForEachKeeps
  <2> QED
    BY <1>1, <1>2, <2>1, <2>6 DEF P
<1> QED
  BY <1>5, <1>6 DEF setStateData_SLE

-----------------------------------------------------------------------------
(* The states that are created.                                            *)

\* The bytes in front of the failure or the goto hold the type, the number of
\* elements l (of which two layouts keep six bits), the id i and the size n.
HeaderIs(d, type, n, i, l) ==
    /\ GET_STATE_TYPE(d) = type
    /\ type \in {LINEAR_ENCODED, BITMAP_ENCODED} =>
          HeaderSize(d) = l % 64 /\ d[1] = Hi(i) /\ d[2] = Lo(i) /\ d[3] = n
    /\ type \in {LOOKUP_TABLE, PATH_COMPRESSED} =>
          Length14(d) = l /\ d[2] = Hi(i) /\ d[3] = Lo(i)
    /\ type = PATH_COMPRESSED => getSizeInBytes_PC(d) = n

\* A state of n bytes with room for everything but pointers.
Created(d, type, n, i, l) ==
    /\ d \in Memory(n) /\ HeaderIs(d, type, n, i, l)
    /\ type \in {LINEAR_ENCODED, BITMAP_ENCODED} => l <= MAX_NODE_DEGREE
    /\ type = LINEAR_ENCODED => PtrsOf_LE(d) <= n
    /\ type = BITMAP_ENCODED => PtrsOf_BM(d) <= n
    /\ type = LOOKUP_TABLE => n = SIZE_IN_BYTES
    /\ type = PATH_COMPRESSED => FailuresOf_PC(d) <= n

\* And room for k pointers.
Room(d, type, n, k) ==
    /\ type = LINEAR_ENCODED => PtrsOf_LE(d) + 2 * k <= n
    /\ type = BITMAP_ENCODED => PtrsOf_BM(d) + 2 * k <= n
    /\ type = PATH_COMPRESSED => FailuresOf_PC(d) + 2 * k <= n

\* The bytes of a size of two layouts.
LEMMA SmallBytes ==
    /\ \A v \in Nat : v <= 255 => Lo(v) = v /\ Lo(v) \in Byte
    /\ \A v \in StateId : Lo(v) \in Byte /\ Hi(v) \in Byte /\ Hi(v) * 256 + Lo(v) = v
<1>1. ASSUME NEW v \in Nat, v <= 255 PROVE Lo(v) = v /\ Lo(v) \in Byte
  BY <1>1 DEF Lo, Byte
<1>2. \A v \in StateId : v \in Nat /\ v <= 65535
  BY StateIdRange
<1> QED
  BY <1>1, <1>2, TwoBytes

\* What createEmptyState_LE allocates.
LEMMA LinearIsCreated ==
    ASSUME NEW i \in StateId, NEW l \in 1 .. MAX_NODE_DEGREE, NEW p \in 0 .. l, NEW g \in Byte,
           NEW d, d = createEmptyState_LE(i, l, p, g)
    PROVE  \E n \in Nat : Created(d, LINEAR_ENCODED, n, i, l) /\ Room(d, LINEAR_ENCODED, n, l - p)
<1> DEFINE n == 4 + l + PTR_SIZE * (l - p) + CeilDiv(3 * l, 8) + PTR_SIZE
           h == Header(LINEAR_ENCODED, l)
           bytes == <<h, Hi(i), Lo(i), Lo(n)>>
<1>1. l \in Nat /\ l <= 64 /\ p \in Nat /\ p <= l /\ 1 <= l
  BY DEF MAX_NODE_DEGREE
<1>2. n = 6 + l + 2 * (l - p) + CeilDiv(3 * l, 8)
  <2>1. CeilDiv(3 * l, 8) \in Nat
    BY <1>1 DEF CeilDiv
  <2> QED
    BY <1>1, <2>1 DEF PTR_SIZE
<1>3. CeilDiv(3 * l, 8) \in 0 .. 24
  BY <1>1 DEF CeilDiv
<1>4. n \in Nat /\ n <= 255 /\ n >= 4 /\ n >= 6 + l + CeilDiv(3 * l, 8)
  BY <1>1, <1>2, <1>3
<1>5. d = Store(malloc(n, g), 0, bytes)
  BY DEF createEmptyState_LE
<1> HIDE DEF n
<1>6. Lo(n) = n /\ Lo(n) \in Byte /\ Lo(i) \in Byte /\ Hi(i) \in Byte
  BY <1>4, SmallBytes
<1>7. h \in Byte /\ h % 4 = LINEAR_ENCODED /\ h \div 4 = l % 64
  <2>1. LINEAR_ENCODED \in 0 .. 3
    BY DEF LINEAR_ENCODED
  <2> QED
    BY <1>1, <2>1, HeaderByte
<1> HIDE DEF h
<1>8. bytes \in Seq(Byte) /\ Len(bytes) = 4
  BY <1>6, <1>7
<1>9. bytes[0 + 1] = h /\ bytes[1 + 1] = Hi(i) /\ bytes[2 + 1] = Lo(i) /\ bytes[3 + 1] = n
  BY <1>6
<1> HIDE DEF bytes
<1>10. d \in Memory(n) /\ \A a \in 0 .. 3 : d[a] = bytes[a + 1]
  <2>1. Len(bytes) <= n
    BY <1>4, <1>5, <1>8
  <2>2. d \in Memory(n) /\ \A a \in 0 .. Len(bytes) - 1 : d[a] = bytes[a + 1]
    <3>1. bytes \in Seq(Byte)
      BY <1>4, <1>5, <1>8
    <3>2. n \in Nat /\ d = Store(malloc(n, g), 0, bytes)
      BY <1>4, <1>5, <1>8
    <3> QED
      BY <2>1, <3>1, <3>2, HeaderIsStored
  <2>3. Len(bytes) - 1 = 3
    BY <1>4, <1>5, <1>8
  <2> QED
    BY <2>2, <2>3
<1>11. d[0] = h /\ d[1] = Hi(i) /\ d[2] = Lo(i) /\ d[3] = n
  BY <1>9, <1>10
<1>12. GET_STATE_TYPE(d) = LINEAR_ENCODED /\ HeaderSize(d) = l % 64
  BY <1>7, <1>11 DEF GET_STATE_TYPE, HeaderSize
<1>13. HeaderIs(d, LINEAR_ENCODED, n, i, l)
  BY <1>11, <1>12 DEF HeaderIs, LINEAR_ENCODED, BITMAP_ENCODED, LOOKUP_TABLE, PATH_COMPRESSED
<1>14. PtrsOf_LE(d) <= n /\ PtrsOf_LE(d) + 2 * (l - p) <= n
  <2>1. PtrsOf_LE(d) = 6 + HeaderSize(d) + CeilDiv(3 * HeaderSize(d), 8)
    BY DEF PtrsOf_LE, FlagsOf_LE, FAIL_IDX
  <2>2. CASE l = 64
    <3>1. HeaderSize(d) = 0 /\ CeilDiv(3 * 0, 8) = 0
      BY <1>12, <2>2 DEF CeilDiv
    <3> QED
      BY <1>1, <1>2, <1>3, <1>4, <2>1, <3>1
  <2>3. CASE l # 64
    <3>1. HeaderSize(d) = l
      BY <1>1, <1>12, <2>3
    <3> QED
      BY <1>1, <1>2, <1>3, <1>4, <2>1, <3>1
  <2> QED
    BY <2>2, <2>3
<1>15. Created(d, LINEAR_ENCODED, n, i, l) /\ Room(d, LINEAR_ENCODED, n, l - p)
  BY <1>1, <1>10, <1>13, <1>14
     DEF Created, Room, LINEAR_ENCODED, BITMAP_ENCODED, LOOKUP_TABLE, PATH_COMPRESSED, MAX_NODE_DEGREE
<1> QED
  BY <1>4, <1>15

\* What createEmptyState_BM allocates.
LEMMA BitmapIsCreated ==
    ASSUME NEW i \in StateId, NEW l \in 1 .. MAX_NODE_DEGREE, NEW p \in 0 .. l, NEW g \in Byte,
           NEW d, d = createEmptyState_BM(i, l, p, g)
    PROVE  \E n \in Nat : Created(d, BITMAP_ENCODED, n, i, l) /\ Room(d, BITMAP_ENCODED, n, l - p)
<1> DEFINE n == 4 + 32 + PTR_SIZE * (l - p) + CeilDiv(3 * l, 8) + PTR_SIZE
           h == Header(BITMAP_ENCODED, l)
           bytes == <<h, Hi(i), Lo(i), Lo(n)>>
<1>1. l \in Nat /\ l <= 64 /\ p \in Nat /\ p <= l /\ 1 <= l
  BY DEF MAX_NODE_DEGREE
<1>2. n = 38 + 2 * (l - p) + CeilDiv(3 * l, 8)
  <2>1. CeilDiv(3 * l, 8) \in Nat
    BY <1>1 DEF CeilDiv
  <2> QED
    BY <1>1, <2>1 DEF PTR_SIZE
<1>3. CeilDiv(3 * l, 8) \in 0 .. 24
  BY <1>1 DEF CeilDiv
<1>4. n \in Nat /\ n <= 255 /\ n >= 4 /\ n >= 38 + CeilDiv(3 * l, 8)
  BY <1>1, <1>2, <1>3
<1>5. d = Store(malloc(n, g), 0, bytes)
  BY DEF createEmptyState_BM
<1> HIDE DEF n
<1>6. Lo(n) = n /\ Lo(n) \in Byte /\ Lo(i) \in Byte /\ Hi(i) \in Byte
  BY <1>4, SmallBytes
<1>7. h \in Byte /\ h % 4 = BITMAP_ENCODED /\ h \div 4 = l % 64
  <2>1. BITMAP_ENCODED \in 0 .. 3
    BY DEF BITMAP_ENCODED
  <2> QED
    BY <1>1, <2>1, HeaderByte
<1> HIDE DEF h
<1>8. bytes \in Seq(Byte) /\ Len(bytes) = 4
  BY <1>6, <1>7
<1>9. bytes[0 + 1] = h /\ bytes[1 + 1] = Hi(i) /\ bytes[2 + 1] = Lo(i) /\ bytes[3 + 1] = n
  BY <1>6
<1> HIDE DEF bytes
<1>10. d \in Memory(n) /\ \A a \in 0 .. 3 : d[a] = bytes[a + 1]
  <2>1. Len(bytes) <= n
    BY <1>4, <1>5, <1>8
  <2>2. d \in Memory(n) /\ \A a \in 0 .. Len(bytes) - 1 : d[a] = bytes[a + 1]
    <3>1. bytes \in Seq(Byte)
      BY <1>4, <1>5, <1>8
    <3>2. n \in Nat /\ d = Store(malloc(n, g), 0, bytes)
      BY <1>4, <1>5, <1>8
    <3> QED
      BY <2>1, <3>1, <3>2, HeaderIsStored
  <2>3. Len(bytes) - 1 = 3
    BY <1>4, <1>5, <1>8
  <2> QED
    BY <2>2, <2>3
<1>11. d[0] = h /\ d[1] = Hi(i) /\ d[2] = Lo(i) /\ d[3] = n
  BY <1>9, <1>10
<1>12. GET_STATE_TYPE(d) = BITMAP_ENCODED /\ HeaderSize(d) = l % 64
  BY <1>7, <1>11 DEF GET_STATE_TYPE, HeaderSize
<1>13. HeaderIs(d, BITMAP_ENCODED, n, i, l)
  BY <1>11, <1>12 DEF HeaderIs, LINEAR_ENCODED, BITMAP_ENCODED, LOOKUP_TABLE, PATH_COMPRESSED
<1>14. PtrsOf_BM(d) <= n /\ PtrsOf_BM(d) + 2 * (l - p) <= n
  <2>1. PtrsOf_BM(d) = 38 + CeilDiv(3 * HeaderSize(d), 8)
    BY DEF PtrsOf_BM, FlagsOf_BM, FAIL_IDX
  <2>2. CASE l = 64
    <3>1. HeaderSize(d) = 0 /\ CeilDiv(3 * 0, 8) = 0
      BY <1>12, <2>2 DEF CeilDiv
    <3> QED
      BY <1>1, <1>2, <1>3, <1>4, <2>1, <3>1
  <2>3. CASE l # 64
    <3>1. HeaderSize(d) = l
      BY <1>1, <1>12, <2>3
    <3> QED
      BY <1>1, <1>2, <1>3, <1>4, <2>1, <3>1
  <2> QED
    BY <2>2, <2>3
<1>15. Created(d, BITMAP_ENCODED, n, i, l) /\ Room(d, BITMAP_ENCODED, n, l - p)
  BY <1>1, <1>10, <1>13, <1>14
     DEF Created, Room, LINEAR_ENCODED, BITMAP_ENCODED, LOOKUP_TABLE, PATH_COMPRESSED, MAX_NODE_DEGREE
<1> QED
  BY <1>4, <1>15

\* The size of fourteen bits of the other two layouts.
LEMMA FourteenBits ==
    ASSUME NEW l \in Nat, l <= MAX_PATH_LENGTH, NEW type \in 0 .. 3
    PROVE  /\ Header(type, l \div 256) \in Byte /\ Lo(l) \in Byte
           /\ Header(type, l \div 256) % 4 = type
           /\ (Header(type, l \div 256) \div 4) * 256 + Lo(l) = l
<1>1. l <= 512
  BY DEF MAX_PATH_LENGTH
<1> DEFINE h == l \div 256
<1>2. h \in Nat /\ h % 64 = h /\ l = 256 * h + (l % 256) /\ l % 256 \in 0 .. 255
  BY <1>1
<1> HIDE DEF h
<1>3. Header(type, h) \in Byte /\ Header(type, h) % 4 = type /\ Header(type, h) \div 4 = h
  BY <1>2, HeaderByte
<1>4. Lo(l) \in Byte /\ h * 256 + Lo(l) = l
  BY <1>2 DEF Lo, Byte
<1> QED
  BY <1>3, <1>4 DEF h

\* Fourteen bits written in two bytes are read again.
LEMMA FourteenBitsAreRead ==
    ASSUME NEW l \in Nat, l <= MAX_PATH_LENGTH, NEW type \in 0 .. 3, NEW d,
           d[0] = Header(type, l \div 256), d[1] = Lo(l)
    PROVE  GET_STATE_TYPE(d) = type /\ Length14(d) = l
  BY FourteenBits DEF GET_STATE_TYPE, Length14, HeaderSize

\* What createEmptyState_LT allocates.
LEMMA LookupIsCreated ==
    ASSUME NEW i \in StateId, NEW l \in 1 .. MAX_ARRAY_LENGTH, NEW g \in Byte,
           NEW d, d = createEmptyState_LT(i, l, g)
    PROVE  Created(d, LOOKUP_TABLE, SIZE_IN_BYTES, i, l)
<1> DEFINE h == Header(LOOKUP_TABLE, l \div 256)
           bytes == <<h, Lo(l), Hi(i), Lo(i), 255>>
           n == SIZE_IN_BYTES
<1>1. l \in Nat /\ l <= MAX_PATH_LENGTH /\ LOOKUP_TABLE \in 0 .. 3 /\ n \in Nat /\ 5 <= n /\ 255 \in Byte
  BY DEF MAX_PATH_LENGTH, MAX_ARRAY_LENGTH, LOOKUP_TABLE, SIZE_IN_BYTES, Byte
<1>2. h \in Byte /\ Lo(l) \in Byte
  BY <1>1, FourteenBits
<1>3. Lo(i) \in Byte /\ Hi(i) \in Byte
  BY SmallBytes
<1>4. d = Store(malloc(n, g), 0, bytes)
  BY DEF createEmptyState_LT
<1> HIDE DEF n, h
<1>5. bytes \in Seq(Byte) /\ Len(bytes) = 5
  BY <1>1, <1>2, <1>3
<1>6. bytes[0 + 1] = h /\ bytes[1 + 1] = Lo(l) /\ bytes[2 + 1] = Hi(i) /\ bytes[3 + 1] = Lo(i)
  OBVIOUS
<1> HIDE DEF bytes
<1>7. d \in Memory(n) /\ \A a \in 0 .. 4 : d[a] = bytes[a + 1]
  <2>1. Len(bytes) <= n
    BY <1>1, <1>4, <1>5
  <2>2. d \in Memory(n) /\ \A a \in 0 .. Len(bytes) - 1 : d[a] = bytes[a + 1]
    <3>1. bytes \in Seq(Byte)
      BY <1>1, <1>4, <1>5
    <3>2. n \in Nat /\ d = Store(malloc(n, g), 0, bytes)
      BY <1>1, <1>4, <1>5
    <3> QED
      BY <2>1, <3>1, <3>2, HeaderIsStored
  <2>3. Len(bytes) - 1 = 4
    BY <1>1, <1>4, <1>5
  <2> QED
    BY <2>2, <2>3
<1>8. d[0] = h /\ d[1] = Lo(l) /\ d[2] = Hi(i) /\ d[3] = Lo(i)
  BY <1>6, <1>7
<1>9. GET_STATE_TYPE(d) = LOOKUP_TABLE /\ Length14(d) = l
  BY <1>1, <1>8, FourteenBitsAreRead DEF h
<1>10. HeaderIs(d, LOOKUP_TABLE, n, i, l)
  BY <1>8, <1>9 DEF HeaderIs, LINEAR_ENCODED, BITMAP_ENCODED, LOOKUP_TABLE, PATH_COMPRESSED
<1> QED
  BY <1>7, <1>10 DEF Created, LINEAR_ENCODED, BITMAP_ENCODED, LOOKUP_TABLE, PATH_COMPRESSED, n

\* What createEmptyState_PC allocates.
LEMMA PathIsCreated ==
    ASSUME NEW i \in StateId, NEW l \in 1 .. MAX_PATH_LENGTH, NEW p \in 0 .. l, NEW g \in Byte,
           NEW d, d = createEmptyState_PC(i, l, p, g)
    PROVE  \E n \in Nat : Created(d, PATH_COMPRESSED, n, i, l) /\ Room(d, PATH_COMPRESSED, n, l - p)
<1> DEFINE n == 6 + l + PTR_SIZE * (l - p) + CeilDiv(l, 8) + CeilDiv(l, 4) + PTR_SIZE
           h == Header(PATH_COMPRESSED, l \div 256)
           bytes == <<h, Lo(l), Hi(i), Lo(i), Hi(n), Lo(n)>>
<1>1. l \in Nat /\ l <= 512 /\ l <= MAX_PATH_LENGTH /\ p \in Nat /\ p <= l /\ PATH_COMPRESSED \in 0 .. 3
  BY DEF MAX_PATH_LENGTH, PATH_COMPRESSED
<1>2. CeilDiv(l, 8) \in 0 .. 64 /\ CeilDiv(l, 4) \in 0 .. 128
  BY <1>1 DEF CeilDiv
<1>3. n = 8 + l + 2 * (l - p) + CeilDiv(l, 8) + CeilDiv(l, 4)
  BY <1>1, <1>2 DEF PTR_SIZE
<1>4. n \in Nat /\ n <= 65535 /\ n >= 6 /\ n >= 8 + l + CeilDiv(l, 8) + CeilDiv(l, 4)
  <2> HIDE DEF n
  <2> DEFINE q == 2 * (l - p)
             a == CeilDiv(l, 8)
             b == CeilDiv(l, 4)
  <2>1. q \in 0 .. 1024
    BY <1>1
  <2>2. a \in 0 .. 64 /\ b \in 0 .. 128 /\ n = 8 + l + q + a + b
    BY <1>2, <1>3
  <2> HIDE DEF q, a, b
  <2>3. n \in Nat /\ n <= 65535 /\ n >= 6 /\ n >= 8 + l + a + b
    BY <1>1, <2>1, <2>2
  <2> QED
    BY <2>3 DEF a, b
<1>5. d = Store(malloc(n, g), 0, bytes)
  BY DEF createEmptyState_PC
<1> HIDE DEF n
<1>6. h \in Byte /\ Lo(l) \in Byte
  BY <1>1, FourteenBits
<1>7. Lo(i) \in Byte /\ Hi(i) \in Byte /\ Lo(n) \in Byte /\ Hi(n) \in Byte /\ Hi(n) * 256 + Lo(n) = n
  BY <1>4, SmallBytes, TwoBytes
<1> HIDE DEF h
<1>8. bytes \in Seq(Byte) /\ Len(bytes) = 6
  BY <1>6, <1>7
<1>9. /\ bytes[0 + 1] = h /\ bytes[1 + 1] = Lo(l) /\ bytes[2 + 1] = Hi(i) /\ bytes[3 + 1] = Lo(i)
      /\ bytes[4 + 1] = Hi(n) /\ bytes[5 + 1] = Lo(n)
  OBVIOUS
<1> HIDE DEF bytes
<1>10. d \in Memory(n) /\ \A a \in 0 .. 5 : d[a] = bytes[a + 1]
  <2>1. Len(bytes) <= n
    BY <1>4, <1>5, <1>8
  <2>2. d \in Memory(n) /\ \A a \in 0 .. Len(bytes) - 1 : d[a] = bytes[a + 1]
    <3>1. bytes \in Seq(Byte)
      BY <1>4, <1>5, <1>8
    <3>2. n \in Nat /\ d = Store(malloc(n, g), 0, bytes)
      BY <1>4, <1>5, <1>8
    <3> QED
      BY <2>1, <3>1, <3>2, HeaderIsStored
  <2>3. Len(bytes) - 1 = 5
    BY <1>4, <1>5, <1>8
  <2> QED
    BY <2>2, <2>3
<1>11. /\ d[0] = h /\ d[1] = Lo(l) /\ d[2] = Hi(i) /\ d[3] = Lo(i)
       /\ d[4] = Hi(n) /\ d[5] = Lo(n)
  BY <1>9, <1>10
<1>12. GET_STATE_TYPE(d) = PATH_COMPRESSED /\ Length14(d) = l
  BY <1>1, <1>11, FourteenBitsAreRead DEF h
<1>13. getSizeInBytes_PC(d) = n
  BY <1>7, <1>11 DEF getSizeInBytes_PC
<1>14. HeaderIs(d, PATH_COMPRESSED, n, i, l)
  BY <1>11, <1>12, <1>13 DEF HeaderIs, LINEAR_ENCODED, BITMAP_ENCODED, LOOKUP_TABLE, PATH_COMPRESSED
<1>15. FailuresOf_PC(d) <= n /\ FailuresOf_PC(d) + 2 * (l - p) <= n
  <2>1. FailuresOf_PC(d) = 8 + l + CeilDiv(l, 8) + CeilDiv(l, 4)
    BY <1>12 DEF FailuresOf_PC, FlagsOf_PC, MatchesOf_PC, GOTO_IDX
  <2> DEFINE q == 2 * (l - p)
             a == CeilDiv(l, 8)
             b == CeilDiv(l, 4)
             f == FailuresOf_PC(d)
  <2>2. q \in Nat /\ a \in Nat /\ b \in Nat
    BY <1>1, <1>2
  <2>3. f = 8 + l + a + b /\ n = 8 + l + q + a + b
    BY <1>3, <2>1
  <2> HIDE DEF q, a, b, f
  <2>4. f <= n /\ f + q <= n
    BY <1>1, <2>2, <2>3
  <2> QED
    BY <2>4 DEF f, q
<1>16. Created(d, PATH_COMPRESSED, n, i, l) /\ Room(d, PATH_COMPRESSED, n, l - p)
  BY <1>10, <1>14, <1>15 DEF Created, Room, LINEAR_ENCODED, BITMAP_ENCODED, LOOKUP_TABLE, PATH_COMPRESSED
<1> QED
  BY <1>4, <1>16

\* A simple state: bytes, with no match bit yet and the number of its elements.
LEMMA SimpleIsCreated ==
    ASSUME NEW i \in StateId, NEW l \in 1 .. MAX_ARRAY_LENGTH, NEW g \in Byte,
           NEW d, d = createEmptyState_SLE(i, l, g)
    PROVE  \E n \in Nat : d \in Memory(n) /\ d[0] <= 127 /\ d[1] = l
<1>1. l \in Nat /\ l <= 100 /\ 1 <= l
  BY DEF MAX_ARRAY_LENGTH
<1>2. Lo(l) = l /\ Lo(l) \in Byte /\ Lo(i) \in Byte /\ Hi(i) \in Byte
  BY <1>1, SmallBytes
<1>3. IdMSB(i) = 0
  BY StateIdRange DEF IdMSB
<1>4. ASSUME NEW type \in 0 .. 3, NEW n \in Nat, 6 <= n, n <= 65535,
             d = Store(malloc(n, g), 0, <<Header(type, 0), Lo(l), Hi(i), Lo(i), Hi(n), Lo(n)>>)
      PROVE  d \in Memory(n) /\ d[0] <= 127 /\ d[1] = l
  <2> DEFINE h == Header(type, 0)
             bytes == <<h, Lo(l), Hi(i), Lo(i), Hi(n), Lo(n)>>
  <2>1. h = type
    BY DEF Header
  <2>2. h \in Byte /\ h <= 127
    BY <2>1 DEF Byte
  <2>3. Hi(n) \in Byte /\ Lo(n) \in Byte
    BY <1>4, TwoBytes
  <2>4. d = Store(malloc(n, g), 0, bytes)
    BY <1>4
  <2> HIDE DEF h
  <2>5. bytes \in Seq(Byte) /\ Len(bytes) = 6 /\ bytes[0 + 1] = h /\ bytes[1 + 1] = l
    BY <1>2, <2>2, <2>3
  <2> HIDE DEF bytes
  <2>6. d \in Memory(n) /\ \A a \in 0 .. 5 : d[a] = bytes[a + 1]
    <3>1. Len(bytes) <= n
      BY <1>4, <2>4, <2>5
    <3>2. d \in Memory(n) /\ \A a \in 0 .. Len(bytes) - 1 : d[a] = bytes[a + 1]
      <4>1. bytes \in Seq(Byte)
        BY <1>4, <2>4, <2>5
      <4>2. n \in Nat /\ d = Store(malloc(n, g), 0, bytes)
        BY <1>4, <2>4, <2>5
      <4> QED
        BY <3>1, <4>1, <4>2, HeaderIsStored
    <3>3. Len(bytes) - 1 = 5
      BY <1>4, <2>4, <2>5
    <3> QED
      BY <3>2, <3>3
  <2> QED
    BY <2>2, <2>5, <2>6
<1>5. CASE l >= 64
  <2> DEFINE n == 6 + 256 * PTR_SIZE + 32 + 32 + PTR_SIZE
  <2>1. n \in Nat /\ 6 <= n /\ n <= 65535 /\ LOOKUP_TABLE \in 0 .. 3
    BY DEF PTR_SIZE, LOOKUP_TABLE
  <2>2. d = Store(malloc(n, g), 0, <<Header(LOOKUP_TABLE, 0), Lo(l), Hi(i), Lo(i), Hi(n), Lo(n)>>)
    BY <1>3, <1>5 DEF createEmptyState_SLE, createEmptyTableState
  <2> HIDE DEF n
  <2> QED
    BY <1>4, <2>1, <2>2
<1>6. CASE ~ (l >= 64)
  <2> DEFINE n == 6 + l + PTR_SIZE * l + CeilDiv(2 * l, 8) + PTR_SIZE
  <2>1. CeilDiv(2 * l, 8) \in 0 .. 100
    BY <1>1 DEF CeilDiv
  <2>2. n \in Nat /\ 6 <= n /\ n <= 65535 /\ LINEAR_ENCODED \in 0 .. 3
    BY <1>1, <2>1 DEF PTR_SIZE, LINEAR_ENCODED
  <2>3. d = Store(malloc(n, g), 0, <<Header(LINEAR_ENCODED, 0), Lo(l), Hi(i), Lo(i), Hi(n), Lo(n)>>)
    BY <1>3, <1>6 DEF createEmptyState_SLE
  <2> HIDE DEF n
  <2> QED
    BY <1>4, <2>2, <2>3
<1> QED
  BY <1>5, <1>6

-----------------------------------------------------------------------------
(* What a writer checks before it stores a pointer.                        *)

\* The bound is exceeded exactly when all the pointers take more than is there.
LEMMA OutOfBoundIs ==
    ASSUME NEW es, NEW l \in Nat, DOMAIN es = 1 .. l, NEW ptrs \in Nat, NEW n \in Nat, ptrs <= n
    PROVE  OutOfBound(ptrs, es, n) <=> ptrs + 2 * RegularIn(es, l) > n
<1> DEFINE R(i) == RegularIn(es, i)
<1>1. \A i \in Nat : R(i) \in Nat
  BY RegularRange
<1>2. OutOfBound(ptrs, es, n) <=> \E i \in 1 .. l : es[i].type = REGULAR /\ ptrs + 2 * R(i) - 1 >= n
  BY DEF OutOfBound, RegularIn, PTR_SIZE
<1>3. \A i \in 1 .. l : R(i) <= R(l)
  <2>1. \A i \in 1 .. l : i \in Nat /\ i <= l
    OBVIOUS
  <2> QED
    BY <2>1, RegularGrows
<1>4. ASSUME R(l) # 0
      PROVE  \E i \in 1 .. l : es[i].type = REGULAR /\ R(i) = R(l)
  <2> DEFINE S == {j \in 1 .. l : es[j].type = REGULAR}
  <2>1. S # {}
    BY <1>4, FS_EmptySet DEF RegularIn
  <2>2. S \subseteq 0 .. l
    OBVIOUS
  <2>3. PICK i \in S : \A k \in S : k <= i
    <3> HIDE DEF S
    <3> QED
      BY <2>1, <2>2, GreatestElement
  <2>4. S = {j \in 1 .. i : es[j].type = REGULAR}
    BY <2>3
  <2>5. R(i) = R(l)
    BY <2>4 DEF RegularIn
  <2> QED
    BY <2>3, <2>5
<1> HIDE DEF R
<1>5. ASSUME NEW i \in 1 .. l, ptrs + 2 * R(i) - 1 >= n
      PROVE  ptrs + 2 * R(l) > n
  <2>1. R(i) \in Nat /\ R(l) \in Nat /\ R(i) <= R(l)
    <3>1. i \in Nat
      OBVIOUS
    <3> QED
      BY <1>1, <1>3, <3>1
  <2> QED
    BY <1>5, <2>1
<1>6. ASSUME ptrs + 2 * R(l) > n
      PROVE  \E i \in 1 .. l : es[i].type = REGULAR /\ ptrs + 2 * R(i) - 1 >= n
  <2>1. R(l) # 0
    BY <1>6
  <2>2. PICK i \in 1 .. l : es[i].type = REGULAR /\ R(i) = R(l)
    BY <1>4, <2>1
  <2>3. ptrs + 2 * R(i) - 1 >= n
    BY <1>1, <1>6, <2>2
  <2> QED
    BY <2>2, <2>3
<1>7. OutOfBound(ptrs, es, n) <=> ptrs + 2 * R(l) > n
  BY <1>2, <1>5, <1>6
<1> QED
  BY <1>7 DEF R

-----------------------------------------------------------------------------
(* The order in which a state stores its elements.                         *)

\* The places where a sequence visits a set, and what it visits there.
Visits(s, l, T)  == {i \in 1 .. l : s[i] \in T}
Visited(s, l, T) == {s[i] : i \in Visits(s, l, T)}

\* A sequence without repetitions visits as many members as it has places.
LEMMA VisitsAre ==
    ASSUME NEW l \in Nat, NEW s, DOMAIN s = 1 .. l, \A i, j \in 1 .. l : s[i] = s[j] => i = j, NEW T
    PROVE  /\ IsFiniteSet(Visits(s, l, T))
           /\ Cardinality(Visited(s, l, T)) = Cardinality(Visits(s, l, T))
<1> DEFINE I == Visits(s, l, T)
           V == Visited(s, l, T)
           f == [i \in I |-> s[i]]
<1>1. IsFiniteSet(I)
  <2>1. I \in SUBSET (1 .. l) /\ IsFiniteSet(1 .. l)
    BY FS_Interval DEF Visits
  <2> QED
    BY <2>1, FS_Subset
<1>2. f \in Bijection(I, V)
  BY DEF Bijection, Injection, Surjection, IsInjective, Visits, Visited
<1> HIDE DEF I, V, f
<1>3. Cardinality(V) = Cardinality(I)
  BY <1>1, <1>2, FS_Bijection DEF ExistsBijection
<1> QED
  BY <1>1, <1>3 DEF I, V


\* A sequence in the order of its characters.
Increasing(s, l) == \A i, j \in 1 .. l : i < j => s[i].c < s[j].c

\* What a bubble sort leaves of elements with different characters: the same
\* elements, in the order of their characters.
LEMMA SortArraysSorts ==
    ASSUME NEW es \in Seq(Element), Distinct(es), NEW l \in Nat, Len(es) = l,
           NEW so, so = SortArrays(es)
    PROVE  /\ so \in Seq(Element) /\ Len(so) = l /\ Distinct(so) /\ Increasing(so, l)
           /\ ToSet(so) = ToSet(es)
<1> DEFINE C == ToSet(es)
           g == [e \in C |-> e.c]
<1>1. DOMAIN es = 1 .. l /\ es \in [1 .. l -> Element] /\ C = {es[i] : i \in 1 .. l}
  BY DEF ToSet
<1>2. \A e \in Element : e.c \in 0 .. 255
  BY DEF Element, Byte
<1>3. \A i, j \in 1 .. l : es[i].c = es[j].c => i = j
  BY <1>1 DEF Distinct
<1>4. C \subseteq Element /\ g \in [C -> 0 .. 255]
  <2>1. C \subseteq Element
    BY <1>1
  <2> HIDE DEF C
  <2> QED
    BY <1>2, <2>1
<1>5. \A c, d \in C : g[c] = g[d] => c = d
  BY <1>1, <1>3
<1>6. IsFiniteSet(C) /\ Cardinality(C) = l
  <2>1. IsFiniteSet(1 .. l) /\ Cardinality(1 .. l) = l
    BY FS_Interval
  <2>2. es \in Bijection(1 .. l, C)
    BY <1>1, <1>3 DEF Bijection, Injection, Surjection, IsInjective
  <2> QED
    BY <2>1, <2>2, FS_Bijection DEF ExistsBijection
<1> HIDE DEF C
<1>7. PICK s \in [1 .. l -> C] :
         /\ {s[i] : i \in DOMAIN s} = C
         /\ \A i, j \in DOMAIN s : i < j => g[s[i]] < g[s[j]]
  <2> DEFINE b == 255
  <2>1. b \in Nat
    OBVIOUS
  <2>2. g \in [C -> 0 .. b] /\ IsFiniteSet(C)
    BY <1>4, <1>6
  <2> HIDE DEF g, b
  <2>3. \E s \in [1 .. Cardinality(C) -> C] :
           /\ {s[i] : i \in DOMAIN s} = C
           /\ \A i, j \in DOMAIN s : i < j => g[s[i]] < g[s[j]]
    BY <1>5, <2>1, <2>2, Enumeration
  <2> QED
    BY <1>6, <2>3
<1>8. \A i, j \in 1 .. l : i < j => s[i].c < s[j].c
  BY <1>7
<1>0. \A i \in 1 .. l : s[i].c \in Int
  <2>1. \A i \in 1 .. l : s[i] \in Element
    BY <1>4, <1>7
  <2>2. \A x \in 0 .. 255 : x \in Int
    OBVIOUS
  <2> QED
    BY <1>2, <2>1, <2>2
<1>9. ASSUME NEW k \in 1 .. l
      PROVE  Cardinality({f \in C : f.c < s[k].c}) = k - 1
  <2>1. {f \in C : f.c < s[k].c} = {s[i] : i \in 1 .. k - 1}
    <3>1. ASSUME NEW f \in C, f.c < s[k].c PROVE \E i \in 1 .. k - 1 : f = s[i]
      <4>1. PICK i \in 1 .. l : f = s[i]
        BY <1>7
      <4>2. s[i].c \in Int /\ s[k].c \in Int
        BY <1>0
      <4>3. ~ (k < i) /\ k # i
        BY <1>8, <3>1, <4>1, <4>2
      <4> QED
        BY <4>1, <4>3
    <3>2. ASSUME NEW i \in 1 .. k - 1 PROVE s[i] \in C /\ s[i].c < s[k].c
      BY <1>7, <1>8
    <3> QED
      BY <3>1, <3>2
  <2>2. IsFiniteSet(1 .. k - 1) /\ Cardinality(1 .. k - 1) = k - 1
    <3>1. 1 \in Int /\ k - 1 \in Int /\ k >= 1
      OBVIOUS
    <3>2. /\ IsFiniteSet(1 .. k - 1)
          /\ Cardinality(1 .. k - 1) = IF 1 > k - 1 THEN 0 ELSE (k - 1) - 1 + 1
      BY <3>1, FS_Interval
    <3> QED
      BY <3>1, <3>2
  <2> DEFINE f == [i \in 1 .. k - 1 |-> s[i]]
             V == {s[i] : i \in 1 .. k - 1}
  <2>3. \A i, j \in 1 .. k - 1 : s[i] = s[j] => i = j
    <3>1. \A i, j \in 1 .. l : i < j => s[i] # s[j]
      BY <1>0, <1>8
    <3> QED
      BY <3>1
  <2>4. f \in Bijection(1 .. k - 1, V)
    BY <2>3 DEF Bijection, Injection, Surjection, IsInjective
  <2> HIDE DEF f, V
  <2>5. Cardinality(V) = k - 1
    BY <2>2, <2>4, FS_Bijection DEF ExistsBijection
  <2> QED
    BY <2>1, <2>5 DEF V
<1>10. ASSUME NEW k \in 1 .. l PROVE so[k] = s[k]
  <2> DEFINE Rank(e) == Cardinality({f \in C : f.c < e.c})
  <2>1. so[k] = CHOOSE e \in C : Rank(e) = k - 1
    BY <1>1 DEF SortArrays, C
  <2>2. \A e \in C : Rank(e) = k - 1 => e = s[k]
    <3>1. SUFFICES ASSUME NEW e \in C, Rank(e) = k - 1 PROVE e = s[k]
      OBVIOUS
    <3>2. PICK i \in 1 .. l : e = s[i]
      BY <1>7
    <3>3. Rank(e) = i - 1
      BY <1>9, <3>2
    <3> QED
      BY <3>1, <3>2, <3>3
  <2>3. s[k] \in C /\ Rank(s[k]) = k - 1
    BY <1>7, <1>9
  <2> HIDE DEF Rank
  <2> QED
    BY <2>1, <2>2, <2>3
<1>11. DOMAIN so = 1 .. l
  BY <1>1 DEF SortArrays
<1>12. so = s
  <2> DEFINE F(k) == CHOOSE e \in C : Cardinality({f \in C : f.c < e.c}) = k - 1
  <2>1. so = [k \in 1 .. l |-> F(k)]
    BY <1>1 DEF SortArrays, C
  <2> HIDE DEF F
  <2> QED
    BY <1>7, <1>10, <2>1
<1>13. so \in Seq(Element) /\ Len(so) = l
  <2>1. so \in [1 .. l -> Element]
    BY <1>4, <1>7, <1>12
  <2> QED
    BY <2>1
<1>14. Increasing(so, l)
  BY <1>8, <1>12 DEF Increasing
<1>15. Distinct(so)
  BY <1>0, <1>8, <1>11, <1>12 DEF Distinct
<1>16. ToSet(so) = C
  BY <1>7, <1>12 DEF ToSet
<1> QED
  BY <1>13, <1>14, <1>15, <1>16 DEF C

\* The same elements have the same pointers.
LEMMA SamePtrs ==
    ASSUME NEW l \in Nat, NEW s, DOMAIN s = 1 .. l, Distinct(s),
           NEW r, DOMAIN r = 1 .. l, Distinct(r), ToSet(s) = ToSet(r)
    PROVE  RegularIn(s, l) = RegularIn(r, l)
<1> DEFINE T == {e \in ToSet(s) : e.type = REGULAR}
<1>1. ASSUME NEW q, DOMAIN q = 1 .. l, Distinct(q), ToSet(q) = ToSet(s)
      PROVE  RegularIn(q, l) = Cardinality(T)
  <2>1. Visits(q, l, T) = {i \in 1 .. l : q[i].type = REGULAR}
    BY <1>1 DEF ToSet, Visits
  <2>2. Visited(q, l, T) = T
    BY <1>1, <2>1 DEF ToSet, Visited
  <2>3. \A i, j \in 1 .. l : q[i] = q[j] => i = j
    BY <1>1 DEF Distinct
  <2>4. Cardinality(Visited(q, l, T)) = Cardinality(Visits(q, l, T))
    <3> HIDE DEF T
    <3> QED
      BY <1>1, <2>3, VisitsAre
  <2> QED
    BY <2>1, <2>2, <2>4 DEF RegularIn
<1> QED
  BY <1>1

-----------------------------------------------------------------------------
(* The writers do what they should with a state that was created.          *)

\* A writer that keeps the bytes in front of the failure keeps what they say.
LEMMA CreatedStays ==
    ASSUME NEW d, NEW type, NEW n \in Nat, NEW i, NEW l, Created(d, type, n, i, l),
           NEW m \in Memory(n), NEW to \in Nat, Agree(d, m, 0, to), 4 <= to,
           type = PATH_COMPRESSED => 6 <= to
    PROVE  Created(m, type, n, i, l)
<1>1. \A a \in 0 .. 3 : m[a] = d[a]
  BY DEF Agree
<1>2. m[0] = d[0] /\ m[1] = d[1] /\ m[2] = d[2] /\ m[3] = d[3]
  BY <1>1
<1>3. type = PATH_COMPRESSED => m[4] = d[4] /\ m[5] = d[5]
  BY DEF Agree
<1>4. /\ GET_STATE_TYPE(m) = GET_STATE_TYPE(d) /\ HeaderSize(m) = HeaderSize(d)
      /\ Length14(m) = Length14(d)
  BY <1>2 DEF GET_STATE_TYPE, HeaderSize, Length14
<1>5. type = PATH_COMPRESSED => getSizeInBytes_PC(m) = getSizeInBytes_PC(d)
  BY <1>3 DEF getSizeInBytes_PC
<1>6. PtrsOf_LE(m) = PtrsOf_LE(d) /\ PtrsOf_BM(m) = PtrsOf_BM(d) /\ FailuresOf_PC(m) = FailuresOf_PC(d)
  BY <1>4 DEF PtrsOf_LE, FlagsOf_LE, PtrsOf_BM, FailuresOf_PC, FlagsOf_PC, MatchesOf_PC
<1>7. HeaderIs(m, type, n, i, l)
  <2>1. HeaderIs(d, type, n, i, l)
    BY DEF Created
  <2> QED
    BY <1>2, <1>4, <1>5, <2>1 DEF HeaderIs
<1> QED
  BY <1>6, <1>7 DEF Created

\* What the writers of the four layouts need, and when they exit.
LinearNeeds(d, es) == PtrsOf_LE(d) + 2 * RegularIn(SubSeq(es, 1, HeaderSize(d)), HeaderSize(d))
BitmapNeeds(d, es) == PtrsOf_BM(d) + 2 * RegularIn(SubSeq(es, 1, HeaderSize(d)), HeaderSize(d))
PathNeeds(d, es)   == FailuresOf_PC(d) + 2 * RegularIn(WithLevel0(es), Len(es))

\* What a state that was created is, by its type.
LEMMA LinearIs ==
    ASSUME NEW d, NEW n \in Nat, NEW i, NEW es \in Seq(Element), Created(d, LINEAR_ENCODED, n, i, Len(es))
    PROVE  /\ d \in Memory(n) /\ GET_STATE_TYPE(d) = LINEAR_ENCODED
           /\ HeaderSize(d) \in Nat /\ HeaderSize(d) <= Len(es) /\ HeaderSize(d) = Len(es) % 64
           /\ d[1] = Hi(i) /\ d[2] = Lo(i) /\ d[3] = n
           /\ PtrsOf_LE(d) \in Nat /\ PtrsOf_LE(d) <= n
           /\ WriterExits(d, es) <=> LinearNeeds(d, es) > n
<1> DEFINE l == HeaderSize(d)
           given == SubSeq(es, 1, l)
<1>1. /\ d \in Memory(n) /\ GET_STATE_TYPE(d) = LINEAR_ENCODED /\ l = Len(es) % 64
      /\ d[1] = Hi(i) /\ d[2] = Lo(i) /\ d[3] = n /\ PtrsOf_LE(d) <= n
  BY DEF Created, HeaderIs
<1>2. Len(es) \in Nat /\ l \in Nat /\ l <= Len(es)
  BY <1>1
<1>3. CeilDiv(3 * l, 8) \in Nat
  BY <1>2 DEF CeilDiv
<1>4. PtrsOf_LE(d) \in Nat
  BY <1>2, <1>3 DEF PtrsOf_LE, FlagsOf_LE, FAIL_IDX
<1>5. DOMAIN given = 1 .. l
  BY <1>2
<1>6. WriterExits(d, es) <=> OutOfBound(PtrsOf_LE(d), given, n)
  BY <1>1 DEF WriterExits, LINEAR_ENCODED, BITMAP_ENCODED, LOOKUP_TABLE, PATH_COMPRESSED
<1>7. OutOfBound(PtrsOf_LE(d), given, n) <=> PtrsOf_LE(d) + 2 * RegularIn(given, l) > n
  <2> HIDE DEF given, l
  <2> QED
    BY <1>1, <1>2, <1>4, <1>5, OutOfBoundIs
<1> QED
  BY <1>1, <1>2, <1>4, <1>6, <1>7 DEF LinearNeeds

\* As LinearIs, for a bitmap encoded state.
LEMMA BitmapIs ==
    ASSUME NEW d, NEW n \in Nat, NEW i, NEW es \in Seq(Element), Created(d, BITMAP_ENCODED, n, i, Len(es))
    PROVE  /\ d \in Memory(n) /\ GET_STATE_TYPE(d) = BITMAP_ENCODED
           /\ HeaderSize(d) \in Nat /\ HeaderSize(d) <= Len(es) /\ HeaderSize(d) = Len(es) % 64
           /\ d[1] = Hi(i) /\ d[2] = Lo(i) /\ d[3] = n
           /\ PtrsOf_BM(d) \in Nat /\ PtrsOf_BM(d) <= n
           /\ WriterExits(d, es) <=> BitmapNeeds(d, es) > n
<1> DEFINE l == HeaderSize(d)
           given == SubSeq(es, 1, l)
<1>1. /\ d \in Memory(n) /\ GET_STATE_TYPE(d) = BITMAP_ENCODED /\ l = Len(es) % 64
      /\ d[1] = Hi(i) /\ d[2] = Lo(i) /\ d[3] = n /\ PtrsOf_BM(d) <= n
  BY DEF Created, HeaderIs
<1>2. Len(es) \in Nat /\ l \in Nat /\ l <= Len(es)
  BY <1>1
<1>3. CeilDiv(3 * l, 8) \in Nat
  BY <1>2 DEF CeilDiv
<1>4. PtrsOf_BM(d) \in Nat
  BY <1>2, <1>3 DEF PtrsOf_BM, FlagsOf_BM, FAIL_IDX
<1>5. DOMAIN given = 1 .. l
  BY <1>2
<1>6. WriterExits(d, es) <=> OutOfBound(PtrsOf_BM(d), given, n)
  BY <1>1 DEF WriterExits, LINEAR_ENCODED, BITMAP_ENCODED, LOOKUP_TABLE, PATH_COMPRESSED
<1>7. OutOfBound(PtrsOf_BM(d), given, n) <=> PtrsOf_BM(d) + 2 * RegularIn(given, l) > n
  <2> HIDE DEF given, l
  <2> QED
    BY <1>1, <1>2, <1>4, <1>5, OutOfBoundIs
<1> QED
  BY <1>1, <1>2, <1>4, <1>6, <1>7 DEF BitmapNeeds

\* As LinearIs, for a lookup table.
LEMMA LookupIs ==
    ASSUME NEW d, NEW n \in Nat, NEW i, NEW es \in Seq(Element), Created(d, LOOKUP_TABLE, n, i, Len(es))
    PROVE  /\ d \in Memory(n) /\ n = SIZE_IN_BYTES /\ GET_STATE_TYPE(d) = LOOKUP_TABLE
           /\ Length14(d) = Len(es) /\ d[2] = Hi(i) /\ d[3] = Lo(i)
           /\ ~ WriterExits(d, es)
<1>1. /\ d \in Memory(n) /\ n = SIZE_IN_BYTES /\ GET_STATE_TYPE(d) = LOOKUP_TABLE
      /\ Length14(d) = Len(es) /\ d[2] = Hi(i) /\ d[3] = Lo(i)
  BY DEF Created, HeaderIs
<1>2. ~ WriterExits(d, es)
  BY <1>1 DEF WriterExits, LINEAR_ENCODED, BITMAP_ENCODED, LOOKUP_TABLE, PATH_COMPRESSED
<1> QED
  BY <1>1, <1>2

\* As LinearIs, for a path.
LEMMA PathIs ==
    ASSUME NEW d, NEW n \in Nat, NEW i, NEW es \in Seq(Element), Created(d, PATH_COMPRESSED, n, i, Len(es))
    PROVE  /\ d \in Memory(n) /\ GET_STATE_TYPE(d) = PATH_COMPRESSED
           /\ Length14(d) = Len(es) /\ d[2] = Hi(i) /\ d[3] = Lo(i) /\ getSizeInBytes_PC(d) = n
           /\ FailuresOf_PC(d) \in Nat /\ FailuresOf_PC(d) <= n
           /\ WriterExits(d, es) <=> PathNeeds(d, es) > n
<1> DEFINE l == Len(es)
           given == WithLevel0(es)
<1>1. /\ d \in Memory(n) /\ GET_STATE_TYPE(d) = PATH_COMPRESSED /\ Length14(d) = l
      /\ d[2] = Hi(i) /\ d[3] = Lo(i) /\ getSizeInBytes_PC(d) = n /\ FailuresOf_PC(d) <= n
  BY DEF Created, HeaderIs
<1>2. l \in Nat
  OBVIOUS
<1>3. CeilDiv(l, 8) \in Nat /\ CeilDiv(l, 4) \in Nat
  BY <1>2 DEF CeilDiv
<1>4. FailuresOf_PC(d) \in Nat
  BY <1>1, <1>2, <1>3 DEF FailuresOf_PC, FlagsOf_PC, MatchesOf_PC, GOTO_IDX
<1>5. DOMAIN given = 1 .. l
  BY Level0
<1>6. WriterExits(d, es) <=> OutOfBound(FailuresOf_PC(d), given, n)
  BY <1>1 DEF WriterExits, LINEAR_ENCODED, BITMAP_ENCODED, LOOKUP_TABLE, PATH_COMPRESSED
<1>7. OutOfBound(FailuresOf_PC(d), given, n) <=> FailuresOf_PC(d) + 2 * RegularIn(given, l) > n
  <2> HIDE DEF given, l
  <2> QED
    BY <1>1, <1>2, <1>4, <1>5, OutOfBoundIs
<1> QED
  BY <1>1, <1>2, <1>4, <1>6, <1>7 DEF PathNeeds


\* A memory holds what the writer of its layout was given.
Holds(m, n, es, fail) ==
    CASE GET_STATE_TYPE(m) = LINEAR_ENCODED ->
            m \in LinearHas(n, m, SubSeq(es, 1, HeaderSize(m)), fail, HeaderSize(m))
      [] GET_STATE_TYPE(m) = BITMAP_ENCODED ->
            m \in BitmapHas(n, m, SortArrays(SubSeq(es, 1, HeaderSize(m))), fail, HeaderSize(m))
      [] GET_STATE_TYPE(m) = LOOKUP_TABLE ->
            m \in LookupHas(n, m, SortArrays(SubSeq(es, 1, Length14(m))), fail, Length14(m))
      [] GET_STATE_TYPE(m) = PATH_COMPRESSED ->
            m \in PathHas(n, m, WithLevel0(SubSeq(es, 1, Length14(m))), fail, Length14(m))

\* The offsets of two memories with the same first bytes.
LEMMA SameOffsets ==
    ASSUME NEW d, NEW m, HeaderSize(m) = HeaderSize(d), d[1] = m[1]
    PROVE  /\ FlagsOf_LE(m) = FlagsOf_LE(d) /\ PtrsOf_LE(m) = PtrsOf_LE(d) /\ PtrsOf_BM(m) = PtrsOf_BM(d)
           /\ Length14(m) = Length14(d) /\ MatchesOf_PC(m) = MatchesOf_PC(d)
           /\ FlagsOf_PC(m) = FlagsOf_PC(d) /\ FailuresOf_PC(m) = FailuresOf_PC(d)
  BY DEF PtrsOf_LE, FlagsOf_LE, PtrsOf_BM, FailuresOf_PC, FlagsOf_PC, MatchesOf_PC, Length14

\* Every memory agrees with itself.
LEMMA AgreesWithItself ==
    \A m : \A to \in Nat : Agree(m, m, 0, to)
  BY DEF Agree

\* setData leaves a linear encoded state that holds its elements.
LEMMA LinearStateIsSet ==
    ASSUME NEW d, NEW n \in Nat, NEW i, NEW es \in Seq(Element),
           Created(d, LINEAR_ENCODED, n, i, Len(es)), ~ WriterExits(d, es),
           NEW fail \in StateId, NEW m, m = setDataBranchState(d, es, fail)
    PROVE  Created(m, LINEAR_ENCODED, n, i, Len(es)) /\ ~ WriterExits(m, es) /\ Holds(m, n, es, fail)
<1> DEFINE l == HeaderSize(d)
           given == SubSeq(es, 1, l)
<1>1. /\ d \in Memory(n) /\ GET_STATE_TYPE(d) = LINEAR_ENCODED
      /\ l \in Nat /\ l <= Len(es) /\ PtrsOf_LE(d) \in Nat
      /\ LinearNeeds(d, es) <= n
  <2>1. LinearNeeds(d, es) \in Nat
    <3>1. HeaderSize(d) \in Nat /\ PtrsOf_LE(d) \in Nat
      BY LinearIs
    <3>2. RegularIn(SubSeq(es, 1, HeaderSize(d)), HeaderSize(d)) \in Nat
      BY <3>1, RegularRange
    <3> QED
      BY <3>1, <3>2 DEF LinearNeeds
  <2>2. n \in Nat
    OBVIOUS
  <2>3. ~ (LinearNeeds(d, es) > n)
    BY LinearIs
  <2>4. LinearNeeds(d, es) <= n
    BY <2>1, <2>2, <2>3
  <2> QED
    BY <2>4, LinearIs
<1>2. m = setStateData_LE(d, es, fail)
  BY <1>1 DEF setDataBranchState, StoredOrder, LINEAR_ENCODED, BITMAP_ENCODED, LOOKUP_TABLE
<1>3. m \in LinearHas(n, d, given, fail, l)
  <2>1. PtrsOf_LE(d) + 2 * RegularIn(given, l) <= n
    BY <1>1 DEF LinearNeeds
  <2> HIDE DEF given, l
  <2>2. HeaderSize(d) = l /\ given = SubSeq(es, 1, l)
    BY DEF given, l
  <2> QED
    BY <1>1, <1>2, <2>1, <2>2, LinearIsSet
<1>4. m \in Memory(n) /\ Agree(d, m, 0, FAIL_IDX)
  BY <1>3 DEF LinearHas
<1>5. Created(m, LINEAR_ENCODED, n, i, Len(es))
  <2> DEFINE to == FAIL_IDX
             t == LINEAR_ENCODED
             k == Len(es)
  <2>1. to \in Nat /\ 4 <= to /\ (t = PATH_COMPRESSED => 6 <= to)
    BY DEF FAIL_IDX, LINEAR_ENCODED, PATH_COMPRESSED
  <2>2. Created(d, t, n, i, k) /\ m \in Memory(n) /\ Agree(d, m, 0, to)
    BY <1>4
  <2> HIDE DEF to, t, k
  <2>3. Created(m, t, n, i, k)
    BY <2>1, <2>2, CreatedStays
  <2> QED
    BY <2>3 DEF t, k
<1>6. HeaderSize(m) = HeaderSize(d) /\ d[1] = m[1] /\ GET_STATE_TYPE(m) = LINEAR_ENCODED
  <2>1. HeaderSize(m) = Len(es) % 64 /\ m[1] = Hi(i) /\ GET_STATE_TYPE(m) = LINEAR_ENCODED
    BY ZenonT(30), <1>5, LinearIs
  <2>2. HeaderSize(d) = Len(es) % 64 /\ d[1] = Hi(i)
    BY LinearIs
  <2> QED
    BY <2>1, <2>2
<1>7. FlagsOf_LE(m) = FlagsOf_LE(d) /\ PtrsOf_LE(m) = PtrsOf_LE(d)
  BY <1>6, SameOffsets
<1>8. ~ WriterExits(m, es)
  <2>1. LinearNeeds(m, es) = LinearNeeds(d, es)
    BY <1>6, <1>7 DEF LinearNeeds
  <2>2. WriterExits(m, es) <=> LinearNeeds(m, es) > n
    BY <1>5, LinearIs
  <2>3. WriterExits(d, es) <=> LinearNeeds(d, es) > n
    BY LinearIs
  <2> QED
    BY <2>1, <2>2, <2>3
<1>9. Agree(m, m, 0, FAIL_IDX)
  BY AgreesWithItself DEF FAIL_IDX
<1>10. m \in LinearHas(n, m, given, fail, l)
  <2> HIDE DEF given, l
  <2> QED
    BY <1>3, <1>7, <1>9 DEF LinearHas
<1>11. Holds(m, n, es, fail)
  BY <1>6, <1>10 DEF Holds, LINEAR_ENCODED, BITMAP_ENCODED, LOOKUP_TABLE, PATH_COMPRESSED
<1> QED
  BY <1>5, <1>8, <1>11

\* setData leaves a bitmap encoded state that holds its elements.
LEMMA BitmapStateIsSet ==
    ASSUME NEW d, NEW n \in Nat, NEW i, NEW es \in Seq(Element), Distinct(es),
           Created(d, BITMAP_ENCODED, n, i, Len(es)), ~ WriterExits(d, es),
           NEW fail \in StateId, NEW m, m = setDataBranchState(d, es, fail)
    PROVE  Created(m, BITMAP_ENCODED, n, i, Len(es)) /\ ~ WriterExits(m, es) /\ Holds(m, n, es, fail)
<1> DEFINE l == HeaderSize(d)
           first == SubSeq(es, 1, l)
           given == SortArrays(first)
<1>1. /\ d \in Memory(n) /\ GET_STATE_TYPE(d) = BITMAP_ENCODED
      /\ l \in Nat /\ l <= Len(es) /\ PtrsOf_BM(d) \in Nat
      /\ BitmapNeeds(d, es) <= n
  <2>1. BitmapNeeds(d, es) \in Nat
    <3>1. HeaderSize(d) \in Nat /\ PtrsOf_BM(d) \in Nat
      BY BitmapIs
    <3>2. RegularIn(SubSeq(es, 1, HeaderSize(d)), HeaderSize(d)) \in Nat
      BY <3>1, RegularRange
    <3> QED
      BY <3>1, <3>2 DEF BitmapNeeds
  <2>2. n \in Nat
    OBVIOUS
  <2>3. ~ (BitmapNeeds(d, es) > n)
    BY BitmapIs
  <2>4. BitmapNeeds(d, es) <= n
    BY <2>1, <2>2, <2>3
  <2> QED
    BY <2>4, BitmapIs
<1>2. m = setStateData_BM(d, given, fail)
  BY <1>1 DEF setDataBranchState, StoredOrder, LINEAR_ENCODED, BITMAP_ENCODED, LOOKUP_TABLE
<1>3. first \in Seq(Element) /\ Len(first) = l /\ DOMAIN first = 1 .. l
  BY <1>1, Given
<1>4. Distinct(first)
  BY <1>1 DEF Distinct
<1>5. given \in Seq(Element) /\ Len(given) = l /\ Distinct(given) /\ ToSet(given) = ToSet(first)
  <2> HIDE DEF first, l
  <2> QED
    BY <1>1, <1>3, <1>4, SortArraysSorts
<1>6. RegularIn(given, l) = RegularIn(first, l)
  <2> HIDE DEF first, l, given
  <2>1. DOMAIN given = 1 .. l
    BY <1>5
  <2> QED
    BY <1>1, <1>3, <1>4, <1>5, <2>1, SamePtrs
<1>7. given = SubSeq(given, 1, l)
  <2> HIDE DEF first, l, given
  <2> QED
    BY <1>1, <1>5
<1>8. m \in BitmapHas(n, d, given, fail, l)
  <2>1. PtrsOf_BM(d) + 2 * RegularIn(given, l) <= n
    BY <1>1, <1>6 DEF BitmapNeeds
  <2>2. HeaderSize(d) = l
    OBVIOUS
  <2> HIDE DEF given, l, first
  <2>3. l <= Len(given)
    BY <1>1, <1>5
  <2> QED
    BY <1>1, <1>2, <1>5, <1>7, <2>1, <2>2, <2>3, BitmapIsSet
<1>9. m \in Memory(n) /\ Agree(d, m, 0, FAIL_IDX)
  BY <1>8 DEF BitmapHas
<1>10. Created(m, BITMAP_ENCODED, n, i, Len(es))
  <2> DEFINE to == FAIL_IDX
             t == BITMAP_ENCODED
             k == Len(es)
  <2>1. to \in Nat /\ 4 <= to /\ (t = PATH_COMPRESSED => 6 <= to)
    BY DEF FAIL_IDX, BITMAP_ENCODED, PATH_COMPRESSED
  <2>2. Created(d, t, n, i, k) /\ m \in Memory(n) /\ Agree(d, m, 0, to)
    BY <1>9
  <2> HIDE DEF to, t, k
  <2>3. Created(m, t, n, i, k)
    BY <2>1, <2>2, CreatedStays
  <2> QED
    BY <2>3 DEF t, k
<1>11. HeaderSize(m) = HeaderSize(d) /\ d[1] = m[1] /\ GET_STATE_TYPE(m) = BITMAP_ENCODED
  <2>1. HeaderSize(m) = Len(es) % 64 /\ m[1] = Hi(i) /\ GET_STATE_TYPE(m) = BITMAP_ENCODED
    BY <1>10, BitmapIs
  <2>2. HeaderSize(d) = Len(es) % 64 /\ d[1] = Hi(i)
    BY BitmapIs
  <2> QED
    BY <2>1, <2>2
<1>12. PtrsOf_BM(m) = PtrsOf_BM(d)
  BY <1>11, SameOffsets
<1>13. ~ WriterExits(m, es)
  <2>1. BitmapNeeds(m, es) = BitmapNeeds(d, es)
    BY <1>11, <1>12 DEF BitmapNeeds
  <2>2. WriterExits(m, es) <=> BitmapNeeds(m, es) > n
    BY <1>10, BitmapIs
  <2>3. WriterExits(d, es) <=> BitmapNeeds(d, es) > n
    BY BitmapIs
  <2> QED
    BY <2>1, <2>2, <2>3
<1>14. Agree(m, m, 0, FAIL_IDX)
  BY AgreesWithItself DEF FAIL_IDX
<1>15. m \in BitmapHas(n, m, given, fail, l)
  <2> HIDE DEF given, l, first
  <2> QED
    BY <1>8, <1>12, <1>14 DEF BitmapHas
<1>16. Holds(m, n, es, fail)
  BY <1>11, <1>15 DEF Holds, LINEAR_ENCODED, BITMAP_ENCODED, LOOKUP_TABLE, PATH_COMPRESSED
<1> QED
  BY <1>10, <1>13, <1>16


\* setData leaves a lookup table that holds its elements.
LEMMA LookupStateIsSet ==
    ASSUME NEW d, NEW n \in Nat, NEW i, NEW es \in Seq(Element), Distinct(es),
           Created(d, LOOKUP_TABLE, n, i, Len(es)),
           NEW fail \in StateId, NEW m, m = setDataBranchState(d, es, fail)
    PROVE  Created(m, LOOKUP_TABLE, n, i, Len(es)) /\ ~ WriterExits(m, es) /\ Holds(m, n, es, fail)
<1> DEFINE l == Length14(d)
           first == SubSeq(es, 1, l)
           given == SortArrays(first)
<1>1. /\ d \in Memory(n) /\ n = SIZE_IN_BYTES /\ GET_STATE_TYPE(d) = LOOKUP_TABLE
      /\ l \in Nat /\ l = Len(es)
  BY LookupIs
<1>2. m = setStateData_LT(d, given, fail)
  BY <1>1 DEF setDataBranchState, StoredOrder, LINEAR_ENCODED, BITMAP_ENCODED, LOOKUP_TABLE
<1>3. first \in Seq(Element) /\ Len(first) = l /\ DOMAIN first = 1 .. l
  BY <1>1, Given
<1>4. Distinct(first)
  BY <1>1 DEF Distinct
<1>5. given \in Seq(Element) /\ Len(given) = l /\ Distinct(given)
  <2> HIDE DEF first, l
  <2> QED
    BY <1>1, <1>3, <1>4, SortArraysSorts
<1>6. given = SubSeq(given, 1, l)
  <2> HIDE DEF first, l, given
  <2> QED
    BY <1>1, <1>5
<1>7. m \in LookupHas(n, d, given, fail, l)
  <2>1. Length14(d) = l
    OBVIOUS
  <2> HIDE DEF given, l, first
  <2>2. l <= Len(given)
    BY <1>1, <1>5
  <2> QED
    BY <1>1, <1>2, <1>5, <1>6, <2>1, <2>2, LookupIsSet
<1>8. m \in Memory(n) /\ Agree(d, m, 0, FAIL_IDX_LT)
  BY <1>7 DEF LookupHas
<1>9. Created(m, LOOKUP_TABLE, n, i, Len(es))
  <2>1. FAIL_IDX_LT \in Nat /\ 4 <= FAIL_IDX_LT /\ LOOKUP_TABLE # PATH_COMPRESSED
    BY DEF FAIL_IDX_LT, LOOKUP_TABLE, PATH_COMPRESSED
  <2> QED
    BY <1>8, <2>1, CreatedStays
<1>10. Length14(m) = Length14(d) /\ GET_STATE_TYPE(m) = LOOKUP_TABLE /\ ~ WriterExits(m, es)
  BY <1>1, <1>9, LookupIs
<1>11. Agree(m, m, 0, FAIL_IDX_LT)
  BY AgreesWithItself DEF FAIL_IDX_LT
<1>12. m \in LookupHas(n, m, given, fail, l)
  <2> HIDE DEF given, l, first
  <2> QED
    BY <1>7, <1>11 DEF LookupHas
<1>13. Holds(m, n, es, fail)
  BY <1>10, <1>12 DEF Holds, LINEAR_ENCODED, BITMAP_ENCODED, LOOKUP_TABLE, PATH_COMPRESSED
<1> QED
  BY <1>9, <1>10, <1>13

\* setStateData_PC leaves a path that holds its elements.
LEMMA PathStateIsSet ==
    ASSUME NEW d, NEW n \in Nat, NEW i, NEW es \in Seq(Element),
           Created(d, PATH_COMPRESSED, n, i, Len(es)), ~ WriterExits(d, es),
           NEW next \in StateId, NEW m, m = setStateData_PC(d, es, next)
    PROVE  Created(m, PATH_COMPRESSED, n, i, Len(es)) /\ ~ WriterExits(m, es) /\ Holds(m, n, es, next)
<1> DEFINE l == Length14(d)
           given == WithLevel0(SubSeq(es, 1, l))
<1>1. /\ d \in Memory(n) /\ GET_STATE_TYPE(d) = PATH_COMPRESSED
      /\ l \in Nat /\ l = Len(es) /\ FailuresOf_PC(d) \in Nat /\ PathNeeds(d, es) <= n
  <2>1. PathNeeds(d, es) \in Nat
    <3>1. Len(es) \in Nat /\ FailuresOf_PC(d) \in Nat
      BY PathIs
    <3>2. RegularIn(WithLevel0(es), Len(es)) \in Nat
      BY <3>1, RegularRange
    <3> QED
      BY <3>1, <3>2 DEF PathNeeds
  <2>2. n \in Nat
    OBVIOUS
  <2>3. ~ (PathNeeds(d, es) > n)
    BY PathIs
  <2>4. PathNeeds(d, es) <= n
    BY <2>1, <2>2, <2>3
  <2>5. Len(es) \in Nat
    OBVIOUS
  <2> QED
    BY <2>4, <2>5, PathIs
<1>2. SubSeq(es, 1, l) = es
  BY <1>1
<1>3. m \in PathHas(n, d, given, next, l)
  <2>1. FailuresOf_PC(d) + 2 * RegularIn(given, l) <= n
    BY <1>1, <1>2 DEF PathNeeds
  <2>2. l <= Len(es)
    BY <1>1
  <2> HIDE DEF given, l
  <2>3. Length14(d) = l /\ given = WithLevel0(SubSeq(es, 1, l))
    BY DEF given, l
  <2> QED
    BY <1>1, <2>1, <2>2, <2>3, PathIsSet
<1>4. m \in Memory(n) /\ Agree(d, m, 0, GOTO_IDX)
  BY <1>3 DEF PathHas
<1>5. Created(m, PATH_COMPRESSED, n, i, Len(es))
  <2>1. GOTO_IDX \in Nat /\ 4 <= GOTO_IDX /\ 6 <= GOTO_IDX
    BY DEF GOTO_IDX
  <2> QED
    BY <1>4, <2>1, CreatedStays
<1>6. Length14(m) = Length14(d) /\ GET_STATE_TYPE(m) = PATH_COMPRESSED
  BY <1>1, <1>5, PathIs
<1>7. MatchesOf_PC(m) = MatchesOf_PC(d) /\ FlagsOf_PC(m) = FlagsOf_PC(d) /\ FailuresOf_PC(m) = FailuresOf_PC(d)
  BY <1>6 DEF FailuresOf_PC, FlagsOf_PC, MatchesOf_PC
<1>8. ~ WriterExits(m, es)
  <2>1. PathNeeds(m, es) = PathNeeds(d, es)
    BY <1>7 DEF PathNeeds
  <2>2. WriterExits(m, es) <=> PathNeeds(m, es) > n
    BY <1>5, PathIs
  <2>3. WriterExits(d, es) <=> PathNeeds(d, es) > n
    BY PathIs
  <2> QED
    BY <2>1, <2>2, <2>3
<1>9. Agree(m, m, 0, GOTO_IDX)
  BY AgreesWithItself DEF GOTO_IDX
<1>10. m \in PathHas(n, m, given, next, l)
  <2> HIDE DEF given, l
  <2> QED
    BY <1>3, <1>7, <1>9 DEF PathHas
<1>11. Holds(m, n, es, next)
  BY <1>6, <1>10 DEF Holds, LINEAR_ENCODED, BITMAP_ENCODED, LOOKUP_TABLE, PATH_COMPRESSED
<1> QED
  BY <1>5, <1>8, <1>11

\* A memory has as many bytes as offsets.
LEMMA MemoryIs ==
    ASSUME NEW n \in Nat, NEW d \in Memory(n)
    PROVE  Cardinality(DOMAIN d) = n /\ DOMAIN d = 0 .. n - 1
<1>1. DOMAIN d = 0 .. n - 1
  BY DEF Memory
<1>2. Cardinality(0 .. n - 1) = n
  BY FS_Interval
<1> QED
  BY <1>1, <1>2

\* A branch state that is created.
LEMMA BranchIsCreated ==
    ASSUME NEW type \in {LINEAR_ENCODED, BITMAP_ENCODED, LOOKUP_TABLE}, NEW i \in StateId,
           NEW l \in 1 .. MAX_ARRAY_LENGTH, NEW p \in 0 .. l, NEW g \in Byte,
           NEW d, d = generateEmptyBranchState(type, i, l, p, g)
    PROVE  \E t \in {LINEAR_ENCODED, BITMAP_ENCODED, LOOKUP_TABLE} : \E n \in Nat :
              Created(d, t, n, i, l) /\ Room(d, t, n, l - p) /\ (t # LOOKUP_TABLE => t = type)
<1> DEFINE t == TypeFor(type, l)
<1>0. t # LOOKUP_TABLE => t = type
  BY DEF TypeFor
<1>1. t \in {LINEAR_ENCODED, BITMAP_ENCODED, LOOKUP_TABLE} /\ (t # LOOKUP_TABLE => l \in 1 .. MAX_NODE_DEGREE)
  BY DEF TypeFor, MAX_NODE_DEGREE, MAX_ARRAY_LENGTH
<1>2. /\ t = LINEAR_ENCODED => d = createEmptyState_LE(i, l, p, g)
      /\ t = BITMAP_ENCODED => d = createEmptyState_BM(i, l, p, g)
      /\ t = LOOKUP_TABLE => d = createEmptyState_LT(i, l, g)
  BY DEF generateEmptyBranchState, LINEAR_ENCODED, BITMAP_ENCODED, LOOKUP_TABLE
<1>3. LINEAR_ENCODED # LOOKUP_TABLE /\ BITMAP_ENCODED # LOOKUP_TABLE
  BY DEF LINEAR_ENCODED, BITMAP_ENCODED, LOOKUP_TABLE
<1> HIDE DEF t
<1>4. CASE t = LINEAR_ENCODED
  <2>1. l \in 1 .. MAX_NODE_DEGREE /\ d = createEmptyState_LE(i, l, p, g)
    BY <1>1, <1>2, <1>3, <1>4
  <2> QED
    BY <1>0, <1>4, <2>1, LinearIsCreated
<1>5. CASE t = BITMAP_ENCODED
  <2>1. l \in 1 .. MAX_NODE_DEGREE /\ d = createEmptyState_BM(i, l, p, g)
    BY <1>1, <1>2, <1>3, <1>5
  <2> QED
    BY <1>0, <1>5, <2>1, BitmapIsCreated
<1>6. CASE t = LOOKUP_TABLE
  <2>1. d = createEmptyState_LT(i, l, g)
    BY <1>2, <1>6
  <2>2. SIZE_IN_BYTES \in Nat
    BY DEF SIZE_IN_BYTES
  <2>3. Room(d, LOOKUP_TABLE, SIZE_IN_BYTES, l - p)
    BY DEF Room, LINEAR_ENCODED, BITMAP_ENCODED, LOOKUP_TABLE, PATH_COMPRESSED
  <2> QED
    BY <1>0, <1>6, <2>1, <2>2, <2>3, LookupIsCreated
<1> QED
  BY <1>1, <1>4, <1>5, <1>6

-----------------------------------------------------------------------------
(* The readers of branch states.                                           *)

\* How many of the first k elements match.
MatchesIn(es, k) == Cardinality({j \in 1 .. k : es[j].match = 1})

\* Counting from zero, and from one.
CountFrom0(k, S) == Cardinality({j \in 0 .. k - 1 : j + 1 \in S})
CountFrom1(k, S) == Cardinality({j \in 1 .. k : j \in S})

\* Members counted from 0 and from 1.
LEMMA Shift ==
    ASSUME NEW k \in Nat, NEW S
    PROVE  CountFrom0(k, S) = CountFrom1(k, S)
<1> DEFINE A == {j \in 1 .. k : j \in S}
           B == {j \in 0 .. k - 1 : j + 1 \in S}
           f == [j \in A |-> j - 1]
<1>1. f \in [A -> B]
  OBVIOUS
<1>2. \A t \in B : \E s \in A : f[s] = t
  <2>1. \A t \in B : t + 1 \in A /\ f[t + 1] = t
    OBVIOUS
  <2> QED
    BY <2>1
<1>3. IsInjective(f)
  BY DEF IsInjective
<1>4. IsFiniteSet(A)
  <2>1. A \in SUBSET (1 .. k) /\ IsFiniteSet(1 .. k)
    BY FS_Interval
  <2> QED
    BY <2>1, FS_Subset
<1> HIDE DEF A, B, f
<1>5. f \in Bijection(A, B)
  BY <1>1, <1>2, <1>3 DEF Bijection, Injection, Surjection
<1>6. Cardinality(A) = Cardinality(B)
  BY <1>4, <1>5, FS_Bijection DEF ExistsBijection
<1> QED
  BY <1>6 DEF A, B, CountFrom0, CountFrom1

\* The pointer matters for type REGULAR only.
LEMMA ResolveIs ==
    ASSUME NEW type \in {REGULAR, LEVEL1, LEVEL2}, NEW p, NEW q, type = REGULAR => p = q,
           NEW str, NEW idx, NEW first, NEW second
    PROVE  Resolve(type, p, str, idx, first, second) = Resolve(type, q, str, idx, first, second)
<1>1. CASE type = REGULAR
  BY <1>1
<1>2. CASE type # REGULAR
  BY <1>2 DEF Resolve, REGULAR, LEVEL0, LEVEL1, LEVEL2
<1> QED
  BY <1>1, <1>2

\* Where the flags and the pointers of some elements are stored, the reader of
\* linear and bitmap encoded states goes where the i-th element says.
LEMMA FlagIsRead ==
    ASSUME NEW es \in Seq(Element), NEW h \in Nat, Len(es) = h, NEW d, NEW flags \in Nat, NEW ptrs \in Nat,
           FlagsAre(d, flags, es, h, h), PtrsAre(d, ptrs, es, h), NEW i \in 1 .. h,
           NEW str, NEW idx, NEW first, NEW second
    PROVE  GotoByFlag(d, flags, ptrs, i - 1, str, idx, first, second)
             = Goto(Resolve(es[i].type, es[i].ptr, str, idx + 1, first, second),
                    es[i].match, MatchesIn(es, i - 1), idx)
<1> DEFINE flag(k) == GET_3BITS(d, flags, k)
           type(k) == GET_PTR_TYPE(flag(k))
           match(k) == GET_MATCH_BIT(flag(k))
           j == i - 1
           R == {k \in 1 .. h : es[k].type = REGULAR}
           M == {k \in 1 .. h : es[k].match = 1}
<1>1. j \in Nat /\ j + 1 = i /\ j \in 0 .. h - 1 /\ \A k \in 0 .. j - 1 : k \in 0 .. h - 1
  OBVIOUS
<1>2. ASSUME NEW k \in 0 .. h - 1
      PROVE  /\ k + 1 \in 1 .. h /\ es[k + 1] \in Element
             /\ type(k) = es[k + 1].type /\ match(k) = es[k + 1].match
  <2>1. k < h /\ k + 1 \in 1 .. h
    OBVIOUS
  <2>2. flag(k) = Flag(es[k + 1])
    BY <2>1 DEF FlagsAre
  <2>3. es[k + 1] \in Element
    BY <2>1
  <2>4. GET_PTR_TYPE(Flag(es[k + 1])) = es[k + 1].type /\ GET_MATCH_BIT(Flag(es[k + 1])) = es[k + 1].match
    BY <2>3, ElementFits
  <2> QED
    BY <2>1, <2>2, <2>3, <2>4
<1>3. es[i] \in Element /\ type(j) = es[i].type /\ match(j) = es[i].match
  BY <1>1, <1>2
<1> HIDE DEF flag, type, match
<1>4. Cardinality({k \in 0 .. j - 1 : type(k) = REGULAR}) = RegularIn(es, j)
  <2>1. {k \in 0 .. j - 1 : type(k) = REGULAR} = {k \in 0 .. j - 1 : k + 1 \in R}
    BY <1>1, <1>2
  <2>2. {k \in 1 .. j : es[k].type = REGULAR} = {k \in 1 .. j : k \in R}
    BY <1>1
  <2>3. CountFrom0(j, R) = CountFrom1(j, R)
    <3> HIDE DEF R, j
    <3> QED
      BY <1>1, Shift
  <2> QED
    BY <2>1, <2>2, <2>3 DEF CountFrom0, CountFrom1, RegularIn
<1>5. Cardinality({k \in 0 .. j - 1 : match(k) = 1}) = MatchesIn(es, j)
  <2>1. {k \in 0 .. j - 1 : match(k) = 1} = {k \in 0 .. j - 1 : k + 1 \in M}
    BY <1>1, <1>2
  <2>2. {k \in 1 .. j : es[k].match = 1} = {k \in 1 .. j : k \in M}
    BY <1>1
  <2>3. CountFrom0(j, M) = CountFrom1(j, M)
    <3> HIDE DEF M, j
    <3> QED
      BY <1>1, Shift
  <2> QED
    BY <2>1, <2>2, <2>3 DEF CountFrom0, CountFrom1, MatchesIn
<1> DEFINE p == Fetch(d, ptrs + PTR_SIZE * Cardinality({k \in 0 .. j - 1 : type(k) = REGULAR}))
<1>6. es[i].type = REGULAR => p = es[i].ptr
  <2> HIDE DEF j
  <2>1. p = Fetch(d, ptrs + PTR_SIZE * RegularIn(es, j))
    BY <1>4
  <2>2. PtrAt(ptrs, es, i) = ptrs + PTR_SIZE * RegularIn(es, j)
    BY DEF PtrAt, j
  <2> QED
    BY <2>1, <2>2 DEF PtrsAre
<1> HIDE DEF p
<1>7. type(j) # LEVEL0 /\ es[i].type \in {REGULAR, LEVEL1, LEVEL2}
  <2>1. es[i].type \in {REGULAR, LEVEL1, LEVEL2}
    BY <1>3, ElementFits
  <2> QED
    BY <1>3, <2>1 DEF REGULAR, LEVEL0, LEVEL1, LEVEL2
<1>8. Resolve(type(j), p, str, idx + 1, first, second) = Resolve(es[i].type, es[i].ptr, str, idx + 1, first, second)
  <2>1. Resolve(es[i].type, p, str, idx + 1, first, second) = Resolve(es[i].type, es[i].ptr, str, idx + 1, first, second)
    BY <1>6, <1>7, ResolveIs
  <2> QED
    BY <1>3, <2>1
<1>9. GotoByFlag(d, flags, ptrs, j, str, idx, first, second)
        = Goto(IF type(j) = LEVEL0 THEN Nowhere ELSE Resolve(type(j), p, str, idx + 1, first, second),
               match(j), Cardinality({k \in 0 .. j - 1 : match(k) = 1}), idx)
  BY DEF GotoByFlag, FetchPtr, flag, type, match, p
<1> QED
  BY <1>3, <1>5, <1>7, <1>8, <1>9


\* The i-th element's part of what a reader returns.
GotoOf(e, row, str, idx, first, second) ==
    Goto(Resolve(e.type, e.ptr, str, idx + 1, first, second), e.match, row, idx)

\* The characters are compared as signed chars: only those below 128 are found.
LEMMA SignedIs ==
    \A b \in Byte : \A c \in Byte : Signed(b) = c <=> b = c /\ c <= 127
  BY DEF Byte, Signed

\* What the reader of a list answers for c, when h children es were stored.
LinearAnswer(es, h, c, str, idx, first, second, fail, r) ==
    /\ (\A k \in 1 .. h : es[k].c # c) \/ c > 127 => r = Failed(fail, idx)
    /\ \A i \in 1 .. h : es[i].c = c /\ c <= 127 =>
          r = GotoOf(es[i], MatchesIn(es, i - 1), str, idx, first, second)

\* getNextState_LE reads a list that holds es.
LEMMA LinearReads ==
    ASSUME NEW n, NEW es \in Seq(Element), Distinct(es), NEW h \in Nat, Len(es) = h,
           NEW fail, NEW m, m \in LinearHas(n, m, es, fail, h), HeaderSize(m) = h,
           NEW c \in Byte, NEW str, NEW idx, str[idx + 1] = c, NEW first, NEW second,
           NEW r, r = getNextState_LE(m, str, idx, first, second)
    PROVE  LinearAnswer(es, h, c, str, idx, first, second, fail, r)
<1> SUFFICES /\ (\A k \in 1 .. h : es[k].c # c) \/ c > 127 => r = Failed(fail, idx)
             /\ \A i \in 1 .. h : es[i].c = c /\ c <= 127 =>
                   r = GotoOf(es[i], MatchesIn(es, i - 1), str, idx, first, second)
  BY DEF LinearAnswer
<1> DEFINE at == {k \in 0 .. h - 1 : Signed(m[FAIL_IDX + 2 + k]) = c}
           flags == FlagsOf_LE(m)
           ptrs == PtrsOf_LE(m)
<1>1. /\ Fetch(m, FAIL_IDX) = fail /\ \A k \in 1 .. h : m[FAIL_IDX + 1 + k] = es[k].c
      /\ FlagsAre(m, flags, es, h, h) /\ PtrsAre(m, ptrs, es, h)
  BY DEF LinearHas
<1>2. flags \in Nat /\ ptrs \in Nat
  <2>1. CeilDiv(3 * h, 8) \in Nat
    BY DEF CeilDiv
  <2> QED
    BY <2>1 DEF FlagsOf_LE, PtrsOf_LE, FAIL_IDX
<1>3. \A k \in 0 .. h - 1 : k + 1 \in 1 .. h /\ m[FAIL_IDX + 2 + k] = es[k + 1].c
  <2>1. ASSUME NEW k \in 0 .. h - 1 PROVE k + 1 \in 1 .. h /\ m[FAIL_IDX + 2 + k] = es[k + 1].c
    <3>1. k + 1 \in 1 .. h /\ FAIL_IDX + 2 + k = FAIL_IDX + 1 + (k + 1)
      BY DEF FAIL_IDX
    <3> QED
      BY <1>1, <3>1
  <2> QED
    BY <2>1
<1>4. \A k \in 1 .. h : es[k] \in Element /\ es[k].c \in Byte
  BY ElementFits
<1>5. at = {k \in 0 .. h - 1 : es[k + 1].c = c /\ c <= 127}
  BY <1>3, <1>4, SignedIs
<1>6. r = IF at = {} THEN Failed(Fetch(m, FAIL_IDX), idx)
          ELSE GotoByFlag(m, flags, ptrs, CHOOSE k \in at : \A l \in at : k <= l, str, idx, first, second)
  BY DEF getNextState_LE
<1>7. ASSUME (\A k \in 1 .. h : es[k].c # c) \/ c > 127 PROVE r = Failed(fail, idx)
  <2>1. at = {}
    <3>1. c \in Nat
      BY DEF Byte
    <3>2. \A k \in 0 .. h - 1 : ~ (es[k + 1].c = c /\ c <= 127)
      BY <1>3, <1>7, <3>1
    <3> QED
      BY <1>5, <3>2
  <2> QED
    BY <1>1, <1>6, <2>1
<1>8. ASSUME NEW i \in 1 .. h, es[i].c = c, c <= 127
      PROVE  r = GotoOf(es[i], MatchesIn(es, i - 1), str, idx, first, second)
  <2>1. i - 1 \in 0 .. h - 1 /\ (i - 1) + 1 = i
    OBVIOUS
  <2>2. \A k \in 0 .. h - 1 : es[k + 1].c = c => k = i - 1
    <3>1. \A k \in 1 .. h : es[k].c = c => k = i
      BY <1>8 DEF Distinct
    <3> QED
      BY <1>3, <3>1
  <2>3. at = {i - 1}
    <3> HIDE DEF at
    <3> QED
      BY <1>5, <1>8, <2>1, <2>2
  <2>4. (CHOOSE k \in at : \A l \in at : k <= l) = i - 1
    <3> HIDE DEF at
    <3> QED
      BY <2>1, <2>3
  <2>5. r = GotoByFlag(m, flags, ptrs, i - 1, str, idx, first, second)
    <3> HIDE DEF at
    <3> QED
      BY <1>6, <2>3, <2>4
  <2>6. GotoByFlag(m, flags, ptrs, i - 1, str, idx, first, second)
          = Goto(Resolve(es[i].type, es[i].ptr, str, idx + 1, first, second),
                 es[i].match, MatchesIn(es, i - 1), idx)
    <3> HIDE DEF flags, ptrs
    <3> QED
      BY <1>1, <1>2, FlagIsRead
  <2> QED
    BY <2>5, <2>6 DEF GotoOf
<1> QED
  BY <1>7, <1>8

\* What a function without repetitions makes of a finite set has its size.
Image(f, I) == {f[j] : j \in I}

\* An injective function keeps the number of members.
LEMMA ImageSize ==
    ASSUME NEW l \in Nat, NEW I \in SUBSET (1 .. l), NEW f, DOMAIN f = 1 .. l,
           \A j, k \in 1 .. l : f[j] = f[k] => j = k
    PROVE  Cardinality(Image(f, I)) = Cardinality(I)
<1> DEFINE g == [j \in I |-> f[j]]
           V == Image(f, I)
<1>1. g \in Bijection(I, V)
  BY DEF Bijection, Injection, Surjection, IsInjective, Image
<1>2. IsFiniteSet(I)
  <2>1. IsFiniteSet(1 .. l)
    BY FS_Interval
  <2> QED
    BY <2>1, FS_Subset
<1> HIDE DEF g, V
<1>3. Cardinality(V) = Cardinality(I)
  BY <1>1, <1>2, FS_Bijection DEF ExistsBijection
<1> QED
  BY <1>3 DEF V

\* What the reader of a bitmap answers for c, when h children es were stored.
BitmapAnswer(es, h, c, str, idx, first, second, fail, r) ==
    /\ (\A k \in 1 .. h : es[k].c # c) => r = Failed(fail, idx)
    /\ \A i \in 1 .. h : es[i].c = c =>
          r = GotoOf(es[i], MatchesIn(es, i - 1), str, idx, first, second)

\* getNextState_BM reads a bitmap that holds es.
LEMMA BitmapReads ==
    ASSUME NEW n, NEW es \in Seq(Element), Distinct(es), NEW h \in Nat, Len(es) = h, Increasing(es, h),
           NEW fail, NEW m, m \in BitmapHas(n, m, es, fail, h), HeaderSize(m) = h,
           NEW c \in Byte, NEW str, NEW idx, str[idx + 1] = c, NEW first, NEW second,
           NEW r, r = getNextState_BM(m, str, idx, first, second)
    PROVE  BitmapAnswer(es, h, c, str, idx, first, second, fail, r)
<1> SUFFICES /\ (\A k \in 1 .. h : es[k].c # c) => r = Failed(fail, idx)
             /\ \A i \in 1 .. h : es[i].c = c =>
                   r = GotoOf(es[i], MatchesIn(es, i - 1), str, idx, first, second)
  BY DEF BitmapAnswer
<1> DEFINE flags == FlagsOf_BM
           ptrs == PtrsOf_BM(m)
           bit(b) == GET_1BIT(m, BitmapOf_BM, b)
<1>1. /\ Fetch(m, FAIL_IDX) = fail
      /\ \A b \in Byte : bit(b) = IF \E k \in 1 .. h : es[k].c = b THEN 1 ELSE 0
      /\ FlagsAre(m, flags, es, h, h) /\ PtrsAre(m, ptrs, es, h)
  BY DEF BitmapHas
<1>2. flags \in Nat /\ ptrs \in Nat
  <2>1. CeilDiv(3 * h, 8) \in Nat
    BY DEF CeilDiv
  <2> QED
    BY <2>1 DEF FlagsOf_BM, PtrsOf_BM, FAIL_IDX
<1>3. r = IF bit(c) = 0 THEN Failed(Fetch(m, FAIL_IDX), idx)
          ELSE GotoByFlag(m, flags, ptrs, POPCOUNT(m, BitmapOf_BM, c), str, idx, first, second)
  BY DEF getNextState_BM
<1>4. ASSUME \A k \in 1 .. h : es[k].c # c PROVE r = Failed(fail, idx)
  BY <1>1, <1>3, <1>4
<1>5. ASSUME NEW i \in 1 .. h, es[i].c = c
      PROVE  r = GotoOf(es[i], MatchesIn(es, i - 1), str, idx, first, second)
  <2> DEFINE f == [k \in 1 .. h |-> es[k].c]
             I == 1 .. i - 1
  <2>1. \A k \in 1 .. h : es[k] \in Element /\ es[k].c \in Byte
    BY ElementFits
  <2>2. \A k \in 1 .. h : es[k].c \in Nat /\ es[k].c <= 255
    <3>1. \A b \in Byte : b \in Nat /\ b <= 255
      BY DEF Byte
    <3> QED
      BY <2>1, <3>1
  <2>3. \A k \in 1 .. h : es[k].c < c <=> k < i
    <3>1. \A k \in 1 .. h : k < i => es[k].c < c
      BY <1>5 DEF Increasing
    <3>2. \A k \in 1 .. h : i < k => c < es[k].c
      BY <1>5 DEF Increasing
    <3>3. c \in Nat
      BY DEF Byte
    <3>4. ASSUME NEW k \in 1 .. h PROVE es[k].c < c <=> k < i
      <4>1. es[k].c \in Nat
        BY <2>2
      <4>2. CASE k < i
        BY <3>1, <4>2
      <4>3. CASE k = i
        BY <1>5, <3>3, <4>3
      <4>4. CASE i < k
        BY <3>2, <3>3, <4>1, <4>4
      <4> QED
        BY <4>2, <4>3, <4>4
    <3> QED
      BY <3>4
  <2>4. {b \in 0 .. c - 1 : bit(b) = 1} = Image(f, I)
    <3>1. ASSUME NEW b \in 0 .. c - 1, bit(b) = 1 PROVE b \in Image(f, I)
      <4>1. b \in Byte /\ b < c
        BY <3>1 DEF Byte
      <4>2. PICK k \in 1 .. h : es[k].c = b
        BY <1>1, <3>1, <4>1
      <4>3. k \in I /\ f[k] = b
        BY <2>3, <4>1, <4>2
      <4> QED
        BY <4>3 DEF Image
    <3>2. ASSUME NEW k \in I PROVE f[k] \in 0 .. c - 1 /\ bit(f[k]) = 1
      <4>1. k \in 1 .. h /\ k < i
        OBVIOUS
      <4>2. f[k] = es[k].c /\ es[k].c < c /\ es[k].c \in Nat /\ es[k].c \in Byte
        BY <2>1, <2>2, <2>3, <4>1
      <4>3. bit(es[k].c) = 1
        BY <1>1, <4>1, <4>2
      <4>4. c \in Nat
        BY DEF Byte
      <4> QED
        BY <4>2, <4>3, <4>4
    <3> QED
      BY <3>1, <3>2 DEF Image
  <2>5. Cardinality(Image(f, I)) = Cardinality(I)
    <3>1. I \in SUBSET (1 .. h) /\ DOMAIN f = 1 .. h
      OBVIOUS
    <3>2. \A j, k \in 1 .. h : f[j] = f[k] => j = k
      BY DEF Distinct
    <3> HIDE DEF I, f
    <3> QED
      BY <3>1, <3>2, ImageSize
  <2>6. Cardinality(I) = i - 1
    BY FS_Interval
  <2>7. POPCOUNT(m, BitmapOf_BM, c) = i - 1
    BY <2>4, <2>5, <2>6 DEF POPCOUNT
  <2>8. bit(c) = 1
    BY <1>1, <1>5
  <2>9. r = GotoByFlag(m, flags, ptrs, i - 1, str, idx, first, second)
    BY <1>3, <2>7, <2>8
  <2>10. GotoByFlag(m, flags, ptrs, i - 1, str, idx, first, second)
          = Goto(Resolve(es[i].type, es[i].ptr, str, idx + 1, first, second),
                 es[i].match, MatchesIn(es, i - 1), idx)
    <3> HIDE DEF flags, ptrs
    <3> QED
      BY <1>1, <1>2, FlagIsRead
  <2> QED
    BY <2>9, <2>10 DEF GotoOf
<1> QED
  BY <1>4, <1>5


\* How many elements of characters below c match.
MatchesBelow(es, l, c) == Cardinality({k \in 1 .. l : es[k].match = 1 /\ es[k].c < c})

\* What the reader of a table answers for c.
LookupAnswers(es, l, c, idx, fail, r) ==
    /\ (\A k \in 1 .. l : es[k].c # c) => r = Failed(fail, idx)
    /\ \A k \in 1 .. l : es[k].c = c =>
          r = Goto(es[k].ptr, es[k].match, MatchesBelow(es, l, c), idx)

\* GET_NEXT_STATE_LT reads a table that holds es.
LEMMA LookupReads ==
    ASSUME NEW n, NEW es \in Seq(Element), Distinct(es), NEW l \in Nat, Len(es) = l,
           NEW fail, NEW m, m \in LookupHas(n, m, es, fail, l),
           NEW c \in Byte, NEW str, NEW idx, str[idx + 1] = c,
           NEW r, r = GET_NEXT_STATE_LT(m, str, idx)
    PROVE  LookupAnswers(es, l, c, idx, fail, r)
<1> DEFINE bit(b) == GET_1BIT(m, BitmapOf_LT, b)
           None == LOOKUP_VALUE_NOT_FOUND
<1>1. /\ Fetch(m, FAIL_IDX_LT) = fail
      /\ \A k \in 1 .. l : TableEntry(m, es[k].c) = es[k].ptr /\ bit(es[k].c) = es[k].match
      /\ \A b \in Byte : (\A k \in 1 .. l : es[k].c # b) => TableEntry(m, b) = None /\ bit(b) = 0
  BY DEF LookupHas
<1>2. r = IF TableEntry(m, c) = None THEN Failed(Fetch(m, FAIL_IDX_LT), idx)
          ELSE Goto(TableEntry(m, c), bit(c), POPCOUNT(m, BitmapOf_LT, c), idx)
  BY DEF GET_NEXT_STATE_LT
<1>3. \A k \in 1 .. l : es[k] \in Element /\ es[k].c \in Byte /\ es[k].ptr \in StateId
  BY ElementFits
<1>4. ASSUME \A k \in 1 .. l : es[k].c # c PROVE r = Failed(fail, idx)
  BY <1>1, <1>2, <1>4
<1>5. ASSUME NEW i \in 1 .. l, es[i].c = c
      PROVE  r = Goto(es[i].ptr, es[i].match, MatchesBelow(es, l, c), idx)
  <2> DEFINE f == [k \in 1 .. l |-> es[k].c]
             I == {k \in 1 .. l : es[k].match = 1 /\ es[k].c < c}
  <2>1. TableEntry(m, c) = es[i].ptr /\ bit(c) = es[i].match /\ TableEntry(m, c) # None
    <3>1. None \notin StateId
      BY StateIdRange
    <3> QED
      BY <1>1, <1>3, <1>5, <3>1
  <2>2. {b \in 0 .. c - 1 : bit(b) = 1} = Image(f, I)
    <3>1. ASSUME NEW b \in 0 .. c - 1, bit(b) = 1 PROVE b \in Image(f, I)
      <4>1. b \in Byte /\ b < c
        BY <3>1 DEF Byte
      <4>2. PICK k \in 1 .. l : es[k].c = b
        BY <1>1, <3>1, <4>1
      <4>3. es[k].match = 1
        BY <1>1, <3>1, <4>2
      <4>4. k \in I /\ f[k] = b
        BY <4>1, <4>2, <4>3
      <4> QED
        BY <4>4 DEF Image
    <3>2. ASSUME NEW k \in I PROVE f[k] \in 0 .. c - 1 /\ bit(f[k]) = 1
      <4>1. k \in 1 .. l /\ f[k] = es[k].c /\ es[k].c < c /\ bit(es[k].c) = 1
        BY <1>1
      <4>2. \A b \in Byte : b \in Nat
        BY DEF Byte
      <4>3. es[k].c \in Nat /\ c \in Nat
        BY <1>3, <4>1, <4>2
      <4> QED
        BY <4>1, <4>3
    <3> QED
      BY <3>1, <3>2 DEF Image
  <2>3. Cardinality(Image(f, I)) = Cardinality(I)
    <3>1. I \in SUBSET (1 .. l) /\ DOMAIN f = 1 .. l
      OBVIOUS
    <3>2. \A j, k \in 1 .. l : f[j] = f[k] => j = k
      BY DEF Distinct
    <3> HIDE DEF I, f
    <3> QED
      BY <3>1, <3>2, ImageSize
  <2>4. POPCOUNT(m, BitmapOf_LT, c) = MatchesBelow(es, l, c)
    BY <2>2, <2>3 DEF POPCOUNT, MatchesBelow
  <2> QED
    BY <1>2, <2>1, <2>4
<1> QED
  BY <1>4, <1>5 DEF LookupAnswers

\* The elements below a character are the same in any order.
LEMMA SameBelow ==
    ASSUME NEW l \in Nat, NEW s, DOMAIN s = 1 .. l, Distinct(s),
           NEW r, DOMAIN r = 1 .. l, Distinct(r), ToSet(s) = ToSet(r), NEW c
    PROVE  MatchesBelow(s, l, c) = MatchesBelow(r, l, c)
<1> DEFINE T == {e \in ToSet(s) : e.match = 1 /\ e.c < c}
<1>1. ASSUME NEW q, DOMAIN q = 1 .. l, Distinct(q), ToSet(q) = ToSet(s)
      PROVE  MatchesBelow(q, l, c) = Cardinality(T)
  <2>1. Visits(q, l, T) = {i \in 1 .. l : q[i].match = 1 /\ q[i].c < c}
    BY <1>1 DEF ToSet, Visits
  <2>2. Visited(q, l, T) = T
    <3>1. \A e \in T : \E k \in 1 .. l : e = q[k]
      BY <1>1 DEF ToSet
    <3> HIDE DEF T
    <3> QED
      BY <3>1 DEF Visited, Visits
  <2>3. \A i, j \in 1 .. l : q[i] = q[j] => i = j
    BY <1>1 DEF Distinct
  <2>4. Cardinality(Visited(q, l, T)) = Cardinality(Visits(q, l, T))
    <3> HIDE DEF T
    <3> QED
      BY <1>1, <2>3, VisitsAre
  <2> QED
    BY <2>1, <2>2, <2>4 DEF MatchesBelow
<1> QED
  BY <1>1

\* In the order of the characters they are those in front.
LEMMA BelowIsBefore ==
    ASSUME NEW es \in Seq(Element), NEW l \in Nat, Len(es) = l, Increasing(es, l), NEW i \in 1 .. l
    PROVE  MatchesIn(es, i - 1) = MatchesBelow(es, l, es[i].c)
<1>1. \A k \in 1 .. l : es[k].c \in Nat
  <2>1. \A k \in 1 .. l : es[k].c \in Byte
    BY ElementFits
  <2>2. \A b \in Byte : b \in Nat
    BY DEF Byte
  <2> QED
    BY <2>1, <2>2
<1>2. ASSUME NEW k \in 1 .. l PROVE es[k].c < es[i].c <=> k \in 1 .. i - 1
  <2>1. k < i => es[k].c < es[i].c
    BY DEF Increasing
  <2>2. i < k => es[i].c < es[k].c
    BY DEF Increasing
  <2>3. es[k].c \in Nat /\ es[i].c \in Nat
    BY <1>1
  <2> QED
    BY <2>1, <2>2, <2>3
<1>3. {k \in 1 .. i - 1 : es[k].match = 1} = {k \in 1 .. l : es[k].match = 1 /\ es[k].c < es[i].c}
  <2>1. \A k \in 1 .. i - 1 : k \in 1 .. l
    OBVIOUS
  <2> QED
    BY <1>2, <2>1
<1> QED
  BY <1>3 DEF MatchesIn, MatchesBelow

\* What a reader answers for c, when the l children es were set: of a list and
\* of a bitmap.
LinearAnswers(es, l, c, str, idx, first, second, fail, r) ==
    /\ (\A k \in 1 .. l : es[k].c # c) \/ c > 127 \/ l = 64 => r = Failed(fail, idx)
    /\ \A k \in 1 .. l : es[k].c = c /\ c <= 127 /\ l # 64 =>
          r = GotoOf(es[k], MatchesIn(es, k - 1), str, idx, first, second)
BitmapAnswers(es, l, c, str, idx, first, second, fail, r) ==
    /\ (\A k \in 1 .. l : es[k].c # c) \/ l = 64 => r = Failed(fail, idx)
    /\ \A k \in 1 .. l : es[k].c = c /\ l # 64 =>
          r = GotoOf(es[k], MatchesBelow(es, l, c), str, idx, first, second)

\* What the machine reads of a linear encoded state set from es.
LEMMA LinearStateReads ==
    ASSUME NEW m, NEW n \in Nat, NEW i, NEW es \in Seq(Element), Distinct(es), Len(es) # 0,
           Created(m, LINEAR_ENCODED, n, i, Len(es)), NEW fail, Holds(m, n, es, fail),
           NEW c \in Byte, NEW str, NEW idx, str[idx + 1] = c, NEW first, NEW second,
           NEW r, r = NextStateOf(m, str, idx, first, second)
    PROVE  LinearAnswers(es, Len(es), c, str, idx, first, second, fail, r)
<1> SUFFICES /\ (\A k \in 1 .. Len(es) : es[k].c # c) \/ c > 127 \/ Len(es) = 64 => r = Failed(fail, idx)
            /\ \A k \in 1 .. Len(es) : es[k].c = c /\ c <= 127 /\ Len(es) # 64 =>
                  r = GotoOf(es[k], MatchesIn(es, k - 1), str, idx, first, second)
  BY DEF LinearAnswers
<1> DEFINE l == Len(es)
           h == HeaderSize(m)
           given == SubSeq(es, 1, h)
<1>1. GET_STATE_TYPE(m) = LINEAR_ENCODED /\ h \in Nat /\ h <= l /\ h = l % 64
  BY LinearIs
<1>2. l \in Nat /\ l <= 64 /\ l # 0
  BY DEF Created, MAX_NODE_DEGREE
<1>3. r = getNextState_LE(m, str, idx, first, second)
  BY <1>1 DEF NextStateOf, LINEAR_ENCODED, BITMAP_ENCODED, LOOKUP_TABLE, PATH_COMPRESSED
<1>4. m \in LinearHas(n, m, given, fail, h)
  BY <1>1 DEF Holds, LINEAR_ENCODED, BITMAP_ENCODED, LOOKUP_TABLE, PATH_COMPRESSED
<1>5. given \in Seq(Element) /\ Len(given) = h /\ \A k \in 1 .. h : given[k] = es[k]
  BY <1>1, Given
<1>6. Distinct(given)
  <2>1. DOMAIN given = 1 .. h /\ DOMAIN es = 1 .. l
    BY <1>5
  <2> QED
    BY <1>1, <1>2, <1>5, <2>1 DEF Distinct
<1>8. str[idx + 1] = c /\ r = getNextState_LE(m, str, idx, first, second)
  BY <1>3
<1>9. h = HeaderSize(m)
  OBVIOUS
<1>10. /\ (\A k \in 1 .. h : given[k].c # c) \/ c > 127 => r = Failed(fail, idx)
      /\ \A k \in 1 .. h : given[k].c = c /\ c <= 127 =>
            r = GotoOf(given[k], MatchesIn(given, k - 1), str, idx, first, second)
  <2> HIDE DEF given, h, l
  <2>1. h \in Nat
    BY <1>1
  <2>2. LinearAnswer(given, h, c, str, idx, first, second, fail, r)
    BY <1>4, <1>5, <1>6, <1>8, <1>9, <2>1, LinearReads
  <2> QED
    BY <2>2 DEF LinearAnswer
<1>11. l = 64 => h = 0
  BY <1>1
<1>12. l # 64 => h = l
  <2>1. \A x \in Nat : x < 64 => x % 64 = x
    OBVIOUS
  <2>2. l # 64 => l < 64
    <3> HIDE DEF l
    <3> QED
      BY <1>2
  <2> QED
    BY <1>1, <1>2, <2>1, <2>2
<1>13. h = l => given = es
  BY <1>2
<1>14. CASE l = 64
  <2>1. \A k \in 1 .. h : given[k].c # c
    BY <1>11, <1>14
  <2> QED
    BY <1>10, <1>14, <2>1
<1>15. CASE l # 64
  <2>1. h = l /\ given = es
    BY <1>12, <1>13, <1>15
  <2> HIDE DEF given, h
  <2> QED
    BY <1>10, <1>15, <2>1
<1> QED
  BY <1>14, <1>15


\* Sequences with the same members.
Among(s, r, l) == \A k \in 1 .. l : \E j \in 1 .. l : r[j] = s[k]

\* The members of one are among those of the other.
LEMMA SameMembers ==
    ASSUME NEW l, NEW s, DOMAIN s = 1 .. l, NEW r, DOMAIN r = 1 .. l, ToSet(s) = ToSet(r)
    PROVE  Among(s, r, l) /\ Among(r, s, l)
<1>1. ASSUME NEW k \in 1 .. l PROVE \E j \in 1 .. l : r[j] = s[k]
  <2>1. s[k] \in ToSet(r)
    BY DEF ToSet
  <2> QED
    BY <2>1 DEF ToSet
<1>2. ASSUME NEW k \in 1 .. l PROVE \E j \in 1 .. l : s[j] = r[k]
  <2>1. r[k] \in ToSet(s)
    BY DEF ToSet
  <2> QED
    BY <2>1 DEF ToSet
<1> QED
  BY <1>1, <1>2 DEF Among

\* What the machine reads of a bitmap encoded state set from es.
LEMMA BitmapStateReads ==
    ASSUME NEW m, NEW n \in Nat, NEW i, NEW es \in Seq(Element), Distinct(es), Len(es) # 0,
           Created(m, BITMAP_ENCODED, n, i, Len(es)), NEW fail, Holds(m, n, es, fail),
           NEW c \in Byte, NEW str, NEW idx, str[idx + 1] = c, NEW first, NEW second,
           NEW r, r = NextStateOf(m, str, idx, first, second)
    PROVE  BitmapAnswers(es, Len(es), c, str, idx, first, second, fail, r)
<1> SUFFICES /\ (\A k \in 1 .. Len(es) : es[k].c # c) \/ Len(es) = 64 => r = Failed(fail, idx)
            /\ \A k \in 1 .. Len(es) : es[k].c = c /\ Len(es) # 64 =>
                  r = GotoOf(es[k], MatchesBelow(es, Len(es), c), str, idx, first, second)
  BY DEF BitmapAnswers
<1> DEFINE l == Len(es)
           h == HeaderSize(m)
           part == SubSeq(es, 1, h)
           given == SortArrays(part)
<1>1. GET_STATE_TYPE(m) = BITMAP_ENCODED /\ h \in Nat /\ h <= l /\ h = l % 64
  BY BitmapIs
<1>2. l \in Nat /\ l <= 64 /\ l # 0
  BY DEF Created, MAX_NODE_DEGREE
<1>3. r = getNextState_BM(m, str, idx, first, second)
  BY <1>1 DEF NextStateOf, LINEAR_ENCODED, BITMAP_ENCODED, LOOKUP_TABLE, PATH_COMPRESSED
<1>4. m \in BitmapHas(n, m, given, fail, h)
  BY <1>1 DEF Holds, LINEAR_ENCODED, BITMAP_ENCODED, LOOKUP_TABLE, PATH_COMPRESSED
<1>5. part \in Seq(Element) /\ Len(part) = h /\ DOMAIN part = 1 .. h /\ \A k \in 1 .. h : part[k] = es[k]
  BY <1>1, Given
<1>6. Distinct(part)
  <2>1. DOMAIN es = 1 .. l
    OBVIOUS
  <2> QED
    BY <1>1, <1>2, <1>5, <2>1 DEF Distinct
<1>7. /\ given \in Seq(Element) /\ Len(given) = h /\ Distinct(given) /\ Increasing(given, h)
      /\ ToSet(given) = ToSet(part)
  <2> HIDE DEF part, h
  <2> QED
    BY <1>1, <1>5, <1>6, SortArraysSorts
<1>8. str[idx + 1] = c /\ r = getNextState_BM(m, str, idx, first, second)
  BY <1>3
<1>9. h = HeaderSize(m)
  OBVIOUS
<1>10. /\ (\A k \in 1 .. h : given[k].c # c) => r = Failed(fail, idx)
       /\ \A k \in 1 .. h : given[k].c = c =>
             r = GotoOf(given[k], MatchesIn(given, k - 1), str, idx, first, second)
  <2> HIDE DEF given, part, h, l
  <2>1. h \in Nat
    BY <1>1
  <2>2. BitmapAnswer(given, h, c, str, idx, first, second, fail, r)
    BY <1>4, <1>7, <1>8, <1>9, <2>1, BitmapReads
  <2> QED
    BY <2>2 DEF BitmapAnswer
<1>11. l = 64 => h = 0
  BY <1>1
<1>12. l # 64 => h = l
  <2>1. \A x \in Nat : x < 64 => x % 64 = x
    OBVIOUS
  <2>2. l # 64 => l < 64
    <3> HIDE DEF l
    <3> QED
      BY <1>2
  <2> QED
    BY <1>1, <1>2, <2>1, <2>2
<1>13. CASE l = 64
  <2>1. \A k \in 1 .. h : given[k].c # c
    BY <1>11, <1>13
  <2> QED
    BY <1>10, <1>13, <2>1
<1>14. CASE l # 64
  <2>1. h = l /\ part = es
    BY <1>2, <1>12, <1>14
  <2>2. DOMAIN given = 1 .. h
    BY <1>7
  <2>3. DOMAIN given = 1 .. l /\ DOMAIN es = 1 .. l /\ ToSet(given) = ToSet(es)
    <3> HIDE DEF given, part, h
    <3> QED
      BY <1>5, <1>7, <2>1, <2>2
  <2>4. Among(given, es, l) /\ Among(es, given, l)
    <3> HIDE DEF given, part, h, l
    <3> QED
      BY <2>3, SameMembers
  <2> HIDE DEF given, part, h
  <2>5. (\A k \in 1 .. l : es[k].c # c) => r = Failed(fail, idx)
    <3> HIDE DEF l
    <3> SUFFICES ASSUME \A k \in 1 .. l : es[k].c # c PROVE r = Failed(fail, idx)
      OBVIOUS
    <3>1. ASSUME NEW k \in 1 .. l PROVE given[k].c # c
      <4>1. PICK j \in 1 .. l : es[j] = given[k]
        BY <2>4 DEF Among
      <4> QED
        BY <4>1
    <3> QED
      BY <1>10, <2>1, <3>1
  <2>6. ASSUME NEW k \in 1 .. l, es[k].c = c
        PROVE  r = GotoOf(es[k], MatchesBelow(es, l, c), str, idx, first, second)
    <3>1. PICK j \in 1 .. l : given[j] = es[k]
      BY <2>4 DEF Among
    <3>2. r = GotoOf(given[j], MatchesIn(given, j - 1), str, idx, first, second)
      BY <1>10, <2>1, <2>6, <3>1
    <3>3. MatchesIn(given, j - 1) = MatchesBelow(given, l, given[j].c)
      BY <1>2, <1>7, <2>1, BelowIsBefore
    <3>4. MatchesBelow(given, l, c) = MatchesBelow(es, l, c)
      <4> HIDE DEF l
      <4> QED
        BY <1>2, <1>7, <2>3, SameBelow
    <3> QED
      BY <2>6, <3>1, <3>2, <3>3, <3>4
  <2> QED
    BY <1>14, <2>5, <2>6
<1> QED
  BY <1>13, <1>14

\* What the machine reads of a lookup table set from es.
LEMMA LookupStateReads ==
    ASSUME NEW m, NEW n \in Nat, NEW i, NEW es \in Seq(Element), Distinct(es),
           Created(m, LOOKUP_TABLE, n, i, Len(es)), NEW fail, Holds(m, n, es, fail),
           NEW c \in Byte, NEW str, NEW idx, str[idx + 1] = c, NEW first, NEW second,
           NEW r, r = NextStateOf(m, str, idx, first, second)
    PROVE  LookupAnswers(es, Len(es), c, idx, fail, r)
<1> SUFFICES /\ (\A k \in 1 .. Len(es) : es[k].c # c) => r = Failed(fail, idx)
            /\ \A k \in 1 .. Len(es) : es[k].c = c =>
                  r = Goto(es[k].ptr, es[k].match, MatchesBelow(es, Len(es), c), idx)
  BY DEF LookupAnswers
<1> DEFINE l == Len(es)
           part == SubSeq(es, 1, Length14(m))
           given == SortArrays(part)
<1>1. GET_STATE_TYPE(m) = LOOKUP_TABLE /\ Length14(m) = l
  BY LookupIs
<1>2. l \in Nat /\ DOMAIN es = 1 .. l
  OBVIOUS
<1>3. part = es
  BY <1>1, <1>2
<1>4. str[idx + 1] = c /\ r = GET_NEXT_STATE_LT(m, str, idx)
  BY <1>1 DEF NextStateOf, LINEAR_ENCODED, BITMAP_ENCODED, LOOKUP_TABLE, PATH_COMPRESSED
<1>5. m \in LookupHas(n, m, given, fail, l)
  BY <1>1 DEF Holds, LINEAR_ENCODED, BITMAP_ENCODED, LOOKUP_TABLE, PATH_COMPRESSED
<1>6. given \in Seq(Element) /\ Len(given) = l /\ Distinct(given) /\ ToSet(given) = ToSet(es)
  <2> HIDE DEF part
  <2> QED
    BY <1>2, <1>3, SortArraysSorts
<1>7. DOMAIN given = 1 .. l
  BY <1>6
<1> HIDE DEF given, part, l
<1>8. /\ (\A k \in 1 .. l : given[k].c # c) => r = Failed(fail, idx)
      /\ \A k \in 1 .. l : given[k].c = c =>
            r = Goto(given[k].ptr, given[k].match, MatchesBelow(given, l, c), idx)
  <2>1. LookupAnswers(given, l, c, idx, fail, r)
    BY <1>2, <1>4, <1>5, <1>6, LookupReads
  <2> QED
    BY <2>1 DEF LookupAnswers
<1>9. Among(given, es, l) /\ Among(es, given, l)
  BY <1>2, <1>6, <1>7, SameMembers
<1>11. (\A k \in 1 .. l : es[k].c # c) => r = Failed(fail, idx)
  <2> SUFFICES ASSUME \A k \in 1 .. l : es[k].c # c PROVE r = Failed(fail, idx)
    OBVIOUS
  <2>1. ASSUME NEW k \in 1 .. l PROVE given[k].c # c
    <3>1. PICK j \in 1 .. l : es[j] = given[k]
      BY <1>9 DEF Among
    <3> QED
      BY <3>1
  <2> QED
    BY <1>8, <2>1
<1>12. MatchesBelow(given, l, c) = MatchesBelow(es, l, c)
  BY <1>2, <1>6, <1>7, SameBelow
<1>13. ASSUME NEW k \in 1 .. l, es[k].c = c
       PROVE  r = Goto(es[k].ptr, es[k].match, MatchesBelow(es, l, c), idx)
  BY <1>8, <1>9, <1>12, <1>13 DEF Among
<1> QED
  BY <1>11, <1>13 DEF l


-----------------------------------------------------------------------------
(* The readers of paths.                                                   *)

\* The members of S below i, counted: where i is in their order.
Below(S, i) == {j \in S : j < i}
Rank(S, i) == Cardinality(Below(S, i))

\* The set below 0, below n and below the next.
BelowAre(S, n, i) ==
    /\ Below(S, 0) = {} /\ Below(S, n) = S
    /\ i \in S => Below(S, i + 1) = Below(S, i) \cup {i} /\ i \notin Below(S, i)
    /\ i \notin S => Below(S, i + 1) = Below(S, i)

\* How the set below grows.
LEMMA BelowGrows ==
    ASSUME NEW S, NEW n \in Nat, NEW i \in Nat, \A j \in S : j \in Nat /\ j < n
    PROVE  BelowAre(S, n, i)
<1>1. ASSUME NEW j \in S PROVE ~ (j < 0) /\ j < n /\ (j < i + 1 <=> j < i \/ j = i)
  <2>1. j \in Nat /\ j < n
    OBVIOUS
  <2> QED
    BY <2>1
<1>2. ~ (i < i)
  OBVIOUS
<1>3. Below(S, 0) = {} /\ Below(S, n) = S
  BY <1>1, Zenon DEF Below
<1>4. ASSUME i \in S PROVE Below(S, i + 1) = Below(S, i) \cup {i} /\ i \notin Below(S, i)
  BY <1>1, <1>2, <1>4, Zenon DEF Below
<1>5. ASSUME i \notin S PROVE Below(S, i + 1) = Below(S, i)
  BY <1>1, <1>5, Zenon DEF Below
<1> QED
  BY <1>3, <1>4, <1>5 DEF BelowAre

\* How the rank grows.
LEMMA RankGrows ==
    ASSUME NEW n \in Nat, NEW S \in SUBSET (0 .. n - 1), NEW i \in Nat
    PROVE  /\ IsFiniteSet(S) /\ Rank(S, i) \in Nat
           /\ Rank(S, 0) = 0 /\ Rank(S, n) = Cardinality(S)
           /\ i \in S => Rank(S, i + 1) = Rank(S, i) + 1
           /\ i \notin S => Rank(S, i + 1) = Rank(S, i)
<1>1. IsFiniteSet(S)
  <2>1. IsFiniteSet(0 .. n - 1)
    BY FS_Interval
  <2> QED
    BY <2>1, FS_Subset
<1>0. \A j \in S : j \in Nat /\ j < n
  OBVIOUS
<1>2. IsFiniteSet(Below(S, i))
  <2>1. Below(S, i) \in SUBSET S
    BY DEF Below
  <2> QED
    BY <1>1, <2>1, FS_Subset
<1>3. Rank(S, i) \in Nat
  BY <1>2, FS_CardinalityType DEF Rank
<1>4. /\ Below(S, 0) = {} /\ Below(S, n) = S
      /\ i \in S => Below(S, i + 1) = Below(S, i) \cup {i} /\ i \notin Below(S, i)
      /\ i \notin S => Below(S, i + 1) = Below(S, i)
  <2>1. BelowAre(S, n, i)
    BY <1>0, BelowGrows
  <2> QED
    BY <2>1 DEF BelowAre
<1>5. Rank(S, 0) = 0 /\ Rank(S, n) = Cardinality(S)
  BY <1>4, FS_EmptySet DEF Rank
<1>8. i \in S => Rank(S, i + 1) = Rank(S, i) + 1
  BY <1>2, <1>4, FS_AddElement DEF Rank
<1> QED
  BY <1>1, <1>3, <1>4, <1>5, <1>8 DEF Rank

\* Every rank is that of a member.
LEMMA RankIsTaken ==
    ASSUME NEW n \in Nat, NEW S \in SUBSET (0 .. n - 1), NEW r \in 1 .. Cardinality(S)
    PROVE  \E i \in S : Rank(S, i) = r - 1
<1>1. /\ \A i \in Nat : Rank(S, i) \in Nat
      /\ Rank(S, 0) = 0 /\ Rank(S, n) = Cardinality(S)
      /\ \A i \in Nat : i \in S => Rank(S, i + 1) = Rank(S, i) + 1
      /\ \A i \in Nat : i \notin S => Rank(S, i + 1) = Rank(S, i)
  BY RankGrows
<1>2. r \in Nat /\ r >= 1 /\ r <= Rank(S, n)
  BY <1>1
<1> DEFINE T == {i \in Nat : r <= Rank(S, i)}
<1>3. T \subseteq Nat /\ T # {}
  BY <1>2
<1>4. PICK m \in T : \A i \in T : m <= i
  BY <1>3, LeastElement
<1>5. m \in Nat /\ r <= Rank(S, m) /\ m # 0
  BY <1>1, <1>2
<1> DEFINE i == m - 1
<1>6. i \in Nat /\ i + 1 = m /\ ~ (m <= i)
  BY <1>5
<1>7. ~ (r <= Rank(S, i))
  BY <1>4, <1>6
<1> HIDE DEF i, T
<1>8. Rank(S, i) \in Nat /\ Rank(S, i + 1) = Rank(S, m)
  BY <1>1, <1>6
<1>9. i \in S /\ Rank(S, i + 1) = Rank(S, i) + 1
  BY <1>1, <1>5, <1>6, <1>7, <1>8
<1>10. Rank(S, i) = r - 1
  BY <1>2, <1>5, <1>7, <1>8, <1>9
<1> QED
  BY <1>9, <1>10

\* The positions that match.
Matching(d, k) == {i \in 0 .. k - 1 : GET_1BIT(d, MatchesOf_PC(d), i) = 1}

\* The rows that GET_NEXT_STATE_PC gives them: in their order, from 0.
LEMMA RowsInOrder ==
    ASSUME NEW d, NEW k \in Nat
    PROVE  /\ IsFiniteSet(Matching(d, k)) /\ Cardinality(Matching(d, k)) \in Nat
           /\ DOMAIN MatchingPositions(d, k) = 1 .. Cardinality(Matching(d, k))
           /\ \A r \in 1 .. Cardinality(Matching(d, k)) :
                 /\ MatchingPositions(d, k)[r] \in 0 .. k - 1
                 /\ MatchesBefore(d, MatchingPositions(d, k)[r]) = r - 1
<1> DEFINE S == Matching(d, k)
           p == MatchingPositions(d, k)
           C == Cardinality(S)
<1>1. S \in SUBSET (0 .. k - 1)
  BY DEF Matching
<1>2. IsFiniteSet(S) /\ C \in Nat
  <2>1. IsFiniteSet(0 .. k - 1)
    BY FS_Interval
  <2>2. IsFiniteSet(S)
    BY <1>1, <2>1, FS_Subset
  <2> QED
    BY <2>2, FS_CardinalityType
<1>3. p = [r \in 1 .. C |-> CHOOSE i \in S : Rank(S, i) = r - 1]
  BY DEF MatchingPositions, Matching, Rank, Below
<1>4. DOMAIN p = 1 .. C
  BY <1>3
<1>5. ASSUME NEW r \in 1 .. C
      PROVE  p[r] \in 0 .. k - 1 /\ MatchesBefore(d, p[r]) = r - 1
  <2> DEFINE i == p[r]
  <2>1. i = CHOOSE j \in S : Rank(S, j) = r - 1
    <3> HIDE DEF S, C
    <3> QED
      BY <1>3
  <2>2. \E j \in S : Rank(S, j) = r - 1
    <3> HIDE DEF S
    <3> QED
      BY <1>1, RankIsTaken
  <2> HIDE DEF i, p
  <2>3. i \in S /\ Rank(S, i) = r - 1
    <3> HIDE DEF S, C
    <3> QED
      BY <2>1, <2>2
  <2>4. i \in 0 .. k - 1
    BY <1>1, <2>3
  <2>5. Below(S, i) = {j \in 0 .. i - 1 : GET_1BIT(d, MatchesOf_PC(d), j) = 1}
    BY <2>4 DEF Below, Matching
  <2>6. MatchesBefore(d, i) = r - 1
    BY <2>3, <2>5 DEF MatchesBefore, Rank
  <2> QED
    BY <2>4, <2>6 DEF i
<1> QED
  BY <1>2, <1>4, <1>5

\* The first k characters of the path are those of the text, and then the path
\* or the text ends or they differ.
Leaves(d, str, idx, k) ==
    /\ \A i \in 1 .. k : idx + i <= Len(str) /\ str[idx + i] = d[GOTO_IDX + 1 + i]
    /\ k # Length14(d) => ~ (idx + (k + 1) <= Len(str) /\ str[idx + (k + 1)] = d[GOTO_IDX + 1 + (k + 1)])

\* There the walk ends.
LEMMA WalkEnds ==
    ASSUME NEW d, NEW l \in Nat, Length14(d) = l, NEW k \in 0 .. l, NEW str, NEW idx, Leaves(d, str, idx, k)
    PROVE  Walked(d, str, idx) = k
<1> DEFINE same(i) == idx + i <= Len(str) /\ str[idx + i] = d[GOTO_IDX + 1 + i]
           agrees(j) == \A i \in 1 .. j : same(i)
           Stops(j) == agrees(j) /\ (j = l \/ ~ agrees(j + 1))
<1> HIDE DEF same
<1>1. agrees(k) /\ (k # l => ~ same(k + 1))
  BY DEF Leaves, same
<1>2. Stops(k)
  BY <1>1
<1>3. ASSUME NEW j \in 0 .. l, Stops(j) PROVE j = k
  <2>1. CASE j < k
    <3>1. j + 1 \in 1 .. k /\ j # l /\ \A i \in 1 .. j + 1 : i \in 1 .. k
      BY <2>1
    <3>2. agrees(j + 1)
      BY <1>1, <3>1
    <3> QED
      BY <1>3, <3>1, <3>2
  <2>2. CASE k < j
    <3>1. k + 1 \in 1 .. j /\ k # l
      BY <2>2
    <3> QED
      BY <1>1, <1>3, <3>1
  <2> QED
    BY <2>1, <2>2
<1>4. Walked(d, str, idx) = CHOOSE j \in 0 .. l : Stops(j)
  BY DEF Walked, same
<1> HIDE DEF Stops
<1> QED
  BY <1>2, <1>3, <1>4

\* Where the matches and the types of a path are stored, so are their numbers.
LEMMA PathCounts ==
    ASSUME NEW m, NEW given, NEW l \in Nat, Len(given) = l,
           MatchesAre(m, MatchesOf_PC(m), given, l, l), NEW k \in 0 .. l
    PROVE  Cardinality(Matching(m, k)) = MatchesIn(given, k)
<1> DEFINE bit(i) == GET_1BIT(m, MatchesOf_PC(m), i)
           M == {i \in 1 .. l : given[i].match = 1}
<1>1. k \in Nat /\ \A i \in 0 .. k - 1 : i \in 0 .. l - 1 /\ i < l /\ i + 1 \in 1 .. l
  OBVIOUS
<1>2. \A i \in 0 .. k - 1 : bit(i) = given[i + 1].match
  BY <1>1 DEF MatchesAre
<1> HIDE DEF bit
<1>3. Matching(m, k) = {i \in 0 .. k - 1 : bit(i) = 1}
  BY DEF Matching, bit
<1>4. {i \in 0 .. k - 1 : bit(i) = 1} = {i \in 0 .. k - 1 : i + 1 \in M}
  BY <1>1, <1>2
<1>5. {i \in 1 .. k : given[i].match = 1} = {i \in 1 .. k : i \in M}
  OBVIOUS
<1>6. CountFrom0(k, M) = CountFrom1(k, M)
  <2> HIDE DEF M
  <2> QED
    BY <1>1, Shift
<1> QED
  BY <1>3, <1>4, <1>5, <1>6 DEF CountFrom0, CountFrom1, MatchesIn

\* The failure of a position is that of its element.
LEMMA PathFailureIsRead ==
    ASSUME NEW m, NEW given, NEW l \in Nat, Len(given) = l,
           TypesAre(m, FlagsOf_PC(m), given, l, l), PtrsAre(m, FailuresOf_PC(m), given, l),
           NEW k \in 0 .. l - 1, PathFits(given[k + 1]), NEW str, NEW idx, NEW first, NEW second,
           NEW p, p = Fetch(m, FailuresOf_PC(m) + PTR_SIZE *
                               Cardinality({i \in 0 .. k - 1 : GET_2BITS(m, FlagsOf_PC(m), i) = REGULAR}))
    PROVE  Resolve(GET_2BITS(m, FlagsOf_PC(m), k), p, str, idx, first, second)
             = Resolve(given[k + 1].type, given[k + 1].ptr, str, idx, first, second)
<1> DEFINE type(i) == GET_2BITS(m, FlagsOf_PC(m), i)
           R == {i \in 1 .. l : given[i].type = REGULAR}
           e == given[k + 1]
<1>1. k \in Nat /\ k < l /\ k + 1 \in 1 .. l /\ (k + 1) - 1 = k
      /\ \A i \in 0 .. k - 1 : i \in 0 .. l - 1 /\ i < l /\ i + 1 \in 1 .. l
  OBVIOUS
<1>2. type(k) = e.type /\ \A i \in 0 .. k - 1 : type(i) = given[i + 1].type
  BY <1>1 DEF TypesAre
<1>3. Cardinality({i \in 0 .. k - 1 : type(i) = REGULAR}) = RegularIn(given, k)
  <2> HIDE DEF type
  <2>1. {i \in 0 .. k - 1 : type(i) = REGULAR} = {i \in 0 .. k - 1 : i + 1 \in R}
    BY <1>1, <1>2
  <2>2. {i \in 1 .. k : given[i].type = REGULAR} = {i \in 1 .. k : i \in R}
    BY <1>1
  <2>3. CountFrom0(k, R) = CountFrom1(k, R)
    <3> HIDE DEF R
    <3> QED
      BY <1>1, Shift
  <2> QED
    BY <2>1, <2>2, <2>3 DEF CountFrom0, CountFrom1, RegularIn
<1>4. PtrAt(FailuresOf_PC(m), given, k + 1) = FailuresOf_PC(m) + PTR_SIZE * RegularIn(given, k)
  BY <1>1 DEF PtrAt
<1>5. e.type = REGULAR => p = e.ptr
  BY <1>1, <1>3, <1>4 DEF PtrsAre
<1>6. e.type \in {REGULAR, LEVEL0, LEVEL1, LEVEL2}
  BY DEF PathFits, REGULAR, LEVEL0, LEVEL1, LEVEL2
<1> HIDE DEF type, e
<1>7. Resolve(e.type, p, str, idx, first, second) = Resolve(e.type, e.ptr, str, idx, first, second)
  <2>1. CASE e.type = REGULAR
    BY <1>5, <2>1
  <2>2. CASE e.type # REGULAR
    BY <1>6, <2>2 DEF Resolve, REGULAR, LEVEL0, LEVEL1, LEVEL2
  <2> QED
    BY <2>1, <2>2
<1> QED
  BY <1>2, <1>7 DEF type, e

\* The failure of the position where the text leaves the path, and the goto
\* where the text or the path ends.
PathAnswer(given, l, next, k, str, idx, first, second) ==
    LET failed == k < l /\ idx + k < Len(str)
    IN [next |-> IF ~ failed THEN next
                 ELSE Resolve(given[k + 1].type, given[k + 1].ptr, str, idx + k, first, second),
        fail |-> failed, match |-> IF MatchesIn(given, k) = 0 THEN 0 ELSE 1,
        rows |-> [i \in 1 .. MatchesIn(given, k) |-> i - 1], idx |-> idx + k]

\* GET_NEXT_STATE_PC reads a path that holds given.
LEMMA PathReads ==
    ASSUME NEW n, NEW given, NEW l \in Nat, Len(given) = l, \A i \in 1 .. l : PathFits(given[i]),
           NEW next, NEW m, m \in PathHas(n, m, given, next, l), Length14(m) = l,
           NEW k \in 0 .. l, NEW str, NEW idx, Leaves(m, str, idx, k), NEW first, NEW second
    PROVE  GET_NEXT_STATE_PC(m, str, idx, first, second) = PathAnswer(given, l, next, k, str, idx, first, second)
<1> DEFINE failed == k < l /\ idx + k < Len(str)
           p == Fetch(m, FailuresOf_PC(m) + PTR_SIZE *
                         Cardinality({i \in 0 .. k - 1 : GET_2BITS(m, FlagsOf_PC(m), i) = REGULAR}))
           type == GET_2BITS(m, FlagsOf_PC(m), k)
           pos == MatchingPositions(m, k)
           C == MatchesIn(given, k)
           row == [i \in 0 .. l |-> MatchesBefore(m, i)]
<1>1. /\ Fetch(m, GOTO_IDX) = next /\ MatchesAre(m, MatchesOf_PC(m), given, l, l)
      /\ TypesAre(m, FlagsOf_PC(m), given, l, l) /\ PtrsAre(m, FailuresOf_PC(m), given, l)
  BY DEF PathHas
<1>2. Walked(m, str, idx) = k
  BY WalkEnds
<1>3. Cardinality(Matching(m, k)) = C
  BY <1>1, PathCounts
<1>4. k \in Nat /\ k <= l
  OBVIOUS
<1>5. /\ C \in Nat /\ DOMAIN pos = 1 .. C
      /\ \A r \in 1 .. C : pos[r] \in 0 .. k - 1 /\ MatchesBefore(m, pos[r]) = r - 1
  <2> HIDE DEF pos, C
  <2>1. /\ Cardinality(Matching(m, k)) \in Nat
        /\ DOMAIN MatchingPositions(m, k) = 1 .. Cardinality(Matching(m, k))
        /\ \A r \in 1 .. Cardinality(Matching(m, k)) :
              /\ MatchingPositions(m, k)[r] \in 0 .. k - 1
              /\ MatchesBefore(m, MatchingPositions(m, k)[r]) = r - 1
    BY <1>4, RowsInOrder
  <2> QED
    BY <1>3, <2>1 DEF pos
<1>6. failed => Resolve(type, p, str, idx + k, first, second)
                  = Resolve(given[k + 1].type, given[k + 1].ptr, str, idx + k, first, second)
  <2>1. SUFFICES ASSUME k < l
                 PROVE  Resolve(type, p, str, idx + k, first, second)
                          = Resolve(given[k + 1].type, given[k + 1].ptr, str, idx + k, first, second)
    OBVIOUS
  <2>2. k \in 0 .. l - 1 /\ k + 1 \in 1 .. l
    BY <1>4, <2>1
  <2>3. PathFits(given[k + 1])
    BY <2>2
  <2>4. p = Fetch(m, FailuresOf_PC(m) + PTR_SIZE *
                     Cardinality({i \in 0 .. k - 1 : GET_2BITS(m, FlagsOf_PC(m), i) = REGULAR}))
    OBVIOUS
  <2> HIDE DEF p
  <2> DEFINE to == idx + k
  <2> HIDE DEF to
  <2>5. Resolve(GET_2BITS(m, FlagsOf_PC(m), k), p, str, to, first, second)
          = Resolve(given[k + 1].type, given[k + 1].ptr, str, to, first, second)
    BY <1>1, <2>2, <2>3, <2>4, PathFailureIsRead
  <2> QED
    BY <2>5 DEF to
<1>7. [r \in DOMAIN pos |-> row[pos[r]]] = [r \in 1 .. C |-> r - 1]
  <2> HIDE DEF pos, C
  <2>1. ASSUME NEW r \in 1 .. C PROVE row[pos[r]] = r - 1
    <3>1. pos[r] \in 0 .. l
      BY <1>4, <1>5
    <3> QED
      BY <1>5, <3>1
  <2> HIDE DEF row
  <2> QED
    BY <1>5, <2>1
<1>8. DOMAIN pos = {} <=> C = 0
  <2> HIDE DEF pos, C, row, p
  <2>1. C = 0 => DOMAIN pos = {}
    <3>1. 1 .. 0 = {}
      OBVIOUS
    <3> QED
      BY <1>5, <3>1
  <2>2. C # 0 => 1 \in DOMAIN pos
    BY <1>5
  <2> QED
    BY <2>1, <2>2
<1>9. GET_NEXT_STATE_PC(m, str, idx, first, second) =
        [next |-> IF ~ failed THEN next ELSE Resolve(type, p, str, idx + k, first, second),
         fail |-> failed, match |-> IF DOMAIN pos = {} THEN 0 ELSE 1,
         rows |-> [r \in DOMAIN pos |-> row[pos[r]]], idx |-> idx + k]
  BY <1>1, <1>2 DEF GET_NEXT_STATE_PC, WalkPath, FetchPtr
<1> HIDE DEF failed, p, type, pos, C, row
<1>10. GET_NEXT_STATE_PC(m, str, idx, first, second) =
         [next |-> IF ~ failed THEN next
                   ELSE Resolve(given[k + 1].type, given[k + 1].ptr, str, idx + k, first, second),
          fail |-> failed, match |-> IF C = 0 THEN 0 ELSE 1,
          rows |-> [r \in 1 .. C |-> r - 1], idx |-> idx + k]
  BY <1>6, <1>7, <1>8, <1>9
<1> QED
  BY <1>10 DEF PathAnswer, failed, C

\* Texts that are put together.
Joined(s, t, r) ==
    /\ r \in Seq(Nat) /\ Len(r) = Len(s) + Len(t)
    /\ \A i \in 1 .. Len(s) : r[i] = s[i]
    /\ \A i \in 1 .. Len(t) : r[Len(s) + i] = t[i]

\* That is what putting them together does.
LEMMA JoinedIs ==
    ASSUME NEW s \in Seq(Nat), NEW t \in Seq(Nat)
    PROVE  Joined(s, t, s \o t)
<1>1. s \o t \in Seq(Nat) /\ Len(s \o t) = Len(s) + Len(t)
  OBVIOUS
<1>2. \A i \in 1 .. Len(s) : (s \o t)[i] = s[i]
  OBVIOUS
<1>3. \A i \in 1 .. Len(t) : (s \o t)[Len(s) + i] = t[i]
  OBVIOUS
<1> QED
  BY <1>1, <1>2, <1>3 DEF Joined
=============================================================================
