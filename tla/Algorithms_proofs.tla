-------------------------- MODULE Algorithms_proofs --------------------------
(***************************************************************************)
(* What the pure algorithms that MCAlgorithms puts together compute, for   *)
(* every size of their inputs.                                             *)
(***************************************************************************)
EXTENDS MCAlgorithms, NumberLemmas, SequenceTheorems

-----------------------------------------------------------------------------
(* The loop of HKDF expand.  In every iteration it has written as many     *)
(* bytes as there are in its blocks, or all, and no block too many.        *)
HkdfLoop ==
    /\ length \in Int
    /\ outcome \in {"running", "output", "RangeError", "counter overflow"}
    /\ blocks \in Seq(Nat)
    /\ \A i \in 1 .. Len(blocks) : blocks[i] = i
    /\ outcome \in {"running", "output"} =>
         /\ length \in 1 .. HashLength * MaxCounter
         /\ counter = Len(blocks) + 1
         /\ offset = Hkdf!Smaller(HashLength * Len(blocks), length)
         /\ HashLength * (Len(blocks) - 1) < length
    /\ outcome = "output" => offset >= length

LEMMA FewerBlocks ==
    ASSUME NEW h \in Nat \ {0}, NEW m \in Nat, NEW n \in Nat, h * n < h * m
    PROVE  n < m
OBVIOUS

LEMMA HkdfInit == Hkdf!Init => HkdfLoop
<1> SUFFICES ASSUME Hkdf!Init PROVE HkdfLoop
  OBVIOUS
<1> USE SizesAssumption
<1>1. length \in Int /\ blocks = << >> /\ Len(blocks) = 0 /\ blocks \in Seq(Nat)
  BY DEF Hkdf!Init
<1>2. HashLength * 0 = 0 /\ HashLength * (0 - 1) = -HashLength
  OBVIOUS
<1> QED
  BY <1>1, <1>2 DEF Hkdf!Init, HkdfLoop, Hkdf!ValidLength, Hkdf!Smaller

(* One more block of h bytes after m bytes of n.                           *)
LEMMA OneMoreBlock ==
    ASSUME NEW h \in Nat \ {0}, NEW m \in Nat, NEW n \in Nat, m < n
    PROVE  m + Hkdf!Smaller(h, n - m) = Hkdf!Smaller(m + h, n)
BY DEF Hkdf!Smaller

LEMMA HkdfCount ==
    ASSUME Hkdf!NextBlock, outcome = "running", NEW n \in Nat, counter = n + 1
    PROVE  \/ outcome' = "running" /\ counter' = n + 2
           \/ outcome' = "counter overflow"
<1>1. counter' = counter + 1 => counter' = n + 2
  OBVIOUS
<1>2. \/ outcome' = outcome /\ counter' = counter + 1
      \/ outcome' = "counter overflow"
  BY ImplAssumption DEF Hkdf!NextBlock, Hkdf!CountTs, Hkdf!CountPy, Hkdf!CountRs
<1> QED
  BY <1>1, <1>2

LEMMA HkdfBlock == HkdfLoop /\ Hkdf!NextBlock => HkdfLoop'
<1> SUFFICES ASSUME HkdfLoop, Hkdf!NextBlock PROVE HkdfLoop'
  OBVIOUS
<1> DEFINE n == Len(blocks)
<1>1. /\ outcome = "running" /\ offset < length
      /\ blocks' = Append(blocks, counter % (MaxCounter + 1))
      /\ offset' = offset + Hkdf!Smaller(HashLength, length - offset)
      /\ length' = length
  BY DEF Hkdf!NextBlock, Hkdf!Block
<1>2. /\ n \in Nat /\ length \in 1 .. HashLength * MaxCounter
      /\ counter = n + 1 /\ offset = Hkdf!Smaller(HashLength * n, length)
      /\ blocks \in Seq(Nat) /\ \A i \in 1 .. n : blocks[i] = i
  BY <1>1 DEF HkdfLoop
<1> DEFINE written == HashLength * n
           largest == HashLength * MaxCounter
<1>3. written \in Nat /\ largest \in Nat /\ HashLength * (n + 1) = written + HashLength
  BY <1>2, SizesAssumption
<1>4. n < MaxCounter /\ offset = written /\ written < length
  <2>1. length \in 1 .. largest
    BY <1>2
  <2> HIDE DEF written, largest
  <2>2. offset = written /\ written < length /\ written < largest
    BY <1>1, <1>2, <1>3, <2>1 DEF Hkdf!Smaller, written
  <2> QED
    BY <1>2, <2>2, SizesAssumption, FewerBlocks DEF written, largest
<1> HIDE DEF written, largest
<1>5. counter % (MaxCounter + 1) = n + 1
  BY <1>2, <1>4, SizesAssumption
<1>6. /\ blocks' \in Seq(Nat) /\ Len(blocks') = n + 1
      /\ \A i \in 1 .. Len(blocks') : blocks'[i] = i
  BY <1>1, <1>2, <1>5
<1>7. offset' = Hkdf!Smaller(HashLength * (n + 1), length)
  <2>1. offset' = Hkdf!Smaller(written + HashLength, length)
    <3>1. length \in Nat
      BY <1>2, <1>3 DEF largest
    <3>2. written + Hkdf!Smaller(HashLength, length - written)
            = Hkdf!Smaller(written + HashLength, length)
      BY <1>3, <1>4, <3>1, SizesAssumption, OneMoreBlock
    <3> QED
      BY <1>1, <1>4, <3>2
  <2> QED
    BY <1>3, <2>1
<1>8. \/ outcome' = "running" /\ counter' = n + 2
      \/ outcome' = "counter overflow"
  BY <1>1, <1>2, HkdfCount
<1>9. HashLength * (Len(blocks') - 1) < length
  <2>1. Len(blocks') - 1 = n
    BY <1>2, <1>6
  <2> QED
    BY <1>4, <2>1 DEF written
<1>10. CASE outcome' = "running" /\ counter' = n + 2
  <2>1. counter' = Len(blocks') + 1
    BY <1>2, <1>6, <1>10
  <2>2. offset' = Hkdf!Smaller(HashLength * Len(blocks'), length)
    BY <1>6, <1>7
  <2>3. length' \in Int /\ length' \in 1 .. HashLength * MaxCounter
    BY <1>1, <1>2, <1>3 DEF largest
  <2> QED
    BY <1>1, <1>6, <1>9, <1>10, <2>1, <2>2, <2>3 DEF HkdfLoop
<1>11. CASE outcome' = "counter overflow"
  <2>1. length' \in Int
    BY <1>1 DEF HkdfLoop
  <2> QED
    BY <1>6, <1>11, <2>1 DEF HkdfLoop
<1> QED
  BY <1>8, <1>10, <1>11

LEMMA HkdfNext == HkdfLoop /\ [Hkdf!Next]_Hkdf!vars => HkdfLoop'
<1> SUFFICES ASSUME HkdfLoop, [Hkdf!Next]_Hkdf!vars PROVE HkdfLoop'
  OBVIOUS
<1>1. CASE Hkdf!NextBlock
  BY <1>1, HkdfBlock
<1>2. CASE Hkdf!Return
  BY <1>2 DEF Hkdf!Return, HkdfLoop
<1>3. CASE UNCHANGED Hkdf!vars
  BY <1>3 DEF Hkdf!vars, HkdfLoop
<1> QED
  BY <1>1, <1>2, <1>3 DEF Hkdf!Next

(* In the three languages, for every size of a block and every range of    *)
(* the counter byte: an output has the length that was asked for, and each *)
(* of its blocks a counter of its own that the byte can hold.              *)
THEOREM ExpandCorrect == Hkdf!Spec => []OutputIsComplete
<1>1. ASSUME HkdfLoop PROVE OutputIsComplete
  <2>1. outcome = "output" => offset = length /\ length <= HashLength * Len(blocks)
    BY <1>1, SizesAssumption DEF HkdfLoop, Hkdf!Smaller
  <2> QED
    BY <1>1, <2>1 DEF HkdfLoop, OutputIsComplete, Hkdf!OutputIsComplete
<1> QED
  BY <1>1, HkdfInit, HkdfNext, PTL DEF Hkdf!Spec
-----------------------------------------------------------------------------
(* The loop that reads a number, byte by byte.                             *)
IsReading(f, bytes) ==
    f[0] = 0 /\ \A i \in 1 .. Len(bytes) : f[i] = f[i - 1] * Base + bytes[i]

LEMMA NextValue ==
    ASSUME NEW v \in Nat, NEW b \in Byte
    PROVE  v * Base + b \in Nat
<1>1. Base \in Nat /\ b \in Nat /\ v * Base \in Nat
  BY WidthsAssumption DEF Byte
<1> QED
  BY <1>1

LEMMA Reading ==
    ASSUME NEW bytes \in Seq(Byte)
    PROVE  \E f \in [0 .. Len(bytes) -> Nat] :
             IsReading(f, bytes) /\ FromBigEndian(bytes) = f[Len(bytes)]
<1> DEFINE N == Len(bytes)
           Body(f) == [i \in 0 .. N |-> IF i = 0 THEN 0 ELSE f[i - 1] * Base + bytes[i]]
           step == [i \in 1 .. N |-> [v \in Nat |-> v * Base + bytes[i]]]
<1>1. N \in Nat
  OBVIOUS
<1>2. step \in [1 .. N -> [Nat -> Nat]]
  <2> SUFFICES ASSUME NEW i \in 1 .. N
               PROVE  [v \in Nat |-> v * Base + bytes[i]] \in [Nat -> Nat]
    OBVIOUS
  <2>1. bytes[i] \in Byte
    OBVIOUS
  <2> QED
    BY <2>1, NextValue
<1>3. PICK g \in [0 .. N -> Nat] : IsLoop(g, 0, step, N)
  <2> HIDE DEF step, N
  <2> QED
    BY <1>1, <1>2, LoopExists
<1>4. ASSUME NEW i \in 0 .. N
      PROVE  g[i] = IF i = 0 THEN 0 ELSE g[i - 1] * Base + bytes[i]
  <2>1. CASE i = 0
    BY <1>3, <2>1 DEF IsLoop
  <2>2. CASE i \in 1 .. N
    <3>1. i - 1 \in 0 .. N /\ g[i - 1] \in Nat
      <4> HIDE DEF N, step
      <4>1. i - 1 \in 0 .. N
        BY <1>1, <2>2
      <4> QED
        BY <1>3, <4>1
    <3>2. g[i] = step[i][g[i - 1]]
      <4> HIDE DEF step
      <4> QED
        BY <1>3, <2>2 DEF IsLoop
    <3>3. step[i] = [v \in Nat |-> v * Base + bytes[i]]
      BY <2>2
    <3> QED
      BY <2>2, <3>1, <3>2, <3>3
  <2> QED
    BY <2>1, <2>2
<1>5. g = Body(g)
  BY <1>3, <1>4
<1> DEFINE value == CHOOSE f : f = Body(f)
<1>6. value = Body(value)
  <2> HIDE DEF Body
  <2> QED
    BY <1>5
<1>7. FromBigEndian(bytes) = value[N]
  BY DEF FromBigEndian
<1> HIDE DEF value
<1>8. IsReading(value, bytes) /\ DOMAIN value = 0 .. N
  BY <1>6 DEF IsReading
<1>9. ASSUME NEW i \in 0 .. N
      PROVE  value[i] = g[i]
  <2>1. StayAlike(value, g, N) /\ value[0] = g[0]
    BY <1>4, <1>8 DEF StayAlike, IsReading
  <2> HIDE DEF N
  <2>2. Alike(value, g, N)
    BY <1>1, <2>1, SameLoop
  <2> QED
    BY <2>2 DEF Alike
<1>10. value \in [0 .. N -> Nat]
  <2>1. value = [i \in 0 .. N |-> value[i]]
    BY <1>6
  <2> QED
    BY <1>3, <1>9, <2>1
<1> QED
  BY <1>7, <1>8, <1>10

(* The loop that shifts a number, byte by byte.                            *)
IsShifting(f, n, width) ==
    f[0] = n /\ \A k \in 1 .. width : f[k] = f[k - 1] \div Base

LEMMA ShiftedNat == ASSUME NEW v \in Nat PROVE v \div Base \in Nat
BY WidthsAssumption

LEMMA Shifting ==
    ASSUME NEW n \in Nat, NEW width \in Nat
    PROVE  \E f \in [0 .. width -> Nat] :
             /\ IsShifting(f, n, width)
             /\ BigEndian(n, width) = [i \in 1 .. width |-> f[width - i] % Base]
<1> DEFINE Body(f) == [k \in 0 .. width |-> IF k = 0 THEN n ELSE f[k - 1] \div Base]
           step == [k \in 1 .. width |-> [v \in Nat |-> v \div Base]]
<1>1. step \in [1 .. width -> [Nat -> Nat]]
  BY ShiftedNat
<1>2. PICK g \in [0 .. width -> Nat] : IsLoop(g, n, step, width)
  <2> HIDE DEF step
  <2> QED
    BY <1>1, LoopExists
<1>3. ASSUME NEW k \in 0 .. width
      PROVE  g[k] = IF k = 0 THEN n ELSE g[k - 1] \div Base
  <2>1. CASE k = 0
    BY <1>2, <2>1 DEF IsLoop
  <2>2. CASE k \in 1 .. width
    <3>1. g[k] = step[k][g[k - 1]] /\ g[k - 1] \in Nat
      BY <1>2, <2>2 DEF IsLoop
    <3> QED
      BY <2>2, <3>1
  <2> QED
    BY <2>1, <2>2
<1>4. g = Body(g)
  BY <1>2, <1>3
<1> DEFINE shifted == CHOOSE f : f = Body(f)
<1>5. shifted = Body(shifted)
  <2> HIDE DEF Body
  <2> QED
    BY <1>4
<1>6. BigEndian(n, width) = [i \in 1 .. width |-> shifted[width - i] % Base]
  BY DEF BigEndian
<1> HIDE DEF shifted
<1>7. IsShifting(shifted, n, width)
  BY <1>5 DEF IsShifting
<1>8. ASSUME NEW k \in 0 .. width
      PROVE  shifted[k] = g[k]
  <2>1. StayAlike(shifted, g, width) /\ shifted[0] = g[0]
    BY <1>3, <1>7 DEF StayAlike, IsShifting
  <2>2. Alike(shifted, g, width)
    BY <2>1, SameLoop
  <2> QED
    BY <2>2 DEF Alike
<1>9. shifted \in [0 .. width -> Nat]
  <2>1. shifted = [k \in 0 .. width |-> shifted[k]]
    BY <1>5
  <2> QED
    BY <1>2, <1>8, <2>1
<1> QED
  BY <1>6, <1>7, <1>9

(* The largest bytes, as LargestOf reads them.                             *)
LEMMA LargestReading ==
    ASSUME NEW width \in Nat
    PROVE  \E g \in [0 .. width -> Nat] :
             /\ g[0] = 0 /\ g[width] = LargestOf(width)
             /\ \A i \in 1 .. width : g[i] = g[i - 1] * Base + (Base - 1)
<1> DEFINE bytes == [i \in 1 .. width |-> Base - 1]
<1>1. bytes \in Seq(Byte) /\ Len(bytes) = width /\ \A i \in 1 .. width : bytes[i] = Base - 1
  BY WidthsAssumption DEF Byte
<1>2. FromBigEndian(bytes) = LargestOf(width)
  BY DEF LargestOf
<1> HIDE DEF bytes
<1>3. PICK g \in [0 .. width -> Nat] :
             IsReading(g, bytes) /\ FromBigEndian(bytes) = g[width]
  BY <1>1, Reading
<1> QED
  BY <1>1, <1>2, <1>3 DEF IsReading

LEMMA ScaledBound ==
    ASSUME NEW v \in Nat, NEW w \in Nat, v <= w, NEW n \in Nat
    PROVE  v * n <= w * n
OBVIOUS

(* No bytes are read as more than the largest bytes.                       *)
LEMMA ReadingBound ==
    ASSUME NEW bytes \in Seq(Byte)
    PROVE  FromBigEndian(bytes) \in 0 .. LargestOf(Len(bytes))
<1> DEFINE N == Len(bytes)
<1>1. N \in Nat /\ \A i \in 1 .. N : bytes[i] \in Byte
  OBVIOUS
<1>2. PICK f \in [0 .. N -> Nat] : IsReading(f, bytes) /\ FromBigEndian(bytes) = f[N]
  BY Reading
<1>3. PICK g \in [0 .. N -> Nat] : /\ g[0] = 0 /\ g[N] = LargestOf(N)
                                   /\ \A i \in 1 .. N : g[i] = g[i - 1] * Base + (Base - 1)
  BY <1>1, LargestReading
<1> DEFINE S == {i \in 0 .. N : f[i] <= g[i]}
<1>4. 0 \in S
  BY <1>2, <1>3 DEF IsReading
<1>5. ASSUME NEW i \in 1 .. N, i - 1 \in S
      PROVE  i \in S
  <2>1. f[i] = f[i - 1] * Base + bytes[i]
    BY <1>2 DEF IsReading
  <2>2. g[i] = g[i - 1] * Base + (Base - 1)
    BY <1>3
  <2>3. f[i - 1] \in Nat /\ g[i - 1] \in Nat /\ f[i - 1] <= g[i - 1]
    BY <1>2, <1>3, <1>5
  <2>4. f[i - 1] * Base <= g[i - 1] * Base
    BY <2>3, WidthsAssumption, ScaledBound
  <2>5. bytes[i] \in 0 .. Base - 1
    BY <1>1 DEF Byte
  <2>6. f[i - 1] * Base \in Int /\ g[i - 1] * Base \in Int
    BY <2>3, WidthsAssumption
  <2>7. f[i] <= g[i]
    BY <2>1, <2>2, <2>4, <2>5, <2>6, WidthsAssumption
  <2> QED
    BY <2>7
<1>6. 0 .. N \subseteq S
  <2>1. StaysIn(S, N)
    BY <1>5 DEF StaysIn
  <2> HIDE DEF S, N
  <2> QED
    BY <1>1, <1>4, <2>1, InductionUpTo
<1>7. f[N] <= g[N] /\ f[N] \in Nat
  BY <1>1, <1>2, <1>6
<1>8. LargestOf(N) \in Nat
  BY <1>1, <1>3
<1> QED
  BY <1>2, <1>3, <1>7, <1>8

LEMMA BigEndianBytes ==
    ASSUME NEW n \in Nat, NEW width \in Nat
    PROVE  BigEndian(n, width) \in Seq(Byte) /\ Len(BigEndian(n, width)) = width
<1>1. PICK h \in [0 .. width -> Nat] :
             BigEndian(n, width) = [i \in 1 .. width |-> h[width - i] % Base]
  BY Shifting
<1>2. ASSUME NEW i \in 1 .. width
      PROVE  h[width - i] % Base \in Byte
  <2>1. h[width - i] \in Nat
    BY <1>1
  <2> QED
    BY <2>1, WidthsAssumption DEF Byte
<1> QED
  BY <1>1, <1>2

(* One byte is shifted out of what was read, and it is the last.           *)
LEMMA ShiftOut ==
    ASSUME NEW v \in Nat, NEW b \in Byte
    PROVE  (v * Base + b) \div Base = v /\ (v * Base + b) % Base = b
BY WidthsAssumption, DivIs, ModIs DEF Byte

(* Bytes are read as a number that is written as the same bytes.           *)
LEMMA ReadWrite ==
    ASSUME NEW bytes \in Seq(Byte)
    PROVE  BigEndian(FromBigEndian(bytes), Len(bytes)) = bytes
<1> DEFINE N == Len(bytes)
<1>1. N \in Nat /\ \A i \in 1 .. N : bytes[i] \in Byte
  OBVIOUS
<1>2. PICK f \in [0 .. N -> Nat] : IsReading(f, bytes) /\ FromBigEndian(bytes) = f[N]
  BY Reading
<1>3. f[N] \in Nat
  BY <1>1, <1>2
<1>4. PICK h \in [0 .. N -> Nat] :
             /\ IsShifting(h, f[N], N)
             /\ BigEndian(f[N], N) = [i \in 1 .. N |-> h[N - i] % Base]
  BY <1>1, <1>3, Shifting
<1> DEFINE S == {k \in 0 .. N : h[k] = f[N - k]}
<1>5. ASSUME NEW i \in 1 .. N
      PROVE  f[i - 1] \in Nat /\ f[i] = f[i - 1] * Base + bytes[i]
  <2>1. f[i - 1] \in Nat
    BY <1>2
  <2> QED
    BY <1>2, <2>1 DEF IsReading
<1>6. 0 \in S
  BY <1>1, <1>4 DEF IsShifting
<1>7. ASSUME NEW k \in 1 .. N, k - 1 \in S
      PROVE  k \in S
  <2>1. PICK i \in 1 .. N : i = N - (k - 1) /\ i - 1 = N - k
    <3>1. N - (k - 1) \in 1 .. N /\ (N - (k - 1)) - 1 = N - k
      BY <1>1
    <3> QED
      BY <3>1
  <2>2. h[k] = h[k - 1] \div Base /\ h[k - 1] = f[i]
    BY <1>4, <1>7, <2>1 DEF IsShifting
  <2>3. f[i] \div Base = f[i - 1]
    BY <1>1, <1>5, ShiftOut
  <2> QED
    BY <2>1, <2>2, <2>3
<1>8. 0 .. N \subseteq S
  <2>1. StaysIn(S, N)
    BY <1>7 DEF StaysIn
  <2> HIDE DEF S, N
  <2> QED
    BY <1>1, <1>6, <2>1, InductionUpTo
<1>9. ASSUME NEW i \in 1 .. N
      PROVE  h[N - i] % Base = bytes[i]
  <2>1. h[N - i] = f[i]
    <3>1. N - i \in 0 .. N /\ N - (N - i) = i
      BY <1>1
    <3> QED
      BY <1>8, <3>1
  <2>2. f[i] % Base = bytes[i]
    BY <1>1, <1>5, ShiftOut
  <2> QED
    BY <2>1, <2>2
<1> QED
  BY <1>2, <1>4, <1>9

LEMMA QuotientBound ==
    ASSUME NEW v \in Nat, NEW w \in Nat, v <= w * Base + (Base - 1)
    PROVE  v \div Base <= w /\ v = (v \div Base) * Base + (v % Base)
<1>1. PICK q \in Int, r \in 0 .. Base - 1 : r = v % Base /\ v = q * Base + r
  <2>1. v \in Int /\ Base \in Nat \ {0}
    BY WidthsAssumption
  <2> QED
    BY <2>1, DivMod
<1>2. v \div Base = q
  BY <1>1, WidthsAssumption, DivIs
<1>3. (q - w) * Base = q * Base - w * Base
  BY WidthsAssumption
<1>4. w * Base \in Int /\ q * Base \in Int
  BY WidthsAssumption
<1>5. (q - w) * Base < Base
  BY <1>1, <1>3, <1>4, WidthsAssumption
<1>6. ~(q - w >= 1)
  BY <1>5, WidthsAssumption, TimesAtLeast
<1>7. q <= w
  BY <1>6
<1> QED
  BY <1>1, <1>2, <1>7

(* A number that fits is written as bytes that are read as the number.     *)
LEMMA WriteRead ==
    ASSUME NEW width \in Nat, NEW n \in 0 .. LargestOf(width)
    PROVE  FromBigEndian(BigEndian(n, width)) = n
<1>1. PICK g \in [0 .. width -> Nat] : /\ g[0] = 0 /\ g[width] = LargestOf(width)
                                       /\ \A i \in 1 .. width : g[i] = g[i - 1] * Base + (Base - 1)
  BY LargestReading
<1>2. n \in Nat /\ n <= g[width]
  BY <1>1
<1>3. PICK h \in [0 .. width -> Nat] :
             /\ IsShifting(h, n, width)
             /\ BigEndian(n, width) = [i \in 1 .. width |-> h[width - i] % Base]
  BY <1>2, Shifting
<1> DEFINE S == {k \in 0 .. width : h[k] <= g[width - k]}
<1>4. 0 \in S
  BY <1>2, <1>3 DEF IsShifting
<1>5. ASSUME NEW k \in 1 .. width, k - 1 \in S
      PROVE  /\ h[k] <= g[width - k] /\ h[k] = h[k - 1] \div Base
             /\ h[k - 1] = h[k] * Base + (h[k - 1] % Base)
  <2>1. /\ width - (k - 1) \in 1 .. width /\ (width - (k - 1)) - 1 = width - k
        /\ width - k \in 0 .. width /\ k - 1 \in 0 .. width
    OBVIOUS
  <2>2. /\ g[width - (k - 1)] = g[width - k] * Base + (Base - 1)
        /\ g[width - k] \in Nat /\ h[k - 1] \in Nat
    BY <1>1, <1>3, <2>1
  <2>3. h[k - 1] <= g[width - k] * Base + (Base - 1)
    BY <1>5, <2>2
  <2>4. h[k] = h[k - 1] \div Base
    BY <1>3 DEF IsShifting
  <2> QED
    BY <2>2, <2>3, <2>4, QuotientBound, SMTT(40)
<1>6. 0 .. width \subseteq S
  <2>1. StaysIn(S, width)
    <3> SUFFICES ASSUME NEW k \in 1 .. width, k - 1 \in S
                 PROVE  k \in S
      BY DEF StaysIn
    <3> QED
      BY <1>5
  <2> HIDE DEF S
  <2> QED
    BY <1>4, <2>1, InductionUpTo
<1>7. h[width] = 0
  <2>1. width \in 0 .. width /\ width - width = 0
    OBVIOUS
  <2>2. h[width] \in Nat /\ h[width] <= g[0]
    BY <1>3, <1>6, <2>1
  <2> QED
    BY <1>1, <2>2
<1> DEFINE bytes == BigEndian(n, width)
<1>8. bytes \in Seq(Byte) /\ Len(bytes) = width /\ \A i \in 1 .. width : bytes[i] = h[width - i] % Base
  BY <1>2, <1>3, BigEndianBytes
<1> HIDE DEF bytes
<1>9. PICK f \in [0 .. width -> Nat] : IsReading(f, bytes) /\ FromBigEndian(bytes) = f[width]
  BY <1>8, Reading
<1> DEFINE R == {i \in 0 .. width : f[i] = h[width - i]}
<1>10. 0 \in R
  BY <1>7, <1>9 DEF IsReading
<1>11. ASSUME NEW i \in 1 .. width, i - 1 \in R
       PROVE  i \in R
  <2>1. PICK k \in 1 .. width : k = width - (i - 1) /\ k - 1 = width - i
    <3>1. width - (i - 1) \in 1 .. width /\ (width - (i - 1)) - 1 = width - i
      OBVIOUS
    <3> QED
      BY <3>1
  <2>2. f[i] = f[i - 1] * Base + (h[k - 1] % Base) /\ f[i - 1] = h[k]
    BY <1>8, <1>9, <1>11, <2>1 DEF IsReading
  <2>3. k - 1 \in 0 .. width
    OBVIOUS
  <2>4. k - 1 \in S
    BY <1>6, <2>3
  <2>5. h[k - 1] = h[k] * Base + (h[k - 1] % Base)
    BY <1>5, <2>4
  <2> QED
    BY <2>1, <2>2, <2>5
<1>12. 0 .. width \subseteq R
  <2>1. StaysIn(R, width)
    BY <1>11 DEF StaysIn
  <2> HIDE DEF R
  <2> QED
    BY <1>10, <2>1, InductionUpTo
<1>13. f[width] = h[0]
  <2>1. width \in 0 .. width /\ width - width = 0
    OBVIOUS
  <2> QED
    BY <1>12, <2>1
<1> QED
  BY <1>3, <1>9, <1>13 DEF IsShifting, bytes
-----------------------------------------------------------------------------
(* The pieces of a sequence that was put together, and the other way round.*)
LEMMA FirstPiece ==
    ASSUME NEW T, NEW a \in Seq(T), NEW b \in Seq(T),
           NEW m \in Nat \ {0}, NEW n \in Nat, n <= Len(a)
    PROVE  SubSeq(a \o b, m, n) = SubSeq(a, m, n)
<1> DEFINE u == SubSeq(a \o b, m, n)
           v == SubSeq(a, m, n)
           s == a \o b
<1>1. ASSUME NEW i \in m .. n
      PROVE  a[i] \in T /\ s[i] = a[i]
  <2>1. i \in 1 .. Len(a) /\ i \in 1 .. Len(a) + Len(b)
    OBVIOUS
  <2> QED
    BY <2>1, ConcatProperties
<1>2. m \in Int /\ n \in Int /\ \A i \in m .. n : s[i] \in T
  BY <1>1
<1> HIDE DEF s
<1>3. /\ v \in Seq(T) /\ Len(v) = (IF m <= n THEN n - m + 1 ELSE 0)
      /\ \A i \in 1 .. n - m + 1 : v[i] = a[m + i - 1]
  BY <1>1, <1>2, SubSeqProperties
<1>4. /\ u \in Seq(T) /\ Len(u) = (IF m <= n THEN n - m + 1 ELSE 0)
      /\ \A i \in 1 .. n - m + 1 : u[i] = s[m + i - 1]
  BY <1>2, SubSeqProperties DEF s
<1>5. ASSUME NEW i \in 1 .. Len(u)
      PROVE  u[i] = v[i]
  <2>1. i \in 1 .. n - m + 1 /\ m + i - 1 \in m .. n
    BY <1>4
  <2> QED
    BY <1>1, <1>3, <1>4, <2>1
<1> HIDE DEF u, v
<1> QED
  BY <1>3, <1>4, <1>5, SeqEqual DEF u, v

LEMMA LastPiece ==
    ASSUME NEW T, NEW a \in Seq(T), NEW b \in Seq(T)
    PROVE  SubSeq(a \o b, Len(a) + 1, Len(a) + Len(b)) = b
<1> DEFINE m == Len(a)
           n == Len(b)
           s == a \o b
           t == SubSeq(s, m + 1, m + n)
<1>1. m \in Nat /\ n \in Nat /\ \A i \in 1 .. n : b[i] \in T
  OBVIOUS
<1>2. \A i \in 1 .. m + n : s[i] = IF i <= m THEN a[i] ELSE b[i - m]
  BY ConcatProperties
<1> HIDE DEF m, n, s
<1>3. ASSUME NEW i \in 1 .. n
      PROVE  s[m + i] = b[i]
  <2>1. m + i \in 1 .. m + n /\ ~(m + i <= m) /\ (m + i) - m = i
    BY <1>1
  <2> QED
    BY <1>2, <2>1
<1>4. \A i \in m + 1 .. m + n : s[i] \in T
  <2> SUFFICES ASSUME NEW i \in m + 1 .. m + n
               PROVE  s[i] \in T
    OBVIOUS
  <2>1. i - m \in 1 .. n /\ m + (i - m) = i
    BY <1>1
  <2> QED
    BY <1>1, <1>3, <2>1
<1>5. /\ t \in Seq(T)
      /\ Len(t) = (IF m + 1 <= m + n THEN (m + n) - (m + 1) + 1 ELSE 0)
      /\ \A i \in 1 .. (m + n) - (m + 1) + 1 : t[i] = s[(m + 1) + i - 1]
  <2>1. m + 1 \in Int /\ m + n \in Int
    BY <1>1
  <2> QED
    BY <1>4, <2>1, SubSeqProperties
<1>6. Len(t) = n
  BY <1>1, <1>5
<1>7. ASSUME NEW i \in 1 .. n
      PROVE  t[i] = b[i]
  <2>1. i \in 1 .. (m + n) - (m + 1) + 1 /\ (m + 1) + i - 1 = m + i
    BY <1>1
  <2> QED
    BY <1>3, <1>5, <2>1
<1>8. t = b
  <2> HIDE DEF t
  <2> QED
    BY <1>5, <1>6, <1>7, SeqEqual DEF n
<1> QED
  BY <1>8 DEF s, t, m, n

(* A sequence z of length n that adds d to a sequence y of length h.       *)
Adds(T, y, h, d, z, n) ==
    /\ y \in Seq(T) /\ d \in Seq(T) /\ z = y \o d
    /\ h = Len(y) /\ n = h + Len(d)

Added(T, y, h, d, z, n) ==
    /\ z \in Seq(T) /\ h \in Nat /\ n \in Nat /\ h <= n /\ Len(z) = n
    /\ h > 0 => z[1] = y[1]
    /\ SubSeq(z, h + 1, n) = d
    /\ \A m \in Nat \ {0}, k \in 0 .. h : SubSeq(z, m, k) = SubSeq(y, m, k)

LEMMA OneMorePiece ==
    ASSUME NEW T, NEW y, NEW h, NEW d, NEW z, NEW n, Adds(T, y, h, d, z, n)
    PROVE  Added(T, y, h, d, z, n)
<1>1. z \in Seq(T) /\ h \in Nat /\ n \in Nat /\ h <= n /\ Len(z) = n
  BY ConcatProperties DEF Adds
<1>2. h > 0 => z[1] = y[1]
  BY ConcatProperties DEF Adds
<1>3. SubSeq(z, h + 1, n) = d
  BY LastPiece DEF Adds
<1>4. \A m \in Nat \ {0}, k \in 0 .. h : SubSeq(z, m, k) = SubSeq(y, m, k)
  BY FirstPiece DEF Adds
<1> QED
  BY <1>1, <1>2, <1>3, <1>4 DEF Added

(* Five pieces, of which the first has one element.                        *)
Joins(T, t, b, c, d, e, s, m, h, n, l) ==
    \E x, y, z : /\ Adds(T, <<t>>, 1, b, x, m) /\ Adds(T, x, m, c, y, h)
                 /\ Adds(T, y, h, d, z, n) /\ Adds(T, z, n, e, s, l)

LEMMA FivePieces ==
    ASSUME NEW T, NEW t, NEW b, NEW c, NEW d, NEW e, NEW s, NEW m, NEW h, NEW n, NEW l,
           Joins(T, t, b, c, d, e, s, m, h, n, l)
    PROVE  /\ s \in Seq(T) /\ Len(s) = l
           /\ s[1] = t
           /\ SubSeq(s, 2, m) = b
           /\ SubSeq(s, m + 1, h) = c
           /\ SubSeq(s, h + 1, n) = d
           /\ SubSeq(s, n + 1, l) = e
<1>1. PICK x, y, z : /\ Added(T, <<t>>, 1, b, x, m) /\ Added(T, x, m, c, y, h)
                     /\ Added(T, y, h, d, z, n) /\ Added(T, z, n, e, s, l)
  BY OneMorePiece DEF Joins
<1>2. /\ m \in Nat /\ h \in Nat /\ n \in Nat /\ 1 <= m /\ m <= h /\ h <= n
      /\ x[1] = t /\ y[1] = x[1] /\ z[1] = y[1] /\ s[1] = z[1]
      /\ s \in Seq(T) /\ Len(s) = l
      /\ SubSeq(x, 2, m) = b /\ SubSeq(y, m + 1, h) = c
      /\ SubSeq(z, h + 1, n) = d /\ SubSeq(s, n + 1, l) = e
  <2>1. m \in Nat /\ 1 <= m /\ x[1] = t /\ SubSeq(x, 2, m) = b
    BY <1>1 DEF Added
  <2>2. h \in Nat /\ m <= h /\ y[1] = x[1] /\ SubSeq(y, m + 1, h) = c
    BY <1>1, <2>1 DEF Added
  <2>3. n \in Nat /\ h <= n /\ z[1] = y[1] /\ SubSeq(z, h + 1, n) = d
    BY <1>1, <2>1, <2>2 DEF Added
  <2>4. s[1] = z[1] /\ SubSeq(s, n + 1, l) = e /\ s \in Seq(T) /\ Len(s) = l
    BY <1>1, <2>1, <2>2, <2>3 DEF Added
  <2> QED
    BY <2>1, <2>2, <2>3, <2>4
<1>3. SubSeq(y, 2, m) = SubSeq(x, 2, m)
  <2>1. \A i \in Nat \ {0}, k \in 0 .. m : SubSeq(y, i, k) = SubSeq(x, i, k)
    BY <1>1 DEF Added
  <2>2. m \in 0 .. m /\ 2 \in Nat \ {0}
    BY <1>2
  <2> QED
    BY <2>1, <2>2
<1>4. SubSeq(z, 2, m) = SubSeq(y, 2, m) /\ SubSeq(z, m + 1, h) = SubSeq(y, m + 1, h)
  <2>1. \A i \in Nat \ {0}, k \in 0 .. h : SubSeq(z, i, k) = SubSeq(y, i, k)
    BY <1>1 DEF Added
  <2>2. m \in 0 .. h /\ h \in 0 .. h /\ m + 1 \in Nat \ {0} /\ 2 \in Nat \ {0}
    BY <1>2
  <2> QED
    BY <2>1, <2>2
<1>5. /\ SubSeq(s, 2, m) = SubSeq(z, 2, m) /\ SubSeq(s, m + 1, h) = SubSeq(z, m + 1, h)
      /\ SubSeq(s, h + 1, n) = SubSeq(z, h + 1, n)
  <2>1. \A i \in Nat \ {0}, k \in 0 .. n : SubSeq(s, i, k) = SubSeq(z, i, k)
    BY <1>1 DEF Added
  <2>2. /\ m \in 0 .. n /\ h \in 0 .. n /\ n \in 0 .. n
        /\ h + 1 \in Nat \ {0} /\ m + 1 \in Nat \ {0} /\ 2 \in Nat \ {0}
    BY <1>2, SMTT(40)
  <2> QED
    BY <2>1, <2>2
<1> QED
  BY <1>2, <1>3, <1>4, <1>5

(* A sequence is the pieces that it is cut into, again five of them.       *)
CutAt(s, m, h, n) ==
    /\ m \in Nat /\ h \in Nat /\ n \in Nat
    /\ 1 <= m /\ m <= h /\ h <= n /\ n <= Len(s)

Joined(t, b, c, d, e) == (((<<t>> \o b) \o c) \o d) \o e

LEMMA CutInFive ==
    ASSUME NEW T, NEW s \in Seq(T), NEW m, NEW h, NEW n, CutAt(s, m, h, n)
    PROVE  Joined(s[1], SubSeq(s, 2, m), SubSeq(s, m + 1, h), SubSeq(s, h + 1, n),
                  SubSeq(s, n + 1, Len(s))) = s
<1>1. /\ m \in Nat /\ h \in Nat /\ n \in Nat /\ Len(s) \in Nat
      /\ 1 <= m /\ m <= h /\ h <= n /\ n <= Len(s) /\ s[1] \in T
  BY DEF CutAt
<1>2. SubSeq(s, 1, 1) = <<s[1]>>
  <2> DEFINE u == SubSeq(s, 1, 1)
  <2>1. u \in Seq(T) /\ Len(u) = 1 /\ u[1] = s[1]
    BY <1>1, SubSeqProperties
  <2> HIDE DEF u
  <2>2. <<s[1]>> \in Seq(T) /\ Len(<<s[1]>>) = 1 /\ <<s[1]>>[1] = s[1]
    BY <1>1
  <2>3. u = <<s[1]>>
    BY <2>1, <2>2, SeqEqual
  <2> QED
    BY <2>3 DEF u
<1>3. ASSUME NEW k \in Nat, NEW j \in Nat, 1 <= k, k <= j, j <= Len(s)
      PROVE  SubSeq(s, 1, k) \o SubSeq(s, k + 1, j) = SubSeq(s, 1, j)
  <2>1. 1 \in 1 .. Len(s) + 1 /\ k \in 1 - 1 .. Len(s) /\ j \in k .. Len(s)
    BY <1>1, <1>3
  <2> QED
    BY <2>1, ConcatAdjacentSubSeq
<1>4. <<s[1]>> \o SubSeq(s, 2, m) = SubSeq(s, 1, m)
  BY <1>1, <1>2, <1>3
<1>5. SubSeq(s, 1, m) \o SubSeq(s, m + 1, h) = SubSeq(s, 1, h)
  BY <1>1, <1>3
<1>6. SubSeq(s, 1, h) \o SubSeq(s, h + 1, n) = SubSeq(s, 1, n)
  BY <1>1, <1>3
<1>7. SubSeq(s, 1, n) \o SubSeq(s, n + 1, Len(s)) = SubSeq(s, 1, Len(s))
  <2>1. 1 <= n /\ n <= Len(s) /\ Len(s) <= Len(s)
    BY <1>1
  <2> QED
    BY <1>1, <1>3, <2>1
<1>8. SubSeq(s, 1, Len(s)) = s
  <2> DEFINE u == SubSeq(s, 1, Len(s))
  <2>1. u \in Seq(T) /\ Len(u) = Len(s) /\ \A i \in 1 .. Len(s) : u[i] = s[i]
    BY <1>1, SubSeqProperties
  <2> HIDE DEF u
  <2>2. u = s
    BY <2>1, SeqEqual
  <2> QED
    BY <2>2 DEF u
<1> QED
  BY <1>4, <1>5, <1>6, <1>7, <1>8 DEF Joined
-----------------------------------------------------------------------------
(* The frames that encodeFrame takes, in every implementation.             *)
WellFormed(fr) ==
    /\ fr \in [type : MessageTypes, sequence : 0 .. MaxSequence, payload : Seq(Byte),
               tag : {NoTag} \cup [1 .. AUTHENTICATION_TAG_LENGTH -> Byte]]
    /\ Len(fr.payload) <= MAX_PAYLOAD_LENGTH
    /\ fr.type = CLASSICAL_MESSAGE <=> fr.tag # NoTag

TagBytes(fr) == IF fr.tag = NoTag THEN << >> ELSE fr.tag

LEMMA WellFormedIsEncodable ==
    ASSUME NEW fr, WellFormed(fr)
    PROVE  Encodable(fr)
<1>1. /\ fr.type \in MessageTypes /\ fr.sequence \in 0 .. MaxSequence
      /\ Len(fr.payload) <= MAX_PAYLOAD_LENGTH
      /\ fr.type = CLASSICAL_MESSAGE <=> fr.tag # NoTag
      /\ fr.tag \in {NoTag} \cup [1 .. AUTHENTICATION_TAG_LENGTH -> Byte]
  BY DEF WellFormed
<1>2. fr.tag # NoTag => Len(fr.tag) = AUTHENTICATION_TAG_LENGTH
  <2> SUFFICES ASSUME fr.tag # NoTag
               PROVE  Len(fr.tag) = AUTHENTICATION_TAG_LENGTH
    OBVIOUS
  <2>1. PICK tag \in [1 .. AUTHENTICATION_TAG_LENGTH -> Byte] : tag = fr.tag
    BY <1>1
  <2>2. Len(tag) = AUTHENTICATION_TAG_LENGTH
    BY WidthsAssumption
  <2> QED
    BY <2>1, <2>2
<1>3. EncodableTs(fr) /\ EncodablePy(fr) /\ EncodableRs(fr)
  BY <1>1, <1>2 DEF EncodableTs, EncodablePy, EncodableRs
<1> QED
  BY <1>3, ImplAssumption DEF Encodable

LEMMA EncodableIsWellFormed ==
    ASSUME NEW fr \in Inputs, Encodable(fr)
    PROVE  WellFormed(fr)
<1>1. fr \in [type : Byte, sequence : Int, payload : Seq(Byte), tag : {NoTag} \cup Seq(Byte)]
  BY InputsAssumption
<1>2. /\ fr.type \in MessageTypes /\ Len(fr.payload) <= MAX_PAYLOAD_LENGTH
      /\ fr.type = CLASSICAL_MESSAGE <=> fr.tag # NoTag
      /\ fr.sequence \in 0 .. MaxSequence
      /\ fr.tag # NoTag => Len(fr.tag) = AUTHENTICATION_TAG_LENGTH
  <2>1. CASE Impl = "rs"
    <3>1. EncodableRs(fr)
      BY <2>1 DEF Encodable
    <3>2. /\ fr.sequence \in 0 .. MaxSequence
          /\ fr.tag # NoTag => Len(fr.tag) = AUTHENTICATION_TAG_LENGTH
      BY <2>1, InputsAssumption
    <3> QED
      BY <3>1, <3>2 DEF EncodableRs
  <2>2. CASE Impl # "rs"
    <3>1. EncodableTs(fr)
      BY <2>2, ImplAssumption DEF Encodable, EncodablePy
    <3> QED
      BY <3>1 DEF EncodableTs
  <2> QED
    BY <2>1, <2>2
<1>3. fr.tag \in {NoTag} \cup [1 .. AUTHENTICATION_TAG_LENGTH -> Byte]
  <2> SUFFICES ASSUME fr.tag # NoTag
               PROVE  fr.tag \in [1 .. AUTHENTICATION_TAG_LENGTH -> Byte]
    OBVIOUS
  <2>1. PICK tag \in Seq(Byte) : tag = fr.tag
    BY <1>1
  <2>2. Len(tag) = AUTHENTICATION_TAG_LENGTH
    BY <1>2, <2>1
  <2>3. tag \in [1 .. AUTHENTICATION_TAG_LENGTH -> Byte]
    BY <2>2
  <2> QED
    BY <2>1, <2>3
<1>4. fr \in [type : MessageTypes, sequence : 0 .. MaxSequence, payload : Seq(Byte),
              tag : {NoTag} \cup [1 .. AUTHENTICATION_TAG_LENGTH -> Byte]]
  BY <1>1, <1>2, <1>3
<1> QED
  BY <1>2, <1>4 DEF WellFormed

LEMMA FieldSizes ==
    /\ SequenceWidth \in Nat /\ LengthWidth \in Nat /\ FRAME_HEADER_LENGTH \in Nat
    /\ MaxSequence \in Nat /\ MAX_PAYLOAD_LENGTH \in Nat
<1>1. LargestOf(SequenceWidth) \in Nat
  <2>1. PICK width \in Nat : width = SequenceWidth
    BY WidthsAssumption
  <2>2. PICK g \in [0 .. width -> Nat] : g[width] = LargestOf(width)
    BY LargestReading
  <2>3. g[width] \in Nat
    OBVIOUS
  <2> QED
    BY <2>1, <2>2, <2>3
<1>2. LargestOf(LengthWidth) \in Nat
  <2>1. PICK width \in Nat : width = LengthWidth
    BY WidthsAssumption
  <2>2. PICK g \in [0 .. width -> Nat] : g[width] = LargestOf(width)
    BY LargestReading
  <2>3. g[width] \in Nat
    OBVIOUS
  <2> QED
    BY <2>1, <2>2, <2>3
<1> QED
  BY <1>1, <1>2, WidthsAssumption DEF FRAME_HEADER_LENGTH, MaxSequence, MAX_PAYLOAD_LENGTH

(* Where encodeFrame puts the fields.                                      *)
LEMMA EncodedFields ==
    ASSUME NEW fr, WellFormed(fr), NEW w, w = encodeFrame(fr),
           NEW h, h = FRAME_HEADER_LENGTH, NEW n, n = h + Len(fr.payload)
    PROVE  /\ w \in Seq(Byte) /\ Len(w) = n + TagLength(fr.type)
           /\ w[1] = fr.type
           /\ SubSeq(w, 2, 1 + SequenceWidth) = BigEndian(fr.sequence, SequenceWidth)
           /\ SubSeq(w, 2 + SequenceWidth, h) = BigEndian(Len(fr.payload), LengthWidth)
           /\ SubSeq(w, h + 1, n) = fr.payload
           /\ SubSeq(w, n + 1, Len(w)) = TagBytes(fr)
<1> DEFINE b == BigEndian(fr.sequence, SequenceWidth)
           c == BigEndian(Len(fr.payload), LengthWidth)
           d == fr.payload
           e == TagBytes(fr)
           m == 1 + SequenceWidth
           l == n + TagLength(fr.type)
<1>1. /\ fr.type \in Byte /\ d \in Seq(Byte) /\ Len(d) \in Nat
      /\ fr.sequence \in Nat
  BY FieldSizes, MessageTypesAssumption DEF WellFormed, MessageTypes, Byte
<1>2. b \in Seq(Byte) /\ Len(b) = SequenceWidth
  BY <1>1, FieldSizes, BigEndianBytes
<1>3. c \in Seq(Byte) /\ Len(c) = LengthWidth
  BY <1>1, FieldSizes, BigEndianBytes
<1>4. e \in Seq(Byte) /\ Len(e) = TagLength(fr.type)
  <2>1. CASE fr.tag = NoTag
    <3>1. e = << >> /\ TagLength(fr.type) = 0
      BY <2>1 DEF TagBytes, TagLength, WellFormed
    <3> QED
      BY <3>1
  <2>2. CASE fr.tag # NoTag
    <3>1. TagLength(fr.type) = AUTHENTICATION_TAG_LENGTH
      BY <2>2 DEF TagLength, WellFormed
    <3>2. PICK tag \in [1 .. AUTHENTICATION_TAG_LENGTH -> Byte] : tag = fr.tag
      BY <2>2 DEF WellFormed
    <3>3. tag \in Seq(Byte) /\ Len(tag) = AUTHENTICATION_TAG_LENGTH
      BY WidthsAssumption
    <3> QED
      BY <2>2, <3>1, <3>2, <3>3 DEF TagBytes
  <2> QED
    BY <2>1, <2>2
<1>5. w = (((<<fr.type>> \o b) \o c) \o d) \o e
  BY WellFormedIsEncodable DEF encodeFrame, encodeHeader, TagBytes
<1>6. m \in Nat /\ h \in Nat /\ h = m + LengthWidth /\ n = h + Len(d) /\ l = n + Len(e)
  BY <1>4, FieldSizes DEF FRAME_HEADER_LENGTH
<1>7. Joins(Byte, fr.type, b, c, d, e, w, m, h, n, l)
  <2> HIDE DEF b, c, d, e, m, l
  <2>1. PICK x : x = <<fr.type>> \o b
    OBVIOUS
  <2>2. PICK y : y = x \o c
    OBVIOUS
  <2>3. PICK z : z = y \o d
    OBVIOUS
  <2>4. w = z \o e
    BY <1>5, <2>1, <2>2, <2>3
  <2>5. Adds(Byte, <<fr.type>>, 1, b, x, m)
    BY <1>1, <1>2, <2>1 DEF Adds, m
  <2>6. Adds(Byte, x, m, c, y, h)
    <3>1. x \in Seq(Byte) /\ Len(x) = m
      BY <2>5, OneMorePiece DEF Added
    <3> QED
      BY <1>3, <1>6, <2>2, <3>1 DEF Adds
  <2>7. Adds(Byte, y, h, d, z, n)
    <3>1. y \in Seq(Byte) /\ Len(y) = h
      BY <2>6, OneMorePiece DEF Added
    <3> QED
      BY <1>1, <1>6, <2>3, <3>1 DEF Adds
  <2>8. Adds(Byte, z, n, e, w, l)
    <3>1. z \in Seq(Byte) /\ Len(z) = n
      BY <2>7, OneMorePiece DEF Added
    <3> QED
      BY <1>4, <1>6, <2>4, <3>1 DEF Adds
  <2> QED
    BY <2>5, <2>6, <2>7, <2>8 DEF Joins
<1>8. /\ w \in Seq(Byte) /\ Len(w) = l /\ w[1] = fr.type
      /\ SubSeq(w, 2, m) = b /\ SubSeq(w, m + 1, h) = c
      /\ SubSeq(w, h + 1, n) = d /\ SubSeq(w, n + 1, l) = e
  <2> HIDE DEF b, c, d, e, m, l
  <2> QED
    BY <1>7, FivePieces, SMTT(40)
<1>9. m + 1 = 2 + SequenceWidth
  BY FieldSizes
<1> QED
  BY <1>8, <1>9

(* What encodeFrame writes is what decodeFrame reads.                      *)
LEMMA EncodeDecode ==
    ASSUME NEW fr, WellFormed(fr), NEW w, w = encodeFrame(fr)
    PROVE  /\ w \in Seq(Byte) /\ Len(w) >= FRAME_HEADER_LENGTH /\ w[1] = fr.type
           /\ DeclaredLength(w) = Len(fr.payload)
           /\ Decodable(w) /\ decodeFrame(w) = fr
<1> DEFINE h == FRAME_HEADER_LENGTH
           n == h + Len(fr.payload)
<1>1. /\ w \in Seq(Byte) /\ Len(w) = n + TagLength(fr.type) /\ w[1] = fr.type
      /\ SubSeq(w, 2, 1 + SequenceWidth) = BigEndian(fr.sequence, SequenceWidth)
      /\ SubSeq(w, 2 + SequenceWidth, h) = BigEndian(Len(fr.payload), LengthWidth)
      /\ SubSeq(w, h + 1, n) = fr.payload
      /\ SubSeq(w, n + 1, Len(w)) = TagBytes(fr)
  BY EncodedFields
<1>2. /\ fr.type \in MessageTypes /\ fr.sequence \in 0 .. MaxSequence
      /\ Len(fr.payload) \in 0 .. MAX_PAYLOAD_LENGTH
      /\ fr = [type |-> fr.type, sequence |-> fr.sequence, payload |-> fr.payload, tag |-> fr.tag]
  <2>1. Len(fr.payload) \in Nat /\ Len(fr.payload) <= MAX_PAYLOAD_LENGTH
    BY DEF WellFormed
  <2> QED
    BY <2>1, FieldSizes DEF WellFormed
<1>3. TagLength(fr.type) \in Nat
  BY WidthsAssumption DEF TagLength
<1>4. FromBigEndian(SubSeq(w, 2, 1 + SequenceWidth)) = fr.sequence
  <2>1. fr.sequence \in 0 .. LargestOf(SequenceWidth) /\ SequenceWidth \in Nat
    BY <1>2, FieldSizes DEF MaxSequence
  <2>2. FromBigEndian(BigEndian(fr.sequence, SequenceWidth)) = fr.sequence
    BY <2>1, WriteRead
  <2> QED
    BY <1>1, <2>2
<1>5. DeclaredLength(w) = Len(fr.payload)
  <2>1. Len(fr.payload) \in 0 .. LargestOf(LengthWidth) /\ LengthWidth \in Nat
    BY <1>2, FieldSizes DEF MAX_PAYLOAD_LENGTH
  <2>2. FromBigEndian(BigEndian(Len(fr.payload), LengthWidth)) = Len(fr.payload)
    BY <2>1, WriteRead
  <2> QED
    BY <1>1, <2>2 DEF DeclaredLength
<1>6. Len(w) >= h /\ Decodable(w)
  BY <1>1, <1>2, <1>3, <1>5, FieldSizes DEF Decodable, ExpectedLength
<1>7. (IF w[1] = CLASSICAL_MESSAGE THEN SubSeq(w, n + 1, Len(w)) ELSE NoTag) = fr.tag
  BY <1>1 DEF TagBytes, WellFormed
<1>8. decodeFrame(w) = fr
  <2>1. decodeFrame(w) =
          [type     |-> w[1],
           sequence |-> FromBigEndian(SubSeq(w, 2, 1 + SequenceWidth)),
           payload  |-> SubSeq(w, h + 1, n),
           tag      |-> IF w[1] = CLASSICAL_MESSAGE THEN SubSeq(w, n + 1, Len(w)) ELSE NoTag]
    BY <1>5, <1>6 DEF decodeFrame
  <2> HIDE DEF h, n
  <2> QED
    BY <1>1, <1>2, <1>4, <1>7, <2>1
<1> QED
  BY <1>1, <1>5, <1>6, <1>8

(* The fields that decodeFrame finds in bytes it accepts.                  *)
FieldsAt(w, h, n) ==
    /\ h \in Nat /\ n \in h .. Len(w) /\ 1 + SequenceWidth <= h
    /\ DeclaredLength(w) \in 0 .. MAX_PAYLOAD_LENGTH
    /\ SubSeq(w, 2, 1 + SequenceWidth) \in Seq(Byte)
    /\ Len(SubSeq(w, 2, 1 + SequenceWidth)) = SequenceWidth
    /\ SubSeq(w, 2 + SequenceWidth, h) \in Seq(Byte)
    /\ Len(SubSeq(w, 2 + SequenceWidth, h)) = LengthWidth
    /\ SubSeq(w, h + 1, n) \in Seq(Byte)
    /\ Len(SubSeq(w, h + 1, n)) = DeclaredLength(w)
    /\ SubSeq(w, n + 1, Len(w)) \in Seq(Byte)
    /\ Len(SubSeq(w, n + 1, Len(w))) = TagLength(w[1])

LEMMA DecodedFields ==
    ASSUME NEW w \in Seq(Byte), Decodable(w),
           NEW h, h = FRAME_HEADER_LENGTH, NEW n, n = h + DeclaredLength(w)
    PROVE  FieldsAt(w, h, n)
<1>1. /\ h \in Nat /\ Len(w) \in Nat /\ Len(w) >= h
      /\ Len(w) = n + TagLength(w[1])
      /\ h = 1 + SequenceWidth + LengthWidth
      /\ SequenceWidth \in Nat \ {0} /\ LengthWidth \in Nat \ {0}
  BY FieldSizes, WidthsAssumption DEF Decodable, ExpectedLength, FRAME_HEADER_LENGTH
<1>2. ASSUME NEW i \in Nat \ {0}, NEW j \in Nat, j <= Len(w), i <= j + 1
      PROVE  SubSeq(w, i, j) \in Seq(Byte) /\ Len(SubSeq(w, i, j)) = j - i + 1
  <2>1. \A k \in i .. j : w[k] \in Byte
    BY <1>2
  <2>2. /\ SubSeq(w, i, j) \in Seq(Byte)
        /\ Len(SubSeq(w, i, j)) = IF i <= j THEN j - i + 1 ELSE 0
    BY <2>1, SubSeqProperties
  <2> QED
    BY <1>2, <2>2
<1>3. /\ SubSeq(w, 2, 1 + SequenceWidth) \in Seq(Byte)
      /\ Len(SubSeq(w, 2, 1 + SequenceWidth)) = SequenceWidth
  <2>1. PICK j \in Nat : j = 1 + SequenceWidth /\ j <= Len(w) /\ 2 <= j + 1
    BY <1>1
  <2> QED
    BY <1>1, <1>2, <2>1
<1>4. /\ SubSeq(w, 2 + SequenceWidth, h) \in Seq(Byte)
      /\ Len(SubSeq(w, 2 + SequenceWidth, h)) = LengthWidth
  <2>1. PICK i \in Nat \ {0} : i = 2 + SequenceWidth /\ i <= h + 1
    BY <1>1
  <2> QED
    BY <1>1, <1>2, <2>1
<1>5. DeclaredLength(w) \in 0 .. MAX_PAYLOAD_LENGTH
  BY <1>4, ReadingBound DEF DeclaredLength, MAX_PAYLOAD_LENGTH
<1>6. TagLength(w[1]) \in Nat
  BY WidthsAssumption DEF TagLength
<1>7. n \in h .. Len(w) /\ n \in Nat
  BY <1>1, <1>5, <1>6, FieldSizes
<1>8. /\ SubSeq(w, h + 1, n) \in Seq(Byte)
      /\ Len(SubSeq(w, h + 1, n)) = DeclaredLength(w)
  <2>1. PICK i \in Nat \ {0} : i = h + 1 /\ i <= n + 1
    BY <1>1, <1>7
  <2> QED
    BY <1>1, <1>2, <1>5, <1>7, <2>1, FieldSizes, SMTT(40)
<1>9. /\ SubSeq(w, n + 1, Len(w)) \in Seq(Byte)
      /\ Len(SubSeq(w, n + 1, Len(w))) = TagLength(w[1])
  <2>1. PICK i \in Nat \ {0}, j \in Nat : i = n + 1 /\ j = Len(w) /\ i <= j + 1 /\ j <= Len(w)
    BY <1>1, <1>7
  <2>2. SubSeq(w, i, j) \in Seq(Byte) /\ Len(SubSeq(w, i, j)) = j - i + 1
    BY <1>2, <2>1
  <2>3. PICK t \in Nat, k \in Nat : t = TagLength(w[1]) /\ k = n
    BY <1>6, <1>7
  <2>4. j = k + t /\ i = k + 1
    BY <1>1, <2>1, <2>3
  <2>5. j - i + 1 = t
    BY <2>4
  <2> QED
    BY <2>1, <2>2, <2>3, <2>5
<1>10. h \in Nat /\ 1 + SequenceWidth <= h
  BY <1>1
<1> QED
  BY <1>3, <1>4, <1>5, <1>7, <1>8, <1>9, <1>10 DEF FieldsAt

(* And what decodeFrame accepts is what encodeFrame writes.                *)
LEMMA DecodeEncode ==
    ASSUME NEW w \in Seq(Byte), Decodable(w), NEW fr, fr = decodeFrame(w)
    PROVE  /\ WellFormed(fr) /\ encodeFrame(fr) = w
           /\ fr.type = w[1] /\ Len(fr.payload) = DeclaredLength(w)
<1> DEFINE h == FRAME_HEADER_LENGTH
           n == h + DeclaredLength(w)
           b == SubSeq(w, 2, 1 + SequenceWidth)
           c == SubSeq(w, 2 + SequenceWidth, h)
           d == SubSeq(w, h + 1, n)
           e == SubSeq(w, n + 1, Len(w))
<1>1. fr = [type |-> w[1], sequence |-> FromBigEndian(b), payload |-> d,
            tag |-> IF w[1] = CLASSICAL_MESSAGE THEN e ELSE NoTag]
  BY DEF decodeFrame
<1>2. /\ h \in Nat /\ n \in h .. Len(w) /\ 1 + SequenceWidth <= h
      /\ DeclaredLength(w) \in 0 .. MAX_PAYLOAD_LENGTH
      /\ b \in Seq(Byte) /\ Len(b) = SequenceWidth
      /\ c \in Seq(Byte) /\ Len(c) = LengthWidth
      /\ d \in Seq(Byte) /\ Len(d) = DeclaredLength(w)
      /\ e \in Seq(Byte) /\ Len(e) = TagLength(w[1])
  <2>1. FieldsAt(w, h, n)
    BY DecodedFields
  <2> QED
    BY <2>1 DEF FieldsAt
<1>3. DeclaredLength(w) = FromBigEndian(c)
  BY DEF DeclaredLength
<1>4. w[1] \in MessageTypes
  BY DEF Decodable
<1>5. Joined(w[1], b, c, d, e) = w
  <2>1. CutAt(w, 1 + SequenceWidth, h, n)
    BY <1>2, FieldSizes DEF CutAt
  <2>2. 2 + SequenceWidth = (1 + SequenceWidth) + 1
    BY FieldSizes
  <2> HIDE DEF h, n
  <2>3. Joined(w[1], b, SubSeq(w, (1 + SequenceWidth) + 1, h), d, e) = w
    BY <2>1, CutInFive
  <2> QED
    BY <2>2, <2>3
<1> HIDE DEF h, n, b, c, d, e
<1>6. /\ fr.type = w[1] /\ fr.sequence = FromBigEndian(b) /\ fr.payload = d
      /\ fr.tag = IF w[1] = CLASSICAL_MESSAGE THEN e ELSE NoTag
  BY <1>1
<1>7. fr.sequence \in 0 .. MaxSequence
  BY <1>2, <1>6, ReadingBound DEF MaxSequence
<1>8. e \in [1 .. Len(e) -> Byte]
  BY <1>2
<1>9. fr.type = CLASSICAL_MESSAGE =>
        /\ fr.tag \in [1 .. AUTHENTICATION_TAG_LENGTH -> Byte] /\ fr.tag = e /\ fr.tag # NoTag
  BY <1>2, <1>6, <1>8, NoTagAssumption DEF TagLength
<1>10. fr.type # CLASSICAL_MESSAGE => fr.tag = NoTag /\ e = << >>
  <2>1. fr.type # CLASSICAL_MESSAGE => Len(e) = 0
    BY <1>2, <1>6 DEF TagLength
  <2>2. Len(e) = 0 => e = << >>
    BY <1>2
  <2> QED
    BY <1>6, <2>1, <2>2
<1>11. WellFormed(fr)
  <2>1. Len(fr.payload) <= MAX_PAYLOAD_LENGTH
    BY <1>2, <1>6, FieldSizes
  <2>2. fr \in [type : MessageTypes, sequence : 0 .. MaxSequence, payload : Seq(Byte),
                tag : {NoTag} \cup [1 .. AUTHENTICATION_TAG_LENGTH -> Byte]]
    BY <1>1, <1>2, <1>4, <1>6, <1>7, <1>9, <1>10
  <2> QED
    BY <1>9, <1>10, <2>1, <2>2 DEF WellFormed
<1>12. (IF fr.tag = NoTag THEN << >> ELSE fr.tag) = e
  BY <1>9, <1>10
<1>13. BigEndian(fr.sequence, SequenceWidth) = b
  BY <1>2, <1>6, ReadWrite
<1>14. BigEndian(Len(fr.payload), LengthWidth) = c
  <2>1. Len(fr.payload) = FromBigEndian(c)
    BY <1>2, <1>3, <1>6
  <2>2. BigEndian(FromBigEndian(c), Len(c)) = c
    BY <1>2, ReadWrite
  <2> QED
    BY <1>2, <2>1, <2>2
<1>15. encodeFrame(fr) = Joined(w[1], b, c, d, e)
  BY <1>6, <1>11, <1>12, <1>13, <1>14, WellFormedIsEncodable
     DEF encodeFrame, encodeHeader, Joined
<1> QED
  BY <1>2, <1>5, <1>6, <1>11, <1>15

(* The declared length depends on the bytes of the header alone.           *)
LEMMA SameHeader ==
    ASSUME NEW w \in Seq(Byte), NEW v \in Seq(Byte),
           Len(w) >= FRAME_HEADER_LENGTH, Len(v) >= FRAME_HEADER_LENGTH,
           \A i \in 2 .. FRAME_HEADER_LENGTH : w[i] = v[i]
    PROVE  DeclaredLength(w) = DeclaredLength(v)
<1> DEFINE h == FRAME_HEADER_LENGTH
           i == 2 + SequenceWidth
           a == SubSeq(w, i, h)
           b == SubSeq(v, i, h)
<1>1. /\ h \in Nat /\ i \in Nat \ {0} /\ i >= 2 /\ i <= h
      /\ Len(w) \in Nat /\ Len(v) \in Nat
  BY FieldSizes, WidthsAssumption DEF FRAME_HEADER_LENGTH
<1> HIDE DEF h, i
<1>2. \A k \in i .. h : w[k] \in Byte /\ v[k] \in Byte /\ w[k] = v[k]
  <2> SUFFICES ASSUME NEW k \in i .. h
               PROVE  w[k] \in Byte /\ v[k] \in Byte /\ w[k] = v[k]
    OBVIOUS
  <2>1. k \in 1 .. Len(w) /\ k \in 1 .. Len(v) /\ k \in 2 .. h
    BY <1>1 DEF h
  <2> QED
    BY <2>1 DEF h
<1>3. /\ a \in Seq(Byte) /\ Len(a) = (IF i <= h THEN h - i + 1 ELSE 0)
      /\ \A k \in 1 .. h - i + 1 : a[k] = w[i + k - 1]
  BY <1>1, <1>2, SubSeqProperties
<1>4. /\ b \in Seq(Byte) /\ Len(b) = (IF i <= h THEN h - i + 1 ELSE 0)
      /\ \A k \in 1 .. h - i + 1 : b[k] = v[i + k - 1]
  BY <1>1, <1>2, SubSeqProperties
<1>5. ASSUME NEW k \in 1 .. Len(a)
      PROVE  a[k] = b[k]
  <2>1. k \in 1 .. h - i + 1 /\ i + k - 1 \in i .. h
    BY <1>1, <1>3
  <2> QED
    BY <1>2, <1>3, <1>4, <2>1
<1>6. a = b
  <2> HIDE DEF a, b
  <2> QED
    BY <1>3, <1>4, <1>5, SeqEqual
<1> QED
  BY <1>6 DEF DeclaredLength, h, i

(* No bytes that decodeFrame accepts begin with others that it accepts.    *)
LEMMA NoFrameInAnother ==
    ASSUME NEW w \in Seq(Byte), NEW v \in Seq(Byte), Decodable(w), Decodable(v),
           Len(v) <= Len(w), \A i \in 1 .. Len(v) : w[i] = v[i]
    PROVE  Len(v) = Len(w)
<1>1. /\ Len(w) >= FRAME_HEADER_LENGTH /\ Len(v) >= FRAME_HEADER_LENGTH
      /\ Len(w) = ExpectedLength(w) /\ Len(v) = ExpectedLength(v)
      /\ Len(v) \in Nat
  BY DEF Decodable
<1>2. FRAME_HEADER_LENGTH \in Nat /\ FRAME_HEADER_LENGTH >= 1
  BY FieldSizes DEF FRAME_HEADER_LENGTH
<1>3. w[1] = v[1] /\ \A i \in 2 .. FRAME_HEADER_LENGTH : w[i] = v[i]
  BY <1>1, <1>2
<1>4. DeclaredLength(w) = DeclaredLength(v)
  BY <1>1, <1>3, SameHeader
<1> QED
  BY <1>1, <1>3, <1>4 DEF ExpectedLength

-----------------------------------------------------------------------------
(* What happened to the bytes that encodeFrame returned.                   *)
Damaged(sent, arrived, kind) ==
    \/ kind = "none" /\ arrived = sent
    \/ kind = "cut" /\ \E n \in 0 .. Len(sent) - 1 : arrived = SubSeq(sent, 1, n)
    \/ /\ kind = "coalesced"
       /\ \/ \E b \in Byte : arrived = Append(sent, b)
          \/ arrived = sent \o sent
    \/ /\ kind = "changed"
       /\ \E i \in 1 .. Len(sent) : \E b \in Byte \ {sent[i]} :
            arrived = [sent EXCEPT ![i] = b]

FrameInv ==
    /\ wire # Refused =>
         WellFormed(frame) /\ Damaged(encodeFrame(frame), wire, damage)
    /\ output # Pending => wire # Refused /\ output = decodeFrame(wire)

LEMMA DamagedBytes ==
    ASSUME NEW sent \in Seq(Byte), NEW arrived, NEW kind, Damaged(sent, arrived, kind)
    PROVE  /\ arrived \in Seq(Byte)
           /\ kind = "none" => arrived = sent
           /\ kind = "cut" => /\ Len(arrived) < Len(sent)
                              /\ \A i \in 1 .. Len(arrived) : sent[i] = arrived[i]
           /\ kind = "coalesced" /\ Len(sent) > 0 =>
                              /\ Len(sent) < Len(arrived)
                              /\ \A i \in 1 .. Len(sent) : arrived[i] = sent[i]
           /\ kind = "changed" =>
                \E j \in 1 .. Len(sent) :
                  /\ Len(arrived) = Len(sent) /\ arrived[j] # sent[j]
                  /\ \A i \in 1 .. Len(sent) \ {j} : arrived[i] = sent[i]
<1>1. CASE kind = "none" /\ arrived = sent
  BY <1>1
<1>2. CASE kind = "cut" /\ \E n \in 0 .. Len(sent) - 1 : arrived = SubSeq(sent, 1, n)
  <2>1. PICK n \in 0 .. Len(sent) - 1 : arrived = SubSeq(sent, 1, n)
    BY <1>2
  <2>2. \A i \in 1 .. n : sent[i] \in Byte
    OBVIOUS
  <2>3. /\ arrived \in Seq(Byte) /\ Len(arrived) = (IF 1 <= n THEN n - 1 + 1 ELSE 0)
        /\ \A i \in 1 .. n - 1 + 1 : arrived[i] = sent[1 + i - 1]
    BY <2>1, <2>2, SubSeqProperties
  <2>4. Len(arrived) = n /\ n < Len(sent) /\ \A i \in 1 .. n : sent[i] = arrived[i]
    BY <2>3
  <2> QED
    BY <1>2, <2>3, <2>4
<1>3. CASE kind = "coalesced" /\ \E b \in Byte : arrived = Append(sent, b)
  BY <1>3
<1>4. CASE kind = "coalesced" /\ arrived = sent \o sent
  BY <1>4, ConcatProperties
<1>5. CASE /\ kind = "changed"
           /\ \E i \in 1 .. Len(sent) : \E b \in Byte \ {sent[i]} :
                arrived = [sent EXCEPT ![i] = b]
  <2>1. PICK j \in 1 .. Len(sent), b \in Byte :
               b # sent[j] /\ arrived = [sent EXCEPT ![j] = b]
    BY <1>5
  <2>2. /\ arrived \in Seq(Byte) /\ Len(arrived) = Len(sent) /\ arrived[j] # sent[j]
        /\ \A i \in 1 .. Len(sent) \ {j} : arrived[i] = sent[i]
    BY <2>1
  <2> QED
    BY <1>5, <2>2
<1> QED
  BY <1>1, <1>2, <1>3, <1>4, <1>5 DEF Damaged

LEMMA FrameInit == Init => FrameInv
<1> SUFFICES ASSUME Init PROVE FrameInv
  OBVIOUS
<1>1. frame \in Inputs /\ wire = encodeFrame(frame) /\ damage = "none" /\ output = Pending
  BY DEF Init
<1>2. ASSUME wire # Refused PROVE WellFormed(frame)
  <2>1. Encodable(frame)
    BY <1>1, <1>2 DEF encodeFrame
  <2> QED
    BY <1>1, <2>1, EncodableIsWellFormed
<1> QED
  BY <1>1, <1>2 DEF FrameInv, Damaged

LEMMA FrameNext == FrameInv /\ [Next]_vars => FrameInv'
<1> SUFFICES ASSUME FrameInv, [Next]_vars PROVE FrameInv'
  OBVIOUS
<1>1. ASSUME NEW kind, NEW bytes, Carry(kind, bytes),
             Damaged(encodeFrame(frame), bytes, kind)
      PROVE  FrameInv'
  <2>1. /\ wire # Refused /\ output = Pending
        /\ wire' = bytes /\ damage' = kind /\ frame' = frame /\ output' = output
    BY <1>1 DEF Carry
  <2>2. WellFormed(frame') /\ Damaged(encodeFrame(frame'), wire', damage')
    BY <1>1, <2>1 DEF FrameInv
  <2> QED
    BY <2>1, <2>2 DEF FrameInv
<1>2. wire # Refused /\ damage = "none" => wire = encodeFrame(frame)
  BY DEF FrameInv, Damaged
<1>3. CASE Cut
  <2>1. PICK n \in 0 .. Len(wire) - 1 : Carry("cut", SubSeq(wire, 1, n))
    BY <1>3 DEF Cut
  <2>2. Damaged(encodeFrame(frame), SubSeq(wire, 1, n), "cut")
    BY <1>2, <2>1 DEF Damaged, Carry
  <2> QED
    BY <1>1, <2>1, <2>2
<1>4. CASE Coalesce
  <2>1. CASE \E c \in Byte : Carry("coalesced", Append(wire, c))
    <3>1. PICK c \in Byte : Carry("coalesced", Append(wire, c))
      BY <2>1
    <3>2. Damaged(encodeFrame(frame), Append(wire, c), "coalesced")
      BY <1>2, <3>1 DEF Damaged, Carry
    <3> QED
      BY <1>1, <3>1, <3>2
  <2>2. CASE Carry("coalesced", wire \o wire)
    <3>1. Damaged(encodeFrame(frame), wire \o wire, "coalesced")
      BY <1>2, <2>2 DEF Damaged, Carry
    <3> QED
      BY <1>1, <2>2, <3>1
  <2> QED
    BY <1>4, <2>1, <2>2 DEF Coalesce
<1>5. CASE ChangeByte
  <2>1. PICK i \in 1 .. Len(wire), c \in Byte :
               c # wire[i] /\ Carry("changed", [wire EXCEPT ![i] = c])
    BY <1>5 DEF ChangeByte
  <2>2. Damaged(encodeFrame(frame), [wire EXCEPT ![i] = c], "changed")
    BY <1>2, <2>1 DEF Damaged, Carry
  <2> QED
    BY <1>1, <2>1, <2>2
<1>6. CASE Decode
  <2>1. /\ wire # Refused /\ output' = decodeFrame(wire)
        /\ frame' = frame /\ wire' = wire /\ damage' = damage
    BY <1>6 DEF Decode
  <2> QED
    BY <2>1 DEF FrameInv
<1>7. CASE UNCHANGED vars
  BY <1>7 DEF vars, FrameInv
<1> QED
  BY <1>3, <1>4, <1>5, <1>6, <1>7 DEF Next

(* What the invariant says once a frame was decoded: how the bytes that    *)
(* arrived differ from those that were sent, which were a frame's.         *)
LEMMA DecodedFrame ==
    ASSUME FrameInv, Decoded
    PROVE  \E fr, sent, arrived, out :
             /\ sent \in Seq(Byte) /\ arrived \in Seq(Byte)
             /\ fr = frame /\ arrived = wire /\ out = output
             /\ WellFormed(fr) /\ sent = encodeFrame(fr) /\ out = decodeFrame(arrived)
             /\ Decodable(sent) /\ decodeFrame(sent) = fr
             /\ Len(sent) > 0 /\ Damaged(sent, arrived, damage)
<1>1. PICK fr, arrived, out, kind :
             fr = frame /\ arrived = wire /\ out = output /\ kind = damage
  OBVIOUS
<1>2. /\ WellFormed(fr) /\ Damaged(encodeFrame(fr), arrived, kind)
      /\ out = decodeFrame(arrived)
  BY <1>1 DEF FrameInv, Decoded
<1>3. PICK sent : sent = encodeFrame(fr)
  OBVIOUS
<1>4. /\ sent \in Seq(Byte) /\ Len(sent) >= FRAME_HEADER_LENGTH
      /\ Decodable(sent) /\ decodeFrame(sent) = fr
  BY <1>2, <1>3, EncodeDecode
<1>5. Len(sent) > 0
  BY <1>4, FieldSizes DEF FRAME_HEADER_LENGTH
<1>6. arrived \in Seq(Byte)
  BY <1>2, <1>3, <1>4, DamagedBytes
<1> QED
  BY <1>1, <1>2, <1>3, <1>4, <1>5, <1>6

LEMMA FrameInvariant == Spec => []FrameInv
BY FrameInit, FrameNext, PTL DEF Spec

(* For every width of the header fields and of a byte, and every input of  *)
(* encodeFrame in the three languages: what is encoded is decoded to the   *)
(* same frame.                                                             *)
THEOREM FrameRoundTrip == Spec => []RoundTrip
<1>1. ASSUME FrameInv PROVE RoundTrip
  <2> SUFFICES ASSUME Decoded, damage = "none" PROVE output = frame
    BY DEF RoundTrip
  <2> QED
    BY <1>1, DecodedFrame DEF Damaged
<1> QED
  BY <1>1, FrameInvariant, PTL

(* And bytes that were cut or that others follow are refused, whatever the *)
(* frame and wherever the cut.                                             *)
THEOREM FrameBoundaries == Spec => []BoundariesDetected
<1>1. ASSUME FrameInv PROVE BoundariesDetected
  <2> SUFFICES ASSUME Decoded, damage \in {"cut", "coalesced"}
               PROVE  output = Refused
    BY DEF BoundariesDetected
  <2>1. PICK fr, sent, arrived, out :
               /\ sent \in Seq(Byte) /\ arrived \in Seq(Byte)
               /\ out = output /\ out = decodeFrame(arrived)
               /\ Decodable(sent) /\ Len(sent) > 0 /\ Damaged(sent, arrived, damage)
    BY <1>1, DecodedFrame
  <2>2. PICK kind : kind = damage
    OBVIOUS
  <2>3. \/ /\ Len(arrived) < Len(sent)
           /\ \A i \in 1 .. Len(arrived) : sent[i] = arrived[i]
        \/ /\ Len(sent) < Len(arrived)
           /\ \A i \in 1 .. Len(sent) : arrived[i] = sent[i]
    BY <2>1, <2>2, DamagedBytes
  <2>4. Len(sent) \in Nat /\ Len(arrived) \in Nat
    BY <2>1
  <2>5. ~Decodable(arrived)
    BY <2>1, <2>3, <2>4, NoFrameInAnother
  <2> QED
    BY <2>1, <2>5 DEF decodeFrame
<1> QED
  BY <1>1, FrameInvariant, PTL

(* Whatever bytes arrive, if they are accepted they are the encoding of    *)
(* the frame that is returned.                                             *)
THEOREM FrameCanonical == Spec => []Canonical
<1>1. ASSUME FrameInv PROVE Canonical
  <2> SUFFICES ASSUME Decoded, output # Refused
               PROVE  encodeFrame(output) = wire
    BY DEF Canonical
  <2>1. PICK arrived, out :
               arrived \in Seq(Byte) /\ arrived = wire /\ out = output /\ out = decodeFrame(arrived)
    BY <1>1, DecodedFrame
  <2>2. Decodable(arrived)
    BY <2>1 DEF decodeFrame
  <2>3. encodeFrame(out) = arrived
    BY <2>1, <2>2, DecodeEncode
  <2> QED
    BY <2>1, <2>3
<1> QED
  BY <1>1, FrameInvariant, PTL

(* One changed byte is refused or shows, but not in the frame's type or    *)
(* the length of its payload.                                              *)
THEOREM FrameChangeShows == Spec => []ChangeShows
<1>1. ASSUME FrameInv PROVE ChangeShows
  <2> SUFFICES ASSUME Decoded, damage = "changed", output # Refused
               PROVE  /\ output # frame /\ output.type = frame.type
                      /\ Len(output.payload) = Len(frame.payload)
    BY DEF ChangeShows
  <2>1. PICK fr, sent, arrived, out :
               /\ sent \in Seq(Byte) /\ arrived \in Seq(Byte)
               /\ fr = frame /\ out = output
               /\ WellFormed(fr) /\ sent = encodeFrame(fr) /\ out = decodeFrame(arrived)
               /\ Decodable(sent) /\ Damaged(sent, arrived, damage)
    BY <1>1, DecodedFrame
  <2>2. PICK kind : kind = damage
    OBVIOUS
  <2>3. PICK j \in 1 .. Len(sent) :
               /\ Len(arrived) = Len(sent) /\ arrived[j] # sent[j]
               /\ \A i \in 1 .. Len(sent) \ {j} : arrived[i] = sent[i]
    BY <2>1, <2>2, DamagedBytes
  <2>4. Decodable(arrived)
    BY <2>1 DEF decodeFrame
  <2>5. /\ encodeFrame(out) = arrived /\ out.type = arrived[1]
        /\ Len(out.payload) = DeclaredLength(arrived)
    BY <2>1, <2>4, DecodeEncode
  <2>6. fr.type = sent[1] /\ Len(fr.payload) = DeclaredLength(sent)
    BY <2>1, EncodeDecode
  <2>7. arrived # sent /\ out # fr
    BY <2>1, <2>3, <2>5
  <2>8. /\ Len(sent) = (FRAME_HEADER_LENGTH + Len(fr.payload)) + TagLength(sent[1])
        /\ Len(sent) = (FRAME_HEADER_LENGTH + Len(out.payload)) + TagLength(arrived[1])
        /\ Len(sent) >= FRAME_HEADER_LENGTH
        /\ arrived[1] \in MessageTypes /\ sent[1] \in MessageTypes
    BY <2>1, <2>3, <2>4, <2>5, <2>6 DEF Decodable, ExpectedLength
  <2>9. FRAME_HEADER_LENGTH \in Nat /\ FRAME_HEADER_LENGTH >= 1
    BY FieldSizes DEF FRAME_HEADER_LENGTH
  <2>10. Len(fr.payload) \in Nat /\ Len(out.payload) \in Nat
    <3>1. WellFormed(out)
      BY <2>1, <2>4, DecodeEncode
    <3>2. fr.payload \in Seq(Byte) /\ out.payload \in Seq(Byte)
      BY <2>1, <3>1 DEF WellFormed
    <3> QED
      BY <3>2
  <2>11. j # 1
    <3> SUFFICES ASSUME j = 1 PROVE FALSE
      OBVIOUS
    <3>1. \A i \in 2 .. FRAME_HEADER_LENGTH : arrived[i] = sent[i]
      BY <2>3, <2>8, <2>9
    <3>2. DeclaredLength(arrived) = DeclaredLength(sent)
      BY <2>1, <2>3, <2>8, <3>1, SameHeader
    <3>3. TagLength(sent[1]) = TagLength(arrived[1])
      BY <2>5, <2>6, <2>8, <2>9, <2>10, <3>2, WidthsAssumption DEF TagLength
    <3>4. sent[1] = arrived[1]
      BY <2>8, <3>3, WidthsAssumption DEF TagLength, MessageTypes
    <3> QED
      BY <2>3, <3>4
  <2>12. arrived[1] = sent[1]
    BY <2>3, <2>8, <2>9, <2>11
  <2>13. Len(out.payload) = Len(fr.payload)
    <3>1. TagLength(sent[1]) \in Nat
      BY WidthsAssumption DEF TagLength
    <3> QED
      BY <2>8, <2>9, <2>10, <2>12, <3>1
  <2> QED
    BY <2>1, <2>5, <2>6, <2>7, <2>12, <2>13
<1> QED
  BY <1>1, FrameInvariant, PTL
=============================================================================
