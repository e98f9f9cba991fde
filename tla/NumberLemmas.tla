---------------------------- MODULE NumberLemmas ----------------------------
(***************************************************************************)
(* Numbers, for the proofs: induction, for the loops that the model writes *)
(* as functions on 0 .. N whose value after n iterations is defined from   *)
(* that after n - 1; and division with remainder, for the counters that    *)
(* wrap and the fields of a frame.                                         *)
(***************************************************************************)
EXTENDS Integers, Sequences, WellFoundedInduction, TLAPS

(* Induction, stated for a set of numbers.                                 *)
LEMMA NatSetInduction ==
    ASSUME NEW S, 0 \in S, \A n \in Nat : n \in S => n + 1 \in S
    PROVE  Nat \subseteq S
<1> DEFINE R == OpToRel(<, Nat)
           T == Nat \ S
<1>1. SUFFICES ASSUME T # {} PROVE FALSE
  OBVIOUS
<1>2. IsWellFoundedOn(R, Nat)
  BY NatLessThanWellFounded
<1>3. T \subseteq Nat
  OBVIOUS
<1>4. PICK x \in T : \A y \in T : ~(<<y, x>> \in R)
  <2> HIDE DEF T, R
  <2> QED
    BY <1>1, <1>2, <1>3, WFMin
<1>5. x # 0 /\ x - 1 \in Nat /\ x - 1 \notin S
  OBVIOUS
<1>6. <<x - 1, x>> \in R
  BY <1>5 DEF OpToRel
<1> QED
  BY <1>4, <1>5, <1>6

(* Two loops that start alike and stay alike in every iteration end alike. *)
StayAlike(f, g, N) == \A n \in 1 .. N : f[n - 1] = g[n - 1] => f[n] = g[n]
Alike(f, g, N) == \A n \in 0 .. N : f[n] = g[n]

LEMMA SameLoop ==
    ASSUME NEW N \in Nat, NEW f, NEW g, f[0] = g[0], StayAlike(f, g, N)
    PROVE  Alike(f, g, N)
<1> DEFINE S == {n \in Nat : n <= N => f[n] = g[n]}
<1>1. 0 \in S
  OBVIOUS
<1>2. ASSUME NEW n \in Nat, n \in S
      PROVE  n + 1 \in S
  <2>1. CASE n + 1 <= N
    <3>1. n + 1 \in 1 .. N /\ (n + 1) - 1 = n /\ f[n] = g[n]
      BY <1>2, <2>1
    <3> QED
      BY <3>1 DEF StayAlike
  <2> QED
    BY <2>1
<1>3. Nat \subseteq S
  <2> HIDE DEF S
  <2> QED
    BY <1>1, <1>2, NatSetInduction
<1> QED
  BY <1>3 DEF Alike

(* A loop that is given by its start and the functions of its iterations.  *)
IsLoop(f, start, step, N) == f[0] = start /\ \A i \in 1 .. N : f[i] = step[i][f[i - 1]]

LEMMA LoopExists ==
    ASSUME NEW T, NEW start \in T, NEW N \in Nat, NEW step \in [1 .. N -> [T -> T]]
    PROVE  \E f \in [0 .. N -> T] : IsLoop(f, start, step, N)
<1> DEFINE Loop(n, f) == f[0] = start /\ \A i \in 1 .. n : f[i] = step[i][f[i - 1]]
           S == {n \in Nat : n <= N => \E f \in [0 .. n -> T] : Loop(n, f)}
<1>1. 0 \in S
  <2> DEFINE f == [i \in 0 .. 0 |-> start]
  <2>1. f \in [0 .. 0 -> T] /\ Loop(0, f)
    OBVIOUS
  <2> QED
    BY <2>1
<1>2. ASSUME NEW n \in Nat, n + 1 <= N, NEW f \in [0 .. n -> T], Loop(n, f)
      PROVE  \E g \in [0 .. n + 1 -> T] : Loop(n + 1, g)
  <2>1. step[n + 1] \in [T -> T] /\ f[n] \in T
    BY <1>2
  <2> DEFINE g == [i \in 0 .. n + 1 |-> IF i = n + 1 THEN step[n + 1][f[n]] ELSE f[i]]
  <2>2. /\ g \in [0 .. n + 1 -> T] /\ g[n + 1] = step[n + 1][f[n]]
        /\ \A i \in 0 .. n : g[i] = f[i]
    BY <2>1
  <2> HIDE DEF g
  <2>3. g[0] = start
    BY <1>2, <2>2
  <2>4. ASSUME NEW i \in 1 .. n + 1
        PROVE  g[i] = step[i][g[i - 1]]
    <3>1. CASE i = n + 1
      BY <2>2, <3>1
    <3>2. CASE i \in 1 .. n
      <4>1. i \in 0 .. n /\ i - 1 \in 0 .. n
        BY <3>2
      <4> QED
        BY <1>2, <2>2, <3>2, <4>1
    <3> QED
      BY <3>1, <3>2
  <2> QED
    BY <2>2, <2>3, <2>4
<1>3. ASSUME NEW n \in Nat, n \in S
      PROVE  n + 1 \in S
  <2>1. CASE n + 1 <= N
    <3>1. PICK f \in [0 .. n -> T] : Loop(n, f)
      BY <1>3, <2>1
    <3>2. \E g \in [0 .. n + 1 -> T] : Loop(n + 1, g)
      <4> HIDE DEF Loop
      <4> QED
        BY <1>2, <2>1, <3>1
    <3> QED
      BY <3>2, SMTT(40)
  <2> QED
    BY <2>1
<1>4. Nat \subseteq S
  <2> HIDE DEF S
  <2> QED
    BY <1>1, <1>3, NatSetInduction
<1> QED
  BY <1>4 DEF IsLoop

(* Induction as far as N.                                                  *)
StaysIn(S, N) == \A i \in 1 .. N : i - 1 \in S => i \in S

LEMMA InductionUpTo ==
    ASSUME NEW S, NEW N \in Nat, 0 \in S, StaysIn(S, N)
    PROVE  0 .. N \subseteq S
<1> DEFINE R == {n \in Nat : n <= N => n \in S}
<1>1. 0 \in R
  OBVIOUS
<1>2. ASSUME NEW n \in Nat, n \in R
      PROVE  n + 1 \in R
  <2>1. CASE n + 1 <= N
    <3>1. n + 1 \in 1 .. N /\ (n + 1) - 1 = n /\ n \in S
      BY <1>2, <2>1
    <3> QED
      BY <3>1 DEF StaysIn
  <2> QED
    BY <2>1
<1>3. Nat \subseteq R
  <2> HIDE DEF R
  <2> QED
    BY <1>1, <1>2, NatSetInduction
<1> QED
  BY <1>3

(* The least of a set of numbers.                                          *)
LEMMA LeastExists ==
    ASSUME NEW S \in SUBSET Nat, S # {}
    PROVE  \E x \in S : \A y \in S : x <= y
<1> DEFINE R == OpToRel(<, Nat)
<1>1. IsWellFoundedOn(R, Nat)
  BY NatLessThanWellFounded
<1>2. PICK x \in S : \A y \in S : ~(<<y, x>> \in R)
  <2> HIDE DEF R
  <2> QED
    BY <1>1, WFMin
<1>3. ASSUME NEW y \in S PROVE ~(y < x)
  BY <1>2 DEF OpToRel
<1> QED
  BY <1>3
-----------------------------------------------------------------------------
(* Division with remainder.                                                *)
LEMMA DivMod ==
    ASSUME NEW n \in Nat \ {0}, NEW x \in Int
    PROVE  \E q \in Int, r \in 0 .. n - 1 : r = x % n /\ x = q * n + r
<1>1. x % n \in 0 .. n - 1
  OBVIOUS
<1>2. x \div n \in Int
  OBVIOUS
<1>3. x % n = x - n * (x \div n)
  OBVIOUS
<1> DEFINE q == x \div n
           r == x % n
<1> HIDE DEF q, r
<1>4. q \in Int /\ r \in Int /\ r = x - n * q
  BY <1>1, <1>2, <1>3 DEF q, r
<1>5. x = q * n + r
  BY <1>4
<1>6. r \in 0 .. n - 1 /\ r = x % n
  BY <1>1 DEF r
<1> QED
  BY <1>4, <1>5, <1>6

LEMMA TimesAtLeast ==
    ASSUME NEW n \in Nat \ {0}, NEW d \in Int, d >= 1
    PROVE  d * n >= n
OBVIOUS

(* The remainder is the only one.                                          *)
LEMMA ModIs ==
    ASSUME NEW n \in Nat \ {0}, NEW q \in Int, NEW r \in 0 .. n - 1
    PROVE  (q * n + r) % n = r
<1> DEFINE x == q * n + r
<1>1. PICK p \in Int, s \in 0 .. n - 1 : s = x % n /\ x = p * n + s
  <2>1. x \in Int
    OBVIOUS
  <2> HIDE DEF x
  <2> QED
    BY <2>1, DivMod
<1>2. p * n + s = q * n + r
  BY <1>1
<1> HIDE DEF x
<1>3. (p - q) * n = r - s /\ (q - p) * n = s - r
  BY <1>2
<1>4. ~(p - q >= 1)
  BY <1>2, <1>3, TimesAtLeast
<1>5. ~(q - p >= 1)
  BY <1>2, <1>3, TimesAtLeast
<1>6. p = q
  BY <1>4, <1>5
<1>7. s = r
  BY <1>2, <1>6
<1> QED
  BY <1>1, <1>7 DEF x

(* And so is the quotient.                                                 *)
LEMMA DivIs ==
    ASSUME NEW n \in Nat \ {0}, NEW q \in Int, NEW r \in 0 .. n - 1
    PROVE  (q * n + r) \div n = q
<1> DEFINE x == q * n + r
           p == x \div n
<1>1. x \in Int /\ p \in Int /\ x % n = x - n * p
  OBVIOUS
<1>2. x % n = r
  BY ModIs
<1> HIDE DEF p
<1>3. n * p = q * n
  BY <1>1, <1>2
<1>4. (p - q) * n = 0 /\ (q - p) * n = 0
  BY <1>1, <1>3
<1>5. ~(p - q >= 1) /\ ~(q - p >= 1)
  BY <1>1, <1>4, TimesAtLeast
<1> QED
  BY <1>1, <1>5 DEF p

(* Counting on modulo n.                                                   *)
LEMMA ModAdd ==
    ASSUME NEW n \in Nat \ {0}, NEW x \in Int, NEW y \in Int
    PROVE  ((x % n) + y) % n = (x + y) % n
<1>1. PICK p \in Int, w \in 0 .. n - 1 : w = x % n /\ x = p * n + w
  BY DivMod
<1> DEFINE z == w + y
<1>2. PICK q \in Int, r \in 0 .. n - 1 : r = z % n /\ z = q * n + r
  <2>1. z \in Int
    BY <1>1
  <2> HIDE DEF z
  <2> QED
    BY <2>1, DivMod
<1>3. x + y = (p + q) * n + r /\ p + q \in Int
  <2>1. x + y = p * n + (q * n + r)
    BY <1>1, <1>2, SMTT(40)
  <2>2. (p + q) * n = p * n + q * n
    OBVIOUS
  <2> QED
    BY <2>1, <2>2
<1>4. (x + y) % n = r
  BY <1>2, <1>3, ModIs
<1> QED
  BY <1>1, <1>2, <1>4

(* A shift of two numbers does not change whether they are equal modulo n. *)
LEMMA ModShift ==
    ASSUME NEW n \in Nat \ {0}, NEW k \in Int, NEW j \in Int, NEW l \in Int, NEW m \in Int,
           l - k = m - j
    PROVE  l % n = m % n <=> k % n = j % n
<1>1. ASSUME NEW x \in Int, NEW y \in Int, NEW b \in Int, x % n = y % n
      PROVE  (x + b) % n = (y + b) % n
  <2>1. ((x % n) + b) % n = (x + b) % n /\ ((y % n) + b) % n = (y + b) % n
    BY ModAdd
  <2> QED
    BY <1>1, <2>1
<1>2. PICK a \in Int, b \in Int : /\ a = l - k /\ k + a = l /\ j + a = m
                                /\ b = k - l /\ l + b = k /\ m + b = j
  <2>1. /\ l - k \in Int /\ k + (l - k) = l /\ j + (l - k) = m
        /\ k - l \in Int /\ l + (k - l) = k /\ m + (k - l) = j
    OBVIOUS
  <2> QED
    BY <2>1
<1>3. ASSUME l % n = m % n PROVE k % n = j % n
  <2>1. (l + b) % n = (m + b) % n
    BY <1>1, <1>3
  <2> QED
    BY <1>2, <2>1
<1>4. ASSUME k % n = j % n PROVE l % n = m % n
  <2>1. (k + a) % n = (j + a) % n
    BY <1>1, <1>4, ZenonT(40)
  <2> QED
    BY <1>2, <2>1
<1> QED
  BY <1>3, <1>4

(* What is equal modulo n is so modulo every divisor of n.                 *)
LEMMA ModDivides ==
    ASSUME NEW n \in Nat \ {0}, NEW m \in Nat \ {0}, n % m = 0,
           NEW k \in Int, NEW j \in Int, k % n = j % n
    PROVE  k % m = j % m
<1>1. PICK c \in Int, z \in 0 .. m - 1 : z = n % m /\ n = c * m + z
  <2>1. n \in Int
    OBVIOUS
  <2> QED
    BY <2>1, DivMod
<1>2. PICK p \in Int, r \in 0 .. n - 1 : r = k % n /\ k = p * n + r
  BY DivMod
<1>3. PICK q \in Int, r2 \in 0 .. n - 1 : r2 = j % n /\ j = q * n + r2
  BY DivMod
<1>4. n = c * m /\ r2 = r
  BY <1>1, <1>2, <1>3
<1>5. PICK s \in Int, t \in 0 .. m - 1 : t = r % m /\ r = s * m + t
  <2>1. r \in Int
    OBVIOUS
  <2> QED
    BY <2>1, DivMod, ZenonT(40)
<1>6. k = p * (c * m) + (s * m + t) /\ j = q * (c * m) + (s * m + t)
  BY <1>2, <1>3, <1>4, <1>5
<1>7. k = (p * c + s) * m + t /\ j = (q * c + s) * m + t
  BY <1>6
<1>8. k % m = t /\ j % m = t
  <2>1. p * c + s \in Int /\ q * c + s \in Int
    OBVIOUS
  <2> QED
    BY <1>7, <2>1, ModIs
<1> QED
  BY <1>8
=============================================================================
