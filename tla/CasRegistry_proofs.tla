------------------------- MODULE CasRegistry_proofs -------------------------
(***************************************************************************)
(* The Merkle trees of the Python bridge, the registry that is built on    *)
(* them and the verifying commands of the bridge, for every value of the   *)
(* constants.                                                              *)
(***************************************************************************)
EXTENDS CasRegistry, MerkleGrowth, BridgeCalls, NumberLemmas, FiniteSetTheorems

(* Strings.  Every string is a sequence over the set of its own parts.     *)
LEMMA StringType ==
    ASSUME NEW s, IsString(s)
    PROVE  \E S : s \in Seq(S)
<1>1. s \in Seq({s[i] : i \in 1 .. Len(s)})
  BY DEF IsString
<1> QED
  BY <1>1

(* Two strings that are equal after two more parts were equal before.      *)
Ends(x, s, a, b) == x = s \o <<a>> \o <<b>>

LEMMA SuffixTells ==
    ASSUME NEW s, IsString(s), NEW t, IsString(t), NEW a, NEW b, NEW c, NEW d,
           NEW z, Ends(z, s, a, b), Ends(z, t, c, d)
    PROVE  s = t /\ a = c /\ b = d
<1>1. PICK S : s \in Seq(S)
  BY StringType
<1>2. PICK T : t \in Seq(T)
  BY StringType
<1> DEFINE U == S \cup T \cup {a, b, c, d}
           x == s \o <<a>> \o <<b>>
           y == t \o <<c>> \o <<d>>
<1>3. s \in Seq(U) /\ t \in Seq(U) /\ <<a>> \in Seq(U) /\ <<b>> \in Seq(U)
      /\ <<c>> \in Seq(U) /\ <<d>> \in Seq(U)
  BY <1>1, <1>2
<1> HIDE DEF U
<1>4. /\ Len(x) = Len(s) + 2 /\ x[Len(s) + 1] = a /\ x[Len(s) + 2] = b
      /\ \A i \in 1 .. Len(s) : x[i] = s[i]
  BY <1>3
<1>5. /\ Len(y) = Len(t) + 2 /\ y[Len(t) + 1] = c /\ y[Len(t) + 2] = d
      /\ \A i \in 1 .. Len(t) : y[i] = t[i]
  BY <1>3
<1>6. Len(s) = Len(t)
  <2>1. x = y
    BY DEF Ends
  <2> QED
    BY <1>3, <1>4, <1>5, <2>1
<1>7. x = y
  BY DEF Ends
<1> HIDE DEF x, y
<1>8. \A i \in 1 .. Len(s) : s[i] = t[i]
  BY <1>4, <1>5, <1>6, <1>7
<1> QED
  BY <1>4, <1>5, <1>6, <1>7, <1>8 DEF IsString

(* Parts that are put together.                                            *)
LEMMA JoinTwo ==
    ASSUME NEW a, NEW b
    PROVE  <<a>> \o <<b>> = <<a, b>>
<1> DEFINE x == <<a>> \o <<b>>
<1>1. <<a>> \in Seq({a, b}) /\ <<b>> \in Seq({a, b})
  OBVIOUS
<1>2. Len(x) = 2 /\ x[1] = a /\ x[2] = b /\ x \in Seq({a, b})
  BY <1>1
<1>3. x = [i \in 1 .. 2 |-> x[i]]
  BY <1>2
<1>4. <<a, b>> = [i \in 1 .. 2 |-> <<a, b>>[i]]
  OBVIOUS
<1> HIDE DEF x
<1>5. \A i \in 1 .. 2 : x[i] = <<a, b>>[i]
  BY <1>2
<1>6. x = <<a, b>>
  BY <1>3, <1>4, <1>5
<1> QED
  BY <1>6 DEF x

LEMMA JoinFive ==
    ASSUME NEW a, NEW b, NEW c, NEW d, NEW e
    PROVE  <<a, b>> \o <<e>> \o <<c, d>> = <<a, b, e, c, d>>
<1> DEFINE x == <<a, b>> \o <<e>> \o <<c, d>>
           U == {a, b, c, d, e}
<1>1. <<a, b>> \in Seq(U) /\ <<e>> \in Seq(U) /\ <<c, d>> \in Seq(U)
  OBVIOUS
<1>2. Len(x) = 5 /\ x[1] = a /\ x[2] = b /\ x[3] = e /\ x[4] = c /\ x[5] = d
      /\ x \in Seq(U)
  BY <1>1
<1>3. x = [i \in 1 .. 5 |-> x[i]]
  BY <1>2
<1>4. <<a, b, e, c, d>> = [i \in 1 .. 5 |-> <<a, b, e, c, d>>[i]]
  OBVIOUS
<1> HIDE DEF x
<1>5. \A i \in 1 .. 5 : x[i] = <<a, b, e, c, d>>[i]
  BY <1>2
<1>6. x = <<a, b, e, c, d>>
  BY <1>3, <1>4, <1>5
<1> QED
  BY <1>6 DEF x

(* What a commitment is: "0x" and a digest.                                *)
HashOf(m) == << <<"0x">>, <<"sha256", m>> >>
IsNode(s) == \E m : s = HashOf(m)

(* Every digest is given its "0x".                                         *)
LEMMA DigestIs == \A x : normalize_hex(sha256_hex(x)) = HashOf(x)
<1> SUFFICES ASSUME NEW x PROVE normalize_hex(sha256_hex(x)) = HashOf(x)
  OBVIOUS
<1>1. PICK p : p = <<"sha256", x>>
  OBVIOUS
<1>2. sha256_hex(x) = <<p>>
  BY <1>1 DEF sha256_hex
<1>3. p # <<"0x">>
  <2>1. Len(<<"sha256", x>>) = 2 /\ Len(<<"0x">>) = 1
    OBVIOUS
  <2> QED
    BY <1>1, <2>1
<1>4. ~startsWithHex(<<p>>)
  BY <1>3 DEF startsWithHex
<1>5. Text("0x") \o <<p>> = << <<"0x">>, p>>
  <2>1. PICK a : a = <<"0x">>
    OBVIOUS
  <2> QED
    BY <2>1, JoinTwo DEF Text
<1> QED
  BY <1>1, <1>2, <1>4, <1>5 DEF normalize_hex, HashOf

LEMMA CommitmentIs ==
    ASSUME NEW m, NEW r
    PROVE  fallback_commitment(m, r) = HashOf(m \o Text(":commit:") \o r)
<1>1. PICK x : x = m \o Text(":commit:") \o r
  OBVIOUS
<1> QED
  BY <1>1, DigestIs DEF fallback_commitment

LEMMA HashTells ==
    \A m, n : HashOf(m) = HashOf(n) => m = n
<1> SUFFICES ASSUME NEW m, NEW n, HashOf(m) = HashOf(n)
             PROVE  m = n
  OBVIOUS
<1>1. HashOf(m)[2] = <<"sha256", m>> /\ HashOf(n)[2] = <<"sha256", n>>
  BY DEF HashOf
<1>2. <<"sha256", m>>[2] = m /\ <<"sha256", n>>[2] = n
  OBVIOUS
<1> QED
  BY <1>1, <1>2

(* What two commitments to strings with given tags tell.                   *)
LEMMA CommitmentTells ==
    ASSUME NEW m, IsString(m), NEW n, IsString(n), NEW r, NEW q,
           fallback_commitment(m, <<r>>) = fallback_commitment(n, <<q>>)
    PROVE  m = n /\ r = q
<1>1. m \o << <<":commit:">> >> \o <<r>> = n \o << <<":commit:">> >> \o <<q>>
  <2>1. PICK x, y : /\ x = m \o Text(":commit:") \o <<r>>
                    /\ y = n \o Text(":commit:") \o <<q>>
    OBVIOUS
  <2>2. HashOf(x) = HashOf(y)
    BY <2>1, CommitmentIs
  <2>3. x = y
    BY <2>2, HashTells
  <2> QED
    BY <2>1, <2>3 DEF Text
<1>2. PICK c, x : c = <<":commit:">> /\ x = m \o <<c>> \o <<r>>
  OBVIOUS
<1>3. Ends(x, m, c, r) /\ Ends(x, n, c, q)
  BY <1>1, <1>2 DEF Ends
<1> QED
  BY <1>3, SuffixTells

LEMMA NodesAre ==
    /\ \A leaf : IsNode(LeafHash(leaf))
    /\ \A left, right : IsNode(NodeHash(left, right))
BY CommitmentIs DEF LeafHash, NodeHash, IsNode

(* The string that a node is made of.                                      *)
LEMMA PairIs ==
    ASSUME NEW left, IsNode(left), NEW right, IsNode(right)
    PROVE  LET pair == left \o Text(":") \o right
           IN  /\ IsString(pair)
               /\ pair = <<left[1], left[2], <<":">>, right[1], right[2]>>
               /\ left = <<left[1], left[2]>> /\ right = <<right[1], right[2]>>
<1>1. PICK a, b : left = <<a, b>>
  BY DEF IsNode, HashOf
<1>2. PICK c, d : right = <<c, d>>
  BY DEF IsNode, HashOf
<1>3. PICK e : e = <<":">>
  OBVIOUS
<1>4. <<a, b>> \o <<e>> \o <<c, d>> = <<a, b, e, c, d>>
  BY JoinFive
<1>5. IsString(<<a, b, e, c, d>>)
  BY DEF IsString
<1> QED
  BY <1>1, <1>2, <1>3, <1>4, <1>5 DEF Text

LEMMA NodeHashTells ==
    ASSUME NEW left, IsNode(left), NEW right, IsNode(right),
           NEW l, IsNode(l), NEW r, IsNode(r), NodeHash(left, right) = NodeHash(l, r)
    PROVE  left = l /\ right = r
<1>1. PICK x, y : x = left \o Text(":") \o right /\ y = l \o Text(":") \o r
  OBVIOUS
<1>2. IsString(x) /\ x = <<left[1], left[2], <<":">>, right[1], right[2]>>
  BY <1>1, PairIs
<1>3. IsString(y) /\ y = <<l[1], l[2], <<":">>, r[1], r[2]>>
  BY <1>1, PairIs
<1>4. x = y
  <2>1. fallback_commitment(x, Text("merkle-node")) =
          fallback_commitment(y, Text("merkle-node"))
    BY <1>1 DEF NodeHash
  <2> QED
    BY <1>2, <1>3, <2>1, CommitmentTells DEF Text
<1>5. x[1] = y[1] /\ x[2] = y[2] /\ x[4] = y[4] /\ x[5] = y[5]
  BY <1>4
<1>6. left[1] = l[1] /\ left[2] = l[2] /\ right[1] = r[1] /\ right[2] = r[2]
  BY <1>2, <1>3, <1>5
<1> QED
  BY <1>6, PairIs

LEMMA LeafHashTells ==
    ASSUME NEW a, IsString(a), NEW b, IsString(b), LeafHash(a) = LeafHash(b)
    PROVE  a = b
BY CommitmentTells DEF LeafHash, Text

LEMMA LeafIsNoNode ==
    ASSUME NEW a, IsString(a), NEW l, IsNode(l), NEW r, IsNode(r)
    PROVE  LeafHash(a) # NodeHash(l, r)
<1> SUFFICES ASSUME LeafHash(a) = NodeHash(l, r) PROVE FALSE
  OBVIOUS
<1>1. PICK y : y = l \o Text(":") \o r /\ IsString(y)
  BY PairIs
<1>2. <<"merkle-leaf">> = <<"merkle-node">>
  BY <1>1, CommitmentTells DEF LeafHash, NodeHash, Text
<1>3. <<"merkle-leaf">>[1] = "merkle-leaf" /\ <<"merkle-node">>[1] = "merkle-node"
  OBVIOUS
<1> QED
  BY <1>2, <1>3

-----------------------------------------------------------------------------
(* The loops: f has the level, the path or the node after each round.      *)
IsLevels(f, list) ==
    /\ merkleRoot(list) = f[Len(list)][1]
    /\ f[0] = LeafHashes(list)
    /\ \A k \in 1 .. Len(list) : f[k] = Reduce(f[k - 1])

StartPath(list, index) ==
    [nodes |-> LeafHashes(list), index |-> index, proof |-> << >>]

IsPath(f, list, index) ==
    /\ generateMerkleProof(list, index) = f[Len(list)].proof
    /\ f[0] = StartPath(list, index)
    /\ \A k \in 1 .. Len(list) : f[k] = Ascend(f[k - 1])

IsClimb(f, leaf, proof) ==
    /\ RootOf(leaf, proof) = f[Len(proof)]
    /\ f[0] = LeafHash(leaf)
    /\ \A k \in 1 .. Len(proof) : f[k] = Combine(f[k - 1], proof[k])

LEMMA LevelsLoop ==
    ASSUME NEW list, Len(list) \in Nat
    PROVE  \E f : IsLevels(f, list)
<1> DEFINE N == Len(list)
           Body(n, f) == [k \in 0 .. n |->
                             IF k = 0 THEN LeafHashes(list) ELSE Reduce(f[k - 1])]
           S == {n \in Nat : \E f : f = Body(n, f)}
<1>1. 0 \in S
  <2> DEFINE f == [k \in 0 .. 0 |-> LeafHashes(list)]
  <2>1. f = Body(0, f)
    OBVIOUS
  <2> QED
    BY <2>1
<1>2. ASSUME NEW n \in Nat, n \in S
      PROVE  n + 1 \in S
  <2>1. PICK f : f = Body(n, f)
    BY <1>2
  <2> DEFINE g == [k \in 0 .. n + 1 |->
                     IF k = n + 1 THEN Reduce(f[n]) ELSE f[k]]
  <2>2. ASSUME NEW k \in 0 .. n + 1
        PROVE  g[k] = IF k = 0 THEN LeafHashes(list) ELSE Reduce(g[k - 1])
    <3>1. CASE k = n + 1
      BY <3>1
    <3>2. CASE k = 0
      BY <2>1, <3>2
    <3>3. CASE k \in 1 .. n
      <4>1. g[k] = f[k] /\ g[k - 1] = f[k - 1]
        BY <3>3
      <4>2. f[k] = Reduce(f[k - 1])
        BY <2>1, <3>3
      <4> QED
        BY <3>3, <4>1, <4>2
    <3> QED
      BY <3>1, <3>2, <3>3
  <2>3. g = Body(n + 1, g)
    BY <2>2
  <2> HIDE DEF g, Body
  <2> QED
    BY <2>3
<1>3. Nat \subseteq S
  <2> HIDE DEF S
  <2> QED
    BY <1>1, <1>2, NatSetInduction
<1> DEFINE loop == CHOOSE f : f = Body(N, f)
<1>4. loop = Body(N, loop)
  <2> HIDE DEF Body
  <2> QED
    BY <1>3
<1>5. merkleRoot(list) = loop[N][1]
  BY DEF merkleRoot
<1> HIDE DEF loop
<1>6. /\ loop[0] = LeafHashes(list)
      /\ \A k \in 1 .. N : loop[k] = Reduce(loop[k - 1])
  BY <1>4
<1> QED
  BY <1>5, <1>6 DEF IsLevels

LEMMA PathLoop ==
    ASSUME NEW list, NEW index, Len(list) \in Nat
    PROVE  \E f : IsPath(f, list, index)
<1> DEFINE N == Len(list)
           Body(n, f) == [k \in 0 .. n |->
                             IF k = 0 THEN StartPath(list, index) ELSE Ascend(f[k - 1])]
           S == {n \in Nat : \E f : f = Body(n, f)}
<1>1. 0 \in S
  <2> DEFINE f == [k \in 0 .. 0 |-> StartPath(list, index)]
  <2>1. f = Body(0, f)
    OBVIOUS
  <2> QED
    BY <2>1
<1>2. ASSUME NEW n \in Nat, n \in S
      PROVE  n + 1 \in S
  <2>1. PICK f : f = Body(n, f)
    BY <1>2
  <2> DEFINE g == [k \in 0 .. n + 1 |->
                     IF k = n + 1 THEN Ascend(f[n]) ELSE f[k]]
  <2>2. ASSUME NEW k \in 0 .. n + 1
        PROVE  g[k] = IF k = 0 THEN StartPath(list, index) ELSE Ascend(g[k - 1])
    <3>1. CASE k = n + 1
      BY <3>1
    <3>2. CASE k = 0
      BY <2>1, <3>2
    <3>3. CASE k \in 1 .. n
      <4>1. g[k] = f[k] /\ g[k - 1] = f[k - 1]
        BY <3>3
      <4>2. f[k] = Ascend(f[k - 1])
        BY <2>1, <3>3
      <4> QED
        BY <3>3, <4>1, <4>2
    <3> QED
      BY <3>1, <3>2, <3>3
  <2>3. g = Body(n + 1, g)
    BY <2>2
  <2> HIDE DEF g, Body
  <2> QED
    BY <2>3
<1>3. Nat \subseteq S
  <2> HIDE DEF S
  <2> QED
    BY <1>1, <1>2, NatSetInduction
<1> DEFINE loop == CHOOSE f : f = Body(N, f)
<1>4. loop = Body(N, loop)
  <2> HIDE DEF Body
  <2> QED
    BY <1>3
<1>5. generateMerkleProof(list, index) = loop[N].proof
  BY DEF generateMerkleProof, StartPath
<1> HIDE DEF loop
<1>6. /\ loop[0] = StartPath(list, index)
      /\ \A k \in 1 .. N : loop[k] = Ascend(loop[k - 1])
  BY <1>4
<1> QED
  BY <1>5, <1>6 DEF IsPath

LEMMA ClimbLoop ==
    ASSUME NEW leaf, NEW proof, Len(proof) \in Nat
    PROVE  \E f : IsClimb(f, leaf, proof)
<1> DEFINE N == Len(proof)
           Body(n, f) == [k \in 0 .. n |->
                             IF k = 0 THEN LeafHash(leaf) ELSE Combine(f[k - 1], proof[k])]
           S == {n \in Nat : \E f : f = Body(n, f)}
<1>1. 0 \in S
  <2> DEFINE f == [k \in 0 .. 0 |-> LeafHash(leaf)]
  <2>1. f = Body(0, f)
    OBVIOUS
  <2> QED
    BY <2>1
<1>2. ASSUME NEW n \in Nat, n \in S
      PROVE  n + 1 \in S
  <2>1. PICK f : f = Body(n, f)
    BY <1>2
  <2> DEFINE g == [k \in 0 .. n + 1 |->
                     IF k = n + 1 THEN Combine(f[n], proof[n + 1]) ELSE f[k]]
  <2>2. ASSUME NEW k \in 0 .. n + 1
        PROVE  g[k] = IF k = 0 THEN LeafHash(leaf) ELSE Combine(g[k - 1], proof[k])
    <3>1. CASE k = n + 1
      BY <3>1
    <3>2. CASE k = 0
      BY <2>1, <3>2
    <3>3. CASE k \in 1 .. n
      <4>1. g[k] = f[k] /\ g[k - 1] = f[k - 1]
        BY <3>3
      <4>2. f[k] = Combine(f[k - 1], proof[k])
        BY <2>1, <3>3
      <4> QED
        BY <3>3, <4>1, <4>2
    <3> QED
      BY <3>1, <3>2, <3>3
  <2>3. g = Body(n + 1, g)
    BY <2>2
  <2> HIDE DEF g, Body
  <2> QED
    BY <2>3
<1>3. Nat \subseteq S
  <2> HIDE DEF S
  <2> QED
    BY <1>1, <1>2, NatSetInduction
<1> DEFINE loop == CHOOSE f : f = Body(N, f)
<1>4. loop = Body(N, loop)
  <2> HIDE DEF Body
  <2> QED
    BY <1>3
<1>5. RootOf(leaf, proof) = loop[N]
  BY DEF RootOf
<1> HIDE DEF loop
<1>6. /\ loop[0] = LeafHash(leaf)
      /\ \A k \in 1 .. N : loop[k] = Combine(loop[k - 1], proof[k])
  BY <1>4
<1> QED
  BY <1>5, <1>6 DEF IsClimb

-----------------------------------------------------------------------------
(* The levels of a tree.                                                   *)
LEMMA LengthIs ==
    ASSUME NEW m \in Nat, NEW f, f = [i \in 1 .. m |-> f[i]]
    PROVE  Len(f) = m /\ IsString(f)
<1>1. f \in Seq({f[i] : i \in 1 .. m})
  OBVIOUS
<1> QED
  BY <1>1 DEF IsString

LEMMA AppendIs ==
    ASSUME NEW f, IsString(f), NEW x
    PROVE  LET g == Append(f, x)
           IN  /\ IsString(g) /\ Len(g) = Len(f) + 1 /\ g[Len(f) + 1] = x
               /\ \A i \in 1 .. Len(f) : g[i] = f[i]
<1>1. PICK S : f \in Seq(S)
  BY StringType
<1>2. f \in Seq(S \cup {x}) /\ x \in S \cup {x}
  BY <1>1
<1>3. PICK g, T : g = Append(f, x) /\ T = S \cup {x}
  OBVIOUS
<1>4. f \in Seq(T) /\ x \in T /\ g \in Seq(T)
  BY <1>2, <1>3
<1>5. /\ Len(g) = Len(f) + 1 /\ g[Len(f) + 1] = x /\ Len(f) \in Nat
      /\ \A i \in 1 .. Len(f) : g[i] = f[i]
  BY <1>3, <1>4
<1>6. IsString(g)
  BY <1>4 DEF IsString
<1> QED
  BY <1>3, <1>5, <1>6

(* Positions of a level and of the next.                                   *)
LEMMA Halves ==
    ASSUME NEW m \in Nat, m > 1
    PROVE  /\ (m + 1) \div 2 \in 1 .. m - 1
           /\ \A i \in 1 .. (m + 1) \div 2 : 2 * i - 1 \in 1 .. m
           /\ \A i \in 1 .. m :
                  /\ (i + 1) \div 2 \in 1 .. (m + 1) \div 2
                  /\ i % 2 = 1 => 2 * ((i + 1) \div 2) - 1 = i
                  /\ i % 2 # 1 => i - 1 \in 1 .. m /\ 2 * ((i + 1) \div 2) - 1 = i - 1
OBVIOUS

(* A level is a list of nodes that is not empty.                           *)
IsLevel(nodes) ==
    /\ IsString(nodes) /\ Len(nodes) > 0
    /\ \A i \in 1 .. Len(nodes) : IsNode(nodes[i])

(* The batches that have a root.                                           *)
IsBatch(list) ==
    /\ IsString(list) /\ Len(list) > 0
    /\ \A i \in 1 .. Len(list) : IsString(list[i])

LEMMA LeafHashesLevel ==
    ASSUME NEW list, IsBatch(list)
    PROVE  IsLevel(LeafHashes(list)) /\ Len(LeafHashes(list)) = Len(list)
<1>1. Len(list) \in Nat
  BY DEF IsBatch, IsString
<1>2. Len(LeafHashes(list)) = Len(list) /\ IsString(LeafHashes(list))
  <2>1. PICK n \in Nat : n = Len(list)
    BY <1>1
  <2>2. PICK f : f = [i \in 1 .. n |-> LeafHash(list[i])]
    OBVIOUS
  <2>3. f = [i \in 1 .. n |-> f[i]]
    BY <2>2
  <2>4. f = LeafHashes(list)
    BY <2>1, <2>2 DEF LeafHashes
  <2> QED
    BY <2>1, <2>3, <2>4, LengthIs
<1> QED
  BY <1>1, <1>2, NodesAre DEF IsLevel, LeafHashes, IsBatch

LEMMA NextLevelIs ==
    ASSUME NEW nodes, IsLevel(nodes), Len(nodes) > 1
    PROVE  LET next == NextLevel(nodes)
           IN  /\ IsLevel(next) /\ Len(next) = (Len(nodes) + 1) \div 2
               /\ \A i \in 1 .. Len(next) :
                      next[i] = NodeHash(nodes[2 * i - 1], RightOf(nodes, 2 * i - 1))
<1>1. PICK m \in Nat : m = Len(nodes) /\ m > 1
  BY DEF IsLevel, IsString
<1>2. PICK h \in Nat : h = (m + 1) \div 2 /\ h > 0
  BY <1>1, Halves
<1>3. PICK f : f = [i \in 1 .. h |-> NodeHash(nodes[2 * i - 1], RightOf(nodes, 2 * i - 1))]
  OBVIOUS
<1>4. f = NextLevel(nodes)
  BY <1>1, <1>2, <1>3 DEF NextLevel
<1>5. f = [i \in 1 .. h |-> f[i]]
  BY <1>3
<1>6. Len(f) = h /\ IsString(f)
  BY <1>5, LengthIs
<1>7. \A i \in 1 .. h :
         /\ f[i] = NodeHash(nodes[2 * i - 1], RightOf(nodes, 2 * i - 1))
         /\ IsNode(f[i])
  BY <1>3, NodesAre
<1> QED
  BY <1>1, <1>2, <1>4, <1>6, <1>7 DEF IsLevel

-----------------------------------------------------------------------------
(* Items of proofs: the position and the sibling.                          *)
ItemOf(position, sibling) == Text(position) \o Text(":") \o sibling
IsItem(item) ==
    \E position, sibling : /\ position \in {"left", "right"}
                           /\ IsNode(sibling) /\ item = ItemOf(position, sibling)
IsProof(proof) ==
    IsString(proof) /\ \A k \in 1 .. Len(proof) : IsItem(proof[k])

LEMMA ItemIs ==
    ASSUME NEW position, NEW sibling, IsNode(sibling)
    PROVE  /\ SubSeq(ItemOf(position, sibling), 1, 1) = Text(position)
           /\ SubSeq(ItemOf(position, sibling), 3, Len(ItemOf(position, sibling))) = sibling
<1>1. PICK a, b : sibling = <<a, b>>
  BY DEF IsNode, HashOf
<1>2. PICK p, c : p = <<position>> /\ c = <<":">>
  OBVIOUS
<1> DEFINE item == <<p>> \o <<c>> \o <<a, b>>
           U == {p, c, a, b}
<1>3. <<p>> \in Seq(U) /\ <<c>> \in Seq(U) /\ <<a, b>> \in Seq(U)
  OBVIOUS
<1>4. /\ item \in Seq(U) /\ Len(item) = 4
      /\ item[1] = p /\ item[3] = a /\ item[4] = b
  BY <1>3
<1>5. item = ItemOf(position, sibling)
  BY <1>1, <1>2 DEF ItemOf, Text
<1> HIDE DEF item
<1>6. PICK x, y : x = SubSeq(item, 1, 1) /\ y = SubSeq(item, 3, 4)
  OBVIOUS
<1>7. /\ x \in Seq(U) /\ Len(x) = 1 /\ x[1] = p
      /\ y \in Seq(U) /\ Len(y) = 2 /\ y[1] = a /\ y[2] = b
  BY <1>4, <1>6
<1>8. x = <<p>> /\ y = <<a, b>>
  <2>1. x = [i \in 1 .. 1 |-> x[i]] /\ y = [i \in 1 .. 2 |-> y[i]]
    BY <1>7
  <2>2. <<p>> = [i \in 1 .. 1 |-> <<p>>[i]] /\ <<a, b>> = [i \in 1 .. 2 |-> <<a, b>>[i]]
    OBVIOUS
  <2>3. /\ \A i \in 1 .. 1 : x[i] = <<p>>[i]
        /\ \A i \in 1 .. 2 : y[i] = <<a, b>>[i]
    BY <1>7
  <2> QED
    BY <2>1, <2>2, <2>3
<1> QED
  BY <1>1, <1>2, <1>4, <1>5, <1>6, <1>8 DEF Text

LEMMA CombineIs ==
    ASSUME NEW current, NEW sibling, IsNode(sibling)
    PROVE  /\ Combine(current, ItemOf("left", sibling)) = NodeHash(sibling, current)
           /\ Combine(current, ItemOf("right", sibling)) = NodeHash(current, sibling)
<1>1. Text("right") # Text("left")
  <2>1. PICK l, r : l = <<"left">> /\ r = <<"right">>
    OBVIOUS
  <2>2. l # r
    BY <2>1
  <2>3. <<l>> # <<r>>
    BY <2>2
  <2> QED
    BY <2>1, <2>3 DEF Text
<1> QED
  BY <1>1, ItemIs DEF Combine

(* A proof of one item more leads one level further.                       *)
LEMMA ClimbEmpty == \A leaf : RootOf(leaf, << >>) = LeafHash(leaf)
BY ClimbLoop DEF IsClimb

LEMMA ClimbAppend ==
    ASSUME NEW leaf, NEW proof, IsString(proof), NEW item
    PROVE  RootOf(leaf, Append(proof, item)) = Combine(RootOf(leaf, proof), item)
<1>1. PICK longer : longer = Append(proof, item)
  OBVIOUS
<1>2. /\ Len(longer) = Len(proof) + 1 /\ longer[Len(proof) + 1] = item
      /\ Len(proof) \in Nat
      /\ \A i \in 1 .. Len(proof) : longer[i] = proof[i]
  BY <1>1, AppendIs DEF IsString
<1>3. PICK f : IsClimb(f, leaf, proof)
  BY <1>2, ClimbLoop
<1>4. PICK g : IsClimb(g, leaf, longer)
  BY <1>2, ClimbLoop
<1>5. StayAlike(f, g, Len(proof))
  BY <1>2, <1>3, <1>4 DEF IsClimb, StayAlike
<1>6. f[0] = g[0]
  BY <1>3, <1>4 DEF IsClimb
<1>7. f[Len(proof)] = g[Len(proof)]
  <2>1. Alike(f, g, Len(proof))
    BY <1>2, <1>5, <1>6, SameLoop
  <2> QED
    BY <1>2, <2>1 DEF Alike
<1>8. g[Len(longer)] = Combine(g[Len(proof)], item)
  <2>1. Len(longer) \in 1 .. Len(longer) /\ Len(longer) - 1 = Len(proof)
    BY <1>2
  <2>2. g[Len(longer)] = Combine(g[Len(longer) - 1], longer[Len(longer)])
    BY <1>4, <2>1 DEF IsClimb
  <2> QED
    BY <1>2, <2>1, <2>2
<1> QED
  BY <1>1, <1>3, <1>4, <1>7, <1>8 DEF IsClimb

(* A node and its sibling make the node above it.                          *)
LEMMA SiblingIs ==
    ASSUME NEW nodes, IsLevel(nodes), Len(nodes) > 1, NEW i \in 1 .. Len(nodes)
    PROVE  /\ IsItem(Sibling(nodes, i))
           /\ Combine(nodes[i], Sibling(nodes, i)) = NextLevel(nodes)[(i + 1) \div 2]
<1>1. PICK m \in Nat : m = Len(nodes) /\ m > 1
  BY DEF IsLevel, IsString
<1>2. PICK j \in 1 .. (m + 1) \div 2 : j = (i + 1) \div 2
  BY <1>1, Halves
<1>3. NextLevel(nodes)[j] = NodeHash(nodes[2 * j - 1], RightOf(nodes, 2 * j - 1))
  BY <1>1, NextLevelIs
<1>4. CASE i % 2 = 1
  <2>1. 2 * j - 1 = i
    BY <1>1, <1>2, <1>4, Halves
  <2>2. PICK right : right = RightOf(nodes, i)
    OBVIOUS
  <2>3. IsNode(right)
    BY <1>1, <2>2 DEF RightOf, IsLevel
  <2>4. Sibling(nodes, i) = ItemOf("right", right)
    BY <1>4, <2>2 DEF Sibling, ItemOf
  <2>5. Combine(nodes[i], ItemOf("right", right)) = NodeHash(nodes[i], right)
    BY <2>3, CombineIs
  <2> QED
    BY <1>2, <1>3, <2>1, <2>2, <2>3, <2>4, <2>5 DEF IsItem
<1>5. CASE i % 2 # 1
  <2>1. 2 * j - 1 = i - 1 /\ i - 1 \in 1 .. m
    BY <1>1, <1>2, <1>5, Halves
  <2>2. PICK left : left = nodes[i - 1] /\ IsNode(left)
    BY <1>1, <2>1 DEF IsLevel
  <2>3. RightOf(nodes, i - 1) = nodes[i]
    BY <1>1, <2>1 DEF RightOf
  <2>4. Sibling(nodes, i) = ItemOf("left", left)
    BY <1>5, <2>2 DEF Sibling, ItemOf
  <2>5. Combine(nodes[i], ItemOf("left", left)) = NodeHash(left, nodes[i])
    BY <2>2, CombineIs
  <2> QED
    BY <1>2, <1>3, <2>1, <2>2, <2>3, <2>4, <2>5 DEF IsItem
<1> QED
  BY <1>4, <1>5

-----------------------------------------------------------------------------
(* The loop ends with a level of one node.                                 *)
LEMMA ReduceIs ==
    ASSUME NEW nodes, IsLevel(nodes)
    PROVE  /\ IsLevel(Reduce(nodes))
           /\ Len(nodes) > 1 => Len(Reduce(nodes)) < Len(nodes)
           /\ Len(nodes) = 1 => Len(Reduce(nodes)) = 1
<1>1. PICK m \in Nat : m = Len(nodes) /\ m > 0
  BY DEF IsLevel, IsString
<1>2. CASE m > 1
  <2>1. Reduce(nodes) = NextLevel(nodes)
    BY <1>1, <1>2 DEF Reduce
  <2>2. IsLevel(NextLevel(nodes)) /\ Len(NextLevel(nodes)) = (m + 1) \div 2
    BY <1>1, <1>2, NextLevelIs
  <2>3. (m + 1) \div 2 < m
    BY <1>2, Halves
  <2> QED
    BY <1>1, <1>2, <2>1, <2>2, <2>3
<1>3. CASE m = 1
  <2>1. Reduce(nodes) = nodes
    BY <1>1, <1>3 DEF Reduce
  <2> QED
    BY <1>1, <1>3, <2>1
<1> QED
  BY <1>1, <1>2, <1>3

LEMMA LevelsShape ==
    ASSUME NEW list, IsBatch(list), NEW f, IsLevels(f, list)
    PROVE  /\ \A k \in 0 .. Len(list) : IsLevel(f[k])
           /\ Len(f[Len(list)]) = 1
<1>1. PICK N \in Nat : N = Len(list)
  BY DEF IsBatch, IsString
<1> DEFINE S == {k \in 0 .. N : /\ IsLevel(f[k])
                                /\ Len(f[k]) = 1 \/ Len(f[k]) + k <= N}
<1>2. 0 \in S
  <2>1. f[0] = LeafHashes(list)
    BY DEF IsLevels
  <2> QED
    BY <1>1, <2>1, LeafHashesLevel
<1>3. ASSUME NEW k \in 1 .. N, k - 1 \in S
      PROVE  k \in S
  <2>1. f[k] = Reduce(f[k - 1]) /\ IsLevel(f[k - 1])
    BY <1>1, <1>3 DEF IsLevels
  <2>2. PICK m \in Nat : m = Len(f[k - 1]) /\ m > 0
    BY <2>1 DEF IsLevel, IsString
  <2>3. IsLevel(f[k])
    BY <2>1, ReduceIs
  <2>4. PICK n \in Nat : n = Len(f[k])
    BY <2>3 DEF IsLevel, IsString
  <2>5. (m > 1 => n < m) /\ (m = 1 => n = 1)
    BY <2>1, <2>2, <2>4, ReduceIs
  <2>6. n = 1 \/ n + k <= N
    <3>1. m = 1 \/ m + (k - 1) <= N
      BY <1>3, <2>2
    <3>2. m > 0
      BY <2>2
    <3> QED
      BY <2>5, <3>1, <3>2
  <2> QED
    BY <2>3, <2>4, <2>6
<1>4. 0 .. N \subseteq S
  <2> HIDE DEF S
  <2>1. StaysIn(S, N)
    BY <1>3 DEF StaysIn
  <2> QED
    BY <1>2, <2>1, InductionUpTo
<1>5. \A k \in 0 .. N : IsLevel(f[k]) /\ (Len(f[k]) = 1 \/ Len(f[k]) + k <= N)
  BY <1>4
<1>6. Len(f[N]) = 1
  <2>1. IsLevel(f[N]) /\ (Len(f[N]) = 1 \/ Len(f[N]) + N <= N)
    BY <1>5
  <2>2. PICK n \in Nat : n = Len(f[N]) /\ n > 0
    BY <2>1 DEF IsLevel, IsString
  <2> QED
    BY <2>1, <2>2
<1> QED
  BY <1>1, <1>5, <1>6

(* What has been found out after some rounds leads from the leaf to the    *)
(* node above it.                                                          *)
Leads(path, leaf) ==
    /\ IsLevel(path.nodes) /\ path.index \in 1 .. Len(path.nodes)
    /\ IsProof(path.proof)
    /\ RootOf(leaf, path.proof) = path.nodes[path.index]

LEMMA AscendLeads ==
    ASSUME NEW path, NEW leaf, Leads(path, leaf)
    PROVE  Leads(Ascend(path), leaf) /\ Ascend(path).nodes = Reduce(path.nodes)
<1>1. PICK nodes, i, proof :
          nodes = path.nodes /\ i = path.index /\ proof = path.proof
  OBVIOUS
<1>2. /\ IsLevel(nodes) /\ i \in 1 .. Len(nodes) /\ IsProof(proof)
      /\ RootOf(leaf, proof) = nodes[i]
  BY <1>1 DEF Leads
<1>3. PICK m \in Nat : m = Len(nodes) /\ m > 0
  BY <1>2 DEF IsLevel, IsString
<1>4. CASE m > 1
  <2>1. PICK next, j, item, longer :
            /\ next = NextLevel(nodes) /\ j = (i + 1) \div 2
            /\ item = Sibling(nodes, i) /\ longer = Append(proof, item)
    OBVIOUS
  <2>2. Ascend(path) = [nodes |-> next, index |-> j, proof |-> longer]
    BY <1>1, <1>3, <1>4, <2>1 DEF Ascend
  <2>3. IsLevel(next) /\ Len(next) = (m + 1) \div 2
    BY <1>2, <1>3, <1>4, <2>1, NextLevelIs
  <2>4. j \in 1 .. Len(next)
    BY <1>2, <1>3, <1>4, <2>1, <2>3, Halves
  <2>5. IsItem(item) /\ Combine(nodes[i], item) = next[j]
    BY <1>2, <1>3, <1>4, <2>1, SiblingIs
  <2>6. IsProof(longer)
    <3>1. PICK n \in Nat : n = Len(proof)
      BY <1>2 DEF IsProof, IsString
    <3>2. /\ IsString(longer) /\ Len(longer) = n + 1 /\ longer[n + 1] = item
          /\ \A k \in 1 .. n : longer[k] = proof[k]
      BY <1>2, <2>1, <3>1, AppendIs DEF IsProof
    <3> QED
      BY <1>2, <2>5, <3>1, <3>2 DEF IsProof
  <2>7. RootOf(leaf, longer) = next[j]
    BY <1>2, <2>1, <2>5, ClimbAppend DEF IsProof
  <2>8. Reduce(path.nodes) = next
    BY <1>1, <1>3, <1>4, <2>1 DEF Reduce
  <2>9. PICK above : above = Ascend(path)
    OBVIOUS
  <2>10. above.nodes = next /\ above.index = j /\ above.proof = longer
    BY <2>2, <2>9
  <2>11. Leads(above, leaf)
    BY <2>3, <2>4, <2>6, <2>7, <2>10 DEF Leads
  <2> QED
    BY <2>8, <2>9, <2>10, <2>11
<1>5. CASE m = 1
  BY <1>1, <1>3, <1>5 DEF Ascend, Reduce
<1> QED
  BY <1>3, <1>4, <1>5

LEMMA ProofLeads ==
    ASSUME NEW list, IsBatch(list), NEW i \in 1 .. Len(list)
    PROVE  /\ IsProof(generateMerkleProof(list, i))
           /\ RootOf(list[i], generateMerkleProof(list, i)) = merkleRoot(list)
<1>1. PICK N \in Nat : N = Len(list) /\ N > 0
  BY DEF IsBatch, IsString
<1>2. PICK f : IsPath(f, list, i)
  BY <1>1, PathLoop
<1>3. PICK g : IsLevels(g, list)
  BY <1>1, LevelsLoop
<1> DEFINE S == {k \in 0 .. N : Leads(f[k], list[i]) /\ f[k].nodes = g[k]}
<1>4. 0 \in S
  <2>1. PICK start, nodes : start = f[0] /\ nodes = LeafHashes(list)
    OBVIOUS
  <2>2. start = [nodes |-> nodes, index |-> i, proof |-> << >>] /\ g[0] = nodes
    BY <1>2, <1>3, <2>1 DEF IsPath, IsLevels, StartPath
  <2>3. IsLevel(nodes) /\ Len(nodes) = N
    BY <1>1, <2>1, LeafHashesLevel
  <2>4. nodes[i] = LeafHash(list[i])
    BY <1>1, <2>1 DEF LeafHashes
  <2>5. IsProof(<< >>)
    BY DEF IsProof, IsString
  <2>6. RootOf(list[i], << >>) = nodes[i]
    BY <2>4, ClimbEmpty
  <2>7. start.nodes = nodes /\ start.index = i /\ start.proof = << >>
    BY <2>2
  <2>8. Leads(start, list[i])
    BY <1>1, <2>3, <2>5, <2>6, <2>7 DEF Leads
  <2>9. Leads(f[0], list[i]) /\ f[0].nodes = g[0] /\ 0 \in 0 .. N
    BY <1>1, <2>1, <2>2, <2>7, <2>8
  <2> QED
    BY <2>9
<1>5. ASSUME NEW k \in 1 .. N, k - 1 \in S
      PROVE  k \in S
  <2>1. f[k] = Ascend(f[k - 1]) /\ g[k] = Reduce(g[k - 1])
    BY <1>1, <1>2, <1>3 DEF IsPath, IsLevels
  <2> QED
    BY <1>5, <2>1, AscendLeads
<1>6. 0 .. N \subseteq S
  <2> HIDE DEF S
  <2>1. StaysIn(S, N)
    BY <1>5 DEF StaysIn
  <2> QED
    BY <1>4, <2>1, InductionUpTo
<1>7. Leads(f[N], list[i]) /\ f[N].nodes = g[N]
  BY <1>6
<1>8. Len(g[N]) = 1
  BY <1>1, <1>3, LevelsShape
<1>9. f[N].index = 1
  BY <1>7, <1>8 DEF Leads
<1> QED
  BY <1>1, <1>2, <1>3, <1>7, <1>9 DEF IsPath, IsLevels, Leads

(* A proof that is given leads from two leaves to the same node only if    *)
(* they are the same.                                                      *)
LEMMA CombineTells ==
    ASSUME NEW item, IsItem(item), NEW a, IsNode(a), NEW b, IsNode(b),
           Combine(a, item) = Combine(b, item)
    PROVE  a = b
<1>1. PICK position, sibling : /\ position \in {"left", "right"}
                               /\ IsNode(sibling) /\ item = ItemOf(position, sibling)
  BY DEF IsItem
<1>2. CASE position = "left"
  <2>1. NodeHash(sibling, a) = NodeHash(sibling, b)
    BY <1>1, <1>2, CombineIs
  <2> QED
    BY <1>1, <2>1, NodeHashTells
<1>3. CASE position = "right"
  <2>1. NodeHash(a, sibling) = NodeHash(b, sibling)
    BY <1>1, <1>3, CombineIs
  <2> QED
    BY <1>1, <2>1, NodeHashTells
<1> QED
  BY <1>1, <1>2, <1>3

LEMMA CombineNode ==
    ASSUME NEW item, IsItem(item), NEW a
    PROVE  IsNode(Combine(a, item))
BY CombineIs, NodesAre DEF IsItem

LEMMA ProofTells ==
    ASSUME NEW proof, IsProof(proof), NEW a, IsString(a), NEW b, IsString(b),
           RootOf(a, proof) = RootOf(b, proof)
    PROVE  a = b
<1>1. PICK N \in Nat : N = Len(proof)
  BY DEF IsProof, IsString
<1>2. PICK f : IsClimb(f, a, proof)
  BY <1>1, ClimbLoop
<1>3. PICK g : IsClimb(g, b, proof)
  BY <1>1, ClimbLoop
<1>4. SUFFICES ASSUME a # b PROVE FALSE
  OBVIOUS
<1> DEFINE S == {k \in 0 .. N : IsNode(f[k]) /\ IsNode(g[k]) /\ f[k] # g[k]}
<1>5. 0 \in S
  <2>1. f[0] = LeafHash(a) /\ g[0] = LeafHash(b)
    BY <1>2, <1>3 DEF IsClimb
  <2>2. LeafHash(a) # LeafHash(b)
    BY <1>4, LeafHashTells
  <2> QED
    BY <2>1, <2>2, NodesAre
<1>6. ASSUME NEW k \in 1 .. N, k - 1 \in S
      PROVE  k \in S
  <2>1. f[k] = Combine(f[k - 1], proof[k]) /\ g[k] = Combine(g[k - 1], proof[k])
    BY <1>1, <1>2, <1>3 DEF IsClimb
  <2>2. IsItem(proof[k])
    BY <1>1 DEF IsProof
  <2> QED
    BY <1>6, <2>1, <2>2, CombineTells, CombineNode
<1>7. 0 .. N \subseteq S
  <2> HIDE DEF S
  <2>1. StaysIn(S, N)
    BY <1>6 DEF StaysIn
  <2> QED
    BY <1>5, <2>1, InductionUpTo
<1>8. f[N] # g[N]
  BY <1>7
<1> QED
  BY <1>1, <1>2, <1>3, <1>8 DEF IsClimb

(* Whoever is led to the root of a batch by a list of siblings is one of   *)
(* its leaves.                                                             *)
In(node, nodes) == \E i \in 1 .. Len(nodes) : node = nodes[i]

LEMMA ClimbNodes ==
    ASSUME NEW proof, IsProof(proof), NEW leaf, NEW f, IsClimb(f, leaf, proof)
    PROVE  /\ f[0] = LeafHash(leaf) /\ IsNode(f[0])
           /\ \A k \in 1 .. Len(proof) :
                  /\ IsNode(f[k - 1])
                  /\ \E sibling : /\ IsNode(sibling)
                                  /\ \/ f[k] = NodeHash(sibling, f[k - 1])
                                     \/ f[k] = NodeHash(f[k - 1], sibling)
<1>1. PICK N \in Nat : N = Len(proof)
  BY DEF IsProof, IsString
<1>2. \A k \in 1 .. N : f[k] = Combine(f[k - 1], proof[k]) /\ IsItem(proof[k])
  BY <1>1 DEF IsClimb, IsProof
<1>3. f[0] = LeafHash(leaf)
  BY DEF IsClimb
<1>4. IsNode(f[0])
  BY <1>3, NodesAre
<1>5. ASSUME NEW k \in 1 .. N
      PROVE  IsNode(f[k - 1])
  <2>1. CASE k = 1
    BY <1>4, <2>1
  <2>2. CASE k > 1
    <3>1. k - 1 \in 1 .. N
      BY <2>2
    <3>2. f[k - 1] = Combine(f[k - 1 - 1], proof[k - 1]) /\ IsItem(proof[k - 1])
      BY <1>2, <3>1
    <3> QED
      BY <3>2, CombineNode
  <2> QED
    BY <2>1, <2>2
<1>6. ASSUME NEW k \in 1 .. N
      PROVE  \E sibling : /\ IsNode(sibling)
                          /\ \/ f[k] = NodeHash(sibling, f[k - 1])
                             \/ f[k] = NodeHash(f[k - 1], sibling)
  <2>1. PICK position, sibling : /\ position \in {"left", "right"}
                                 /\ IsNode(sibling)
                                 /\ proof[k] = ItemOf(position, sibling)
    BY <1>2 DEF IsItem
  <2>2. f[k] = Combine(f[k - 1], ItemOf(position, sibling))
    BY <1>2, <2>1
  <2> QED
    BY <2>1, <2>2, CombineIs
<1> QED
  BY <1>1, <1>3, <1>4, <1>5, <1>6

(* One level down.                                                         *)
LEMMA BelowIn ==
    ASSUME NEW nodes, IsLevel(nodes), NEW a, IsNode(a), NEW b, IsNode(b),
           Len(nodes) > 1, In(NodeHash(a, b), NextLevel(nodes))
    PROVE  In(a, nodes) /\ In(b, nodes)
<1>1. PICK m \in Nat : m = Len(nodes) /\ m > 1
  BY DEF IsLevel, IsString
<1>2. PICK j \in 1 .. Len(NextLevel(nodes)) : NodeHash(a, b) = NextLevel(nodes)[j]
  BY DEF In
<1>3. j \in 1 .. (m + 1) \div 2
  BY <1>1, <1>2, NextLevelIs
<1>4. 2 * j - 1 \in 1 .. m
  BY <1>1, <1>3, Halves
<1>5. PICK i \in 1 .. m : i = 2 * j - 1
  BY <1>4
<1>6. NodeHash(a, b) = NodeHash(nodes[i], RightOf(nodes, i))
  BY <1>1, <1>2, <1>5, NextLevelIs
<1>7. IsNode(nodes[i])
  BY <1>1 DEF IsLevel
<1>8. IsNode(RightOf(nodes, i)) /\ In(RightOf(nodes, i), nodes)
  <2>1. CASE i < m
    <3>1. RightOf(nodes, i) = nodes[i + 1] /\ i + 1 \in 1 .. m
      BY <1>1, <2>1 DEF RightOf
    <3> QED
      BY <1>1, <3>1 DEF IsLevel, In
  <2>2. CASE ~(i < m)
    <3>1. RightOf(nodes, i) = nodes[i]
      BY <1>1, <2>2 DEF RightOf
    <3> QED
      BY <1>1, <1>7, <3>1 DEF In
  <2> QED
    BY <2>1, <2>2
<1>9. a = nodes[i] /\ b = RightOf(nodes, i)
  BY <1>6, <1>7, <1>8, NodeHashTells
<1> QED
  BY <1>1, <1>8, <1>9 DEF In

LEMMA NoLeafAbove ==
    ASSUME NEW nodes, IsLevel(nodes), NEW leaf, IsString(leaf),
           Len(nodes) > 1
    PROVE  ~In(LeafHash(leaf), NextLevel(nodes))
<1> SUFFICES ASSUME In(LeafHash(leaf), NextLevel(nodes)) PROVE FALSE
  OBVIOUS
<1>1. PICK m \in Nat : m = Len(nodes) /\ m > 1
  BY DEF IsLevel, IsString
<1>2. PICK j \in 1 .. Len(NextLevel(nodes)) : LeafHash(leaf) = NextLevel(nodes)[j]
  BY DEF In
<1>3. j \in 1 .. (m + 1) \div 2
  BY <1>1, <1>2, NextLevelIs
<1>4. PICK i \in 1 .. m : i = 2 * j - 1
  BY <1>1, <1>3, Halves
<1>5. LeafHash(leaf) = NodeHash(nodes[i], RightOf(nodes, i))
  BY <1>1, <1>2, <1>4, NextLevelIs
<1>6. IsNode(nodes[i]) /\ IsNode(RightOf(nodes, i))
  <2>1. i + 1 \in 1 .. m \/ ~(i < m)
    OBVIOUS
  <2> QED
    BY <1>1, <2>1 DEF IsLevel, RightOf
<1> QED
  BY <1>5, <1>6, LeafIsNoNode

LEMMA OnlyLeavesVerify ==
    ASSUME NEW list, IsBatch(list), NEW proof, IsProof(proof),
           NEW leaf, IsString(leaf), RootOf(leaf, proof) = merkleRoot(list)
    PROVE  In(leaf, list)
<1>1. PICK N \in Nat : N = Len(list)
  BY DEF IsBatch, IsString
<1>2. PICK M \in Nat : M = Len(proof)
  BY DEF IsProof, IsString
<1>3. PICK f : IsLevels(f, list)
  BY <1>1, LevelsLoop
<1>4. PICK g : IsClimb(g, leaf, proof)
  BY <1>2, ClimbLoop
<1>5. \A k \in 0 .. N : IsLevel(f[k])
  BY <1>1, <1>3, LevelsShape
<1>6. /\ g[0] = LeafHash(leaf)
      /\ \A j \in 1 .. M :
             /\ IsNode(g[j - 1])
             /\ \E sibling : /\ IsNode(sibling)
                             /\ \/ g[j] = NodeHash(sibling, g[j - 1])
                                \/ g[j] = NodeHash(g[j - 1], sibling)
  BY <1>2, <1>4, ClimbNodes
<1> DEFINE S == {k \in 0 .. N : \A j \in 0 .. M : In(g[j], f[k]) => In(leaf, list)}
<1>7. 0 \in S
  <2> SUFFICES ASSUME NEW j \in 0 .. M, In(g[j], f[0])
               PROVE  In(leaf, list)
    OBVIOUS
  <2>1. f[0] = LeafHashes(list) /\ Len(f[0]) = N
    BY <1>1, <1>3, LeafHashesLevel DEF IsLevels
  <2>2. PICK i \in 1 .. N : g[j] = f[0][i]
    BY <2>1 DEF In
  <2>3. f[0][i] = LeafHash(list[i]) /\ IsString(list[i])
    BY <1>1, <2>1 DEF LeafHashes, IsBatch
  <2>4. CASE j = 0
    <3>1. leaf = list[i]
      BY <1>6, <2>2, <2>3, <2>4, LeafHashTells
    <3> QED
      BY <1>1, <3>1 DEF In
  <2>5. CASE j \in 1 .. M
    BY <1>6, <2>2, <2>3, <2>5, LeafIsNoNode
  <2> QED
    BY <2>4, <2>5
<1>8. ASSUME NEW k \in 1 .. N, k - 1 \in S
      PROVE  k \in S
  <2>1. PICK nodes : nodes = f[k - 1] /\ IsLevel(nodes) /\ f[k] = Reduce(nodes)
    BY <1>1, <1>3, <1>5 DEF IsLevels
  <2>2. \A j \in 0 .. M : In(g[j], nodes) => In(leaf, list)
    BY <1>8, <2>1
  <2> SUFFICES ASSUME NEW j \in 0 .. M, In(g[j], f[k])
               PROVE  In(leaf, list)
    OBVIOUS
  <2>3. CASE Len(nodes) > 1
    <3>1. In(g[j], NextLevel(nodes))
      BY <2>1, <2>3 DEF Reduce
    <3>2. j # 0
      BY <1>6, <2>1, <2>3, <3>1, NoLeafAbove
    <3>3. j \in 1 .. M /\ j - 1 \in 0 .. M
      BY <3>2
    <3>4. PICK sibling : /\ IsNode(sibling)
                         /\ \/ g[j] = NodeHash(sibling, g[j - 1])
                            \/ g[j] = NodeHash(g[j - 1], sibling)
      BY <1>6, <3>3
    <3>5. In(g[j - 1], nodes)
      BY <1>6, <2>1, <2>3, <3>1, <3>3, <3>4, BelowIn
    <3> QED
      BY <2>2, <3>3, <3>5
  <2>4. CASE ~(Len(nodes) > 1)
    BY <2>1, <2>2, <2>4 DEF Reduce
  <2> QED
    BY <2>3, <2>4
<1>9. 0 .. N \subseteq S
  <2> HIDE DEF S
  <2>1. StaysIn(S, N)
    BY <1>8 DEF StaysIn
  <2> QED
    BY <1>7, <2>1, InductionUpTo
<1>10. In(g[M], f[N]) => In(leaf, list)
  BY <1>9
<1>11. g[M] = f[N][1] /\ Len(f[N]) = 1
  BY <1>1, <1>2, <1>3, <1>4, LevelsShape DEF IsClimb, IsLevels
<1> QED
  BY <1>10, <1>11 DEF In

-----------------------------------------------------------------------------
(* A batch that grows.                                                     *)
GrownFrom == leaves \in Seq(Leaves)

LEMMA GrownBatch ==
    ASSUME NEW list \in Seq(Leaves), list # << >>
    PROVE  IsBatch(list)
<1>1. Len(list) \in Nat /\ list = [i \in 1 .. Len(list) |-> list[i]]
  OBVIOUS
<1>2. Len(list) > 0
  OBVIOUS
<1>3. \A i \in 1 .. Len(list) : list[i] \in Leaves
  OBVIOUS
<1> QED
  BY <1>1, <1>2, <1>3, LeavesAssumption DEF IsBatch, IsString

LEMMA Growth == GrowthSpec => []GrownFrom
<1>1. EmptyBatch => GrownFrom
  BY DEF EmptyBatch, GrownFrom
<1>2. GrownFrom /\ [AddLeaf]_leaves => GrownFrom'
  BY DEF GrownFrom, AddLeaf
<1> QED
  BY <1>1, <1>2, PTL DEF GrowthSpec

(* However large a batch has grown, whichever of its leaves repeat and     *)
(* whichever of its levels are odd, the proof of every leaf leads from it  *)
(* to the root.                                                            *)
THEOREM EveryLeafHasItsProof == GrowthSpec => []EveryLeafVerifies
<1>1. GrownFrom => EveryLeafVerifies
  <2> SUFFICES ASSUME leaves \in Seq(Leaves), NEW i \in 1 .. Len(leaves)
               PROVE  verifyMerkleProof(leaves[i], generateMerkleProof(leaves, i),
                                        merkleRoot(leaves))
    BY DEF GrownFrom, EveryLeafVerifies, Index
  <2>1. PICK list : list = leaves
    OBVIOUS
  <2>2. IsBatch(list)
    BY <2>1, GrownBatch
  <2>3. RootOf(list[i], generateMerkleProof(list, i)) = merkleRoot(list)
    BY <2>1, <2>2, ProofLeads
  <2> QED
    BY <2>1, <2>3 DEF verifyMerkleProof
<1> QED
  BY <1>1, Growth, PTL

(* And it leads there from no other leaf.                                  *)
THEOREM ProofsBindTheirLeaves == GrowthSpec => []ProofBindsLeaf
<1>1. GrownFrom => ProofBindsLeaf
  <2> SUFFICES ASSUME leaves \in Seq(Leaves), NEW i \in 1 .. Len(leaves),
                      NEW leaf \in Leaves,
                      verifyMerkleProof(leaf, generateMerkleProof(leaves, i),
                                        merkleRoot(leaves))
               PROVE  leaf = leaves[i]
    BY DEF GrownFrom, ProofBindsLeaf, Index
  <2>1. PICK list, proof : list = leaves /\ proof = generateMerkleProof(list, i)
    OBVIOUS
  <2>2. IsBatch(list) /\ i \in 1 .. Len(list)
    BY <2>1, GrownBatch
  <2>3. IsProof(proof) /\ RootOf(list[i], proof) = merkleRoot(list)
    BY <2>1, <2>2, ProofLeads
  <2>4. RootOf(leaf, proof) = merkleRoot(list)
    BY <2>1 DEF verifyMerkleProof
  <2>5. IsString(leaf) /\ IsString(list[i])
    BY <2>2, LeavesAssumption DEF IsBatch
  <2>6. leaf = list[i]
    BY <2>3, <2>4, <2>5, ProofTells
  <2> QED
    BY <2>1, <2>6
<1> QED
  BY <1>1, Growth, PTL

-----------------------------------------------------------------------------
(* A batch of two or more has no empty proofs.                             *)
LEMMA ProofNotEmpty ==
    ASSUME NEW list, IsBatch(list), Len(list) > 1, NEW i \in 1 .. Len(list)
    PROVE  generateMerkleProof(list, i) # << >>
<1>1. PICK N \in Nat : N = Len(list) /\ N > 1
  BY DEF IsBatch, IsString
<1>2. PICK f : IsPath(f, list, i)
  BY <1>1, PathLoop
<1> DEFINE Fine(p) == IsString(p) /\ Len(p) > 0
           S == {k \in 0 .. N : k = 0 \/ Fine(f[k].proof)}
<1>3. 0 \in S
  BY <1>1
<1>4. ASSUME NEW k \in 1 .. N, k - 1 \in S
      PROVE  k \in S
  <2>1. PICK nodes, j, p, item :
            /\ nodes = f[k - 1].nodes /\ j = f[k - 1].index /\ p = f[k - 1].proof
            /\ item = Sibling(nodes, j)
    OBVIOUS
  <2>2. f[k] = Ascend(f[k - 1])
    BY <1>1, <1>2 DEF IsPath
  <2>3. CASE Len(nodes) > 1
    <3>1. f[k].proof = Append(p, item)
      BY <2>1, <2>2, <2>3 DEF Ascend
    <3>2. IsString(p)
      <4>1. CASE k = 1
        <5>1. f[0] = StartPath(list, i)
          BY <1>2 DEF IsPath
        <5>2. p = << >>
          BY <2>1, <4>1, <5>1 DEF StartPath
        <5> QED
          BY <5>2 DEF IsString
      <4>2. CASE k # 1
        BY <1>4, <2>1, <4>2
      <4> QED
        BY <4>1, <4>2
    <3>3. IsString(Append(p, item)) /\ Len(Append(p, item)) = Len(p) + 1 /\ Len(p) \in Nat
      BY <3>2, AppendIs DEF IsString
    <3>4. PICK longer : longer = Append(p, item)
      OBVIOUS
    <3>5. IsString(longer) /\ Len(longer) > 0
      BY <3>3, <3>4
    <3>6. f[k].proof = longer
      BY <3>1, <3>4
    <3> QED
      BY <3>5, <3>6
  <2>4. CASE ~(Len(nodes) > 1)
    <3>1. f[k] = f[k - 1]
      BY <2>1, <2>2, <2>4 DEF Ascend
    <3>2. k # 1
      <4>1. f[0] = StartPath(list, i)
        BY <1>2 DEF IsPath
      <4>2. Len(LeafHashes(list)) = N
        BY <1>1, LeafHashesLevel
      <4> QED
        BY <1>1, <2>1, <2>4, <4>1, <4>2 DEF StartPath
    <3>3. Fine(f[k - 1].proof)
      BY <1>4, <3>2
    <3> QED
      BY <3>1, <3>3
  <2> QED
    BY <2>3, <2>4
<1>5. 0 .. N \subseteq S
  <2> HIDE DEF S
  <2>1. StaysIn(S, N)
    BY <1>4 DEF StaysIn
  <2> QED
    BY <1>3, <2>1, InductionUpTo
<1>6. Fine(f[N].proof)
  BY <1>1, <1>5
<1>7. Len(generateMerkleProof(list, i)) > 0
  BY <1>1, <1>2, <1>6 DEF IsPath
<1> QED
  BY <1>7

-----------------------------------------------------------------------------
(* What is stored of a witness: the commitment to its data, and a proof of *)
(* some batch or none.                                                     *)
IsWitness(w, id) ==
    /\ w = [data |-> w.data, salt |-> w.salt, commitment |-> w.commitment,
            root |-> w.root, proof |-> w.proof, index |-> w.index]
    /\ w.salt = SaltOf(id, w.data)
    /\ w.commitment = fallback_commitment(WitnessData(id, w.data), w.salt)
    /\ IsProof(w.proof)

LEMMA CreatedIs ==
    ASSUME NEW id, NEW data
    PROVE  IsWitness(CreateBacked(id, data), id) /\ CreateBacked(id, data).data = data
<1>1. PICK w, salt, commitment, none :
          /\ w = CreateBacked(id, data) /\ salt = SaltOf(id, data) /\ none = None
          /\ commitment = fallback_commitment(WitnessData(id, data), salt)
  OBVIOUS
<1>2. w = [data |-> data, salt |-> salt, commitment |-> commitment,
           root |-> none, proof |-> none, index |-> NoIndex]
  BY <1>1 DEF CreateBacked
<1>3. /\ w.data = data /\ w.salt = salt /\ w.commitment = commitment
      /\ w.root = none /\ w.proof = none /\ w.index = NoIndex
  BY <1>2
<1>4. IsProof(none)
  BY <1>1 DEF None, IsProof, IsString
<1> QED
  BY <1>1, <1>2, <1>3, <1>4 DEF IsWitness

LEMMA ProvedIs ==
    ASSUME NEW id, NEW w, IsWitness(w, id), NEW list, NEW i,
           NEW r, r = merkleRoot(list), NEW p, p = generateMerkleProof(list, i),
           IsProof(p), NEW n, n = Proved(w, list, i)
    PROVE  /\ IsWitness(n, id)
           /\ n.data = w.data /\ n.commitment = w.commitment
           /\ n.root = r /\ n.proof = p /\ n.index = i
<1>1. PICK data, salt, commitment, root, proof, index :
          w = [data |-> data, salt |-> salt, commitment |-> commitment,
               root |-> root, proof |-> proof, index |-> index]
  BY DEF IsWitness
<1>2. w.data = data /\ w.salt = salt /\ w.commitment = commitment
  BY <1>1
<1>3. n = [data |-> data, salt |-> salt, commitment |-> commitment,
           root |-> r, proof |-> p, index |-> i]
  BY <1>1 DEF Proved
<1>4. /\ n.data = data /\ n.salt = salt /\ n.commitment = commitment
      /\ n.root = r /\ n.proof = p /\ n.index = i
  <2>1. PICK q : q = [data |-> data, salt |-> salt, commitment |-> commitment,
                      root |-> r, proof |-> p, index |-> i]
    OBVIOUS
  <2>2. /\ q.data = data /\ q.salt = salt /\ q.commitment = commitment
        /\ q.root = r /\ q.proof = p /\ q.index = i
    BY <2>1
  <2>3. n = q
    BY <1>3, <2>1
  <2> QED
    BY <2>2, <2>3
<1>5. /\ salt = SaltOf(id, data)
      /\ commitment = fallback_commitment(WitnessData(id, data), salt)
  BY <1>2 DEF IsWitness
<1> QED
  BY <1>2, <1>3, <1>4, <1>5 DEF IsWitness

-----------------------------------------------------------------------------
(* The leaves of a batch of witnesses.                                     *)
LEMMA LeavesAlike ==
    ASSUME NEW ids, NEW s, NEW t,
           \A i \in 1 .. Len(ids) : s[ids[i]].commitment = t[ids[i]].commitment
    PROVE  LeavesOf(s, ids) = LeavesOf(t, ids)
BY DEF LeavesOf, LeafOf

LEMMA LeafTells ==
    ASSUME NEW s, NEW t, NEW a, NEW b, LeafOf(s, a) = LeafOf(t, b)
    PROVE  a = b /\ s[a].commitment = t[b].commitment
<1>1. PICK x, y : /\ x = [commitment |-> s[a].commitment, witness_id |-> a]
                  /\ y = [commitment |-> t[b].commitment, witness_id |-> b]
  OBVIOUS
<1>2. << <<"json", x>> >> = << <<"json", y>> >>
  BY <1>1 DEF LeafOf, Json
<1>3. PICK p, q : p = <<"json", x>> /\ q = <<"json", y>>
  OBVIOUS
<1>4. <<p>>[1] = p /\ <<q>>[1] = q /\ p[2] = x /\ q[2] = y
  BY <1>3
<1>5. x = y
  BY <1>2, <1>3, <1>4
<1>6. x.commitment = y.commitment /\ x.witness_id = y.witness_id
  BY <1>5
<1> QED
  BY <1>1, <1>6

LEMMA LeavesBatch ==
    ASSUME NEW s, NEW ids, Len(ids) \in Nat, Len(ids) > 0
    PROVE  /\ IsBatch(LeavesOf(s, ids)) /\ Len(LeavesOf(s, ids)) = Len(ids)
           /\ \A i \in 1 .. Len(ids) : LeavesOf(s, ids)[i] = LeafOf(s, ids[i])
<1>1. PICK n \in Nat : n = Len(ids) /\ n > 0
  OBVIOUS
<1>2. PICK f : f = [i \in 1 .. n |-> LeafOf(s, ids[i])]
  OBVIOUS
<1>3. f = LeavesOf(s, ids)
  BY <1>1, <1>2 DEF LeavesOf
<1>4. f = [i \in 1 .. n |-> f[i]]
  BY <1>2
<1>5. Len(f) = n /\ IsString(f)
  BY <1>4, LengthIs
<1>6. \A x : IsString(LeafOf(s, x))
  BY DEF LeafOf, Json, IsString
<1>7. \A i \in 1 .. n : f[i] = LeafOf(s, ids[i])
  BY <1>2
<1> QED
  BY <1>1, <1>3, <1>5, <1>6, <1>7 DEF IsBatch

(* The last place of a member.                                             *)
LastPlace(ids, id, i) ==
    i \in 1 .. Len(ids) /\ ids[i] = id /\ \A j \in i + 1 .. Len(ids) : ids[j] # id

LEMMA LastPlaceExists ==
    ASSUME NEW ids, Len(ids) \in Nat, NEW id, Contains(ids, id)
    PROVE  \E i : LastPlace(ids, id, i)
<1>1. PICK n \in Nat : n = Len(ids)
  OBVIOUS
<1> DEFINE S == {k \in 0 .. n : k < n /\ ids[n - k] = id}
<1>2. S # {}
  <2>1. PICK i \in 1 .. n : ids[i] = id
    BY <1>1 DEF Contains
  <2>2. n - i \in 0 .. n /\ n - i < n /\ n - (n - i) = i
    OBVIOUS
  <2> QED
    BY <2>1, <2>2
<1>3. PICK k \in S : \A l \in S : k <= l
  <2>1. S \in SUBSET Nat
    OBVIOUS
  <2> HIDE DEF S
  <2> QED
    BY <1>2, <2>1, LeastExists
<1>4. n - k \in 1 .. n /\ ids[n - k] = id
  BY <1>3
<1>5. ASSUME NEW j \in n - k + 1 .. n, ids[j] = id
      PROVE  FALSE
  <2>1. n - j \in 0 .. n /\ n - j < n /\ n - (n - j) = j /\ n - j < k
    BY <1>3, <1>4
  <2>2. n - j \in S
    BY <1>5, <2>1
  <2> QED
    BY <1>3, <2>1, <2>2
<1> QED
  BY <1>1, <1>4, <1>5 DEF LastPlace

(* The proof of the place of a witness in a batch, and the root.           *)
HasProof(s, ids, id) ==
    /\ s[id].root = merkleRoot(LeavesOf(s, ids))
    /\ \E i \in 1 .. Len(ids) :
           /\ ids[i] = id /\ s[id].index = i
           /\ s[id].proof = generateMerkleProof(LeavesOf(s, ids), i)

LEMMA HasProofVerifies ==
    ASSUME NEW s, NEW ids, Len(ids) \in Nat, Len(ids) > 1, NEW id, HasProof(s, ids, id)
    PROVE  /\ s[id].proof # None /\ s[id].index # NoIndex
           /\ verifyMerkleProof(LeafOf(s, id), s[id].proof, merkleRoot(LeavesOf(s, ids)))
<1>1. PICK i \in 1 .. Len(ids) :
          /\ ids[i] = id /\ s[id].index = i
          /\ s[id].proof = generateMerkleProof(LeavesOf(s, ids), i)
  BY DEF HasProof
<1>2. PICK list : list = LeavesOf(s, ids)
  OBVIOUS
<1>3. IsBatch(list) /\ Len(list) = Len(ids) /\ list[i] = LeafOf(s, id)
  BY <1>1, <1>2, LeavesBatch
<1>4. RootOf(list[i], generateMerkleProof(list, i)) = merkleRoot(list)
  BY <1>3, ProofLeads
<1>5. generateMerkleProof(list, i) # << >>
  BY <1>3, ProofNotEmpty
<1> QED
  BY <1>1, <1>2, <1>3, <1>4, <1>5 DEF verifyMerkleProof, None, NoIndex

-----------------------------------------------------------------------------
(* What giving a batch its proofs does to the witnesses.                   *)
AllWitnesses(s) == \A id \in DOMAIN s : IsWitness(s[id], id)

LEMMA UpdateIs ==
    ASSUME NEW s, AllWitnesses(s), NEW ids \in Seq(DOMAIN s), ids # << >>,
           NEW t, t = UpdateProofs(s, ids)
    PROVE  /\ DOMAIN t = DOMAIN s /\ AllWitnesses(t)
           /\ \A id \in DOMAIN s :
                  /\ t[id].data = s[id].data /\ t[id].commitment = s[id].commitment
                  /\ Contains(ids, id) \/ t[id] = s[id]
           /\ Len(ids) > 1 => \A i \in 1 .. Len(ids) : HasProof(t, ids, ids[i])
<1>1. PICK n \in Nat : n = Len(ids) /\ n > 0
  OBVIOUS
<1>2. CASE n < 2
  <2>1. t = s
    BY <1>1, <1>2 DEF UpdateProofs
  <2> QED
    BY <1>1, <1>2, <2>1 DEF AllWitnesses
<1>3. CASE n > 1
  <2>1. PICK list, root : list = LeavesOf(s, ids) /\ root = merkleRoot(list)
    OBVIOUS
  <2>2. IsBatch(list) /\ Len(list) = n
    BY <1>1, <2>1, LeavesBatch
  <2>3. \A id \in DOMAIN s :
           /\ ~Contains(ids, id) => t[id] = s[id]
           /\ Contains(ids, id) => t[id] = Proved(s[id], list, LastPlaceOf(ids, id))
    BY <1>1, <1>3, <2>1 DEF UpdateProofs
  <2>4. \A id : Contains(ids, id) => LastPlace(ids, id, LastPlaceOf(ids, id))
    BY <1>1, LastPlaceExists DEF LastPlaceOf, LastPlace
  <2>5. ASSUME NEW id \in DOMAIN s, ~Contains(ids, id)
        PROVE  t[id] = s[id]
    BY <2>3, <2>5
  <2>6. ASSUME NEW id \in DOMAIN s, Contains(ids, id)
        PROVE  /\ IsWitness(t[id], id)
               /\ t[id].data = s[id].data /\ t[id].commitment = s[id].commitment
               /\ t[id].root = root
               /\ \E i \in 1 .. n : /\ ids[i] = id /\ t[id].index = i
                                    /\ t[id].proof = generateMerkleProof(list, i)
    <3>1. PICK i, p, w, x : /\ i = LastPlaceOf(ids, id) /\ p = generateMerkleProof(list, i)
                            /\ w = s[id] /\ x = t[id]
      OBVIOUS
    <3>2. i \in 1 .. n /\ ids[i] = id
      BY <1>1, <2>4, <2>6, <3>1 DEF LastPlace
    <3>3. IsProof(p)
      BY <2>2, <3>1, <3>2, ProofLeads
    <3>4. x = Proved(w, list, i)
      BY <2>3, <2>6, <3>1
    <3>5. IsWitness(w, id)
      BY <3>1 DEF AllWitnesses
    <3>6. /\ IsWitness(x, id) /\ x.data = w.data /\ x.commitment = w.commitment
          /\ x.root = root /\ x.proof = p /\ x.index = i
      BY <2>1, <3>1, <3>3, <3>4, <3>5, ProvedIs
    <3> QED
      BY <3>1, <3>2, <3>6
  <2>7. DOMAIN t = DOMAIN s
    BY <1>1, <1>3 DEF UpdateProofs
  <2>8. AllWitnesses(t)
    BY <2>5, <2>6, <2>7 DEF AllWitnesses
  <2>9. LeavesOf(t, ids) = list
    <3>1. \A i \in 1 .. Len(ids) : t[ids[i]].commitment = s[ids[i]].commitment
      BY <2>5, <2>6
    <3> QED
      BY <2>1, <3>1, LeavesAlike
  <2>10. ASSUME NEW i \in 1 .. n
         PROVE  HasProof(t, ids, ids[i])
    <3>1. ids[i] \in DOMAIN s /\ Contains(ids, ids[i])
      BY <1>1 DEF Contains
    <3>2. PICK id : id = ids[i]
      OBVIOUS
    <3>3. /\ t[id].root = root
          /\ \E j \in 1 .. n : /\ ids[j] = id /\ t[id].index = j
                               /\ t[id].proof = generateMerkleProof(list, j)
      BY <2>6, <3>1, <3>2
    <3>4. HasProof(t, ids, id)
      BY <1>1, <2>1, <2>9, <3>3 DEF HasProof
    <3> QED
      BY <3>2, <3>4
  <2> QED
    BY <1>1, <2>5, <2>6, <2>7, <2>8, <2>10
<1> QED
  BY <1>1, <1>2, <1>3

-----------------------------------------------------------------------------
(* The invariant of the registry, as a relation of the witnesses, the      *)
(* batches and the places: a batch whose members were all placed in it     *)
(* last has given them the proofs for the commitments they have now.       *)
Given(W, B, P, b) ==
    (\A i \in 1 .. Len(B[b]) : P[B[b][i]] = b) /\ Len(B[b]) > 1
        => \A i \in 1 .. Len(B[b]) : HasProof(W, B[b], B[b][i])

Consistent(W, B, P) ==
    /\ AllWitnesses(W)
    /\ DOMAIN B \subseteq Batches
    /\ \A b \in DOMAIN B : B[b] \in Seq(DOMAIN W) /\ B[b] # << >>
    /\ \A b \in DOMAIN B : Given(W, B, P, b)

(* A registration, as a relation of the same.                              *)
Stored(W, id, data) == With(W, id, CreateBacked(id, data))
Extended(B, batch, id) ==
    Append(IF batch \in DOMAIN B THEN B[batch] ELSE << >>, id)

Registered(W, B, P, W2, B2, P2, id, data, batch) ==
    /\ \/ batch = None /\ W2 = Stored(W, id, data) /\ B2 = B
       \/ /\ batch # None
          /\ W2 = UpdateProofs(Stored(W, id, data), Extended(B, batch, id))
          /\ B2 = With(B, batch, Extended(B, batch, id))
    /\ P2 = [x \in DOMAIN Stored(W, id, data) |->
               IF x = id \/ (batch # None /\ Contains(Extended(B, batch, id), x))
               THEN batch ELSE P[x]]

(* The witness is the only one that is new.                                *)
StoredIn(s, W, id, data) ==
    /\ DOMAIN s = DOMAIN W \cup {id} /\ AllWitnesses(s) /\ s[id].data = data
    /\ \A x \in DOMAIN W : x # id => s[x] = W[x]

LEMMA StoredIs ==
    ASSUME NEW W, NEW id, NEW data, AllWitnesses(W)
    PROVE  StoredIn(Stored(W, id, data), W, id, data)
<1>0. PICK s : s = Stored(W, id, data)
  OBVIOUS
<1>1. PICK w : w = CreateBacked(id, data) /\ IsWitness(w, id) /\ w.data = data
  BY CreatedIs
<1>2. s = [x \in DOMAIN W \cup {id} |-> IF x = id THEN w ELSE W[x]]
  BY <1>0, <1>1 DEF Stored, With
<1>3. s[id] = w
  BY <1>2
<1>4. StoredIn(s, W, id, data)
  BY <1>1, <1>2, <1>3 DEF AllWitnesses, StoredIn
<1> QED
  BY <1>0, <1>4

(* A batch none of whose members is concerned keeps what it has given.     *)
LEMMA GivenStays ==
    ASSUME NEW W, NEW B, NEW P, NEW W2, NEW B2, NEW P2, NEW b,
           B2[b] = B[b], Given(W, B, P, b),
           \A i \in 1 .. Len(B[b]) : /\ W2[B[b][i]] = W[B[b][i]]
                                     /\ P2[B[b][i]] = P[B[b][i]]
    PROVE  Given(W2, B2, P2, b)
<1>1. PICK ids : ids = B[b]
  OBVIOUS
<1>2. LeavesOf(W2, ids) = LeavesOf(W, ids)
  BY <1>1, LeavesAlike
<1>3. \A i \in 1 .. Len(ids) : HasProof(W, ids, ids[i]) => HasProof(W2, ids, ids[i])
  BY <1>1, <1>2 DEF HasProof
<1> QED
  BY <1>1, <1>3 DEF Given

LEMMA RegisteredStaysConsistent ==
    ASSUME NEW W, NEW B, NEW P, NEW W2, NEW B2, NEW P2, NEW id, NEW data,
           NEW batch \in Batches \cup {None}, Consistent(W, B, P),
           Registered(W, B, P, W2, B2, P2, id, data, batch)
    PROVE  /\ Consistent(W2, B2, P2)
           /\ DOMAIN W2 = DOMAIN W \cup {id}
           /\ \A x \in DOMAIN W : x # id => W2[x].data = W[x].data
<1>1. PICK s : s = Stored(W, id, data)
  OBVIOUS
<1>2. PICK ids : ids = Extended(B, batch, id)
  OBVIOUS
<1>3. /\ DOMAIN s = DOMAIN W \cup {id} /\ AllWitnesses(s)
      /\ \A x \in DOMAIN W : x # id => s[x] = W[x]
  <2>1. AllWitnesses(W)
    BY DEF Consistent
  <2>2. StoredIn(s, W, id, data)
    BY <1>1, <2>1, StoredIs
  <2> QED
    BY <2>2 DEF StoredIn
<1>4. P2 = [x \in DOMAIN s |-> IF x = id \/ (batch # None /\ Contains(ids, x))
                               THEN batch ELSE P[x]]
  BY <1>1, <1>2 DEF Registered
<1>5. \A b \in DOMAIN B : /\ B[b] \in Seq(DOMAIN W) /\ B[b] \in Seq(DOMAIN s)
                          /\ B[b] # << >>
  <2>1. \A b \in DOMAIN B : B[b] \in Seq(DOMAIN W) /\ B[b] # << >>
    BY DEF Consistent
  <2>2. ASSUME NEW b \in DOMAIN B
        PROVE  B[b] \in Seq(DOMAIN s)
    BY <1>3, <2>1
  <2> QED
    BY <2>1, <2>2
<1>6. CASE batch = None
  <2>1. W2 = s /\ B2 = B
    BY <1>1, <1>6 DEF Registered
  <2>2. ASSUME NEW b \in DOMAIN B
        PROVE  Given(s, B, P2, b)
    <3>1. CASE \E i \in 1 .. Len(B[b]) : B[b][i] = id
      <4>1. PICK i \in 1 .. Len(B[b]) : B[b][i] = id
        BY <3>1
      <4>2. P2[id] = None
        BY <1>3, <1>4, <1>6
      <4>3. b # None
        BY NoneAssumption DEF Consistent
      <4> QED
        BY <4>1, <4>2, <4>3 DEF Given
    <3>2. CASE \A i \in 1 .. Len(B[b]) : B[b][i] # id
      <4>1. \A i \in 1 .. Len(B[b]) : B[b][i] \in DOMAIN W
        BY <1>5
      <4>2. \A i \in 1 .. Len(B[b]) : /\ s[B[b][i]] = W[B[b][i]]
                                      /\ P2[B[b][i]] = P[B[b][i]]
        BY <1>3, <1>4, <1>6, <3>2, <4>1
      <4>3. Given(W, B, P, b)
        BY DEF Consistent
      <4> QED
        BY <4>2, <4>3, GivenStays
    <3> QED
      BY <3>1, <3>2
  <2> QED
    BY <1>3, <1>5, <2>1, <2>2 DEF Consistent
<1>7. CASE batch # None
  <2>1. W2 = UpdateProofs(s, ids) /\ B2 = With(B, batch, ids) /\ batch \in Batches
    BY <1>1, <1>2, <1>7 DEF Registered
  <2>2. /\ ids \in Seq(DOMAIN s) /\ ids # << >> /\ Contains(ids, id)
    <3>1. PICK old : old = IF batch \in DOMAIN B THEN B[batch] ELSE << >>
      OBVIOUS
    <3>2. old \in Seq(DOMAIN s) /\ id \in DOMAIN s
      BY <1>3, <1>5, <3>1
    <3>3. ids = Append(old, id)
      BY <1>2, <3>1 DEF Extended
    <3>4. /\ ids \in Seq(DOMAIN s) /\ Len(ids) = Len(old) + 1 /\ Len(old) \in Nat
          /\ ids[Len(old) + 1] = id
      BY <3>2, <3>3
    <3>5. Len(old) + 1 \in 1 .. Len(ids)
      BY <3>4
    <3> QED
      BY <3>4, <3>5 DEF Contains
  <2>3. /\ DOMAIN W2 = DOMAIN s /\ AllWitnesses(W2)
        /\ \A x \in DOMAIN s :
               /\ W2[x].data = s[x].data
               /\ Contains(ids, x) \/ W2[x] = s[x]
        /\ Len(ids) > 1 => \A i \in 1 .. Len(ids) : HasProof(W2, ids, ids[i])
    BY <1>3, <2>1, <2>2, UpdateIs
  <2>4. /\ DOMAIN B2 = DOMAIN B \cup {batch} /\ B2[batch] = ids
        /\ \A b \in DOMAIN B : b # batch => B2[b] = B[b]
    BY <2>1 DEF With
  <2>5. ASSUME NEW b \in DOMAIN B, b # batch
        PROVE  Given(W2, B2, P2, b)
    <3>1. CASE \E i \in 1 .. Len(B[b]) : Contains(ids, B[b][i])
      <4>1. PICK i \in 1 .. Len(B[b]) : Contains(ids, B[b][i])
        BY <3>1
      <4>2. B[b][i] \in DOMAIN s
        BY <1>5
      <4>3. P2[B[b][i]] = batch
        BY <1>4, <1>7, <4>1, <4>2
      <4> QED
        BY <2>4, <2>5, <4>1, <4>3 DEF Given
    <3>2. CASE \A i \in 1 .. Len(B[b]) : ~Contains(ids, B[b][i])
      <4>1. \A i \in 1 .. Len(B[b]) : B[b][i] \in DOMAIN W /\ B[b][i] # id
        BY <1>5, <2>2, <3>2
      <4>2. \A i \in 1 .. Len(B[b]) : /\ W2[B[b][i]] = W[B[b][i]]
                                      /\ P2[B[b][i]] = P[B[b][i]]
        BY <1>3, <1>4, <2>3, <3>2, <4>1
      <4>3. Given(W, B, P, b)
        BY DEF Consistent
      <4> QED
        BY <2>4, <2>5, <4>2, <4>3, GivenStays
    <3> QED
      BY <3>1, <3>2
  <2>6. Given(W2, B2, P2, batch)
    BY <2>3, <2>4 DEF Given
  <2>7. \A b \in DOMAIN B2 : Given(W2, B2, P2, b)
    BY <2>4, <2>5, <2>6
  <2>8. \A b \in DOMAIN B2 : B2[b] \in Seq(DOMAIN W2) /\ B2[b] # << >>
    BY <1>5, <2>2, <2>3, <2>4
  <2>9. DOMAIN B2 \subseteq Batches
    BY <2>1, <2>4 DEF Consistent
  <2> QED
    BY <1>3, <2>3, <2>7, <2>8, <2>9 DEF Consistent
<1> QED
  BY <1>6, <1>7

-----------------------------------------------------------------------------
RegistryInv == Consistent(witnesses, merkle_batches, placedIn)

RegistryAct ==
    \E id \in WitnessIds, data \in Data, batch \in Batches \cup {None} :
        Registered(witnesses, merkle_batches, placedIn,
                   witnesses', merkle_batches', placedIn', id, data, batch)

LEMMA NextRegisters == Next => RegistryAct
<1> SUFFICES ASSUME NEW id \in WitnessIds, NEW data \in Data,
                    NEW batch \in Batches \cup {None},
                    NEW identity \in Identities \cup {None},
                    register_ace_witness(id, data, batch, identity)
             PROVE  RegistryAct
  BY DEF Next
<1>1. PICK stored, ids : /\ stored = Stored(witnesses, id, data)
                         /\ ids = Extended(merkle_batches, batch, id)
  OBVIOUS
<1>2. /\ stored = With(witnesses, id, CreateBacked(id, data))
      /\ ids = Append(MembersOf(batch), id)
  BY <1>1 DEF Stored, Extended, MembersOf
<1>3. /\ \/ batch = None /\ witnesses' = stored /\ merkle_batches' = merkle_batches
         \/ /\ batch # None /\ witnesses' = UpdateProofs(stored, ids)
            /\ merkle_batches' = With(merkle_batches, batch, ids)
      /\ placedIn' = [x \in DOMAIN stored |->
                        IF x = id \/ (batch # None /\ Contains(ids, x))
                        THEN batch ELSE placedIn[x]]
  BY <1>2 DEF register_ace_witness, register_witness
<1>4. Registered(witnesses, merkle_batches, placedIn,
                 witnesses', merkle_batches', placedIn', id, data, batch)
  BY <1>1, <1>3 DEF Registered
<1> QED
  BY <1>4 DEF RegistryAct

LEMMA Registry == Spec => []RegistryInv
<1>1. Init => RegistryInv
  BY DEF Init, RegistryInv, Consistent, AllWitnesses, Empty
<1>2. RegistryInv /\ [Next]_vars => RegistryInv'
  <2>1. ASSUME RegistryInv, Next PROVE RegistryInv'
    <3>1. PICK id, data, batch :
              /\ batch \in Batches \cup {None}
              /\ Registered(witnesses, merkle_batches, placedIn,
                            witnesses', merkle_batches', placedIn', id, data, batch)
      BY <2>1, NextRegisters DEF RegistryAct
    <3>2. PICK W, B, P, W2, B2, P2 :
              /\ W = witnesses /\ B = merkle_batches /\ P = placedIn
              /\ W2 = witnesses' /\ B2 = merkle_batches' /\ P2 = placedIn'
      OBVIOUS
    <3>3. Consistent(W, B, P) /\ Registered(W, B, P, W2, B2, P2, id, data, batch)
      BY <2>1, <3>1, <3>2 DEF RegistryInv
    <3>4. Consistent(W2, B2, P2)
      BY <3>1, <3>3, RegisteredStaysConsistent
    <3> QED
      BY <3>2, <3>4 DEF RegistryInv
  <2>2. ASSUME RegistryInv, UNCHANGED vars PROVE RegistryInv'
    BY <2>2 DEF RegistryInv, vars
  <2> QED
    BY <2>1, <2>2
<1> QED
  BY <1>1, <1>2, PTL DEF Spec

(* What the code asks of a witness, as a relation of the witnesses and a   *)
(* root that is there.                                                     *)
Verifies(W, id, root) ==
    /\ id \in DOMAIN W
    /\ verifyCommitment(W[id].commitment, WitnessData(id, W[id].data), W[id].salt)
    /\ W[id].proof # None /\ W[id].index # NoIndex
    /\ verifyMerkleProof(LeafOf(W, id), W[id].proof, root)

LEMMA BatchRootIsNode == \A list : IsBatch(list) => IsNode(merkleRoot(list))
<1> SUFFICES ASSUME NEW list, IsBatch(list) PROVE IsNode(merkleRoot(list))
  OBVIOUS
<1>1. PICK n \in Nat : n = Len(list)
  BY DEF IsBatch, IsString
<1>2. PICK f : IsLevels(f, list)
  BY <1>1, LevelsLoop
<1>3. IsNode(f[n][1])
  <2>1. IsLevel(f[n]) /\ Len(f[n]) = 1
    BY <1>1, <1>2, LevelsShape
  <2> QED
    BY <2>1 DEF IsLevel
<1> QED
  BY <1>1, <1>2, <1>3 DEF IsLevels

LEMMA RootIsNode ==
    ASSUME NEW list, IsBatch(list)
    PROVE  merkleRoot(list) # None
<1>1. PICK a, b : merkleRoot(list) = <<a, b>>
  BY BatchRootIsNode DEF IsNode, HashOf
<1> QED
  BY <1>1 DEF None

(* However often witnesses were registered, again or anew, in whichever    *)
(* batches, every member of a batch of two or more that was not touched    *)
(* elsewhere since verifies against its root.                              *)
THEOREM SettledBatchesVerify == Spec => []SettledBatchVerifies
<1>1. RegistryInv => SettledBatchVerifies
  <2> SUFFICES ASSUME RegistryInv, NEW b \in DOMAIN merkle_batches, Settled(b),
                      Len(MembersOf(b)) >= 2, NEW i \in 1 .. Len(MembersOf(b))
               PROVE  /\ verify_ace_witness(MembersOf(b)[i], get_batch_root(b))
                      /\ witnesses[MembersOf(b)[i]].root = get_batch_root(b)
    BY DEF SettledBatchVerifies
  <2>1. PICK W, B, P, ids, id :
            /\ W = witnesses /\ B = merkle_batches /\ P = placedIn
            /\ ids = MembersOf(b) /\ id = ids[i]
    OBVIOUS
  <2>2. Consistent(W, B, P) /\ b \in DOMAIN B /\ B[b] = ids
    BY <2>1 DEF RegistryInv, MembersOf
  <2>3. /\ AllWitnesses(W) /\ Given(W, B, P, b)
        /\ ids \in Seq(DOMAIN W) /\ ids # << >>
    BY <2>2 DEF Consistent
  <2>4. \A j \in 1 .. Len(ids) : P[ids[j]] = b
    BY <2>1 DEF Settled
  <2>5. Len(ids) \in Nat /\ Len(ids) > 1 /\ i \in 1 .. Len(ids)
    BY <2>1, <2>3
  <2>6. HasProof(W, ids, id)
    BY <2>1, <2>2, <2>3, <2>4, <2>5 DEF Given
  <2>7. get_batch_root(b) = merkleRoot(LeavesOf(W, ids))
    BY <2>1, <2>3 DEF get_batch_root
  <2>8. id \in DOMAIN W
    BY <2>1, <2>3, <2>5
  <2>9. /\ W[id].proof # None /\ W[id].index # NoIndex
        /\ verifyMerkleProof(LeafOf(W, id), W[id].proof, merkleRoot(LeavesOf(W, ids)))
    BY <2>5, <2>6, HasProofVerifies
  <2>10. W[id].commitment = fallback_commitment(WitnessData(id, W[id].data), W[id].salt)
    BY <2>3, <2>8 DEF AllWitnesses, IsWitness
  <2>11. verify_witness(id, get_batch_root(b))
    BY <2>1, <2>7, <2>8, <2>9, <2>10
       DEF verify_witness, verify_integrity, verify_batch_membership, verifyCommitment
  <2>12. W[id].root = get_batch_root(b)
    BY <2>6, <2>7 DEF HasProof
  <2> QED
    BY <2>1, <2>11, <2>12 DEF verify_ace_witness
<1> QED
  BY <1>1, Registry, PTL

(* A witness that is led to the root of a batch by what is stored with it  *)
(* is in the batch, under its commitment.                                  *)
LEMMA VerifiedIsIn ==
    ASSUME NEW W, NEW V, NEW id, NEW ids, Len(ids) \in Nat, Len(ids) > 0,
           IsProof(W[id].proof),
           verifyMerkleProof(LeafOf(W, id), W[id].proof, merkleRoot(LeavesOf(V, ids)))
    PROVE  \E i \in 1 .. Len(ids) : /\ ids[i] = id
                                    /\ V[id].commitment = W[id].commitment
<1>1. PICK list, leaf, proof : /\ list = LeavesOf(V, ids) /\ leaf = LeafOf(W, id)
                               /\ proof = W[id].proof
  OBVIOUS
<1>2. IsBatch(list) /\ Len(list) = Len(ids)
  BY <1>1, LeavesBatch
<1>3. IsString(leaf)
  BY <1>1 DEF LeafOf, Json, IsString
<1>4. In(leaf, list)
  BY <1>1, <1>2, <1>3, OnlyLeavesVerify DEF verifyMerkleProof
<1>5. PICK i \in 1 .. Len(ids) : leaf = list[i]
  BY <1>2, <1>4 DEF In
<1>6. LeafOf(W, id) = LeafOf(V, ids[i])
  BY <1>1, <1>5, LeavesBatch
<1>7. id = ids[i] /\ W[id].commitment = V[ids[i]].commitment
  BY <1>6, LeafTells
<1> QED
  BY <1>7

(* The root of a batch.                                                    *)
LEMMA BatchRoot ==
    ASSUME RegistryInv, NEW b \in DOMAIN merkle_batches
    PROVE  /\ merkle_batches[b] \in Seq(DOMAIN witnesses) /\ merkle_batches[b] # << >>
           /\ MembersOf(b) = merkle_batches[b]
           /\ get_batch_root(b) = merkleRoot(LeavesOf(witnesses, merkle_batches[b]))
           /\ get_batch_root(b) # None
<1>1. merkle_batches[b] \in Seq(DOMAIN witnesses) /\ merkle_batches[b] # << >>
  BY DEF RegistryInv, Consistent
<1>2. MembersOf(b) = merkle_batches[b]
  BY DEF MembersOf
<1>3. get_batch_root(b) = merkleRoot(LeavesOf(witnesses, merkle_batches[b]))
  BY <1>1, <1>2 DEF get_batch_root
<1>4. Len(merkle_batches[b]) \in Nat /\ Len(merkle_batches[b]) > 0
  BY <1>1
<1>5. IsBatch(LeavesOf(witnesses, merkle_batches[b]))
  BY <1>4, LeavesBatch
<1> QED
  BY <1>1, <1>2, <1>3, <1>5, RootIsNode

(* Only the members of a batch verify against its root.                    *)
THEOREM OnlyMembersVerify == Spec => []VerifiedIsMember
<1>1. RegistryInv => VerifiedIsMember
  <2> SUFFICES ASSUME RegistryInv, NEW id \in WitnessIds,
                      NEW b \in DOMAIN merkle_batches,
                      verify_witness(id, get_batch_root(b))
               PROVE  Contains(MembersOf(b), id)
    BY DEF VerifiedIsMember
  <2>1. /\ merkle_batches[b] \in Seq(DOMAIN witnesses) /\ merkle_batches[b] # << >>
        /\ MembersOf(b) = merkle_batches[b]
        /\ get_batch_root(b) = merkleRoot(LeavesOf(witnesses, merkle_batches[b]))
        /\ get_batch_root(b) # None
    BY BatchRoot
  <2>2. PICK W, ids : W = witnesses /\ ids = merkle_batches[b]
    OBVIOUS
  <2>3. /\ id \in DOMAIN W
        /\ verifyMerkleProof(LeafOf(W, id), W[id].proof, merkleRoot(LeavesOf(W, ids)))
    BY <2>1, <2>2 DEF verify_witness, verify_batch_membership
  <2>4. IsProof(W[id].proof)
    BY <2>2, <2>3 DEF RegistryInv, Consistent, AllWitnesses, IsWitness
  <2>5. Len(ids) \in Nat /\ Len(ids) > 0
    BY <2>1, <2>2
  <2>6. \E i \in 1 .. Len(ids) : ids[i] = id
    BY <2>3, <2>4, <2>5, VerifiedIsIn
  <2> QED
    BY <2>1, <2>2, <2>6 DEF Contains
<1> QED
  BY <1>1, Registry, PTL

(* Two commitments that are made for a witness are the same only for the   *)
(* same data.                                                              *)
LEMMA CommitmentsTell ==
    ASSUME NEW id, NEW w, IsWitness(w, id), NEW v, IsWitness(v, id),
           w.commitment = v.commitment
    PROVE  w.data = v.data
<1>1. PICK x, y : /\ x = [witness_id |-> id, data |-> w.data]
                  /\ y = [witness_id |-> id, data |-> v.data]
  OBVIOUS
<1>2. /\ IsString(WitnessData(id, w.data)) /\ IsString(WitnessData(id, v.data))
  BY DEF WitnessData, Json, IsString
<1>3. PICK r, q : SaltOf(id, w.data) = <<r>> /\ SaltOf(id, v.data) = <<q>>
  BY DEF SaltOf, sha256_hex
<1>4. fallback_commitment(WitnessData(id, w.data), <<r>>)
        = fallback_commitment(WitnessData(id, v.data), <<q>>)
  BY <1>3 DEF IsWitness
<1>5. WitnessData(id, w.data) = WitnessData(id, v.data)
  BY <1>2, <1>4, CommitmentTells
<1>6. << <<"json", x>> >> = << <<"json", y>> >>
  BY <1>1, <1>5 DEF WitnessData, Json
<1>7. PICK p, s : p = <<"json", x>> /\ s = <<"json", y>>
  OBVIOUS
<1>8. <<p>>[1] = p /\ <<s>>[1] = s /\ p[2] = x /\ s[2] = y
  BY <1>7
<1>9. x = y
  BY <1>6, <1>7, <1>8
<1>10. x.data = y.data
  BY <1>9
<1> QED
  BY <1>1, <1>10

(* A witness whose data has changed verifies against none of the roots it  *)
(* verified against before.                                                *)
THEOREM ChangesAreNoticed == Spec => ChangedDataIsNoticed
<1>1. RegistryInv /\ RegistryInv' /\ [Next]_vars =>
        \A id \in DOMAIN witnesses :
          \A root \in {get_batch_root(b) : b \in DOMAIN merkle_batches} :
             /\ verify_witness(id, root)
             /\ witnesses'[id].data # witnesses[id].data
             => ~verify_witness(id, root)'
  <2> SUFFICES ASSUME RegistryInv, RegistryInv', NEW id \in DOMAIN witnesses,
                      NEW b \in DOMAIN merkle_batches,
                      NEW root, root = get_batch_root(b),
                      witnesses'[id].data # witnesses[id].data,
                      verify_witness(id, root)'
               PROVE  FALSE
    OBVIOUS
  <2>1. PICK W, V, ids : W = witnesses' /\ V = witnesses /\ ids = merkle_batches[b]
    OBVIOUS
  <2>2. /\ ids \in Seq(DOMAIN V) /\ ids # << >>
        /\ root = merkleRoot(LeavesOf(V, ids)) /\ root # None
    BY <2>1, BatchRoot
  <2>3. /\ id \in DOMAIN W
        /\ verifyMerkleProof(LeafOf(W, id), W[id].proof, merkleRoot(LeavesOf(V, ids)))
    BY <2>1, <2>2 DEF verify_witness, verify_batch_membership, LeafOf
  <2>4. IsWitness(W[id], id)
    BY <2>1, <2>3 DEF RegistryInv, Consistent, AllWitnesses
  <2>5. IsWitness(V[id], id)
    BY <2>1 DEF RegistryInv, Consistent, AllWitnesses
  <2>6. Len(ids) \in Nat /\ Len(ids) > 0
    BY <2>2
  <2>7. V[id].commitment = W[id].commitment
    BY <2>3, <2>4, <2>6, VerifiedIsIn DEF IsWitness
  <2>8. W[id].data = V[id].data
    BY <2>4, <2>5, <2>7, CommitmentsTell
  <2> QED
    BY <2>1, <2>8
<1> QED
  BY <1>1, Registry, PTL DEF Spec, ChangedDataIsNoticed

-----------------------------------------------------------------------------
(* The filter of a list: f has what is kept of its first items.            *)
Keep(kept, item, field, value) ==
    IF item[field] = value THEN Append(kept, item) ELSE kept

IsFilter(f, list, field, value) ==
    /\ Having(list, field, value) = f[Len(list)]
    /\ f[0] = << >>
    /\ \A n \in 1 .. Len(list) : f[n] = Keep(f[n - 1], list[n], field, value)

LEMMA FilterLoop ==
    ASSUME NEW list, NEW field, NEW value, Len(list) \in Nat
    PROVE  \E f : IsFilter(f, list, field, value)
<1> DEFINE N == Len(list)
           Body(n, f) ==
               [k \in 0 .. n |->
                   IF k = 0 THEN << >> ELSE Keep(f[k - 1], list[k], field, value)]
           S == {n \in Nat : \E f : f = Body(n, f)}
<1>1. 0 \in S
  <2> DEFINE f == [k \in 0 .. 0 |-> << >>]
  <2>1. f = Body(0, f)
    OBVIOUS
  <2> QED
    BY <2>1
<1>2. ASSUME NEW n \in Nat, n \in S
      PROVE  n + 1 \in S
  <2>1. PICK f : f = Body(n, f)
    BY <1>2
  <2> DEFINE g == [k \in 0 .. n + 1 |->
                     IF k = n + 1 THEN Keep(f[n], list[n + 1], field, value) ELSE f[k]]
  <2>2. ASSUME NEW k \in 0 .. n + 1
        PROVE  g[k] = IF k = 0 THEN << >> ELSE Keep(g[k - 1], list[k], field, value)
    <3>1. CASE k = n + 1
      BY <3>1
    <3>2. CASE k = 0
      BY <2>1, <3>2
    <3>3. CASE k \in 1 .. n
      <4>1. g[k] = f[k] /\ g[k - 1] = f[k - 1]
        BY <3>3
      <4>2. f[k] = Keep(f[k - 1], list[k], field, value)
        BY <2>1, <3>3
      <4> QED
        BY <3>3, <4>1, <4>2
    <3> QED
      BY <3>1, <3>2, <3>3
  <2>3. g = Body(n + 1, g)
    BY <2>2
  <2> HIDE DEF g, Body
  <2> QED
    BY <2>3
<1>3. Nat \subseteq S
  <2> HIDE DEF S
  <2> QED
    BY <1>1, <1>2, NatSetInduction
<1> DEFINE loop == CHOOSE f : f = Body(N, f)
<1>4. loop = Body(N, loop)
  <2> HIDE DEF Body
  <2> QED
    BY <1>3
<1>5. Having(list, field, value) = loop[N]
  BY DEF Having, Keep
<1> HIDE DEF loop
<1>6. /\ loop[0] = << >>
      /\ \A k \in 1 .. N : loop[k] = Keep(loop[k - 1], list[k], field, value)
  BY <1>4
<1> QED
  BY <1>5, <1>6 DEF IsFilter

LEMMA FilterEmpty == \A field, value : Having(<< >>, field, value) = << >>
BY FilterLoop DEF IsFilter

(* What is kept are items of the list.                                     *)
LEMMA FilterType ==
    ASSUME NEW S, NEW list \in Seq(S), NEW field, NEW value
    PROVE  Having(list, field, value) \in Seq(S)
<1>1. PICK f : IsFilter(f, list, field, value)
  <2>1. Len(list) \in Nat
    OBVIOUS
  <2> QED
    BY <2>1, FilterLoop
<1> DEFINE K == {n \in Nat : f[n] \in Seq(S)}
           N == Len(list)
<1>2. 0 \in K
  <2>1. f[0] = << >> /\ << >> \in Seq(S)
    BY <1>1 DEF IsFilter
  <2> QED
    BY <2>1
<1>3. StaysIn(K, N)
  <2> SUFFICES ASSUME NEW n \in 1 .. N, f[n - 1] \in Seq(S)
               PROVE  f[n] \in Seq(S)
    BY DEF StaysIn
  <2>1. f[n] = Keep(f[n - 1], list[n], field, value) /\ list[n] \in S
    BY <1>1 DEF IsFilter
  <2> QED
    BY <2>1 DEF Keep
<1>4. N \in K
  <2> HIDE DEF K
  <2> QED
    BY <1>2, <1>3, InductionUpTo
<1> QED
  BY <1>1, <1>4 DEF IsFilter

(* One item more.                                                          *)
LEMMA FilterAppend ==
    ASSUME NEW S, NEW list \in Seq(S), NEW item \in S, NEW field, NEW value
    PROVE  Having(Append(list, item), field, value)
             = Keep(Having(list, field, value), item, field, value)
<1> DEFINE N == Len(list)
<1>1. PICK longer : longer = Append(list, item)
  OBVIOUS
<1>2. /\ N \in Nat /\ Len(longer) \in Nat /\ Len(longer) = N + 1 /\ longer[N + 1] = item
      /\ \A n \in 1 .. N : longer[n] = list[n]
  BY <1>1
<1>3. PICK f : IsFilter(f, list, field, value)
  BY <1>2, FilterLoop
<1>4. PICK g : IsFilter(g, longer, field, value)
  BY <1>2, FilterLoop
<1>5. f[0] = g[0] /\ StayAlike(f, g, N)
  BY <1>2, <1>3, <1>4 DEF IsFilter, StayAlike
<1>6. Alike(f, g, N)
  <2> HIDE DEF N
  <2> QED
    BY <1>2, <1>5, SameLoop
<1>7. f[N] = g[N]
  BY <1>6 DEF Alike
<1>8. g[N + 1] = Keep(g[N], item, field, value)
  BY <1>2, <1>4 DEF IsFilter
<1> QED
  BY <1>1, <1>2, <1>3, <1>4, <1>7, <1>8 DEF IsFilter

-----------------------------------------------------------------------------
(* The entries of the audit trail, beside the registrations they are of.   *)
Entries == {AuditEntry(identity, id) : identity \in Identities, id \in WitnessIds}

FieldsOf(list, field) == [i \in DOMAIN list |-> list[i][field]]
Tracked == {identified[i][1] : i \in DOMAIN identified}
EntriesOf(identity) ==
    Having(audit_trail, "identity_commitment", deriveIdentityCommitment(identity))
PairsOf(identity) == Having(identified, 1, identity)

(* The invariant: entry by entry the trail is what was registered, and for *)
(* every identity filtering the one keeps as much as filtering the other;  *)
(* there is one stored commitment for every identity.                      *)
TrailInv ==
    CRYPTO_AVAILABLE =>
        /\ audit_trail \in Seq(Entries) /\ identified \in Seq(Identities \X WitnessIds)
        /\ Len(audit_trail) = Len(identified)
        /\ Tracked \subseteq Identities
        /\ DOMAIN identity_commitments = {deriveIdentityCommitment(x) : x \in Tracked}
        /\ IsFiniteSet(Tracked) /\ IsFiniteSet(DOMAIN identity_commitments)
        /\ Cardinality(DOMAIN identity_commitments) = Cardinality(Tracked)
        /\ \A x \in Tracked :
              identity_commitments[deriveIdentityCommitment(x)]
                = deriveIdentityAuditHash(deriveIdentityCommitment(x))
        /\ \A identity \in Identities :
              /\ FieldsOf(EntriesOf(identity), "witness_id")
                   = FieldsOf(PairsOf(identity), 2)
              /\ identity \notin Tracked => PairsOf(identity) = << >>

LEMMA IdentitiesTell ==
    ASSUME NEW x \in Identities, NEW y \in Identities,
           deriveIdentityCommitment(x) = deriveIdentityCommitment(y)
    PROVE  x = y
<1>1. PICK tag : Text("identity:v1") = <<tag>>
  BY DEF Text
<1> QED
  BY <1>1, IdentitiesAssumption, CommitmentTells DEF deriveIdentityCommitment

(* A field of a list with one item more.                                   *)
Appends(l, b, c) == l = Append(b, c)

LEMMA FieldsAppend ==
    ASSUME NEW S, NEW list \in Seq(S), NEW item \in S, NEW field,
           NEW longer, Appends(longer, list, item)
    PROVE  Appends(FieldsOf(longer, field), FieldsOf(list, field), item[field])
<1>1. PICK n : n = Len(list)
  OBVIOUS
<1>2. /\ n \in Nat /\ DOMAIN list = 1 .. n /\ DOMAIN longer = 1 .. n + 1
      /\ longer[n + 1] = item /\ \A i \in 1 .. n : longer[i] = list[i]
  BY <1>1 DEF Appends
<1>3. PICK T : T = {list[i][field] : i \in 1 .. n} \cup {item[field]}
  OBVIOUS
<1>4. PICK names, name : names = FieldsOf(list, field) /\ name = item[field]
  OBVIOUS
<1>5. /\ names \in Seq(T) /\ name \in T /\ Len(names) = n
      /\ \A i \in 1 .. n : names[i] = list[i][field]
  BY <1>2, <1>3, <1>4 DEF FieldsOf
<1>6. PICK more : more = Append(names, name)
  OBVIOUS
<1>7. more \in Seq(T) /\ Len(more) = n + 1
  <2>1. more \in Seq(T)
    BY <1>5, <1>6
  <2>2. Len(more) = n + 1
    BY <1>5, <1>6
  <2> QED
    BY <2>1, <2>2
<1>8. more[n + 1] = name /\ \A i \in 1 .. n : more[i] = names[i]
  BY <1>2, <1>5, <1>6
<1>9. more = [i \in 1 .. n + 1 |-> more[i]]
  BY <1>7
<1>10. ASSUME NEW i \in 1 .. n + 1
       PROVE  more[i] = longer[i][field]
  <2>1. CASE i = n + 1
    BY <1>2, <1>4, <1>8, <2>1
  <2>2. CASE i \in 1 .. n
    BY <1>2, <1>5, <1>8, <2>2
  <2> QED
    BY <1>2, <2>1, <2>2
<1>11. FieldsOf(longer, field) = [i \in 1 .. n + 1 |-> longer[i][field]]
  BY <1>2 DEF FieldsOf
<1>12. more = FieldsOf(longer, field)
  BY <1>9, <1>10, <1>11
<1> QED
  BY <1>4, <1>6, <1>12 DEF Appends

(* The stored hash is that of the commitment, which looks like one; an     *)
(* identity that looks like one too is hashed without being committed to.  *)
LEMMA AuditHashIs ==
    ASSUME NEW x \in Identities
    PROVE  deriveIdentityAuditHash(deriveIdentityCommitment(x))
             = deriveIdentityAuditHash(x) <=> ~startsWithHex(x)
<1>1. PICK c : c = deriveIdentityCommitment(x)
  OBVIOUS
<1>2. PICK m : c = HashOf(m)
  BY <1>1, CommitmentIs DEF deriveIdentityCommitment
<1>3. startsWithHex(c) /\ IsString(c)
  BY <1>2 DEF HashOf, startsWithHex, IsString
<1>4. deriveIdentityAuditHash(c) = fallback_commitment(c, Text("audit:v1"))
  BY <1>3 DEF deriveIdentityAuditHash, base_commitment
<1>5. CASE ~startsWithHex(x)
  BY <1>1, <1>4, <1>5 DEF deriveIdentityAuditHash, base_commitment
<1>6. CASE startsWithHex(x)
  <2>1. deriveIdentityAuditHash(x) = fallback_commitment(x, Text("audit:v1"))
    BY <1>6 DEF deriveIdentityAuditHash, base_commitment
  <2>2. c # x /\ IsString(x)
    BY <1>1, IdentitiesAssumption
  <2>3. PICK tag : Text("audit:v1") = <<tag>>
    BY DEF Text
  <2> QED
    BY <1>1, <1>3, <1>4, <1>6, <2>1, <2>2, <2>3, CommitmentTells
<1> QED
  BY <1>5, <1>6

LEMMA InitTrail == Init => TrailInv
<1> SUFFICES ASSUME Init PROVE TrailInv
  OBVIOUS
<1>1. /\ audit_trail = << >> /\ identified = << >> /\ identity_commitments = Empty
  BY DEF Init
<1>2. Tracked = {} /\ DOMAIN identity_commitments = {}
  BY <1>1 DEF Tracked, Empty
<1>3. \A identity \in Identities :
         EntriesOf(identity) = << >> /\ PairsOf(identity) = << >>
  BY <1>1, FilterEmpty DEF EntriesOf, PairsOf
<1>4. FieldsOf(<< >>, "witness_id") = FieldsOf(<< >>, 2)
  BY DEF FieldsOf
<1>5. IsFiniteSet({})
  BY FS_EmptySet
<1> QED
  BY <1>1, <1>2, <1>3, <1>4, <1>5 DEF TrailInv

(* What a registration under an identity does.                             *)
Tracks(identity, id) ==
    /\ identified' = Append(identified, <<identity, id>>)
    /\ audit_trail' = Append(audit_trail, AuditEntry(identity, id))
    /\ identity_commitments' =
           With(identity_commitments, deriveIdentityCommitment(identity),
                deriveIdentityAuditHash(deriveIdentityCommitment(identity)))

LEMMA EntryIs ==
    ASSUME NEW identity, NEW id
    PROVE  LET entry == AuditEntry(identity, id)
           IN  /\ entry.witness_id = id
               /\ entry.identity_commitment = deriveIdentityCommitment(identity)
               /\ entry["witness_id"] = id
               /\ entry["identity_commitment"] = deriveIdentityCommitment(identity)
               /\ entry.identity_audit_hash
                    = deriveIdentityAuditHash(deriveIdentityCommitment(identity))
BY DEF AuditEntry

LEMMA NextTracks ==
    ASSUME Next, CRYPTO_AVAILABLE
    PROVE  \/ UNCHANGED <<identified, audit_trail, identity_commitments>>
           \/ \E identity \in Identities, id \in WitnessIds : Tracks(identity, id)
<1>1. PICK id \in WitnessIds, data \in Data, batch \in Batches \cup {None},
           identity \in Identities \cup {None} :
               register_witness(id, data, batch, identity)
  BY DEF Next, register_ace_witness
<1>2. CASE identity = None
  BY <1>1, <1>2 DEF register_witness, TrackIdentity
<1>3. CASE identity # None
  <2>1. identity \in Identities
    BY <1>3
  <2>2. PICK entry : entry = AuditEntry(identity, id)
    OBVIOUS
  <2>3. /\ identified' = Append(identified, <<identity, id>>)
        /\ audit_trail' = Append(audit_trail, entry)
        /\ identity_commitments' = With(identity_commitments,
                entry.identity_commitment, entry.identity_audit_hash)
    BY <1>1, <1>3, <2>2 DEF register_witness, TrackIdentity
  <2>4. Tracks(identity, id)
    BY <2>2, <2>3, EntryIs DEF Tracks
  <2> QED
    BY <2>1, <2>4
<1> QED
  BY <1>2, <1>3

LEMMA TracksStays ==
    ASSUME TrailInv, CRYPTO_AVAILABLE, NEW identity \in Identities, NEW id \in WitnessIds,
           Tracks(identity, id)
    PROVE  TrailInv'
<1>1. PICK entry, pair : entry = AuditEntry(identity, id) /\ pair = <<identity, id>>
  OBVIOUS
<1>2. /\ entry \in Entries /\ pair \in Identities \X WitnessIds
      /\ entry["witness_id"] = id /\ pair[1] = identity /\ pair[2] = id
      /\ entry["identity_commitment"] = deriveIdentityCommitment(identity)
  BY <1>1, EntryIs DEF Entries
<1>3. /\ audit_trail \in Seq(Entries) /\ identified \in Seq(Identities \X WitnessIds)
      /\ Len(audit_trail) = Len(identified)
  BY DEF TrailInv
<1>4. identified' = Append(identified, pair) /\ audit_trail' = Append(audit_trail, entry)
  BY <1>1 DEF Tracks
<1>5. /\ audit_trail' \in Seq(Entries) /\ identified' \in Seq(Identities \X WitnessIds)
      /\ Len(audit_trail') = Len(identified')
  BY <1>2, <1>3, <1>4
<1>6. Tracked' = Tracked \cup {identity}
  <2>1. PICK n : n = Len(identified)
    OBVIOUS
  <2>2. /\ n \in Nat /\ DOMAIN identified = 1 .. n /\ DOMAIN identified' = 1 .. n + 1
        /\ identified'[n + 1] = pair /\ \A i \in 1 .. n : identified'[i] = identified[i]
    BY <1>2, <1>3, <1>4, <2>1
  <2>3. ASSUME NEW x \in Tracked' PROVE x \in Tracked \cup {identity}
    <3>1. PICK i \in 1 .. n + 1 : x = identified'[i][1]
      BY <2>2 DEF Tracked
    <3>2. CASE i = n + 1
      BY <1>2, <2>2, <3>1, <3>2
    <3>3. CASE i \in 1 .. n
      BY <2>2, <3>1, <3>3 DEF Tracked
    <3> QED
      BY <2>2, <3>2, <3>3
  <2>4. ASSUME NEW x \in Tracked PROVE x \in Tracked'
    <3>1. PICK i \in 1 .. n : x = identified[i][1]
      BY <2>2 DEF Tracked
    <3>2. i \in 1 .. n + 1 /\ x = identified'[i][1]
      BY <2>2, <3>1
    <3> QED
      BY <2>2, <3>2 DEF Tracked
  <2>5. identity \in Tracked'
    <3>1. n + 1 \in 1 .. n + 1 /\ identity = identified'[n + 1][1]
      BY <1>2, <2>2
    <3> QED
      BY <2>2, <3>1 DEF Tracked
  <2> QED
    BY <2>3, <2>4, <2>5
<1>7. PICK c, hash : /\ c = deriveIdentityCommitment(identity)
                     /\ hash = deriveIdentityAuditHash(deriveIdentityCommitment(identity))
  OBVIOUS
<1>8. /\ DOMAIN identity_commitments' = DOMAIN identity_commitments \cup {c}
      /\ identity_commitments'[c] = hash
      /\ \A d \in DOMAIN identity_commitments :
            d # c => identity_commitments'[d] = identity_commitments[d]
  BY <1>7 DEF Tracks, With
<1>9. /\ Tracked \subseteq Identities
      /\ DOMAIN identity_commitments = {deriveIdentityCommitment(x) : x \in Tracked}
      /\ IsFiniteSet(Tracked) /\ IsFiniteSet(DOMAIN identity_commitments)
      /\ Cardinality(DOMAIN identity_commitments) = Cardinality(Tracked)
      /\ \A x \in Tracked :
            identity_commitments[deriveIdentityCommitment(x)]
              = deriveIdentityAuditHash(deriveIdentityCommitment(x))
  BY DEF TrailInv
<1>10. /\ Tracked' \subseteq Identities
       /\ DOMAIN identity_commitments' = {deriveIdentityCommitment(x) : x \in Tracked'}
  BY <1>6, <1>7, <1>8, <1>9
<1>11. c \in DOMAIN identity_commitments <=> identity \in Tracked
  BY <1>7, <1>9, IdentitiesTell
<1>12. /\ IsFiniteSet(Tracked') /\ IsFiniteSet(DOMAIN identity_commitments')
       /\ Cardinality(DOMAIN identity_commitments') = Cardinality(Tracked')
  <2>1. PICK S, T, S2, T2 : /\ S = Tracked /\ T = DOMAIN identity_commitments
                            /\ S2 = Tracked' /\ T2 = DOMAIN identity_commitments'
    OBVIOUS
  <2>2. /\ IsFiniteSet(S \cup {identity})
        /\ Cardinality(S \cup {identity})
             = IF identity \in S THEN Cardinality(S) ELSE Cardinality(S) + 1
    BY <1>9, <2>1, FS_AddElement
  <2>3. /\ IsFiniteSet(T \cup {c})
        /\ Cardinality(T \cup {c})
             = IF c \in T THEN Cardinality(T) ELSE Cardinality(T) + 1
    BY <1>9, <2>1, FS_AddElement
  <2>4. S2 = S \cup {identity} /\ T2 = T \cup {c} /\ (c \in T <=> identity \in S)
        /\ Cardinality(S) = Cardinality(T)
    BY <1>6, <1>8, <1>9, <1>11, <2>1
  <2>5. IsFiniteSet(S2) /\ IsFiniteSet(T2) /\ Cardinality(T2) = Cardinality(S2)
    BY <2>2, <2>3, <2>4
  <2> QED
    BY <2>1, <2>5
<1>13. ASSUME NEW x \in Tracked'
       PROVE  identity_commitments'[deriveIdentityCommitment(x)]
                = deriveIdentityAuditHash(deriveIdentityCommitment(x))
  <2>1. CASE x = identity
    BY <1>7, <1>8, <2>1
  <2>2. CASE x # identity
    <3>1. x \in Tracked /\ x \in Identities
      BY <1>6, <1>9, <2>2
    <3>2. PICK d : d = deriveIdentityCommitment(x)
      OBVIOUS
    <3>3. d # c /\ d \in DOMAIN identity_commitments
      BY <1>7, <1>9, <2>2, <3>1, <3>2, IdentitiesTell
    <3> QED
      BY <1>8, <1>9, <3>1, <3>2, <3>3
  <2> QED
    BY <2>1, <2>2
<1>14. ASSUME NEW x \in Identities
       PROVE  /\ FieldsOf(EntriesOf(x), "witness_id")' = FieldsOf(PairsOf(x), 2)'
              /\ x \notin Tracked' => PairsOf(x)' = << >>
  <2>1. PICK entries, pairs : entries = EntriesOf(x) /\ pairs = PairsOf(x)
    OBVIOUS
  <2>2. entries \in Seq(Entries) /\ pairs \in Seq(Identities \X WitnessIds)
    BY <1>3, <2>1, FilterType DEF EntriesOf, PairsOf
  <2>3. /\ FieldsOf(entries, "witness_id") = FieldsOf(pairs, 2)
        /\ x \notin Tracked => pairs = << >>
    BY <2>1 DEF TrailInv
  <2>4. EntriesOf(x)' = Keep(entries, entry, "identity_commitment",
                             deriveIdentityCommitment(x))
    BY <1>2, <1>3, <1>4, <2>1, FilterAppend DEF EntriesOf
  <2>5. PairsOf(x)' = Keep(pairs, pair, 1, x)
    BY <1>2, <1>3, <1>4, <2>1, FilterAppend DEF PairsOf
  <2>6. CASE x = identity
    <3>1. EntriesOf(x)' = Append(entries, entry) /\ PairsOf(x)' = Append(pairs, pair)
      BY <1>2, <2>4, <2>5, <2>6 DEF Keep
    <3>2. PICK trail, history : Appends(trail, entries, entry) /\ Appends(history, pairs, pair)
      BY DEF Appends
    <3>3. EntriesOf(x)' = trail /\ PairsOf(x)' = history
      BY <3>1, <3>2 DEF Appends
    <3>4. Appends(FieldsOf(trail, "witness_id"), FieldsOf(entries, "witness_id"), id)
      <4>1. entry["witness_id"] = id
        BY <1>2
      <4>2. entry \in Entries
        BY <1>2
      <4>3. Appends(FieldsOf(trail, "witness_id"), FieldsOf(entries, "witness_id"),
                    entry["witness_id"])
        BY <2>2, <3>2, <4>2, FieldsAppend
      <4> QED
        BY <4>1, <4>3
    <3>5. Appends(FieldsOf(history, 2), FieldsOf(pairs, 2), id)
      <4>1. PICK S : S = Identities \X WitnessIds
        OBVIOUS
      <4>2. pairs \in Seq(S) /\ pair \in S
        BY <1>2, <2>2, <4>1
      <4>3. Appends(FieldsOf(history, 2), FieldsOf(pairs, 2), pair[2])
        BY <3>2, <4>2, FieldsAppend
      <4>4. pair[2] = id
        BY <1>2
      <4> QED
        BY <4>3, <4>4
    <3>6. FieldsOf(trail, "witness_id") = FieldsOf(history, 2)
      BY <2>3, <3>4, <3>5 DEF Appends
    <3> QED
      BY <1>6, <2>6, <3>3, <3>6 DEF FieldsOf
  <2>7. CASE x # identity
    <3>1. EntriesOf(x)' = entries /\ PairsOf(x)' = pairs
      BY <1>2, <2>4, <2>5, <2>7, IdentitiesTell DEF Keep
    <3> QED
      BY <1>6, <2>3, <3>1 DEF FieldsOf
  <2> QED
    BY <2>6, <2>7
<1> QED
  BY <1>5, <1>10, <1>12, <1>13, <1>14 DEF TrailInv

LEMMA NextTrail == TrailInv /\ [Next]_vars => TrailInv'
<1>1. ASSUME TrailInv, Next PROVE TrailInv'
  <2>1. CASE ~CRYPTO_AVAILABLE
    BY <2>1 DEF TrailInv
  <2>2. CASE CRYPTO_AVAILABLE
    <3>1. CASE UNCHANGED <<identified, audit_trail, identity_commitments>>
      <4>1. /\ Tracked' = Tracked
            /\ \A x : EntriesOf(x)' = EntriesOf(x) /\ PairsOf(x)' = PairsOf(x)
        BY <3>1 DEF Tracked, EntriesOf, PairsOf
      <4>2. \A x : /\ FieldsOf(EntriesOf(x), "witness_id")'
                        = FieldsOf(EntriesOf(x), "witness_id")
                   /\ FieldsOf(PairsOf(x), 2)' = FieldsOf(PairsOf(x), 2)
        BY <4>1 DEF FieldsOf
      <4> QED
        BY <1>1, <3>1, <4>1, <4>2 DEF TrailInv
    <3>2. CASE \E identity \in Identities, id \in WitnessIds : Tracks(identity, id)
      BY <1>1, <2>2, <3>2, TracksStays
    <3> QED
      BY <1>1, <2>2, <3>1, <3>2, NextTracks
  <2> QED
    BY <2>1, <2>2
<1>2. ASSUME TrailInv, UNCHANGED vars PROVE TrailInv'
  <2>1. identified' = identified /\ audit_trail' = audit_trail
        /\ identity_commitments' = identity_commitments
    BY <1>2 DEF vars
  <2>2. /\ Tracked' = Tracked
        /\ \A x : EntriesOf(x)' = EntriesOf(x) /\ PairsOf(x)' = PairsOf(x)
    BY <2>1 DEF Tracked, EntriesOf, PairsOf
  <2>3. \A x : /\ FieldsOf(EntriesOf(x), "witness_id")'
                    = FieldsOf(EntriesOf(x), "witness_id")
               /\ FieldsOf(PairsOf(x), 2)' = FieldsOf(PairsOf(x), 2)
    BY <2>2 DEF FieldsOf
  <2> QED
    BY <1>2, <2>1, <2>2, <2>3 DEF TrailInv
<1> QED
  BY <1>1, <1>2

LEMMA TrailTells == TrailInv => TrailTellsRegistrations
<1> SUFFICES ASSUME TrailInv, CRYPTO_AVAILABLE
             PROVE  /\ Len(get_audit_trail(None)) = Len(identified)
                    /\ get_witness_stats.identities_tracked = Cardinality(Tracked)
                    /\ \A identity \in Identities :
                         LET commitment == deriveIdentityCommitment(identity)
                         IN  /\ NamesOf(get_audit_trail(commitment))
                                  = RegisteredUnder(identity)
                             /\ RegisteredUnder(identity) # << >> =>
                                   (identity_commitments[commitment]
                                        = deriveIdentityAuditHash(identity)
                                    <=> ~startsWithHex(identity))
  BY DEF TrailTellsRegistrations, Tracked
<1>1. Len(get_audit_trail(None)) = Len(identified)
  BY DEF TrailInv, get_audit_trail
<1>2. get_witness_stats.identities_tracked = Cardinality(Tracked)
  BY DEF TrailInv, get_witness_stats
<1>3. ASSUME NEW identity \in Identities
      PROVE  /\ NamesOf(get_audit_trail(deriveIdentityCommitment(identity)))
                  = RegisteredUnder(identity)
             /\ RegisteredUnder(identity) # << >> => identity \in Tracked
  <2>1. PICK c : c = deriveIdentityCommitment(identity)
    OBVIOUS
  <2>2. PICK m : c = HashOf(m)
    BY <2>1, CommitmentIs DEF deriveIdentityCommitment
  <2>3. c # None
    <3>1. Len(c) = 2
      BY <2>2 DEF HashOf
    <3>2. Len(None) = 0
      BY DEF None
    <3> QED
      BY <3>1, <3>2
  <2>4. get_audit_trail(c) = EntriesOf(identity)
    BY <2>1, <2>3 DEF get_audit_trail, EntriesOf
  <2>5. FieldsOf(EntriesOf(identity), "witness_id") = NamesOf(EntriesOf(identity))
    BY DEF FieldsOf, NamesOf
  <2>6. RegisteredUnder(identity) = FieldsOf(PairsOf(identity), 2)
    BY DEF RegisteredUnder, FieldsOf, PairsOf
  <2>7. FieldsOf(<< >>, 2) = << >>
    BY DEF FieldsOf
  <2> QED
    BY <2>1, <2>4, <2>5, <2>6, <2>7 DEF TrailInv
<1>4. ASSUME NEW identity \in Identities, identity \in Tracked
      PROVE  identity_commitments[deriveIdentityCommitment(identity)]
               = deriveIdentityAuditHash(identity) <=> ~startsWithHex(identity)
  BY <1>4, AuditHashIs DEF TrailInv
<1> QED
  BY <1>1, <1>2, <1>3, <1>4

(* What the audit trail tells of an identity is what was registered under  *)
(* it, however the registrations of several identities were mixed, and it  *)
(* counts every identity once.                                             *)
THEOREM TrailIsComplete == Spec => []TrailTellsRegistrations
BY InitTrail, NextTrail, TrailTells, PTL DEF Spec

-----------------------------------------------------------------------------
(* Lists that are put together.                                            *)
Joins(x, s, t) == x = s \o t
Laid(x, s, t) ==
    /\ Len(x) = Len(s) + Len(t)
    /\ \A i \in 1 .. Len(s) : x[i] = s[i]
    /\ \A i \in 1 .. Len(t) : x[Len(s) + i] = t[i]

LEMMA SeqIsString == \A S : \A x \in Seq(S) : IsString(x)
BY DEF IsString

LEMMA JoinIs ==
    ASSUME NEW s, IsString(s), NEW t, IsString(t), NEW x, Joins(x, s, t)
    PROVE  /\ IsString(x) /\ Len(x) = Len(s) + Len(t)
           /\ \A i \in 1 .. Len(s) : x[i] = s[i]
           /\ \A i \in 1 .. Len(t) : x[Len(s) + i] = t[i]
<1>1. PICK S : s \in Seq(S)
  BY StringType
<1>2. PICK T : t \in Seq(T)
  BY StringType
<1>3. PICK U : U = S \cup T
  OBVIOUS
<1>4. s \in Seq(U) /\ t \in Seq(U)
  BY <1>1, <1>2, <1>3
<1>5. x \in Seq(U) /\ Len(x) = Len(s) + Len(t)
  BY <1>4 DEF Joins
<1>6. IsString(x)
  BY <1>5, SeqIsString
<1>7. \A i \in 1 .. Len(s) : x[i] = s[i]
  BY <1>4 DEF Joins
<1>8. \A i \in 1 .. Len(t) : x[Len(s) + i] = t[i]
  BY <1>4 DEF Joins
<1> QED
  BY <1>5, <1>6, <1>7, <1>8

LEMMA JoinIsLaid ==
    \A s, t, x : IsString(s) /\ IsString(t) /\ Joins(x, s, t) => Laid(x, s, t)
BY JoinIs DEF Laid

(* Equal lists that begin with equally long lists.                         *)
LEMMA JoinTells ==
    ASSUME NEW s, IsString(s), NEW t, IsString(t),
           NEW u, IsString(u), NEW v, IsString(v), Len(s) = Len(u),
           NEW x, Joins(x, s, t), Joins(x, u, v)
    PROVE  s = u /\ t = v
<1>1. Laid(x, s, t) /\ Laid(x, u, v)
  BY JoinIsLaid
<1>2. PICK m \in Nat, n \in Nat : m = Len(s) /\ m = Len(u) /\ n = Len(t)
  BY DEF IsString
<1>3. PICK k \in Nat : k = Len(v)
  BY DEF IsString
<1>4. /\ Len(x) = m + n
      /\ \A i \in 1 .. m : x[i] = s[i]
      /\ \A i \in 1 .. n : x[m + i] = t[i]
  BY <1>1, <1>2 DEF Laid
<1>5. /\ Len(x) = m + k
      /\ \A i \in 1 .. m : x[i] = u[i]
      /\ \A i \in 1 .. k : x[m + i] = v[i]
  BY <1>1, <1>2, <1>3 DEF Laid
<1>6. n = k
  BY <1>4, <1>5
<1>7. (\A i \in 1 .. m : s[i] = u[i]) /\ (\A i \in 1 .. n : t[i] = v[i])
  BY <1>4, <1>5, <1>6
<1> QED
  BY <1>2, <1>3, <1>6, <1>7 DEF IsString

(* Of two lists with two halves each, equal ones have equal halves.        *)
LEMMA HalvesTell ==
    ASSUME NEW s, IsString(s), NEW t, IsString(t), Len(s) = Len(t),
           NEW u, IsString(u), NEW v, IsString(v), Len(u) = Len(v),
           NEW x, Joins(x, s, t), Joins(x, u, v)
    PROVE  s = u /\ t = v
<1>1. Laid(x, s, t) /\ Laid(x, u, v)
  BY JoinIsLaid
<1>2. PICK m \in Nat, n \in Nat : /\ m = Len(s) /\ m = Len(t)
                                /\ n = Len(u) /\ n = Len(v)
  BY DEF IsString
<1>3. Len(x) = m + m /\ Len(x) = n + n
  BY <1>1, <1>2 DEF Laid
<1>4. Len(s) = Len(u)
  BY <1>2, <1>3
<1> QED
  BY <1>4, JoinTells

(* The lists that the nodes of a level stand for: as many as there are     *)
(* nodes, and of one length.                                               *)
AllOfSize(lists, size) ==
    \A i \in 1 .. Len(lists) : IsString(lists[i]) /\ Len(lists[i]) = size
Fits(nodes, lists, size) ==
    /\ IsLevel(nodes) /\ Len(lists) = Len(nodes)
    /\ size \in Nat /\ size > 0 /\ AllOfSize(lists, size)

(* Nodes are equal where their lists are.                                  *)
Match(nodes, lists, others, theirs) ==
    \A i \in 1 .. Len(nodes), j \in 1 .. Len(others) :
        nodes[i] = others[j] <=> lists[i] = theirs[j]

(* Node and list of a place in the next level.                             *)
MadeOf(node, list, nodes, lists, a, b) ==
    /\ node = NodeHash(nodes[a], nodes[b])
    /\ list = lists[a] \o lists[b]

LEMMA NextFits ==
    ASSUME NEW nodes, NEW lists, NEW size, Fits(nodes, lists, size), Len(nodes) > 1,
           NEW next, next = NextLevel(nodes), NEW joined, joined = Joined(lists)
    PROVE  /\ Fits(next, joined, size + size)
           /\ \A i \in 1 .. Len(next) : \E a, b \in 1 .. Len(nodes) :
                  MadeOf(next[i], joined[i], nodes, lists, a, b)
<1>1. PICK m \in Nat : m = Len(nodes) /\ m = Len(lists) /\ m > 1
  BY DEF Fits, IsLevel, IsString
<1>2. PICK h \in Nat : h = (m + 1) \div 2
  BY <1>1, Halves
<1>3. IsLevel(next) /\ Len(next) = h
  BY <1>1, <1>2, NextLevelIs DEF Fits
<1>4. joined = [i \in 1 .. h |->
                  lists[2 * i - 1] \o lists[IF 2 * i <= m THEN 2 * i ELSE 2 * i - 1]]
  BY <1>1, <1>2 DEF Joined
<1>5. Len(joined) = h
  <2>1. joined = [i \in 1 .. h |-> joined[i]]
    BY <1>4
  <2> QED
    BY <2>1, LengthIs
<1>6. ASSUME NEW i \in 1 .. h
      PROVE  \E a, b \in 1 .. m : MadeOf(next[i], joined[i], nodes, lists, a, b)
  <2>1. PICK a \in 1 .. m : a = 2 * i - 1
    BY <1>1, <1>2, Halves
  <2>2. PICK b \in 1 .. m : b = IF 2 * i <= m THEN 2 * i ELSE 2 * i - 1
    BY <2>1
  <2>3. joined[i] = lists[a] \o lists[b]
    BY <1>4, <2>1, <2>2
  <2>4. RightOf(nodes, a) = nodes[b]
    <3>1. CASE 2 * i <= m
      <4>1. a < m /\ a + 1 = 2 * i /\ b = 2 * i
        BY <2>1, <2>2, <3>1
      <4> QED
        BY <1>1, <4>1 DEF RightOf
    <3>2. CASE ~(2 * i <= m)
      <4>1. ~(a < m) /\ b = a
        BY <2>1, <2>2, <3>2
      <4> QED
        BY <1>1, <4>1 DEF RightOf
    <3> QED
      BY <3>1, <3>2
  <2>5. next[i] = NodeHash(nodes[a], nodes[b])
    <3>1. next[i] = NodeHash(nodes[2 * i - 1], RightOf(nodes, 2 * i - 1))
      BY <1>1, <1>3, NextLevelIs DEF Fits
    <3> QED
      BY <2>1, <2>4, <3>1
  <2> QED
    BY <2>3, <2>5 DEF MadeOf
<1>7. AllOfSize(joined, size + size)
  <2> SUFFICES ASSUME NEW i \in 1 .. h
               PROVE  IsString(joined[i]) /\ Len(joined[i]) = size + size
    BY <1>5 DEF AllOfSize
  <2>1. PICK a, b \in 1 .. m : joined[i] = lists[a] \o lists[b]
    BY <1>6 DEF MadeOf
  <2>2. PICK s, t : s = lists[a] /\ t = lists[b]
    OBVIOUS
  <2>3. IsString(s) /\ Len(s) = size /\ IsString(t) /\ Len(t) = size
    BY <1>1, <2>2 DEF Fits, AllOfSize
  <2>4. PICK x : x = joined[i] /\ Joins(x, s, t)
    BY <2>1, <2>2 DEF Joins
  <2>5. IsString(x) /\ Len(x) = Len(s) + Len(t)
    BY <2>3, <2>4, JoinIs
  <2> QED
    BY <2>3, <2>4, <2>5
<1>8. size + size \in Nat /\ size + size > 0
  BY DEF Fits
<1> QED
  BY <1>1, <1>3, <1>5, <1>6, <1>7, <1>8 DEF Fits

LEMMA MatchNext ==
    ASSUME NEW nodes, NEW lists, NEW size, Fits(nodes, lists, size), Len(nodes) > 1,
           NEW others, NEW theirs, NEW length, Fits(others, theirs, length),
           Len(others) > 1, Match(nodes, lists, others, theirs)
    PROVE  Match(NextLevel(nodes), Joined(lists), NextLevel(others), Joined(theirs))
<1>1. PICK n, l, o, t : /\ n = NextLevel(nodes) /\ l = Joined(lists)
                        /\ o = NextLevel(others) /\ t = Joined(theirs)
  OBVIOUS
<1>2. \A i \in 1 .. Len(n) : \E a, b \in 1 .. Len(nodes) :
          MadeOf(n[i], l[i], nodes, lists, a, b)
  BY <1>1, NextFits
<1>3. \A i \in 1 .. Len(o) : \E a, b \in 1 .. Len(others) :
          MadeOf(o[i], t[i], others, theirs, a, b)
  BY <1>1, NextFits
<1>4. ASSUME NEW i \in 1 .. Len(n), NEW j \in 1 .. Len(o)
      PROVE  n[i] = o[j] <=> l[i] = t[j]
  <2>1. PICK a, b \in 1 .. Len(nodes) : MadeOf(n[i], l[i], nodes, lists, a, b)
    BY <1>2
  <2>2. PICK c, d \in 1 .. Len(others) : MadeOf(o[j], t[j], others, theirs, c, d)
    BY <1>3
  <2>3. /\ IsNode(nodes[a]) /\ IsNode(nodes[b])
        /\ IsNode(others[c]) /\ IsNode(others[d])
    BY DEF Fits, IsLevel
  <2>4. n[i] = o[j] <=> nodes[a] = others[c] /\ nodes[b] = others[d]
    BY <2>1, <2>2, <2>3, NodeHashTells DEF MadeOf
  <2>5. /\ IsString(lists[a]) /\ IsString(lists[b]) /\ Len(lists[a]) = Len(lists[b])
        /\ IsString(theirs[c]) /\ IsString(theirs[d]) /\ Len(theirs[c]) = Len(theirs[d])
    BY DEF Fits, AllOfSize
  <2>6. l[i] = t[j] <=> lists[a] = theirs[c] /\ lists[b] = theirs[d]
    <3>1. l[i] = lists[a] \o lists[b] /\ t[j] = theirs[c] \o theirs[d]
      BY <2>1, <2>2 DEF MadeOf
    <3>2. PICK p, q, r, s : /\ p = lists[a] /\ q = lists[b]
                            /\ r = theirs[c] /\ s = theirs[d]
      OBVIOUS
    <3>3. p \o q = r \o s => p = r /\ q = s
      <4>1. /\ IsString(p) /\ IsString(q) /\ Len(p) = Len(q)
            /\ IsString(r) /\ IsString(s) /\ Len(r) = Len(s)
        BY <2>5, <3>2
      <4>2. HAVE p \o q = r \o s
      <4>3. PICK x : Joins(x, p, q) /\ Joins(x, r, s)
        BY <4>2 DEF Joins
      <4> QED
        BY <4>1, <4>3, HalvesTell
    <3> QED
      BY <3>1, <3>2, <3>3
  <2>7. /\ nodes[a] = others[c] <=> lists[a] = theirs[c]
        /\ nodes[b] = others[d] <=> lists[b] = theirs[d]
    BY DEF Match
  <2> QED
    BY <2>4, <2>6, <2>7
<1> QED
  BY <1>1, <1>4 DEF Match

(* Nothing matches between the leaves and a level above leaves.            *)
LEMMA MatchNone ==
    ASSUME NEW nodes, NEW lists, NEW size, Fits(nodes, lists, size), Len(nodes) > 1,
           NEW list, IsBatch(list), NEW ones, AllOfSize(ones, 1), Len(ones) = Len(list)
    PROVE  /\ Match(NextLevel(nodes), Joined(lists), LeafHashes(list), ones)
           /\ Match(LeafHashes(list), ones, NextLevel(nodes), Joined(lists))
<1>1. PICK n, l, o : /\ n = NextLevel(nodes) /\ l = Joined(lists)
                     /\ o = LeafHashes(list)
  OBVIOUS
<1>2. /\ Fits(n, l, size + size)
      /\ \A i \in 1 .. Len(n) : \E a, b \in 1 .. Len(nodes) :
             MadeOf(n[i], l[i], nodes, lists, a, b)
  BY <1>1, NextFits
<1>3. Len(o) = Len(list) /\ \A j \in 1 .. Len(o) : o[j] = LeafHash(list[j])
  BY <1>1, LeafHashesLevel DEF LeafHashes
<1>4. ASSUME NEW i \in 1 .. Len(n), NEW j \in 1 .. Len(o)
      PROVE  n[i] # o[j] /\ l[i] # ones[j]
  <2>1. PICK a, b \in 1 .. Len(nodes) : MadeOf(n[i], l[i], nodes, lists, a, b)
    BY <1>2
  <2>2. IsNode(nodes[a]) /\ IsNode(nodes[b]) /\ IsString(list[j])
    BY <1>3 DEF Fits, IsLevel, IsBatch
  <2>3. n[i] # o[j]
    BY <1>3, <2>1, <2>2, LeafIsNoNode DEF MadeOf
  <2>4. Len(l[i]) = size + size /\ size \in Nat /\ size > 0
    BY <1>2 DEF Fits, AllOfSize
  <2>5. Len(ones[j]) = 1
    BY <1>3 DEF AllOfSize
  <2>6. size + size # 1
    BY <2>4
  <2> QED
    BY <2>3, <2>4, <2>5, <2>6
<1> QED
  BY <1>1, <1>4 DEF Match

(* The loop that fills up a batch: g has the lists after each round.       *)
Ones(list) == [i \in 1 .. Len(list) |-> <<list[i]>>]
IsFilled(g, list) ==
    /\ Padded(list) = g[Len(list)][1]
    /\ g[0] = Ones(list)
    /\ \A k \in 1 .. Len(list) : g[k] = Joined(g[k - 1])

LEMMA FilledLoop ==
    ASSUME NEW list, Len(list) \in Nat
    PROVE  \E g : IsFilled(g, list)
<1> DEFINE N == Len(list)
           Body(n, f) == [k \in 0 .. n |->
                             IF k = 0 THEN Ones(list) ELSE Joined(f[k - 1])]
           S == {n \in Nat : \E f : f = Body(n, f)}
<1>1. 0 \in S
  <2> DEFINE f == [k \in 0 .. 0 |-> Ones(list)]
  <2>1. f = Body(0, f)
    OBVIOUS
  <2> QED
    BY <2>1
<1>2. ASSUME NEW n \in Nat, n \in S
      PROVE  n + 1 \in S
  <2>1. PICK f : f = Body(n, f)
    BY <1>2
  <2> DEFINE g == [k \in 0 .. n + 1 |->
                     IF k = n + 1 THEN Joined(f[n]) ELSE f[k]]
  <2>2. ASSUME NEW k \in 0 .. n + 1
        PROVE  g[k] = IF k = 0 THEN Ones(list) ELSE Joined(g[k - 1])
    <3>1. CASE k = n + 1
      BY <3>1
    <3>2. CASE k = 0
      BY <2>1, <3>2
    <3>3. CASE k \in 1 .. n
      <4>1. g[k] = f[k] /\ g[k - 1] = f[k - 1]
        BY <3>3
      <4>2. f[k] = Joined(f[k - 1])
        BY <2>1, <3>3
      <4> QED
        BY <3>3, <4>1, <4>2
    <3> QED
      BY <3>1, <3>2, <3>3
  <2>3. g = Body(n + 1, g)
    BY <2>2
  <2> HIDE DEF g, Body
  <2> QED
    BY <2>3
<1>3. Nat \subseteq S
  <2> HIDE DEF S
  <2> QED
    BY <1>1, <1>2, NatSetInduction
<1> DEFINE loop == CHOOSE f : f = Body(N, f)
<1>4. loop = Body(N, loop)
  <2> HIDE DEF Body
  <2> QED
    BY <1>3
<1>5. Padded(list) = loop[N][1]
  BY DEF Padded, Ones
<1> HIDE DEF loop
<1>6. /\ loop[0] = Ones(list)
      /\ \A k \in 1 .. N : loop[k] = Joined(loop[k - 1])
  BY <1>4
<1> QED
  BY <1>5, <1>6 DEF IsFilled

LEMMA OnesFit ==
    ASSUME NEW list, IsBatch(list)
    PROVE  /\ Fits(LeafHashes(list), Ones(list), 1)
           /\ AllOfSize(Ones(list), 1) /\ Len(Ones(list)) = Len(list)
<1>1. PICK n \in Nat : n = Len(list)
  BY DEF IsBatch, IsString
<1>2. PICK ones : ones = [i \in 1 .. n |-> <<list[i]>>]
  OBVIOUS
<1>3. ones = Ones(list)
  BY <1>1, <1>2 DEF Ones
<1>4. Len(ones) = n
  <2>1. ones = [i \in 1 .. n |-> ones[i]]
    BY <1>2
  <2> QED
    BY <2>1, LengthIs
<1>5. \A x : IsString(<<x>>) /\ Len(<<x>>) = 1
  BY DEF IsString
<1>6. AllOfSize(ones, 1)
  BY <1>2, <1>4, <1>5 DEF AllOfSize
<1> QED
  BY <1>1, <1>3, <1>4, <1>6, LeafHashesLevel DEF Fits

(* Both loops go on as long.                                               *)
LEMMA RoundsAre ==
    ASSUME NEW nodes, NEW lists, NEW size, Fits(nodes, lists, size)
    PROVE  \/ /\ Len(nodes) > 1
              /\ Reduce(nodes) = NextLevel(nodes)
              /\ Fits(NextLevel(nodes), Joined(lists), size + size)
           \/ Reduce(nodes) = nodes /\ Joined(lists) = lists
<1>1. CASE Len(nodes) > 1
  <2>1. Reduce(nodes) = NextLevel(nodes)
    BY <1>1 DEF Reduce
  <2>2. Fits(NextLevel(nodes), Joined(lists), size + size)
    BY <1>1, NextFits
  <2> QED
    BY <1>1, <2>1, <2>2
<1>2. CASE ~(Len(nodes) > 1)
  BY <1>2 DEF Reduce, Joined, Fits
<1> QED
  BY <1>1, <1>2

LEMMA LevelsFit ==
    ASSUME NEW list, IsBatch(list), NEW f, IsLevels(f, list), NEW g, IsFilled(g, list)
    PROVE  \A k \in 0 .. Len(list) : \E size : Fits(f[k], g[k], size)
<1>1. PICK N \in Nat : N = Len(list)
  BY DEF IsBatch, IsString
<1> DEFINE S == {k \in 0 .. N : \E size : Fits(f[k], g[k], size)}
<1>2. 0 \in S
  BY <1>1, OnesFit DEF IsLevels, IsFilled
<1>3. ASSUME NEW k \in 1 .. N, k - 1 \in S
      PROVE  k \in S
  <2>1. PICK size : Fits(f[k - 1], g[k - 1], size)
    BY <1>3
  <2>2. f[k] = Reduce(f[k - 1]) /\ g[k] = Joined(g[k - 1])
    BY <1>1 DEF IsLevels, IsFilled
  <2>3. PICK a, b : a = f[k - 1] /\ b = g[k - 1]
    OBVIOUS
  <2>4. Fits(a, b, size) /\ f[k] = Reduce(a) /\ g[k] = Joined(b)
    BY <2>1, <2>2, <2>3
  <2>5. \/ f[k] = NextLevel(a) /\ Fits(NextLevel(a), Joined(b), size + size)
        \/ f[k] = a /\ g[k] = b
    BY <2>4, RoundsAre
  <2>6. \E length : Fits(f[k], g[k], length)
    <3>1. CASE f[k] = NextLevel(a) /\ Fits(NextLevel(a), Joined(b), size + size)
      <4>1. Fits(f[k], g[k], size + size)
        BY <2>4, <3>1
      <4> QED
        BY <4>1
    <3>2. CASE f[k] = a /\ g[k] = b
      BY <2>4, <3>2
    <3> QED
      BY <2>5, <3>1, <3>2
  <2> QED
    BY <2>6
<1>4. 0 .. N \subseteq S
  <2> HIDE DEF S
  <2>1. StaysIn(S, N)
    BY <1>3 DEF StaysIn
  <2> QED
    BY <1>2, <2>1, InductionUpTo
<1> QED
  BY <1>1, <1>4

LEMMA LevelsMatch ==
    ASSUME NEW list, IsBatch(list), NEW f, IsLevels(f, list), NEW g, IsFilled(g, list),
           NEW other, IsBatch(other), NEW o, IsLevels(o, other), NEW t, IsFilled(t, other)
    PROVE  \A k \in 0 .. Len(list), l \in 0 .. Len(other) : Match(f[k], g[k], o[l], t[l])
<1>1. PICK N \in Nat, M \in Nat : N = Len(list) /\ M = Len(other)
  BY DEF IsBatch, IsString
<1>2. /\ f[0] = LeafHashes(list) /\ g[0] = Ones(list)
      /\ o[0] = LeafHashes(other) /\ t[0] = Ones(other)
      /\ \A k \in 1 .. N : f[k] = Reduce(f[k - 1]) /\ g[k] = Joined(g[k - 1])
      /\ \A l \in 1 .. M : o[l] = Reduce(o[l - 1]) /\ t[l] = Joined(t[l - 1])
  BY <1>1 DEF IsLevels, IsFilled
<1>3. /\ \A k \in 0 .. N : \E size : Fits(f[k], g[k], size)
      /\ \A l \in 0 .. M : \E size : Fits(o[l], t[l], size)
  BY <1>1, LevelsFit
<1> DEFINE S == {k \in 0 .. N : \A l \in 0 .. M : Match(f[k], g[k], o[l], t[l])}
<1>4. 0 \in S
  <2> DEFINE R == {l \in 0 .. M : Match(f[0], g[0], o[l], t[l])}
  <2>1. 0 \in R
    <3>1. ASSUME NEW i \in 1 .. Len(f[0]), NEW j \in 1 .. Len(o[0])
          PROVE  f[0][i] = o[0][j] <=> g[0][i] = t[0][j]
      <4>1. i \in 1 .. Len(list) /\ j \in 1 .. Len(other)
        BY <1>2, LeafHashesLevel
      <4>2. f[0][i] = LeafHash(list[i]) /\ o[0][j] = LeafHash(other[j])
        BY <1>2, <4>1 DEF LeafHashes
      <4>3. g[0][i] = <<list[i]>> /\ t[0][j] = <<other[j]>>
        BY <1>2, <4>1 DEF Ones
      <4>4. f[0][i] = o[0][j] <=> list[i] = other[j]
        BY <4>1, <4>2, LeafHashTells DEF IsBatch
      <4>5. PICK x, y : x = list[i] /\ y = other[j]
        OBVIOUS
      <4>6. <<x>> = <<y>> <=> x = y
        OBVIOUS
      <4> QED
        BY <4>3, <4>4, <4>5, <4>6
    <3>2. Match(f[0], g[0], o[0], t[0])
      BY <3>1 DEF Match
    <3> QED
      BY <3>2
  <2>2. ASSUME NEW l \in 1 .. M, l - 1 \in R
        PROVE  l \in R
    <3>1. PICK size : Fits(o[l - 1], t[l - 1], size)
      BY <1>3
    <3>2. PICK a, b : a = o[l - 1] /\ b = t[l - 1]
      OBVIOUS
    <3>3. o[l] = Reduce(a) /\ t[l] = Joined(b) /\ Fits(a, b, size)
      BY <1>2, <3>1, <3>2
    <3>4. \/ Len(a) > 1 /\ Reduce(a) = NextLevel(a)
          \/ Reduce(a) = a /\ Joined(b) = b
      BY <3>3, RoundsAre
    <3>5. Len(a) > 1 =>
             Match(LeafHashes(list), Ones(list), NextLevel(a), Joined(b))
      BY <3>3, OnesFit, MatchNone
    <3>6. Match(f[0], g[0], o[l], t[l])
      BY <1>2, <2>2, <3>2, <3>3, <3>4, <3>5
    <3> QED
      BY <3>6
  <2>3. 0 .. M \subseteq R
    <3> HIDE DEF R
    <3>1. StaysIn(R, M)
      BY <2>2 DEF StaysIn
    <3> QED
      BY <2>1, <3>1, InductionUpTo
  <2> QED
    BY <2>3
<1>5. ASSUME NEW k \in 1 .. N, k - 1 \in S
      PROVE  k \in S
  <2>1. PICK c, d, length : c = f[k - 1] /\ d = g[k - 1] /\ Fits(c, d, length)
    BY <1>3
  <2>2. f[k] = Reduce(c) /\ g[k] = Joined(d)
    BY <1>2, <2>1
  <2>3. \A l \in 0 .. M : Match(c, d, o[l], t[l])
    BY <1>5, <2>1
  <2>4. CASE Reduce(c) = c /\ Joined(d) = d
    BY <2>2, <2>3, <2>4
  <2>5. CASE Len(c) > 1 /\ Reduce(c) = NextLevel(c)
    <3>1. PICK u, v : u = NextLevel(c) /\ v = Joined(d) /\ f[k] = u /\ g[k] = v
      BY <2>2, <2>5
    <3> DEFINE R == {l \in 0 .. M : Match(u, v, o[l], t[l])}
    <3>2. 0 \in R
      <4>1. Match(NextLevel(c), Joined(d), LeafHashes(other), Ones(other))
        BY <2>1, <2>5, OnesFit, MatchNone
      <4> QED
        BY <1>2, <3>1, <4>1
    <3>3. ASSUME NEW l \in 1 .. M, l - 1 \in R
          PROVE  l \in R
      <4>1. PICK size : Fits(o[l - 1], t[l - 1], size)
        BY <1>3
      <4>2. PICK a, b : a = o[l - 1] /\ b = t[l - 1]
        OBVIOUS
      <4>3. o[l] = Reduce(a) /\ t[l] = Joined(b) /\ Fits(a, b, size)
        BY <1>2, <4>1, <4>2
      <4>4. \/ Len(a) > 1 /\ Reduce(a) = NextLevel(a)
            \/ Reduce(a) = a /\ Joined(b) = b
        BY <4>3, RoundsAre
      <4>5. Match(c, d, a, b)
        BY <2>3, <4>2
      <4>6. Len(a) > 1 => Match(NextLevel(c), Joined(d), NextLevel(a), Joined(b))
        BY <2>1, <2>5, <4>3, <4>5, MatchNext
      <4>7. Match(u, v, o[l], t[l])
        BY <3>1, <3>3, <4>2, <4>3, <4>4, <4>6
      <4> QED
        BY <4>7
    <3>4. 0 .. M \subseteq R
      <4> HIDE DEF R
      <4>1. StaysIn(R, M)
        BY <3>3 DEF StaysIn
      <4> QED
        BY <3>2, <4>1, InductionUpTo
    <3> QED
      BY <3>1, <3>4
  <2> QED
    BY <2>1, <2>4, <2>5, RoundsAre
<1>6. 0 .. N \subseteq S
  <2> HIDE DEF S
  <2>1. StaysIn(S, N)
    BY <1>5 DEF StaysIn
  <2> QED
    BY <1>4, <2>1, InductionUpTo
<1> QED
  BY <1>1, <1>6

LEMMA RootsTell ==
    ASSUME NEW list, IsBatch(list), NEW other, IsBatch(other)
    PROVE  merkleRoot(list) = merkleRoot(other) <=> Padded(list) = Padded(other)
<1>1. PICK N \in Nat, M \in Nat : N = Len(list) /\ M = Len(other)
  BY DEF IsBatch, IsString
<1>2. PICK f, g : IsLevels(f, list) /\ IsFilled(g, list)
  BY <1>1, LevelsLoop, FilledLoop
<1>3. PICK o, t : IsLevels(o, other) /\ IsFilled(t, other)
  BY <1>1, LevelsLoop, FilledLoop
<1>4. Match(f[N], g[N], o[M], t[M])
  BY <1>1, <1>2, <1>3, LevelsMatch
<1>5. Len(f[N]) = 1 /\ Len(o[M]) = 1
  BY <1>1, <1>2, <1>3, LevelsShape
<1>6. f[N][1] = o[M][1] <=> g[N][1] = t[M][1]
  BY <1>4, <1>5 DEF Match
<1> QED
  BY <1>1, <1>2, <1>3, <1>6 DEF IsLevels, IsFilled

(* Two batches of whatever sizes have the same root only if they are the   *)
(* same up to the repetitions that fill up odd levels; and then they have. *)
THEOREM RootsTellBatches == GrowthSpec => []RootTellsLeaves
<1>1. GrownFrom => RootTellsLeaves
  <2> SUFFICES ASSUME leaves \in Seq(Leaves), leaves # << >>,
                      NEW n \in 1 .. MaxCompared, NEW other \in [1 .. n -> Leaves]
               PROVE  merkleRoot(other) = merkleRoot(leaves)
                         <=> Padded(other) = Padded(leaves)
    BY DEF GrownFrom, RootTellsLeaves
  <2>1. PICK list : list = leaves
    OBVIOUS
  <2>2. other \in Seq(Leaves) /\ other # << >>
    <3>1. n \in Nat /\ n > 0
      BY GrowthAssumption
    <3>2. other \in Seq(Leaves) /\ Len(other) = n
      BY <3>1
    <3> QED
      BY <3>1, <3>2
  <2>3. IsBatch(list) /\ IsBatch(other)
    BY <2>1, <2>2, GrownBatch
  <2> QED
    BY <2>1, <2>3, RootsTell
<1> QED
  BY <1>1, Growth, PTL

-----------------------------------------------------------------------------
(* What the verifying commands of the bridge accept.                        *)

(* Two lists around a separator.                                           *)
Parts(x, s, c, t) == x = s \o <<c>> \o t
Parted(x, s, c, t) ==
    /\ IsString(x) /\ Len(x) = Len(s) + 1 + Len(t)
    /\ \A i \in 1 .. Len(s) : x[i] = s[i]
    /\ x[Len(s) + 1] = c
    /\ \A i \in 1 .. Len(t) : x[Len(s) + 1 + i] = t[i]

LEMMA PartsAre ==
    ASSUME NEW s, IsString(s), NEW c, NEW t, IsString(t), NEW x, Parts(x, s, c, t)
    PROVE  Parted(x, s, c, t)
<1>1. PICK one : one = <<c>>
  OBVIOUS
<1>2. PICK h : Joins(h, s, one)
  BY DEF Joins
<1>3. IsString(one) /\ Len(one) = 1 /\ one[1] = c
  BY <1>1 DEF IsString
<1>4. Joins(x, h, t)
  BY <1>1, <1>2 DEF Joins, Parts
<1>5. IsString(h) /\ Laid(h, s, one)
  BY <1>2, <1>3, JoinIs, JoinIsLaid
<1>6. IsString(x)
  BY <1>4, <1>5, JoinIs
<1>7. Laid(x, h, t)
  BY <1>4, <1>5, JoinIsLaid
<1>8. PICK m \in Nat, n \in Nat : m = Len(s) /\ n = Len(t)
  BY DEF IsString
<1>9. /\ Len(h) = m + 1 /\ h[m + 1] = c
      /\ \A i \in 1 .. m : h[i] = s[i]
  BY <1>3, <1>5, <1>8 DEF Laid
<1>10. /\ Len(x) = m + 1 + n
       /\ \A i \in 1 .. m + 1 : x[i] = h[i]
       /\ \A i \in 1 .. n : x[m + 1 + i] = t[i]
  BY <1>7, <1>8, <1>9 DEF Laid
<1> QED
  BY <1>6, <1>8, <1>9, <1>10 DEF Parted

(* The separator of commitments, and the strings on both sides of a place. *)
Mark == <<":commit:">>
Cuts(t, i, a, b) == a = SubSeq(t, 1, i - 1) /\ b = SubSeq(t, i + 1, Len(t))

LEMMA CutIs ==
    ASSUME NEW t, IsString(t), NEW i \in 1 .. Len(t), NEW a, NEW b, Cuts(t, i, a, b)
    PROVE  /\ IsString(a) /\ Len(a) = i - 1 /\ IsString(b) /\ Len(b) = Len(t) - i
           /\ \A j \in 1 .. i - 1 : a[j] = t[j]
           /\ \A j \in 1 .. Len(t) - i : b[j] = t[i + j]
<1>1. PICK S : t \in Seq(S)
  BY StringType
<1>2. PICK n \in Nat : n = Len(t)
  BY <1>1
<1>3. /\ a \in Seq(S) /\ Len(a) = i - 1
      /\ \A j \in 1 .. i - 1 : a[j] = t[j]
  BY <1>1, <1>2 DEF Cuts
<1>4. /\ b \in Seq(S) /\ Len(b) = n - i
      /\ \A j \in 1 .. n - i : b[j] = t[i + j]
  <2>1. b = SubSeq(t, i + 1, n) /\ i + 1 \in 1 .. n + 1
    BY <1>2 DEF Cuts
  <2>2. b \in Seq(S) /\ Len(b) = n - i
    BY <1>1, <1>2, <2>1
  <2>3. ASSUME NEW j \in 1 .. n - i PROVE b[j] = t[i + j]
    BY <1>1, <1>2, <2>1
  <2> QED
    BY <2>2, <2>3
<1> QED
  BY <1>2, <1>3, <1>4, SeqIsString

(* Two lists that are the same parts around the same item.                 *)
LEMMA PartedIs ==
    ASSUME NEW s, IsString(s), NEW c, NEW t, IsString(t), NEW x, Parted(x, s, c, t)
    PROVE  Parts(x, s, c, t)
<1>1. PICK y : Parts(y, s, c, t)
  BY DEF Parts
<1>2. Parted(y, s, c, t)
  BY <1>1, PartsAre
<1>3. PICK m \in Nat, n \in Nat : m = Len(s) /\ n = Len(t)
  BY DEF IsString
<1>4. /\ IsString(x) /\ Len(x) = m + 1 + n /\ x[m + 1] = c
      /\ \A i \in 1 .. m : x[i] = s[i]
      /\ \A i \in 1 .. n : x[m + 1 + i] = t[i]
  BY <1>3 DEF Parted
<1>5. /\ IsString(y) /\ Len(y) = m + 1 + n /\ y[m + 1] = c
      /\ \A i \in 1 .. m : y[i] = s[i]
      /\ \A i \in 1 .. n : y[m + 1 + i] = t[i]
  BY <1>2, <1>3 DEF Parted
<1>6. ASSUME NEW i \in 1 .. m + 1 + n PROVE x[i] = y[i]
  <2>1. CASE i <= m
    BY <1>4, <1>5, <2>1
  <2>2. CASE i = m + 1
    BY <1>4, <1>5, <2>2
  <2>3. CASE i > m + 1
    <3>1. PICK j \in 1 .. n : i = m + 1 + j
      <4>1. i - (m + 1) \in 1 .. n /\ i = m + 1 + (i - (m + 1))
        BY <2>3
      <4> QED
        BY <4>1
    <3> QED
      BY <1>4, <1>5, <3>1
  <2> QED
    BY <2>1, <2>2, <2>3
<1>7. x = y
  BY <1>4, <1>5, <1>6 DEF IsString
<1> QED
  BY <1>1, <1>7

(* What lending means: the salt t is a, separator and v, and u is s,       *)
(* separator and a.                                                        *)
LEMMA LendingIs ==
    ASSUME NEW s, NEW t, IsString(t), NEW u, NEW v
    PROVE  LendsItsFront(<<s, t>>, <<u, v>>) <=>
               \E i \in 1 .. Len(t) : \E a :
                   t[i] = Mark /\ Cuts(t, i, a, v) /\ Parts(u, s, Mark, a)
<1>1. DOMAIN t = 1 .. Len(t)
  BY DEF IsString
<1>2. PICK p, q : p = <<s, t>> /\ q = <<u, v>>
  OBVIOUS
<1>3. p[1] = s /\ p[2] = t /\ q[1] = u /\ q[2] = v
  BY <1>2
<1>4. LendsItsFront(p, q) <=>
          \E i \in 1 .. Len(t) : /\ t[i] = Mark
                                 /\ u = s \o <<Mark>> \o SubSeq(t, 1, i - 1)
                                 /\ v = SubSeq(t, i + 1, Len(t))
  BY <1>1, <1>3 DEF LendsItsFront, Mark, Text
<1>5. LendsItsFront(p, q) <=>
          \E i \in 1 .. Len(t) : \E a :
              t[i] = Mark /\ Cuts(t, i, a, v) /\ Parts(u, s, Mark, a)
  BY <1>4 DEF Cuts, Parts
<1> QED
  BY <1>2, <1>5

(* Equal joined strings have equal parts, or the salt of one lends to the  *)
(* message of the other.                                                   *)
LEMMA LongerBorrows ==
    ASSUME NEW x, NEW s, IsString(s), NEW t, IsString(t), Parts(x, s, Mark, t),
           NEW u, IsString(u), NEW v, IsString(v), Parts(x, u, Mark, v), Len(s) < Len(u)
    PROVE  LendsItsFront(<<s, t>>, <<u, v>>)
<1>1. PICK c : c = Mark
  OBVIOUS
<1>2. Parted(x, s, c, t) /\ Parted(x, u, c, v)
  BY <1>1, PartsAre
<1>3. PICK m \in Nat, n \in Nat : m = Len(s) /\ n = Len(t)
  BY DEF IsString
<1>4. PICK k \in Nat, l \in Nat : k = Len(u) /\ l = Len(v)
  BY DEF IsString
<1>5. /\ Len(x) = m + 1 + n /\ x[m + 1] = c
      /\ \A i \in 1 .. m : x[i] = s[i]
      /\ \A i \in 1 .. n : x[m + 1 + i] = t[i]
  BY <1>2, <1>3 DEF Parted
<1>6. /\ Len(x) = k + 1 + l /\ x[k + 1] = c
      /\ \A i \in 1 .. k : x[i] = u[i]
      /\ \A i \in 1 .. l : x[k + 1 + i] = v[i]
  BY <1>2, <1>4 DEF Parted
<1>7. PICK i \in 1 .. n : i = k - m
  <2>1. m < k /\ k - m \in 1 .. n
    BY <1>3, <1>4, <1>5, <1>6
  <2> QED
    BY <2>1
<1>8. m + i = k /\ i + l = n
  BY <1>5, <1>6, <1>7
<1>9. t[i] = c
  <2>1. x[m + 1 + i] = t[i] /\ m + 1 + i = k + 1
    BY <1>5, <1>8
  <2> QED
    BY <1>6, <2>1
<1>10. PICK a, b : Cuts(t, i, a, b)
  BY DEF Cuts
<1>11. /\ IsString(a) /\ Len(a) = i - 1 /\ IsString(b) /\ Len(b) = l
       /\ \A j \in 1 .. i - 1 : a[j] = t[j]
       /\ \A j \in 1 .. l : b[j] = t[i + j]
  <2>1. i \in 1 .. Len(t)
    BY <1>3
  <2>2. /\ IsString(a) /\ Len(a) = i - 1 /\ IsString(b) /\ Len(b) = Len(t) - i
        /\ \A j \in 1 .. i - 1 : a[j] = t[j]
        /\ \A j \in 1 .. Len(t) - i : b[j] = t[i + j]
    BY <1>10, <2>1, CutIs
  <2>3. Len(t) - i = l
    BY <1>3, <1>8
  <2> QED
    BY <2>2, <2>3
<1>12. b = v
  <2>1. ASSUME NEW j \in 1 .. l PROVE b[j] = v[j]
    <3>1. i + j \in 1 .. n /\ m + 1 + (i + j) = k + 1 + j
      BY <1>8
    <3>2. x[m + 1 + (i + j)] = t[i + j]
      BY <1>5, <3>1
    <3> QED
      BY <1>6, <1>11, <3>1, <3>2
  <2> QED
    BY <1>4, <1>11, <2>1 DEF IsString
<1>13. Parted(u, s, c, a)
  <2>1. ASSUME NEW j \in 1 .. m PROVE u[j] = s[j]
    BY <1>5, <1>6, <1>8
  <2>2. u[m + 1] = c
    <3>1. m + 1 \in 1 .. k
      BY <1>8
    <3> QED
      BY <1>5, <1>6, <3>1
  <2>3. ASSUME NEW j \in 1 .. i - 1 PROVE u[m + 1 + j] = a[j]
    <3>1. m + 1 + j \in 1 .. k /\ j \in 1 .. n
      BY <1>8
    <3> QED
      BY <1>5, <1>6, <1>11, <3>1
  <2>4. Len(u) = m + 1 + (i - 1)
    BY <1>4, <1>8
  <2> QED
    BY <1>3, <1>11, <2>1, <2>2, <2>3, <2>4 DEF Parted
<1>14. Parts(u, s, c, a)
  BY <1>11, <1>13, PartedIs
<1> QED
  BY <1>1, <1>3, <1>9, <1>10, <1>12, <1>14, LendingIs

LEMMA JoinedTell ==
    ASSUME NEW x, NEW s, IsString(s), NEW t, IsString(t), Parts(x, s, Mark, t),
           NEW u, IsString(u), NEW v, IsString(v), Parts(x, u, Mark, v)
    PROVE  SameCommitment(<<s, t>>, <<u, v>>)
<1>1. CASE Len(s) < Len(u)
  BY <1>1, LongerBorrows DEF SameCommitment
<1>2. CASE Len(u) < Len(s)
  BY <1>2, LongerBorrows DEF SameCommitment
<1>3. CASE Len(s) = Len(u)
  <2>1. PICK c : c = Mark
    OBVIOUS
  <2>2. Parted(x, s, c, t) /\ Parted(x, u, c, v)
    BY <2>1, PartsAre
  <2>3. PICK m \in Nat, n \in Nat : m = Len(s) /\ m = Len(u) /\ n = Len(t)
    BY <1>3 DEF IsString
  <2>4. PICK l \in Nat : l = Len(v)
    BY DEF IsString
  <2>5. /\ Len(x) = m + 1 + n
        /\ \A i \in 1 .. m : x[i] = s[i]
        /\ \A i \in 1 .. n : x[m + 1 + i] = t[i]
    BY <2>2, <2>3 DEF Parted
  <2>6. /\ Len(x) = m + 1 + l
        /\ \A i \in 1 .. m : x[i] = u[i]
        /\ \A i \in 1 .. l : x[m + 1 + i] = v[i]
    BY <2>2, <2>3, <2>4 DEF Parted
  <2>7. n = l
    BY <2>5, <2>6
  <2>8. (\A i \in 1 .. m : s[i] = u[i]) /\ (\A i \in 1 .. n : t[i] = v[i])
    BY <2>5, <2>6, <2>7
  <2>9. s = u /\ t = v
    BY <2>3, <2>4, <2>7, <2>8 DEF IsString
  <2> QED
    BY <2>9 DEF SameCommitment
<1>4. Len(s) \in Nat /\ Len(u) \in Nat
  BY DEF IsString
<1> QED
  BY <1>1, <1>2, <1>3, <1>4

(* And the other way round.                                                *)
LEMMA BorrowedIsEqual ==
    ASSUME NEW s, IsString(s), NEW t, IsString(t), NEW x, Parts(x, s, Mark, t),
           NEW u, IsString(u), NEW v, IsString(v), NEW y, Parts(y, u, Mark, v),
           LendsItsFront(<<s, t>>, <<u, v>>)
    PROVE  x = y
<1>0. PICK i \in 1 .. Len(t) :
          \E a : t[i] = Mark /\ Cuts(t, i, a, v) /\ Parts(u, s, Mark, a)
  BY LendingIs
<1>1. PICK a : t[i] = Mark /\ Cuts(t, i, a, v) /\ Parts(u, s, Mark, a)
  BY <1>0
<1>2. PICK c : c = Mark
  OBVIOUS
<1>3. /\ IsString(a) /\ Len(a) = i - 1 /\ IsString(v) /\ Len(v) = Len(t) - i
      /\ \A j \in 1 .. i - 1 : a[j] = t[j]
      /\ \A j \in 1 .. Len(t) - i : v[j] = t[i + j]
  BY <1>1, CutIs
<1>4. Parted(x, s, c, t) /\ Parted(y, u, c, v) /\ Parted(u, s, c, a)
  BY <1>1, <1>2, <1>3, PartsAre
<1>5. PICK m \in Nat, n \in Nat : m = Len(s) /\ n = Len(t)
  BY DEF IsString
<1>6. i \in 1 .. n /\ Len(a) = i - 1 /\ Len(v) = n - i
  BY <1>3, <1>5
<1>7. /\ Len(x) = m + 1 + n /\ x[m + 1] = c
      /\ \A j \in 1 .. m : x[j] = s[j]
      /\ \A j \in 1 .. n : x[m + 1 + j] = t[j]
  BY <1>4, <1>5 DEF Parted
<1>8. /\ Len(u) = m + i /\ u[m + 1] = c
      /\ \A j \in 1 .. m : u[j] = s[j]
      /\ \A j \in 1 .. i - 1 : u[m + 1 + j] = a[j]
  BY <1>4, <1>5, <1>6 DEF Parted
<1>9. PICK k \in Nat : k = m + i /\ k = Len(u)
  BY <1>8
<1>10. /\ Len(y) = k + 1 + (n - i) /\ y[k + 1] = c
       /\ \A j \in 1 .. k : y[j] = u[j]
       /\ \A j \in 1 .. n - i : y[k + 1 + j] = v[j]
  BY <1>4, <1>6, <1>9 DEF Parted
<1>11. ASSUME NEW j \in 1 .. m + 1 + n PROVE x[j] = y[j]
  <2>1. CASE j <= m
    BY <1>7, <1>8, <1>9, <1>10, <2>1
  <2>2. CASE j = m + 1
    BY <1>7, <1>8, <1>9, <1>10, <2>2
  <2>3. CASE j > m + 1 /\ j <= k
    <3>1. PICK h \in 1 .. i - 1 : j = m + 1 + h
      <4>1. j - (m + 1) \in 1 .. i - 1 /\ j = m + 1 + (j - (m + 1))
        BY <1>9, <2>3
      <4> QED
        BY <4>1
    <3>2. y[j] = a[h] /\ a[h] = t[h]
      BY <1>3, <1>8, <1>9, <1>10, <2>3, <3>1
    <3>3. h \in 1 .. n
      BY <1>6
    <3> QED
      BY <1>7, <3>1, <3>2, <3>3
  <2>4. CASE j = k + 1
    <3>1. x[m + 1 + i] = t[i] /\ m + 1 + i = j
      BY <1>6, <1>7, <1>9, <2>4
    <3> QED
      BY <1>1, <1>2, <1>10, <2>4, <3>1
  <2>5. CASE j > k + 1
    <3>1. PICK h \in 1 .. n - i : j = k + 1 + h
      <4>1. j - (k + 1) \in 1 .. n - i /\ j = k + 1 + (j - (k + 1))
        BY <1>6, <1>9, <2>5
      <4> QED
        BY <4>1
    <3>2. y[j] = v[h] /\ v[h] = t[i + h]
      BY <1>3, <1>5, <1>10, <3>1
    <3>3. i + h \in 1 .. n /\ j = m + 1 + (i + h)
      BY <1>6, <1>9, <3>1
    <3> QED
      BY <1>7, <3>2, <3>3
  <2>6. k \in Nat /\ j \in Nat
    OBVIOUS
  <2>7. j <= m \/ j = m + 1 \/ (j > m + 1 /\ j <= k) \/ j = k + 1 \/ j > k + 1
    BY <2>6
  <2> QED
    BY <2>1, <2>2, <2>3, <2>4, <2>5, <2>7
<1>12. Len(y) = Len(x)
  <2>1. Len(y) = k + 1 + (n - i) /\ Len(x) = m + 1 + n
    BY <1>7, <1>10
  <2>2. k = m + i /\ i \in Int
    BY <1>9
  <2>3. k + 1 + (n - i) = m + 1 + n
    BY <2>2
  <2> QED
    BY <2>1, <2>3
<1>13. IsString(x) /\ IsString(y)
  BY <1>4 DEF Parted
<1> QED
  BY <1>7, <1>11, <1>12, <1>13 DEF IsString

LEMMA NodeIsString == \A s : IsNode(s) => IsString(s) /\ Len(s) = 2
<1> SUFFICES ASSUME NEW s, IsNode(s) PROVE IsString(s) /\ Len(s) = 2
  OBVIOUS
<1>1. PICK a, b : s = <<a, b>>
  BY DEF IsNode, HashOf
<1> QED
  BY <1>1 DEF IsString

LEMMA NodesOfBridge ==
    /\ \A m, r : IsNode(fallback_commitment(m, r))
    /\ \A k : IsNode(publicKeyOf(k))
    /\ \A k, m : IsNode(signatureUnder(k, m))
BY CommitmentIs, DigestIs DEF IsNode, publicKeyOf, signatureUnder

(* A public key tells the private key.                                     *)
LEMMA KeyTells ==
    ASSUME NEW k, IsString(k), NEW l, IsString(l), publicKeyOf(k) = publicKeyOf(l)
    PROVE  k = l
<1>1. PICK p : p = Text("bls-pk:")
  OBVIOUS
<1>2. PICK x, y : Joins(x, p, k) /\ Joins(y, p, l)
  BY DEF Joins
<1>3. HashOf(x) = HashOf(y)
  BY <1>1, <1>2, DigestIs DEF Joins, publicKeyOf
<1>4. x = y
  BY <1>3, HashTells
<1>5. IsString(p)
  BY <1>1 DEF IsString, Text
<1> QED
  BY <1>2, <1>4, <1>5, JoinTells

(* A signature tells the public key and the message: keys are equally long.*)
LEMMA SignatureTells ==
    ASSUME NEW k, IsNode(k), NEW l, IsNode(l), NEW m, IsString(m), NEW n, IsString(n),
           signatureUnder(k, m) = signatureUnder(l, n)
    PROVE  k = l /\ m = n
<1>1. PICK p : p = Text(":bls-sign:")
  OBVIOUS
<1>2. PICK f, g : Joins(f, k, p) /\ Joins(g, l, p)
  BY DEF Joins
<1>3. PICK x, y : Joins(x, f, m) /\ Joins(y, g, n)
  BY DEF Joins
<1>4. HashOf(x) = HashOf(y)
  BY <1>1, <1>2, <1>3, DigestIs DEF Joins, signatureUnder
<1>5. x = y
  BY <1>4, HashTells
<1>6. IsString(p) /\ Len(p) = 1
  BY <1>1 DEF IsString, Text
<1>7. IsString(k) /\ Len(k) = 2 /\ IsString(l) /\ Len(l) = 2
  BY NodeIsString
<1>8. /\ IsString(f) /\ Len(f) = 3
  <2>1. IsString(f) /\ Laid(f, k, p)
    BY <1>2, <1>6, <1>7, JoinIs, JoinIsLaid
  <2> QED
    BY <1>6, <1>7, <2>1 DEF Laid
<1>9. /\ IsString(g) /\ Len(g) = 3
  <2>1. IsString(g) /\ Laid(g, l, p)
    BY <1>2, <1>6, <1>7, JoinIs, JoinIsLaid
  <2> QED
    BY <1>6, <1>7, <2>1 DEF Laid
<1>10. f = g /\ m = n
  BY <1>3, <1>5, <1>8, <1>9, JoinTells
<1> QED
  BY <1>2, <1>6, <1>7, <1>10, JoinTells

-----------------------------------------------------------------------------
LEMMA JoinNothing ==
    ASSUME NEW S, NEW a \in Seq(S)
    PROVE  a \o << >> = a
<1>1. a \o << >> \in Seq(S) /\ Len(a \o << >>) = Len(a)
  OBVIOUS
<1>2. \A i \in 1 .. Len(a) : (a \o << >>)[i] = a[i]
  OBVIOUS
<1> QED
  BY <1>1, <1>2

LEMMA AppendJoin ==
    ASSUME NEW S, NEW a \in Seq(S), NEW b \in Seq(S), NEW c \in S,
           NEW h, Joins(h, a, b), NEW l, Appends(l, b, c),
           NEW p, Appends(p, h, c)
    PROVE  Joins(p, a, l)
<1>1. PICK q : q = a \o l
  OBVIOUS
<1>2. p = Append(h, c) /\ q = a \o l /\ h = a \o b /\ l = Append(b, c)
  BY <1>1 DEF Joins, Appends
<1>3. /\ h \in Seq(S) /\ l \in Seq(S) /\ Len(h) = Len(a) + Len(b) /\ Len(l) = Len(b) + 1
      /\ \A i \in 1 .. Len(b) : l[i] = b[i]
      /\ l[Len(b) + 1] = c
      /\ \A i \in 1 .. Len(a) : h[i] = a[i]
      /\ \A i \in 1 .. Len(b) : h[Len(a) + i] = b[i]
  BY <1>2
<1>4. p \in Seq(S) /\ q \in Seq(S) /\ Len(p) = Len(h) + 1 /\ Len(q) = Len(a) + Len(l)
  BY <1>2, <1>3
<1>5. PICK n \in Nat, m \in Nat : n = Len(a) /\ m = Len(b)
  OBVIOUS
<1>6. /\ \A i \in 1 .. n + m : p[i] = h[i]
      /\ p[n + m + 1] = c
      /\ \A i \in 1 .. n : q[i] = a[i]
      /\ \A i \in 1 .. m + 1 : q[n + i] = l[i]
  BY <1>2, <1>3, <1>5
<1>7. ASSUME NEW i \in 1 .. n + m + 1 PROVE p[i] = q[i]
  <2>1. CASE i \in 1 .. n
    BY <1>3, <1>5, <1>6, <2>1
  <2>2. CASE i \in n + 1 .. n + m
    <3>1. PICK j \in 1 .. m : i = n + j
      BY <2>2
    <3> QED
      BY <1>3, <1>5, <1>6, <3>1
  <2>3. CASE i = n + m + 1
    <3>1. q[n + (m + 1)] = l[m + 1]
      BY <1>6
    <3> QED
      BY <1>3, <1>5, <1>6, <2>3, <3>1
  <2> QED
    BY <2>1, <2>2, <2>3
<1>8. Len(p) = n + m + 1 /\ Len(q) = n + m + 1
  BY <1>3, <1>4, <1>5
<1>9. p = q
  BY <1>4, <1>7, <1>8
<1> QED
  BY <1>2, <1>9 DEF Joins

(* What the filter keeps of two lists that are put together.               *)
LEMMA FilterJoin ==
    ASSUME NEW S, NEW s \in Seq(S), NEW t \in Seq(S), NEW field, NEW value,
           NEW x, Joins(x, s, t)
    PROVE  Having(x, field, value) = Having(s, field, value) \o Having(t, field, value)
<1>1. PICK N \in Nat, M \in Nat : N = Len(s) /\ M = Len(t)
  OBVIOUS
<1>2. x \in Seq(S) /\ Len(x) = N + M
  BY <1>1 DEF Joins
<1>3. Laid(x, s, t)
  BY SeqIsString, JoinIsLaid
<1>4. PICK e : IsFilter(e, s, field, value)
  <2>1. Len(s) \in Nat
    OBVIOUS
  <2> QED
    BY <2>1, FilterLoop
<1>5. PICK f : IsFilter(f, t, field, value)
  <2>1. Len(t) \in Nat
    OBVIOUS
  <2> QED
    BY <2>1, FilterLoop
<1>6. PICK g : IsFilter(g, x, field, value)
  <2>1. Len(x) \in Nat
    BY <1>2
  <2> QED
    BY <2>1, FilterLoop
<1>7. e[0] = g[0] /\ StayAlike(e, g, N)
  <2>1. ASSUME NEW n \in 1 .. N, e[n - 1] = g[n - 1]
        PROVE  e[n] = g[n]
    <3>1. e[n] = Keep(e[n - 1], s[n], field, value)
      BY <1>1, <1>4 DEF IsFilter
    <3>2. g[n] = Keep(g[n - 1], x[n], field, value)
      BY <1>1, <1>2, <1>6 DEF IsFilter
    <3>3. x[n] = s[n]
      BY <1>1, <1>3 DEF Laid
    <3> QED
      BY <2>1, <3>1, <3>2, <3>3
  <2> QED
    BY <1>4, <1>6, <2>1 DEF IsFilter, StayAlike
<1>8. g[N] = e[N]
  <2>1. Alike(e, g, N)
    BY <1>7, SameLoop
  <2> QED
    BY <2>1 DEF Alike
<1>9. e[N] \in Seq(S)
  BY <1>1, <1>4, FilterType DEF IsFilter
<1> DEFINE K == {n \in Nat : f[n] \in Seq(S) /\ g[N + n] = e[N] \o f[n]}
<1>10. 0 \in K
  <2>1. f[0] = << >> /\ << >> \in Seq(S)
    BY <1>5 DEF IsFilter
  <2>2. e[N] \o << >> = e[N] /\ N + 0 = N
    BY <1>9, JoinNothing
  <2> QED
    BY <1>8, <2>1, <2>2
<1>11. StaysIn(K, M)
  <2> SUFFICES ASSUME NEW n \in 1 .. M, n - 1 \in K PROVE n \in K
    BY DEF StaysIn
  <2>1. f[n] = Keep(f[n - 1], t[n], field, value)
    BY <1>1, <1>5 DEF IsFilter
  <2>2. g[N + n] = Keep(g[N + (n - 1)], x[N + n], field, value)
    <3>1. N + n \in 1 .. N + M /\ (N + n) - 1 = N + (n - 1)
      OBVIOUS
    <3> QED
      BY <1>2, <1>6, <3>1 DEF IsFilter
  <2>3. x[N + n] = t[n] /\ t[n] \in S
    <3>1. t[n] \in S
      BY <1>1
    <3> QED
      BY <1>1, <1>3, <3>1 DEF Laid
  <2>4. PICK a, b, c : a = e[N] /\ b = f[n - 1] /\ c = t[n]
    OBVIOUS
  <2>5. a \in Seq(S) /\ b \in Seq(S) /\ c \in S
    BY <1>9, <2>3, <2>4
  <2>6. PICK h, l, p : Joins(h, a, b) /\ Appends(l, b, c) /\ Appends(p, h, c)
    BY DEF Joins, Appends
  <2>8. Joins(p, a, l)
    BY <2>5, <2>6, AppendJoin
  <2>10. l \in Seq(S)
    BY <2>5, <2>6 DEF Appends
  <2>7. f[n] \in Seq(S) /\ g[N + n] = e[N] \o f[n]
    BY <2>1, <2>2, <2>3, <2>4, <2>5, <2>6, <2>8, <2>10 DEF Keep, Joins, Appends
  <2>9. n \in Nat
    OBVIOUS
  <2> QED
    BY <2>7, <2>9, Zenon
<1>12. M \in K
  <2> HIDE DEF K
  <2> QED
    BY <1>10, <1>11, InductionUpTo
<1> QED
  BY <1>1, <1>2, <1>4, <1>5, <1>6, <1>12 DEF IsFilter

(* It keeps something exactly when an item has the value.                  *)
LEMMA FilterFinds ==
    ASSUME NEW S, NEW s \in Seq(S), NEW field, NEW value
    PROVE  Having(s, field, value) = << >>
               <=> \A i \in 1 .. Len(s) : s[i][field] # value
<1>1. PICK N \in Nat : N = Len(s)
  OBVIOUS
<1>2. PICK f : IsFilter(f, s, field, value)
  BY <1>1, FilterLoop
<1>3. f[0] = << >> /\ Having(s, field, value) = f[N]
  BY <1>1, <1>2 DEF IsFilter
<1> DEFINE K == {n \in Nat : /\ f[n] \in Seq(S)
                             /\ f[n] = << >> <=> \A i \in 1 .. n : s[i][field] # value}
<1>4. 0 \in K
  <2>1. << >> \in Seq(S) /\ \A i \in 1 .. 0 : s[i][field] # value
    OBVIOUS
  <2> QED
    BY <1>3, <2>1
<1>5. StaysIn(K, N)
  <2> SUFFICES ASSUME NEW n \in 1 .. N, n - 1 \in K PROVE n \in K
    BY DEF StaysIn
  <2>1. f[n] = Keep(f[n - 1], s[n], field, value) /\ s[n] \in S
    BY <1>1, <1>2 DEF IsFilter
  <2>2. CASE s[n][field] = value
    <3>1. f[n] = Append(f[n - 1], s[n])
      BY <2>1, <2>2 DEF Keep
    <3>2. f[n] \in Seq(S) /\ f[n] # << >>
      BY <2>1, <3>1
    <3> QED
      BY <2>2, <3>2
  <2>3. CASE s[n][field] # value
    <3>1. f[n] = f[n - 1]
      BY <2>1, <2>3 DEF Keep
    <3> QED
      BY <2>3, <3>1
  <2> QED
    BY <2>2, <2>3
<1>6. N \in K
  <2> HIDE DEF K
  <2> QED
    BY <1>4, <1>5, InductionUpTo
<1> QED
  BY <1>1, <1>3, <1>6

-----------------------------------------------------------------------------
(* Sorting: a coupling is placed behind the last one that is not above it. *)
Numbered(S) == \A c \in S : c.prime \in Int
Rising(list) ==
    \A i, j \in 1 .. Len(list) : i < j => list[i].prime <= list[j].prime
Above(list, q) == \A j \in 1 .. Len(list) : list[j].prime > q
IsPlace(i, list, q) ==
    i \in 1 .. Len(list) + 1 /\ \A j \in DOMAIN list : j < i <=> list[j].prime <= q

LEMMA PlaceExists ==
    ASSUME NEW S, Numbered(S), NEW list \in Seq(S), Rising(list), NEW q \in Int
    PROVE  \E i : IsPlace(i, list, q)
<1>1. PICK N \in Nat : N = Len(list) /\ DOMAIN list = 1 .. N
  OBVIOUS
<1>2. \A j \in 1 .. N : list[j].prime \in Int
  BY <1>1 DEF Numbered
<1> DEFINE P == {i \in 1 .. N + 1 : i = N + 1 \/ list[i].prime > q}
<1>3. P \in SUBSET Nat /\ N + 1 \in P
  OBVIOUS
<1>4. PICK x \in P : \A y \in P : x <= y
  <2> HIDE DEF P
  <2> QED
    BY <1>3, LeastExists
<1>5. ASSUME NEW j \in 1 .. N
      PROVE  j < x <=> list[j].prime <= q
  <2>1. CASE j < x
    <3>1. j \notin P
      BY <1>4, <2>1
    <3> QED
      BY <1>2, <2>1, <3>1
  <2>2. CASE j >= x
    <3>1. x \in 1 .. N /\ list[x].prime > q
      BY <2>2
    <3>2. list[x].prime <= list[j].prime
      BY <1>1, <1>2, <2>2, <3>1 DEF Rising
    <3> QED
      BY <1>2, <2>2, <3>1, <3>2
  <2> QED
    BY <2>1, <2>2
<1> QED
  BY <1>1, <1>5 DEF IsPlace

(* The list before and the list after the place.                           *)
Placing(x, list, c, a, b) ==
    /\ Joins(list, a, b) /\ Parts(x, a, c, b)
    /\ \A j \in 1 .. Len(a) : a[j].prime <= c.prime
    /\ Above(b, c.prime)

LEMMA PlacedIs ==
    ASSUME NEW S, Numbered(S), NEW list \in Seq(S), Rising(list), NEW c \in S
    PROVE  \E a \in Seq(S), b \in Seq(S) : Placing(placed(list, c), list, c, a, b)
<1>1. PICK N \in Nat : N = Len(list) /\ DOMAIN list = 1 .. N
  OBVIOUS
<1>2. c.prime \in Int /\ \A j \in 1 .. N : list[j].prime \in Int
  BY <1>1 DEF Numbered
<1>3. PICK i : /\ i = CHOOSE k \in 1 .. Len(list) + 1 :
                         \A j \in DOMAIN list : j < k <=> list[j].prime <= c.prime
               /\ IsPlace(i, list, c.prime)
  <2>1. \E k \in 1 .. Len(list) + 1 :
            \A j \in DOMAIN list : j < k <=> list[j].prime <= c.prime
    BY <1>2, PlaceExists DEF IsPlace
  <2> QED
    BY <2>1 DEF IsPlace
<1>4. i \in 1 .. N + 1 /\ \A j \in 1 .. N : j < i <=> list[j].prime <= c.prime
  BY <1>1, <1>3 DEF IsPlace
<1>5. PICK a, b : a = SubSeq(list, 1, i - 1) /\ b = SubSeq(list, i, N)
  OBVIOUS
<1>6. /\ a \in Seq(S) /\ Len(a) = i - 1
      /\ \A j \in 1 .. i - 1 : a[j] = list[j]
  BY <1>1, <1>4, <1>5
<1>7. /\ b \in Seq(S) /\ Len(b) = N - i + 1
      /\ \A j \in 1 .. N - i + 1 : b[j] = list[i + j - 1]
  BY <1>1, <1>4, <1>5
<1>8. Joins(list, a, b)
  <2>1. PICK x : x = a \o b
    OBVIOUS
  <2>2. x \in Seq(S) /\ Len(x) = N
    <3>1. x \in Seq(S) /\ Len(x) = Len(a) + Len(b)
      <4>1. a \in Seq(S) /\ b \in Seq(S)
        BY <1>6, <1>7
      <4> QED
        BY <2>1, <4>1
    <3>2. i \in Int
      BY <1>4
    <3> QED
      BY <1>6, <1>7, <3>1, <3>2
  <2>3. ASSUME NEW j \in 1 .. N PROVE x[j] = list[j]
    <3>1. Laid(x, a, b)
      BY <1>6, <1>7, <2>1, SeqIsString, JoinIsLaid DEF Joins
    <3>2. CASE j < i
      BY <1>4, <1>6, <3>1, <3>2 DEF Laid
    <3>3. CASE j >= i
      <4>4. i \in Int /\ j \in Int /\ j <= N
        BY <1>4
      <4>1. PICK k \in 1 .. N - i + 1 : j = (i - 1) + k
        <5>1. PICK k : k = j - i + 1
          OBVIOUS
        <5>2. k \in 1 .. N - i + 1 /\ j = (i - 1) + k
          BY <3>3, <4>4, <5>1
        <5> QED
          BY <5>2
      <4>2. x[(i - 1) + k] = b[k] /\ b[k] = list[i + k - 1]
        BY <1>6, <1>7, <3>1 DEF Laid
      <4>3. i + k - 1 = j
        BY <1>4, <4>1
      <4> QED
        BY <4>1, <4>2, <4>3
    <3> QED
      BY <1>4, <3>2, <3>3
  <2>4. x = list
    BY <1>1, <2>2, <2>3
  <2> QED
    BY <2>1, <2>4 DEF Joins
<1>9. Parts(placed(list, c), a, c, b)
  BY <1>1, <1>3, <1>5 DEF placed, InsertAt, Parts
<1>10. \A j \in 1 .. Len(a) : a[j].prime <= c.prime
  BY <1>4, <1>6
<1>11. Above(b, c.prime)
  <2> SUFFICES ASSUME NEW j \in 1 .. N - i + 1 PROVE b[j].prime > c.prime
    BY <1>7 DEF Above
  <2>1. PICK k \in 1 .. N : k = i + j - 1 /\ ~(k < i)
    <3>1. PICK k : k = i + j - 1
      OBVIOUS
    <3>2. i \in Int /\ j \in Int
      BY <1>4
    <3>3. k \in 1 .. N /\ ~(k < i)
      BY <1>4, <3>1, <3>2
    <3> QED
      BY <3>1, <3>3
  <2> QED
    BY <1>2, <1>4, <1>7, <2>1
<1> QED
  BY <1>6, <1>7, <1>8, <1>9, <1>10, <1>11 DEF Placing

LEMMA PlacedRises ==
    ASSUME NEW S, Numbered(S), NEW list \in Seq(S), Rising(list), NEW c \in S
    PROVE  placed(list, c) \in Seq(S) /\ Rising(placed(list, c))
<1>1. PICK x : x = placed(list, c)
  OBVIOUS
<1>2. PICK a \in Seq(S), b \in Seq(S) : Placing(x, list, c, a, b)
  BY <1>1, PlacedIs
<1>3. PICK m \in Nat, n \in Nat : m = Len(a) /\ n = Len(b)
  OBVIOUS
<1>4. Parted(x, a, c, b)
  BY <1>2, SeqIsString, PartsAre DEF Placing
<1>5. Laid(list, a, b)
  BY <1>2, SeqIsString, JoinIsLaid DEF Placing
<1>6. x \in Seq(S)
  <2>1. Parts(x, a, c, b)
    BY <1>2 DEF Placing
  <2> QED
    BY <2>1 DEF Parts
<1>7. /\ Len(x) = m + 1 + n /\ x[m + 1] = c
      /\ \A i \in 1 .. m : x[i] = a[i]
      /\ \A i \in 1 .. n : x[m + 1 + i] = b[i]
  BY <1>3, <1>4 DEF Parted
<1>8. /\ Len(list) = m + n
      /\ \A i \in 1 .. m : list[i] = a[i]
      /\ \A i \in 1 .. n : list[m + i] = b[i]
  BY <1>3, <1>5 DEF Laid
<1>9. /\ c.prime \in Int
      /\ \A i \in 1 .. m : a[i].prime \in Int /\ a[i].prime <= c.prime
      /\ \A i \in 1 .. n : b[i].prime \in Int /\ c.prime < b[i].prime
  <2>1. (\A i \in 1 .. m : a[i] \in S) /\ (\A i \in 1 .. n : b[i] \in S)
    BY <1>3
  <2>2. \A i \in 1 .. m : a[i].prime <= c.prime
    BY <1>2, <1>3 DEF Placing
  <2>3. \A i \in 1 .. n : c.prime < b[i].prime
    <3>1. \A i \in 1 .. n : b[i].prime > c.prime
      BY <1>2, <1>3 DEF Placing, Above
    <3> QED
      BY <2>1, <3>1 DEF Numbered
  <2> QED
    BY <2>1, <2>2, <2>3 DEF Numbered
<1>10. ASSUME NEW i \in 1 .. m + 1 + n, NEW j \in 1 .. m + 1 + n, i < j
       PROVE  x[i].prime <= x[j].prime
  <2>1. CASE j <= m
    <3>1. x[i] = list[i] /\ x[j] = list[j] /\ i \in 1 .. Len(list) /\ j \in 1 .. Len(list)
      BY <1>7, <1>8, <1>10, <2>1
    <3> QED
      BY <1>10, <3>1 DEF Rising
  <2>2. CASE j = m + 1
    <3>1. x[i] = a[i] /\ i \in 1 .. m /\ x[j] = c
      BY <1>7, <1>10, <2>2
    <3> QED
      BY <1>9, <3>1
  <2>3. ASSUME j > m + 1 PROVE x[i].prime <= x[j].prime
    <3>1. PICK l \in 1 .. n : j = m + 1 + l
      <4>1. PICK l : l = j - m - 1
        OBVIOUS
      <4>2. l \in 1 .. n /\ j = m + 1 + l
        BY <2>3, <4>1
      <4> QED
        BY <4>2
    <3>2. x[j] = b[l]
      BY <1>7, <3>1
    <3>3. CASE i <= m
      <4>1. x[i] = a[i] /\ i \in 1 .. m
        BY <1>7, <3>3
      <4> QED
        BY <1>9, <3>2, <4>1
    <3>4. CASE i = m + 1
      BY <1>7, <1>9, <3>2, <3>4
    <3>5. ASSUME i > m + 1 PROVE x[i].prime <= x[j].prime
      <4>1. PICK k \in 1 .. n : i = m + 1 + k
        <5>1. PICK k : k = i - m - 1
          OBVIOUS
        <5>2. k \in 1 .. n /\ i = m + 1 + k
          BY <3>5, <5>1
        <5> QED
          BY <5>2
      <4>2. x[i] = list[m + k] /\ x[j] = list[m + l]
        BY <1>7, <1>8, <3>2, <4>1
      <4>3. m + k \in 1 .. Len(list) /\ m + l \in 1 .. Len(list) /\ m + k < m + l
        <5>1. m + k \in 1 .. m + n /\ m + l \in 1 .. m + n
          BY <3>1, <4>1
        <5>2. m + k < m + l
          BY <1>10, <3>1, <4>1
        <5> QED
          BY <1>8, <5>1, <5>2
      <4>4. PICK u, v : u = m + k /\ v = m + l
        OBVIOUS
      <4>5. list[u].prime <= list[v].prime
        BY <4>3, <4>4 DEF Rising
      <4> QED
        BY <4>2, <4>4, <4>5
    <3> QED
      BY <3>3, <3>4, <3>5
  <2> QED
    BY <2>1, <2>2, <2>3
<1> QED
  BY <1>1, <1>6, <1>7, <1>10 DEF Rising

(* To the filter the coupling might as well have come last.                *)
LEMMA PlacedFilter ==
    ASSUME NEW S, Numbered(S), NEW list \in Seq(S), Rising(list), NEW c \in S, NEW p
    PROVE  Having(placed(list, c), "prime", p) = Keep(Having(list, "prime", p), c, "prime", p)
<1>1. PICK x : x = placed(list, c)
  OBVIOUS
<1>2. PICK a \in Seq(S), b \in Seq(S) : Placing(x, list, c, a, b)
  BY <1>1, PlacedIs
<1>3. PICK one, h : one = <<c>> /\ Joins(h, a, one)
  BY DEF Joins
<1>4. Joins(x, h, b) /\ h \in Seq(S)
  BY <1>2, <1>3 DEF Placing, Parts, Joins
<1>5. h = Append(a, c)
  BY <1>3 DEF Joins
<1>6. PICK A, B : /\ A = Having(a, "prime", p) /\ B = Having(b, "prime", p)
                  /\ A \in Seq(S) /\ B \in Seq(S)
  BY FilterType
<1>7. Having(h, "prime", p) = Keep(A, c, "prime", p)
  BY <1>5, <1>6, FilterAppend
<1>8. Having(list, "prime", p) = A \o B
  <2>1. Joins(list, a, b)
    BY <1>2 DEF Placing
  <2>2. Having(list, "prime", p) = Having(a, "prime", p) \o Having(b, "prime", p)
    BY <2>1, FilterJoin
  <2> QED
    BY <1>6, <2>2
<1>9. Having(x, "prime", p) = Keep(A, c, "prime", p) \o B
  <2>1. Having(x, "prime", p) = Having(h, "prime", p) \o Having(b, "prime", p)
    BY <1>4, FilterJoin
  <2> QED
    BY <1>6, <1>7, <2>1
<1>10. CASE c.prime = p
  <2>1. B = << >>
    <3>1. \A j \in 1 .. Len(b) : b[j].prime # p
      <4>1. c.prime \in Int /\ \A j \in 1 .. Len(b) : b[j].prime \in Int
        BY DEF Numbered
      <4>2. \A j \in 1 .. Len(b) : b[j].prime > c.prime
        BY <1>2 DEF Placing, Above
      <4> QED
        BY <1>10, <4>1, <4>2
    <3> QED
      BY <1>6, <3>1, FilterFinds
  <2>2. PICK more : more = Append(A, c)
    OBVIOUS
  <2>4. more \in Seq(S)
    BY <1>6, <2>2
  <2>3. more \o << >> = more /\ A \o << >> = A
    BY <1>6, <2>4, JoinNothing
  <2> QED
    BY <1>1, <1>8, <1>9, <1>10, <2>1, <2>2, <2>3 DEF Keep
<1>11. CASE c.prime # p
  BY <1>1, <1>8, <1>9, <1>11 DEF Keep
<1> QED
  BY <1>10, <1>11

(* The loop.                                                               *)
IsSort(f, list) ==
    /\ sortedByPrime(list) = f[Len(list)]
    /\ f[0] = << >>
    /\ \A n \in 1 .. Len(list) : f[n] = placed(f[n - 1], list[n])

LEMMA SortLoop ==
    ASSUME NEW list, Len(list) \in Nat
    PROVE  \E f : IsSort(f, list)
<1> DEFINE N == Len(list)
           Body(n, f) == [k \in 0 .. n |->
                             IF k = 0 THEN << >> ELSE placed(f[k - 1], list[k])]
           S == {n \in Nat : \E f : f = Body(n, f)}
<1>1. 0 \in S
  <2> DEFINE f == [k \in 0 .. 0 |-> << >>]
  <2>1. f = Body(0, f)
    OBVIOUS
  <2> QED
    BY <2>1
<1>2. ASSUME NEW n \in Nat, n \in S
      PROVE  n + 1 \in S
  <2>1. PICK f : f = Body(n, f)
    BY <1>2
  <2> DEFINE g == [k \in 0 .. n + 1 |->
                     IF k = n + 1 THEN placed(f[n], list[n + 1]) ELSE f[k]]
  <2>2. ASSUME NEW k \in 0 .. n + 1
        PROVE  g[k] = IF k = 0 THEN << >> ELSE placed(g[k - 1], list[k])
    <3>1. CASE k = n + 1
      BY <3>1
    <3>2. CASE k = 0
      BY <2>1, <3>2
    <3>3. CASE k \in 1 .. n
      <4>1. g[k] = f[k] /\ g[k - 1] = f[k - 1]
        BY <3>3
      <4>2. f[k] = placed(f[k - 1], list[k])
        BY <2>1, <3>3
      <4> QED
        BY <3>3, <4>1, <4>2
    <3> QED
      BY <3>1, <3>2, <3>3
  <2>3. g = Body(n + 1, g)
    BY <2>2
  <2> HIDE DEF g, Body
  <2> QED
    BY <2>3
<1>3. Nat \subseteq S
  <2> HIDE DEF S
  <2> QED
    BY <1>1, <1>2, NatSetInduction
<1> DEFINE loop == CHOOSE f : f = Body(N, f)
<1>4. loop = Body(N, loop)
  <2> HIDE DEF Body
  <2> QED
    BY <1>3
<1>5. sortedByPrime(list) = loop[N]
  BY DEF sortedByPrime
<1> HIDE DEF loop
<1>6. /\ loop[0] = << >>
      /\ \A k \in 1 .. N : loop[k] = placed(loop[k - 1], list[k])
  BY <1>4
<1> QED
  BY <1>5, <1>6 DEF IsSort

(* What is sorted rises, and has the couplings of each prime in the order  *)
(* in which they came.                                                     *)
LEMMA SortedIs ==
    ASSUME NEW S, Numbered(S), NEW list \in Seq(S)
    PROVE  /\ sortedByPrime(list) \in Seq(S) /\ Rising(sortedByPrime(list))
           /\ \A p : Having(sortedByPrime(list), "prime", p) = Having(list, "prime", p)
<1>1. PICK N \in Nat : N = Len(list)
  OBVIOUS
<1>2. PICK f : IsSort(f, list)
  BY <1>1, SortLoop
<1>3. f[0] = << >> /\ sortedByPrime(list) = f[N]
  BY <1>1, <1>2 DEF IsSort
<1>4. ASSUME NEW n \in 1 .. N
      PROVE  f[n] = placed(f[n - 1], list[n]) /\ list[n] \in S
  BY <1>1, <1>2 DEF IsSort
<1> DEFINE K == {n \in Nat : f[n] \in Seq(S) /\ Rising(f[n])}
<1>5. 0 \in K
  <2>1. << >> \in Seq(S) /\ Rising(<< >>)
    BY DEF Rising
  <2> QED
    BY <1>3, <2>1
<1>6. StaysIn(K, N)
  <2> SUFFICES ASSUME NEW n \in 1 .. N, n - 1 \in K PROVE n \in K
    BY DEF StaysIn
  <2>1. PICK before, c : before = f[n - 1] /\ c = list[n]
    OBVIOUS
  <2>2. before \in Seq(S) /\ Rising(before) /\ c \in S
    BY <1>4, <2>1
  <2>3. f[n] = placed(before, c)
    BY <1>4, <2>1
  <2>4. f[n] \in Seq(S) /\ Rising(f[n])
    BY <2>2, <2>3, PlacedRises
  <2> QED
    BY <2>4
<1>7. 0 .. N \subseteq K
  <2> HIDE DEF K
  <2> QED
    BY <1>5, <1>6, InductionUpTo
<1>8. ASSUME NEW p
      PROVE  Having(f[N], "prime", p) = Having(list, "prime", p)
  <2>1. PICK g : IsFilter(g, list, "prime", p)
    BY <1>1, FilterLoop
  <2> DEFINE L == {n \in Nat : Having(f[n], "prime", p) = g[n]}
  <2>2. 0 \in L
    BY <1>3, <2>1, FilterEmpty DEF IsFilter
  <2>3. StaysIn(L, N)
    <3> SUFFICES ASSUME NEW n \in 1 .. N, n - 1 \in L PROVE n \in L
      BY DEF StaysIn
    <3>1. PICK before, c : before = f[n - 1] /\ c = list[n]
      OBVIOUS
    <3>2. n - 1 \in 0 .. N
      OBVIOUS
    <3>3. before \in Seq(S) /\ Rising(before) /\ c \in S
      BY <1>4, <1>7, <3>1, <3>2
    <3>4. f[n] = placed(before, c)
      BY <1>4, <3>1
    <3>5. Having(f[n], "prime", p) = Keep(Having(before, "prime", p), c, "prime", p)
      BY <3>3, <3>4, PlacedFilter
    <3>6. g[n] = Keep(g[n - 1], c, "prime", p)
      BY <1>1, <2>1, <3>1 DEF IsFilter
    <3>7. Having(before, "prime", p) = g[n - 1]
      BY <3>1
    <3> QED
      BY <3>5, <3>6, <3>7
  <2>4. N \in L
    <3> HIDE DEF L
    <3> QED
      BY <2>2, <2>3, InductionUpTo
  <2> QED
    BY <1>1, <2>1, <2>4 DEF IsFilter
<1>9. f[N] \in Seq(S) /\ Rising(f[N])
  BY <1>7
<1> QED
  BY <1>3, <1>8, <1>9

(* A list that is not empty, as its last item and those before it.         *)
LEMMA LastIs ==
    ASSUME NEW S, NEW list \in Seq(S), list # << >>
    PROVE  \E before \in Seq(S), c \in S : Appends(list, before, c)
<1>1. PICK N \in Nat : N = Len(list) /\ N > 0
  OBVIOUS
<1>2. PICK before : before = SubSeq(list, 1, N - 1)
  OBVIOUS
<1>3. /\ before \in Seq(S) /\ Len(before) = N - 1
      /\ \A i \in 1 .. N - 1 : before[i] = list[i]
  BY <1>1, <1>2
<1>4. PICK c, x : c = list[N] /\ x = Append(before, c)
  OBVIOUS
<1>5. c \in S
  BY <1>1, <1>4
<1>6. x \in Seq(S) /\ Len(x) = N
  <2>1. before \in Seq(S)
    BY <1>3
  <2>2. x \in Seq(S) /\ Len(x) = Len(before) + 1
    BY <1>4, <1>5, <2>1
  <2> QED
    BY <1>1, <1>3, <2>2
<1>7. ASSUME NEW i \in 1 .. N PROVE x[i] = list[i]
  <2>1. x[Len(before) + 1] = c /\ \A j \in 1 .. Len(before) : x[j] = before[j]
    BY <1>3, <1>4, <1>5
  <2> QED
    BY <1>1, <1>3, <1>4, <2>1
<1>8. x = list
  BY <1>1, <1>6, <1>7
<1> QED
  BY <1>3, <1>4, <1>5, <1>8 DEF Appends

(* The last of a list that rises has the greatest prime.                   *)
LEMMA RisesToLast ==
    ASSUME NEW S, Numbered(S), NEW list \in Seq(S), Rising(list),
           NEW before \in Seq(S), NEW c \in S, Appends(list, before, c)
    PROVE  /\ Rising(before) /\ \A j \in 1 .. Len(list) : list[j].prime <= c.prime
           /\ list[Len(list)] = c /\ Len(list) > 0 /\ Len(list) = Len(before) + 1
           /\ \A p : Having(list, "prime", p)
                       = Keep(Having(before, "prime", p), c, "prime", p)
<1>1. PICK n \in Nat : n = Len(before)
  OBVIOUS
<1>2. /\ Len(list) = n + 1 /\ list[n + 1] = c
      /\ \A j \in 1 .. n : list[j] = before[j]
  BY <1>1 DEF Appends
<1>3. Rising(before)
  BY <1>1, <1>2 DEF Rising
<1>4. ASSUME NEW j \in 1 .. n + 1 PROVE list[j].prime <= c.prime
  <2>1. c.prime \in Int
    BY DEF Numbered
  <2> QED
    BY <1>2, <2>1 DEF Rising
<1>5. ASSUME NEW p
      PROVE  Having(list, "prime", p) = Keep(Having(before, "prime", p), c, "prime", p)
  BY FilterAppend DEF Appends
<1> QED
  BY <1>1, <1>2, <1>3, <1>4, <1>5

(* A list that rises is known by what it has of each prime.                *)
SameFilters(list, other) ==
    \A p : Having(list, "prime", p) = Having(other, "prime", p)

LEMMA AppendsAre ==
    ASSUME NEW S, NEW a \in Seq(S), NEW c \in S, NEW x, Appends(x, a, c)
    PROVE  /\ Len(x) = Len(a) + 1 /\ x[Len(a) + 1] = c
           /\ \A i \in 1 .. Len(a) : x[i] = a[i]
BY DEF Appends

LEMMA AppendTells ==
    ASSUME NEW S, NEW a \in Seq(S), NEW b \in Seq(S), NEW c \in S, NEW d \in S,
           NEW x, Appends(x, a, c), Appends(x, b, d)
    PROVE  a = b /\ c = d
<1>1. /\ Len(x) = Len(a) + 1 /\ x[Len(a) + 1] = c
      /\ \A i \in 1 .. Len(a) : x[i] = a[i]
  BY AppendsAre
<1>2. /\ Len(x) = Len(b) + 1 /\ x[Len(b) + 1] = d
      /\ \A i \in 1 .. Len(b) : x[i] = b[i]
  BY AppendsAre
<1>3. PICK n \in Nat : n = Len(a) /\ n = Len(b)
  <2>1. Len(a) \in Nat /\ Len(b) \in Nat
    OBVIOUS
  <2> QED
    BY <1>1, <1>2, <2>1
<1>4. \A i \in 1 .. n : a[i] = b[i]
  BY <1>1, <1>2, <1>3
<1>5. a = b
  <2>1. a = [i \in 1 .. n |-> a[i]] /\ b = [i \in 1 .. n |-> b[i]]
    BY <1>3, SeqIsString DEF IsString
  <2> QED
    BY <1>4, <2>1
<1>6. c = d
  BY <1>1, <1>2, <1>3
<1> QED
  BY <1>5, <1>6

LEMMA LowerLast ==
    ASSUME NEW S, Numbered(S),
           NEW s \in Seq(S), Rising(s), NEW a \in Seq(S), NEW c \in S, Appends(s, a, c),
           NEW t \in Seq(S), Rising(t), NEW b \in Seq(S), NEW d \in S, Appends(t, b, d),
           SameFilters(s, t)
    PROVE  c.prime <= d.prime
<1>1. s[Len(s)] = c /\ Len(s) \in 1 .. Len(s)
  BY RisesToLast
<1>2. Having(s, "prime", c.prime) # << >>
  BY <1>1, FilterFinds
<1>3. Having(t, "prime", c.prime) # << >>
  BY <1>2 DEF SameFilters
<1>4. PICK j \in 1 .. Len(t) : t[j].prime = c.prime
  BY <1>3, FilterFinds
<1>5. t[j].prime <= d.prime
  BY RisesToLast
<1> QED
  BY <1>4, <1>5

LEMMA RisingTell ==
    ASSUME NEW S, Numbered(S), NEW s \in Seq(S), Rising(s), NEW t \in Seq(S), Rising(t),
           SameFilters(s, t)
    PROVE  s = t
<1> DEFINE Told(n) == \A x, y \in Seq(S) :
                          Len(x) = n /\ Rising(x) /\ Rising(y) /\ SameFilters(x, y) => x = y
           K == {n \in Nat : Told(n)}
<1>1. ASSUME NEW x \in Seq(S), NEW y \in Seq(S), SameFilters(x, y), x = << >>
      PROVE  y = << >>
  <2> SUFFICES ASSUME y # << >> PROVE FALSE
    OBVIOUS
  <2>1. 1 \in 1 .. Len(y)
    OBVIOUS
  <2>2. Having(y, "prime", y[1].prime) # << >>
    BY <2>1, FilterFinds
  <2> QED
    BY <1>1, <2>2, FilterEmpty DEF SameFilters
<1>2. 0 \in K
  <2> SUFFICES ASSUME NEW x \in Seq(S), NEW y \in Seq(S), Len(x) = 0, SameFilters(x, y)
               PROVE  x = y
    OBVIOUS
  <2>1. x = << >>
    OBVIOUS
  <2> QED
    BY <1>1, <2>1
<1>3. ASSUME NEW n \in Nat, n \in K PROVE n + 1 \in K
  <2> SUFFICES ASSUME NEW x \in Seq(S), NEW y \in Seq(S), Len(x) = n + 1,
                      Rising(x), Rising(y), SameFilters(x, y)
               PROVE  x = y
    OBVIOUS
  <2>1. x # << >>
    OBVIOUS
  <2>2. y # << >>
    <3>1. SameFilters(y, x)
      BY DEF SameFilters
    <3> QED
      BY <1>1, <2>1, <3>1
  <2>3. PICK a \in Seq(S), c \in S : Appends(x, a, c)
    BY <2>1, LastIs
  <2>4. PICK b \in Seq(S), d \in S : Appends(y, b, d)
    BY <2>2, LastIs
  <2>5. c.prime = d.prime
    <3>1. c.prime <= d.prime
      BY <2>3, <2>4, LowerLast
    <3>2. d.prime <= c.prime
      <4>1. SameFilters(y, x)
        BY DEF SameFilters
      <4> QED
        BY <2>3, <2>4, <4>1, LowerLast
    <3> QED
      BY <3>1, <3>2 DEF Numbered
  <2>6. /\ Rising(a) /\ Len(x) = Len(a) + 1
        /\ \A p : Having(x, "prime", p) = Keep(Having(a, "prime", p), c, "prime", p)
    BY <2>3, RisesToLast
  <2>7. /\ Rising(b)
        /\ \A p : Having(y, "prime", p) = Keep(Having(b, "prime", p), d, "prime", p)
    BY <2>4, RisesToLast
  <2>8. ASSUME NEW p
        PROVE  /\ Having(a, "prime", p) = Having(b, "prime", p)
               /\ p = c.prime => c = d
    <3>1. PICK A, B : A = Having(a, "prime", p) /\ B = Having(b, "prime", p)
      OBVIOUS
    <3>2. A \in Seq(S) /\ B \in Seq(S)
      BY <3>1, FilterType
    <3>3. Keep(A, c, "prime", p) = Keep(B, d, "prime", p)
      BY <2>6, <2>7, <3>1 DEF SameFilters
    <3>4. CASE p = c.prime
      <4>1. PICK z : Appends(z, A, c) /\ Appends(z, B, d)
        BY <2>5, <3>3, <3>4 DEF Keep, Appends
      <4>2. A = B /\ c = d
        BY <3>2, <4>1, AppendTells
      <4> QED
        BY <3>1, <4>2
    <3>5. CASE p # c.prime
      BY <2>5, <3>1, <3>3, <3>5 DEF Keep
    <3> QED
      BY <3>4, <3>5
  <2>9. a = b
    <3>1. Len(a) = n /\ SameFilters(a, b)
      BY <2>6, <2>8 DEF SameFilters
    <3> QED
      BY <1>3, <2>6, <2>7, <3>1
  <2>10. c = d
    BY <2>8
  <2> QED
    BY <2>3, <2>4, <2>9, <2>10 DEF Appends
<1>4. Nat \subseteq K
  <2> HIDE DEF K
  <2> QED
    BY <1>2, <1>3, NatSetInduction
<1>5. Len(s) \in K
  BY <1>4
<1> QED
  BY <1>5

(* Two lists are sorted into the same one when they have the same          *)
(* couplings of each prime in the same order, and only then.               *)
LEMMA SortTells ==
    ASSUME NEW S, Numbered(S), NEW list \in Seq(S), NEW other \in Seq(S)
    PROVE  sortedByPrime(list) = sortedByPrime(other) <=> ByPrime(list) = ByPrime(other)
<1>1. PICK s, t : s = sortedByPrime(list) /\ t = sortedByPrime(other)
  OBVIOUS
<1>2. /\ s \in Seq(S) /\ Rising(s)
      /\ \A p : Having(s, "prime", p) = Having(list, "prime", p)
  BY <1>1, SortedIs
<1>3. /\ t \in Seq(S) /\ Rising(t)
      /\ \A p : Having(t, "prime", p) = Having(other, "prime", p)
  BY <1>1, SortedIs
<1>4. s = t <=> SameFilters(list, other)
  <2>1. ASSUME SameFilters(list, other) PROVE s = t
    <3>1. SameFilters(s, t)
      BY <1>2, <1>3, <2>1 DEF SameFilters
    <3> QED
      BY <1>2, <1>3, <3>1, RisingTell
  <2>2. ASSUME s = t PROVE SameFilters(list, other)
    BY <1>2, <1>3, <2>2 DEF SameFilters
  <2> QED
    BY <2>1, <2>2
<1> DEFINE Primes(x) == {x[i].prime : i \in DOMAIN x}
<1>5. ASSUME NEW x \in Seq(S), NEW p
      PROVE  p \in Primes(x) <=> Having(x, "prime", p) # << >>
  <2>1. DOMAIN x = 1 .. Len(x)
    OBVIOUS
  <2> QED
    BY <2>1, FilterFinds
<1>6. \A x : /\ DOMAIN ByPrime(x) = Primes(x)
             /\ \A p \in Primes(x) : ByPrime(x)[p] = Having(x, "prime", p)
             /\ ByPrime(x) = [p \in Primes(x) |-> Having(x, "prime", p)]
  BY DEF ByPrime
<1> HIDE DEF Primes
<1>7. ASSUME ByPrime(list) = ByPrime(other) PROVE SameFilters(list, other)
  <2> SUFFICES ASSUME NEW p
               PROVE  Having(list, "prime", p) = Having(other, "prime", p)
    BY DEF SameFilters
  <2>1. Primes(list) = Primes(other)
    BY <1>6, <1>7
  <2>2. CASE p \in Primes(list)
    BY <1>6, <1>7, <2>1, <2>2
  <2>3. CASE p \notin Primes(list)
    BY <1>5, <2>1, <2>3
  <2> QED
    BY <2>2, <2>3
<1>8. ASSUME SameFilters(list, other) PROVE ByPrime(list) = ByPrime(other)
  <2>1. Primes(list) = Primes(other)
    <3>1. \A p : p \in Primes(list) <=> p \in Primes(other)
      BY <1>5, <1>8 DEF SameFilters
    <3> QED
      BY <3>1
  <2>2. \A p : Having(list, "prime", p) = Having(other, "prime", p)
    BY <1>8 DEF SameFilters
  <2> QED
    BY <1>6, <2>1, <2>2
<1> QED
  BY <1>1, <1>4, <1>7, <1>8

-----------------------------------------------------------------------------
(* What the digests of the bridge are made of.  A commitment has its       *)
(* separator, a signature begins with a public key and its separator, an   *)
(* aggregate has signatures and its tag only, a QPA digest begins with     *)
(* what is printed, a root of several leaves with a node and a colon, a    *)
(* gap witness with what is encoded.                                       *)
IsPrinted(part) == \E p : part = <<"str", p>>
IsEncoded(part) == \E v : part = <<"json", v>>
NodeThen(x, part) ==
    Len(x) >= 3 /\ x[1] = <<"0x">> /\ Len(x[2]) = 2 /\ x[3] = part
LooksSigned(x) == NodeThen(x, <<":bls-sign:">>)
LooksPaired(x) == NodeThen(x, <<":">>)
LooksPrinted(x) == Len(x) >= 1 /\ IsPrinted(x[1])
LooksEncoded(x) == Len(x) >= 1 /\ IsEncoded(x[1])
LooksCommitted(x) == \E i \in 1 .. Len(x) : x[i] = Mark

(* What may be committed to directly.                                      *)
Committable(m) ==
    /\ IsString(m) /\ ~LooksSigned(m) /\ ~LooksPaired(m)
    /\ ~LooksPrinted(m) /\ ~LooksEncoded(m)

CommitsTo(f, m, r) ==
    f = fallback_commitment(m, r) /\ Committable(m) /\ IsString(r)

LEMMA PartsDiffer ==
    /\ \A x : <<x>>[1] = x /\ Len(<<x>>) = 1
    /\ \A x, y : <<x, y>>[1] = x /\ <<x, y>>[2] = y /\ Len(<<x, y>>) = 2
OBVIOUS

LEMMA OnePart ==
    /\ Len(Mark) = 1 /\ Mark # <<"0x">> /\ Mark # <<":bls-sign:">> /\ Mark # <<":">>
    /\ Mark # <<":aggregate:">> /\ <<":aggregate:">> # <<":bls-sign:">>
    /\ <<"0x">> # <<":bls-sign:">> /\ <<"0x">> # <<"redacted:">>
    /\ <<":">> # <<":bls-sign:">>
    /\ ~IsPrinted(Mark) /\ ~IsPrinted(<<"0x">>) /\ ~IsPrinted(<<":aggregate:">>)
    /\ ~IsEncoded(Mark) /\ ~IsEncoded(<<"0x">>) /\ ~IsEncoded(<<":aggregate:">>)
    /\ \A part : ~IsPrinted(part) \/ ~IsEncoded(part)
<1>1. /\ Mark[1] = ":commit:" /\ <<"0x">>[1] = "0x" /\ <<":">>[1] = ":"
      /\ <<":bls-sign:">>[1] = ":bls-sign:" /\ <<":aggregate:">>[1] = ":aggregate:"
      /\ <<"redacted:">>[1] = "redacted:"
  BY PartsDiffer DEF Mark
<1>2. Len(Mark) = 1
  BY PartsDiffer DEF Mark
<1>3. \A part : Len(part) = 1 => ~IsPrinted(part) /\ ~IsEncoded(part)
  BY PartsDiffer DEF IsPrinted, IsEncoded
<1>4. /\ ~IsPrinted(Mark) /\ ~IsPrinted(<<"0x">>) /\ ~IsPrinted(<<":aggregate:">>)
      /\ ~IsEncoded(Mark) /\ ~IsEncoded(<<"0x">>) /\ ~IsEncoded(<<":aggregate:">>)
  BY <1>2, <1>3, PartsDiffer
<1>5. ASSUME NEW part, IsPrinted(part), IsEncoded(part) PROVE FALSE
  <2>1. PICK p, v : part = <<"str", p>> /\ part = <<"json", v>>
    BY <1>5 DEF IsPrinted, IsEncoded
  <2>2. part[1] = "str" /\ part[1] = "json"
    BY <2>1
  <2> QED
    BY <2>2
<1> QED
  BY <1>1, <1>2, <1>4, <1>5

(* A string that begins with another and a separator looks like a node and *)
(* some other part only if that string does.                               *)
LEMMA NodeThenStays ==
    ASSUME NEW m, IsString(m), NEW x, NEW r, IsString(r), Parted(x, m, Mark, r),
           NEW part, part # Mark, NodeThen(x, part)
    PROVE  NodeThen(m, part)
<1>1. PICK c : c = Mark
  OBVIOUS
<1>2. PICK k \in Nat, n \in Nat : k = Len(m) /\ n = Len(r)
  BY DEF IsString
<1>3. /\ Len(x) = k + 1 + n /\ x[k + 1] = c
      /\ \A i \in 1 .. k : x[i] = m[i]
  BY <1>1, <1>2 DEF Parted
<1>4. c # <<"0x">> /\ c # part /\ Len(c) = 1
  BY <1>1, OnePart
<1>5. x[1] = <<"0x">> /\ Len(x[2]) = 2 /\ x[3] = part
  BY DEF NodeThen
<1>6. CASE k = 0
  BY <1>3, <1>4, <1>5, <1>6
<1>7. CASE k = 1
  BY <1>3, <1>4, <1>5, <1>7
<1>8. CASE k = 2
  BY <1>3, <1>4, <1>5, <1>8
<1>9. CASE k > 2
  <2>1. x[1] = m[1] /\ x[2] = m[2] /\ x[3] = m[3] /\ Len(m) >= 3
    BY <1>2, <1>3, <1>9
  <2> QED
    BY <1>5, <2>1 DEF NodeThen
<1> QED
  BY <1>6, <1>7, <1>8, <1>9

(* Its first part is the first part of that string or the separator.       *)
LEMMA FirstStays ==
    ASSUME NEW m, IsString(m), NEW x, NEW r, IsString(r), Parted(x, m, Mark, r)
    PROVE  /\ Len(x) >= 1
           /\ IF Len(m) = 0 THEN x[1] = Mark ELSE Len(m) >= 1 /\ x[1] = m[1]
<1>1. PICK k \in Nat, n \in Nat : k = Len(m) /\ n = Len(r)
  BY DEF IsString
<1>2. PICK c : c = Mark
  OBVIOUS
<1>3. /\ Len(x) = k + 1 + n /\ x[k + 1] = c
      /\ \A i \in 1 .. k : x[i] = m[i]
  BY <1>1, <1>2 DEF Parted
<1>4. CASE k = 0
  BY <1>1, <1>2, <1>3, <1>4
<1>5. CASE k > 0
  BY <1>1, <1>3, <1>5
<1> QED
  BY <1>4, <1>5

(* Something is committed to.                                              *)
LEMMA MarkStays ==
    ASSUME NEW m, IsString(m), NEW x, NEW r, IsString(r), Parted(x, m, Mark, r)
    PROVE  LooksCommitted(x)
<1>1. PICK k \in Nat, n \in Nat : k = Len(m) /\ n = Len(r)
  BY DEF IsString
<1>2. Len(x) = k + 1 + n /\ x[k + 1] = Mark
  BY <1>1 DEF Parted
<1>3. k + 1 \in 1 .. Len(x)
  BY <1>1, <1>2
<1> QED
  BY <1>2, <1>3 DEF LooksCommitted

LEMMA CommitJoins ==
    ASSUME NEW m, NEW r
    PROVE  \E x : fallback_commitment(m, r) = HashOf(x) /\ Parts(x, m, Mark, r)
<1>1. PICK x : Parts(x, m, Mark, r)
  BY DEF Parts
<1>2. fallback_commitment(m, r) = HashOf(x)
  BY <1>1, CommitmentIs DEF Parts, Text, Mark
<1> QED
  BY <1>1, <1>2

(* The string that a commitment is the digest of.                          *)
LEMMA CommittedIs ==
    ASSUME NEW f, NEW m, NEW r, CommitsTo(f, m, r)
    PROVE  \E x : /\ f = HashOf(x) /\ Parts(x, m, Mark, r)
                  /\ LooksCommitted(x) /\ ~LooksSigned(x) /\ ~LooksPaired(x)
                  /\ ~LooksPrinted(x) /\ ~LooksEncoded(x)
<1>1. /\ f = fallback_commitment(m, r) /\ IsString(m) /\ IsString(r)
      /\ ~LooksSigned(m) /\ ~LooksPaired(m) /\ ~LooksPrinted(m) /\ ~LooksEncoded(m)
  BY DEF CommitsTo, Committable
<1>2. PICK x : f = HashOf(x) /\ Parts(x, m, Mark, r)
  BY <1>1, CommitJoins
<1>3. Parted(x, m, Mark, r)
  BY <1>1, <1>2, PartsAre
<1>4. LooksCommitted(x)
  BY <1>1, <1>3, MarkStays
<1>5. ~LooksSigned(x)
  BY <1>1, <1>3, OnePart, NodeThenStays DEF LooksSigned
<1>6. ~LooksPaired(x)
  BY <1>1, <1>3, OnePart, NodeThenStays DEF LooksPaired
<1>7. x[1] = Mark \/ (Len(m) >= 1 /\ x[1] = m[1])
  BY <1>1, <1>3, FirstStays
<1>8. ~LooksPrinted(x)
  BY <1>1, <1>7, OnePart DEF LooksPrinted
<1>9. ~LooksEncoded(x)
  BY <1>1, <1>7, OnePart DEF LooksEncoded
<1> QED
  BY <1>2, <1>4, <1>5, <1>6, <1>8, <1>9

(* Two commitments are equal exactly when they are to the same string.     *)
LEMMA SaltedTells ==
    ASSUME NEW m, IsString(m), NEW n, IsString(n), NEW r, IsString(r), NEW q, IsString(q)
    PROVE  fallback_commitment(m, r) = fallback_commitment(n, q)
               <=> SameCommitment(<<m, r>>, <<n, q>>)
<1>1. PICK x : fallback_commitment(m, r) = HashOf(x) /\ Parts(x, m, Mark, r)
  BY CommitJoins
<1>2. PICK y : fallback_commitment(n, q) = HashOf(y) /\ Parts(y, n, Mark, q)
  BY CommitJoins
<1>3. ASSUME fallback_commitment(m, r) = fallback_commitment(n, q)
      PROVE  SameCommitment(<<m, r>>, <<n, q>>)
  <2>1. HashOf(x) = HashOf(y)
    BY <1>1, <1>2, <1>3
  <2>2. x = y
    BY <2>1, HashTells
  <2> QED
    BY <1>1, <1>2, <2>2, JoinedTell
<1>4. ASSUME SameCommitment(<<m, r>>, <<n, q>>) PROVE x = y
  <2>1. CASE <<m, r>> = <<n, q>>
    <3>1. m = n /\ r = q
      BY <2>1
    <3> QED
      BY <1>1, <1>2, <3>1 DEF Parts
  <2>2. CASE LendsItsFront(<<m, r>>, <<n, q>>)
    BY <1>1, <1>2, <2>2, BorrowedIsEqual
  <2>3. CASE LendsItsFront(<<n, q>>, <<m, r>>)
    BY <1>1, <1>2, <2>3, BorrowedIsEqual
  <2> QED
    BY <1>4, <2>1, <2>2, <2>3 DEF SameCommitment
<1> QED
  BY <1>1, <1>2, <1>3, <1>4

(* With the same salt they are to the same message.                        *)
LEMMA SaltLeavesMessage ==
    ASSUME NEW m, IsString(m), NEW n, IsString(n), NEW r, IsString(r),
           fallback_commitment(m, r) = fallback_commitment(n, r)
    PROVE  m = n
<1>1. PICK x : fallback_commitment(m, r) = HashOf(x) /\ Parts(x, m, Mark, r)
  BY CommitJoins
<1>2. PICK y : fallback_commitment(n, r) = HashOf(y) /\ Parts(y, n, Mark, r)
  BY CommitJoins
<1>3. x = y
  BY <1>1, <1>2, HashTells
<1>4. Parted(x, m, Mark, r) /\ Parted(x, n, Mark, r)
  BY <1>1, <1>2, <1>3, PartsAre
<1>5. PICK k \in Nat, l \in Nat, j \in Nat : k = Len(m) /\ l = Len(n) /\ j = Len(r)
  BY DEF IsString
<1>6. /\ Len(x) = k + 1 + j /\ Len(x) = l + 1 + j
      /\ \A i \in 1 .. k : x[i] = m[i]
      /\ \A i \in 1 .. l : x[i] = n[i]
  BY <1>4, <1>5 DEF Parted
<1>7. k = l /\ \A i \in 1 .. k : m[i] = n[i]
  BY <1>6
<1> QED
  BY <1>5, <1>7 DEF IsString

(* Signatures.                                                             *)
LEMMA SignedIs ==
    ASSUME NEW k, IsNode(k), NEW m, IsString(m)
    PROVE  \E x : signatureUnder(k, m) = HashOf(x) /\ LooksSigned(x)
<1>1. PICK b : b = <<":bls-sign:">>
  OBVIOUS
<1>2. PICK x : Parts(x, k, b, m)
  BY DEF Parts
<1>3. signatureUnder(k, m) = HashOf(x)
  BY <1>1, <1>2, DigestIs DEF signatureUnder, Parts, Text
<1>4. PICK d : k = HashOf(d)
  BY DEF IsNode
<1>5. IsString(k) /\ Len(k) = 2 /\ k[1] = <<"0x">> /\ Len(k[2]) = 2
  BY <1>4, NodeIsString DEF HashOf
<1>6. Parted(x, k, b, m)
  BY <1>2, <1>5, PartsAre
<1>7. Len(m) \in Nat
  BY DEF IsString
<1>8. Len(x) >= 3 /\ x[1] = k[1] /\ x[2] = k[2] /\ x[3] = b
  BY <1>5, <1>6, <1>7 DEF Parted
<1>9. LooksSigned(x)
  BY <1>1, <1>5, <1>8 DEF LooksSigned, NodeThen
<1> QED
  BY <1>3, <1>9

(* Aggregates: signatures that are put together.                           *)
Nodes(S) == \A s \in S : IsNode(s)
Glued(s, t) == s \o t
IsFlat(f, s) ==
    /\ FlattenSeq(s) = f[Len(s)]
    /\ \A i \in 1 .. Len(s) : f[i] = IF i = 1 THEN s[1] ELSE Glued(f[i - 1], s[i])

LEMMA FlatLoop ==
    ASSUME NEW s, Len(s) \in Nat, Len(s) # 0
    PROVE  \E f : IsFlat(f, s)
<1> DEFINE N == Len(s)
           Body(n, f) == [i \in 1 .. n |-> IF i = 1 THEN s[i] ELSE Glued(f[i - 1], s[i])]
           S == {n \in Nat : \E f : f = Body(n, f)}
<1>1. 0 \in S
  <2> DEFINE f == [i \in 1 .. 0 |-> s[i]]
  <2>1. f = Body(0, f)
    OBVIOUS
  <2> QED
    BY <2>1
<1>2. ASSUME NEW n \in Nat, n \in S
      PROVE  n + 1 \in S
  <2>1. PICK f : f = Body(n, f)
    BY <1>2
  <2> DEFINE g == [i \in 1 .. n + 1 |->
                      IF i = n + 1 THEN IF n = 0 THEN s[1] ELSE Glued(f[n], s[n + 1])
                                   ELSE f[i]]
  <2>2. ASSUME NEW i \in 1 .. n + 1
        PROVE  g[i] = IF i = 1 THEN s[i] ELSE Glued(g[i - 1], s[i])
    <3>1. CASE i = n + 1
      BY <3>1
    <3>2. CASE i \in 1 .. n
      <4>1. f[i] = IF i = 1 THEN s[i] ELSE Glued(f[i - 1], s[i])
        BY <2>1, <3>2
      <4>2. g[i] = f[i] /\ (i # 1 => g[i - 1] = f[i - 1])
        BY <3>2
      <4> QED
        BY <3>2, <4>1, <4>2
    <3> QED
      BY <3>1, <3>2
  <2>3. g = Body(n + 1, g)
    BY <2>2
  <2> HIDE DEF g, Body
  <2> QED
    BY <2>3
<1>3. Nat \subseteq S
  <2> HIDE DEF S
  <2> QED
    BY <1>1, <1>2, NatSetInduction
<1> DEFINE loop == CHOOSE f : f = Body(N, f)
<1>4. loop = Body(N, loop)
  <2> HIDE DEF Body
  <2> QED
    BY <1>3
<1>5. FlattenSeq(s) = loop[N]
  BY DEF FlattenSeq, Glued
<1> HIDE DEF loop
<1>6. \A i \in 1 .. N : loop[i] = IF i = 1 THEN s[1] ELSE Glued(loop[i - 1], s[i])
  BY <1>4
<1> QED
  BY <1>5, <1>6 DEF IsFlat

(* The first k nodes of a list put together.                               *)
Strung(flat, s, k) ==
    /\ IsString(flat) /\ Len(flat) = 2 * k
    /\ \A i \in 1 .. k : flat[2 * i - 1] = s[i][1] /\ flat[2 * i] = s[i][2]

LEMMA StrungNext ==
    ASSUME NEW s, NEW k \in Nat, NEW a, Strung(a, s, k), NEW b, b = s[k + 1], IsNode(b),
           NEW y, Joins(y, a, b)
    PROVE  Strung(y, s, k + 1)
<1>1. /\ IsString(a) /\ Len(a) = 2 * k
      /\ \A i \in 1 .. k : a[2 * i - 1] = s[i][1] /\ a[2 * i] = s[i][2]
  BY DEF Strung
<1>2. IsString(b) /\ Len(b) = 2
  BY NodeIsString
<1>3. IsString(y) /\ Laid(y, a, b)
  BY <1>1, <1>2, JoinIs, JoinIsLaid
<1>4. PICK m \in Nat : m = 2 * k
  OBVIOUS
<1>5. /\ Len(y) = m + 2
      /\ \A i \in 1 .. m : y[i] = a[i]
      /\ \A i \in 1 .. 2 : y[m + i] = b[i]
  BY <1>1, <1>2, <1>3, <1>4 DEF Laid
<1>6. y[m + 1] = b[1] /\ y[m + 2] = b[2]
  BY <1>5
<1>7. ASSUME NEW i \in 1 .. k + 1
      PROVE  y[2 * i - 1] = s[i][1] /\ y[2 * i] = s[i][2]
  <2>1. CASE i \in 1 .. k
    <3>1. 2 * i - 1 \in 1 .. m /\ 2 * i \in 1 .. m
      BY <1>4, <2>1
    <3> QED
      BY <1>1, <1>5, <2>1, <3>1
  <2>2. CASE i = k + 1
    <3>1. 2 * i - 1 = m + 1 /\ 2 * i = m + 2
      BY <1>4, <2>2
    <3> QED
      BY <1>6, <2>2, <3>1
  <2> QED
    BY <2>1, <2>2
<1>8. Len(y) = 2 * (k + 1)
  BY <1>4, <1>5
<1> QED
  BY <1>3, <1>7, <1>8 DEF Strung

LEMMA FlatIs ==
    ASSUME NEW S, Nodes(S), NEW s \in Seq(S)
    PROVE  Strung(FlattenSeq(s), s, Len(s))
<1>1. PICK N \in Nat : N = Len(s)
  OBVIOUS
<1>2. \A i \in 1 .. N : IsNode(s[i])
  BY <1>1 DEF Nodes
<1>3. CASE N = 0
  <2>1. FlattenSeq(s) = s
    BY <1>1, <1>3 DEF FlattenSeq
  <2>2. IsString(s) /\ Len(s) = 2 * 0
    BY <1>1, <1>3, SeqIsString
  <2>3. Strung(s, s, 0)
    BY <2>2 DEF Strung
  <2> QED
    BY <1>1, <1>3, <2>1, <2>3
<1>4. CASE N # 0
  <2>1. PICK f : IsFlat(f, s)
    BY <1>1, <1>4, FlatLoop
  <2>2. \A i \in 1 .. N : f[i] = IF i = 1 THEN s[1] ELSE Glued(f[i - 1], s[i])
    BY <1>1, <2>1 DEF IsFlat
  <2> DEFINE K == {n \in 0 .. N : n = 0 \/ Strung(f[n], s, n)}
  <2>3. 0 \in K
    OBVIOUS
  <2>4. ASSUME NEW n \in 1 .. N, n - 1 \in K PROVE n \in K
    <3>1. CASE n = 1
      <4>1. PICK a, b : a = << >> /\ b = s[1]
        OBVIOUS
      <4>2. IsString(a) /\ Len(a) = 2 * 0
        BY <4>1 DEF IsString
      <4>3. Strung(a, s, 0)
        BY <4>2 DEF Strung
      <4>4. IsNode(b) /\ b = s[0 + 1]
        BY <1>2, <3>1, <4>1
      <4>5. PICK y : Joins(y, a, b)
        BY DEF Joins
      <4>6. Strung(y, s, 0 + 1)
        BY <4>3, <4>4, <4>5, StrungNext
      <4>7. y = b
        <5>1. PICK T : b \in Seq(T)
          BY <4>4, NodeIsString, StringType
        <5> QED
          BY <4>1, <4>5, <5>1 DEF Joins
      <4>8. f[1] = b /\ 0 + 1 = 1
        BY <2>2, <3>1, <4>1
      <4> QED
        BY <3>1, <4>6, <4>7, <4>8
    <3>2. CASE n # 1
      <4>1. PICK k \in Nat : k = n - 1
        BY <3>2
      <4>2. k + 1 = n /\ Strung(f[k], s, k)
        BY <2>4, <3>2, <4>1
      <4>3. PICK a, b : a = f[k] /\ b = s[k + 1]
        OBVIOUS
      <4>4. IsNode(b)
        BY <1>2, <4>2, <4>3
      <4>5. PICK y : Joins(y, a, b)
        BY DEF Joins
      <4>6. Strung(y, s, k + 1)
        BY <4>2, <4>3, <4>4, <4>5, StrungNext
      <4>7. f[n] = y
        BY <2>2, <3>2, <4>1, <4>2, <4>3, <4>5 DEF Glued, Joins
      <4> QED
        BY <4>2, <4>6, <4>7
    <3> QED
      BY <3>1, <3>2
  <2>5. N \in K
    <3> HIDE DEF K
    <3>1. StaysIn(K, N)
      BY <2>4 DEF StaysIn
    <3> QED
      BY <2>3, <3>1, InductionUpTo
  <2>6. FlattenSeq(s) = f[N]
    BY <1>1, <2>1 DEF IsFlat
  <2> QED
    BY <1>1, <1>4, <2>5, <2>6
<1> QED
  BY <1>3, <1>4

(* It consists of their parts only.                                        *)
IsNodePart(part) == part = <<"0x">> \/ Len(part) = 2
MadeOfNodes(x) ==
    /\ IsString(x) /\ \A i \in 1 .. Len(x) : IsNodePart(x[i])
    /\ Len(x) > 0 => x[1] = <<"0x">>

LEMMA NodeParts ==
    ASSUME NEW s, IsNode(s)
    PROVE  /\ IsString(s) /\ Len(s) = 2 /\ s[1] = <<"0x">> /\ Len(s[2]) = 2
           /\ IsNodePart(s[1]) /\ IsNodePart(s[2])
<1>1. PICK d : s = HashOf(d)
  BY DEF IsNode
<1>2. IsString(s) /\ Len(s) = 2 /\ s[1] = <<"0x">> /\ Len(s[2]) = 2
  BY <1>1, NodeIsString DEF HashOf
<1> QED
  BY <1>2 DEF IsNodePart

LEMMA Twos ==
    ASSUME NEW k \in Nat, NEW j \in 1 .. 2 * k
    PROVE  \E i \in 1 .. k : j = 2 * i - 1 \/ j = 2 * i
<1>1. PICK i \in Int : j = 2 * i - 1 \/ j = 2 * i
  <2>1. (j + 1) \div 2 \in Int /\ (j = 2 * ((j + 1) \div 2) - 1 \/ j = 2 * ((j + 1) \div 2))
    OBVIOUS
  <2> QED
    BY <2>1
<1>2. i \in 1 .. k
  BY <1>1
<1> QED
  BY <1>1, <1>2

LEMMA FlatParts ==
    ASSUME NEW S, Nodes(S), NEW s \in Seq(S)
    PROVE  MadeOfNodes(FlattenSeq(s))
<1>1. PICK k \in Nat : k = Len(s)
  OBVIOUS
<1>2. PICK x : x = FlattenSeq(s)
  OBVIOUS
<1>3. /\ IsString(x) /\ Len(x) = 2 * k
      /\ \A i \in 1 .. k : x[2 * i - 1] = s[i][1] /\ x[2 * i] = s[i][2]
  BY <1>1, <1>2, FlatIs DEF Strung
<1>4. \A i \in 1 .. k : IsNode(s[i])
  BY <1>1 DEF Nodes
<1>5. ASSUME NEW j \in 1 .. 2 * k PROVE IsNodePart(x[j])
  <2>1. PICK i \in 1 .. k : j = 2 * i - 1 \/ j = 2 * i
    BY Twos
  <2>2. IsNodePart(s[i][1]) /\ IsNodePart(s[i][2])
    BY <1>4, NodeParts
  <2>3. x[2 * i - 1] = s[i][1] /\ x[2 * i] = s[i][2]
    BY <1>3
  <2> QED
    BY <2>1, <2>2, <2>3
<1>6. ASSUME Len(x) > 0 PROVE x[1] = <<"0x">>
  <2>1. 1 \in 1 .. k /\ 2 * 1 - 1 = 1
    BY <1>3, <1>6
  <2>2. x[1] = s[1][1]
    BY <1>3, <2>1
  <2> QED
    BY <1>4, <2>1, <2>2, NodeParts
<1> QED
  BY <1>3, <1>5, <1>6, <1>2 DEF MadeOfNodes

(* And it tells them.                                                      *)
LEMMA FlatTells ==
    ASSUME NEW S, Nodes(S), NEW s \in Seq(S), NEW t \in Seq(S),
           FlattenSeq(s) = FlattenSeq(t)
    PROVE  s = t
<1>1. PICK x : x = FlattenSeq(s)
  OBVIOUS
<1>2. PICK k \in Nat, l \in Nat : k = Len(s) /\ l = Len(t)
  OBVIOUS
<1>3. /\ Len(x) = 2 * k
      /\ \A i \in 1 .. k : x[2 * i - 1] = s[i][1] /\ x[2 * i] = s[i][2]
  BY <1>2, <1>1, FlatIs DEF Strung
<1>4. /\ Len(x) = 2 * l
      /\ \A i \in 1 .. l : x[2 * i - 1] = t[i][1] /\ x[2 * i] = t[i][2]
  <2>1. Strung(x, t, l)
    BY <1>2, <1>1, FlatIs
  <2> QED
    BY <2>1 DEF Strung
<1>5. k = l
  <2>1. Len(x) = 2 * k
    BY <1>3
  <2>2. Len(x) = 2 * l
    BY <1>4
  <2> QED
    BY <2>1, <2>2
<1>6. ASSUME NEW i \in 1 .. k PROVE s[i] = t[i]
  <2>1. i \in 1 .. Len(s) /\ i \in 1 .. Len(t)
    BY <1>2, <1>5, Zenon
  <2>2. s[i] \in S /\ t[i] \in S
    BY <2>1
  <2>3. IsNode(s[i]) /\ IsNode(t[i])
    BY <2>2 DEF Nodes
  <2>4. PICK a, b : a = s[i] /\ b = t[i]
    OBVIOUS
  <2>5. IsString(a) /\ Len(a) = 2 /\ IsString(b) /\ Len(b) = 2
    BY <2>3, <2>4, NodeIsString
  <2>6. a[1] = b[1] /\ a[2] = b[2]
    BY <1>3, <1>4, <1>5, <2>4
  <2>7. \A j \in 1 .. 2 : a[j] = b[j]
    <3>1. \A j \in 1 .. 2 : j = 1 \/ j = 2
      OBVIOUS
    <3> QED
      BY <2>6, <3>1
  <2>8. a = b
    BY <2>5, <2>7 DEF IsString
  <2> QED
    BY <2>4, <2>8
<1>7. Len(s) = k /\ Len(t) = k
  BY <1>2, <1>5, Zenon
<1> QED
  BY <1>6, <1>7

LEMMA AggregateIs ==
    ASSUME NEW S, Nodes(S), NEW s \in Seq(S)
    PROVE  \E x : /\ blsAggregate(s)[1] = HashOf(x)
                  /\ Joins(x, FlattenSeq(s), <<<<":aggregate:">>>>)
                  /\ ~LooksCommitted(x) /\ ~LooksSigned(x) /\ ~LooksPrinted(x)
<1>1. PICK g, flat, tag : g = <<":aggregate:">> /\ flat = FlattenSeq(s) /\ tag = <<g>>
  OBVIOUS
<1>2. PICK x : Joins(x, flat, tag)
  BY DEF Joins
<1>3. blsAggregate(s)[1] = HashOf(x)
  <2>1. blsAggregate(s) = <<normalize_hex(sha256_hex(x))>>
    BY <1>1, <1>2 DEF blsAggregate, Joins, Text
  <2> QED
    BY <2>1, DigestIs
<1>4. MadeOfNodes(flat)
  BY <1>1, FlatParts
<1>5. IsString(tag) /\ Len(tag) = 1 /\ tag[1] = g
  BY <1>1 DEF IsString
<1>6. Laid(x, flat, tag)
  BY <1>2, <1>4, <1>5, JoinIsLaid DEF MadeOfNodes
<1>7. PICK n \in Nat : n = Len(flat)
  BY <1>4 DEF MadeOfNodes, IsString
<1>8. /\ Len(x) = n + 1 /\ x[n + 1] = g
      /\ \A i \in 1 .. n : x[i] = flat[i]
  BY <1>5, <1>6, <1>7 DEF Laid
<1>9. /\ \A i \in 1 .. n : IsNodePart(flat[i])
      /\ n > 0 => flat[1] = <<"0x">>
  BY <1>4, <1>7 DEF MadeOfNodes
<1>10. \A i \in 1 .. n + 1 : x[i] = g \/ IsNodePart(x[i])
  BY <1>8, <1>9
<1>11. x[1] = g \/ x[1] = <<"0x">>
  <2>1. CASE n = 0
    BY <1>8, <2>1
  <2>2. CASE n > 0
    BY <1>8, <1>9, <2>2
  <2> QED
    BY <2>1, <2>2
<1>12. /\ Mark # g /\ ~IsNodePart(Mark) /\ <<":bls-sign:">> # g
       /\ ~IsNodePart(<<":bls-sign:">>)
  <2>1. Len(<<":bls-sign:">>) = 1
    BY PartsDiffer
  <2> QED
    BY <1>1, <2>1, OnePart DEF IsNodePart
<1>13. ~LooksCommitted(x)
  BY <1>8, <1>10, <1>12 DEF LooksCommitted
<1>14. ~LooksSigned(x)
  <2>1. ASSUME Len(x) >= 3 PROVE x[3] # <<":bls-sign:">>
    <3>1. 3 \in 1 .. n + 1
      BY <1>8, <2>1
    <3>2. x[3] = g \/ IsNodePart(x[3])
      BY <1>10, <3>1
    <3> QED
      BY <1>12, <3>2
  <2> QED
    BY <2>1 DEF LooksSigned, NodeThen
<1>15. ~LooksPrinted(x)
  BY <1>1, <1>11, OnePart DEF LooksPrinted
<1> QED
  BY <1>1, <1>2, <1>3, <1>13, <1>14, <1>15

(* Equal lists that end with equally long lists.                           *)
LEMMA SuffixesTell ==
    ASSUME NEW s, IsString(s), NEW t, IsString(t),
           NEW u, IsString(u), NEW v, IsString(v), Len(t) = Len(v),
           NEW x, Joins(x, s, t), Joins(x, u, v)
    PROVE  s = u /\ t = v
<1>1. Laid(x, s, t) /\ Laid(x, u, v)
  BY JoinIsLaid
<1>2. PICK m \in Nat, k \in Nat : m = Len(s) /\ k = Len(u)
  BY DEF IsString
<1>3. PICK n \in Nat : n = Len(t) /\ n = Len(v)
  BY DEF IsString
<1>4. m = k
  <2>1. Len(x) = m + n /\ Len(x) = k + n
    BY <1>1, <1>2, <1>3 DEF Laid
  <2> QED
    BY <2>1
<1>5. Len(s) = Len(u)
  BY <1>2, <1>4
<1> QED
  BY <1>5, JoinTells

LEMMA AggregateTells ==
    ASSUME NEW S, Nodes(S), NEW s \in Seq(S), NEW t \in Seq(S),
           blsAggregate(s)[1] = blsAggregate(t)[1]
    PROVE  s = t
<1>1. PICK tag : tag = <<<<":aggregate:">>>>
  OBVIOUS
<1>2. PICK x : blsAggregate(s)[1] = HashOf(x) /\ Joins(x, FlattenSeq(s), tag)
  BY <1>1, AggregateIs
<1>3. PICK y : blsAggregate(t)[1] = HashOf(y) /\ Joins(y, FlattenSeq(t), tag)
  BY <1>1, AggregateIs
<1>4. x = y
  BY <1>2, <1>3, HashTells
<1>5. IsString(FlattenSeq(s)) /\ IsString(FlattenSeq(t))
  BY FlatParts DEF MadeOfNodes
<1>6. IsString(tag)
  BY <1>1 DEF IsString
<1>7. FlattenSeq(s) = FlattenSeq(t)
  BY <1>2, <1>3, <1>4, <1>5, <1>6, SuffixesTell
<1> QED
  BY <1>7, FlatTells

(* The QPA digest.                                                         *)
LEMMA JoinOfThree ==
    ASSUME NEW s, IsString(s), NEW t, IsString(t), NEW u, IsString(u),
           NEW w, Joins(w, t, u), NEW x, Joins(x, s, w)
    PROVE  x = s \o t \o u
<1>1. PICK S, T, U : s \in Seq(S) /\ t \in Seq(T) /\ u \in Seq(U)
  BY StringType
<1>2. PICK V : V = S \cup T \cup U
  OBVIOUS
<1>3. s \in Seq(V) /\ t \in Seq(V) /\ u \in Seq(V)
  BY <1>1, <1>2
<1>4. s \o t \o u = s \o (t \o u)
  BY <1>3
<1> QED
  BY <1>4 DEF Joins

LEMMA QpaIs ==
    ASSUME NEW p, NEW m, NEW o, NEW n \in Nat
    PROVE  qpaRunPrototype(p, m, o, n)[1] = HashOf(Printed(p) \o m \o o)
<1>1. PICK x, a, b : /\ a = normalize_hex(sha256_hex(x)) /\ x = Printed(p) \o m \o o
                     /\ b = Text("qpa-invariant-fallback:") \o m
  OBVIOUS
<1>2. PICK t : t = [i \in 1 .. n |-> normalize_hex(
                        sha256_hex(Printed(p) \o Text(ToString(i - 1))))]
  OBVIOUS
<1>3. a = HashOf(x)
  BY <1>1, DigestIs
<1>4. PICK two : two = <<a, b>>
  OBVIOUS
<1>5. IsString(two) /\ Len(two) = 2 /\ two[1] = a
  BY <1>4 DEF IsString
<1>6. IsString(t)
  BY <1>2 DEF IsString
<1>7. PICK y : Joins(y, two, t) /\ y = qpaRunPrototype(p, m, o, n)
  BY <1>1, <1>2, <1>4 DEF Joins, qpaRunPrototype
<1>8. Laid(y, two, t)
  BY <1>5, <1>6, <1>7, JoinIsLaid
<1>9. y[1] = a
  BY <1>5, <1>8 DEF Laid
<1> QED
  BY <1>1, <1>3, <1>7, <1>9

LEMMA PrototypeIs ==
    ASSUME NEW p, NEW m, IsString(m), NEW o, IsString(o), NEW n \in Nat,
           NEW w, Joins(w, m, o)
    PROVE  \E x : /\ qpaRunPrototype(p, m, o, n)[1] = HashOf(x)
                  /\ Joins(x, Printed(p), w) /\ IsString(w) /\ LooksPrinted(x)
<1>1. PICK s : s = Printed(p)
  OBVIOUS
<1>2. IsString(s) /\ Len(s) = 1 /\ s[1] = <<"str", p>>
  BY <1>1 DEF Printed, IsString
<1>3. PICK x : Joins(x, s, w)
  BY DEF Joins
<1>4. x = s \o m \o o
  BY <1>2, <1>3, JoinOfThree
<1>5. qpaRunPrototype(p, m, o, n)[1] = HashOf(x)
  BY <1>1, <1>4, QpaIs
<1>6. IsString(w)
  BY JoinIs
<1>7. Laid(x, s, w)
  BY <1>2, <1>3, <1>6, JoinIsLaid
<1>8. PICK k \in Nat : k = Len(w)
  BY <1>6 DEF IsString
<1>9. Len(x) = 1 + k /\ x[1] = s[1]
  BY <1>2, <1>7, <1>8 DEF Laid
<1>10. LooksPrinted(x)
  BY <1>2, <1>8, <1>9 DEF LooksPrinted, IsPrinted
<1> QED
  BY <1>1, <1>3, <1>5, <1>6, <1>10

LEMMA PrototypeTells ==
    ASSUME NEW p, NEW m, IsString(m), NEW o, IsString(o), NEW n \in Nat,
           NEW q, NEW u, IsString(u), NEW v, IsString(v), NEW l \in Nat,
           qpaRunPrototype(p, m, o, n)[1] = qpaRunPrototype(q, u, v, l)[1]
    PROVE  p = q /\ \E w : Joins(w, m, o) /\ Joins(w, u, v)
<1>1. PICK w, z : Joins(w, m, o) /\ Joins(z, u, v)
  BY DEF Joins
<1>2. PICK x : /\ qpaRunPrototype(p, m, o, n)[1] = HashOf(x)
               /\ Joins(x, Printed(p), w) /\ IsString(w)
  BY <1>1, PrototypeIs
<1>3. PICK y : /\ qpaRunPrototype(q, u, v, l)[1] = HashOf(y)
               /\ Joins(y, Printed(q), z) /\ IsString(z)
  BY <1>1, PrototypeIs
<1>4. x = y
  BY <1>2, <1>3, HashTells
<1>5. PICK a, b : a = <<"str", p>> /\ b = <<"str", q>>
  OBVIOUS
<1>6. PICK s, t : s = <<a>> /\ t = <<b>>
  OBVIOUS
<1>7. IsString(s) /\ IsString(t) /\ Len(s) = Len(t) /\ s[1] = a /\ t[1] = b
  BY <1>6 DEF IsString
<1>8. Joins(x, s, w) /\ Joins(x, t, z)
  BY <1>2, <1>3, <1>4, <1>5, <1>6 DEF Printed
<1>9. s = t /\ w = z
  BY <1>2, <1>3, <1>7, <1>8, JoinTells
<1>10. p = q
  <2>1. a = b
    BY <1>7, <1>9
  <2>2. <<"str", p>>[2] = p /\ <<"str", q>>[2] = q
    OBVIOUS
  <2> QED
    BY <1>5, <2>1, <2>2
<1> QED
  BY <1>1, <1>9, <1>10

LEMMA PrototypeAnswers ==
    ASSUME NEW p, NEW m, IsString(m), NEW o, IsString(o), NEW n \in Nat,
           NEW u, IsString(u), NEW v, IsString(v), NEW l \in Nat,
           NEW w, Joins(w, m, o), Joins(w, u, v)
    PROVE  qpaRunPrototype(p, m, o, n)[1] = qpaRunPrototype(p, u, v, l)[1]
<1>1. PICK x : /\ qpaRunPrototype(p, m, o, n)[1] = HashOf(x)
               /\ Joins(x, Printed(p), w)
  BY PrototypeIs
<1>2. PICK y : /\ qpaRunPrototype(p, u, v, l)[1] = HashOf(y)
               /\ Joins(y, Printed(p), w)
  BY PrototypeIs
<1>3. x = y
  BY <1>1, <1>2 DEF Joins
<1> QED
  BY <1>1, <1>2, <1>3

(* Redactions.                                                             *)
LEMMA RedactionIs ==
    ASSUME NEW m
    PROVE  \E n : /\ n = fallback_commitment(m, Text("redact:v1")) /\ IsString(n)
                  /\ Joins(redactIdentity(m), <<<<"redacted:">>>>, n)
                  /\ IsString(redactIdentity(m)) /\ Len(redactIdentity(m)) = 3
                  /\ redactIdentity(m)[1] = <<"redacted:">>
<1>1. PICK c : c = <<"redacted:">>
  OBVIOUS
<1>2. PICK s, n, x : /\ s = <<c>> /\ n = fallback_commitment(m, Text("redact:v1"))
                     /\ Joins(x, s, n)
  BY DEF Joins
<1>3. x = redactIdentity(m)
  BY <1>1, <1>2 DEF redactIdentity, Joins, Text
<1>4. IsString(n) /\ Len(n) = 2
  BY <1>2, NodesOfBridge, NodeIsString
<1>5. IsString(s) /\ Len(s) = 1 /\ s[1] = c
  BY <1>2 DEF IsString
<1>6. IsString(x) /\ Laid(x, s, n)
  BY <1>2, <1>4, <1>5, JoinIs, JoinIsLaid
<1>7. Len(x) = 3 /\ x[1] = c
  BY <1>4, <1>5, <1>6 DEF Laid
<1> QED
  BY <1>1, <1>2, <1>3, <1>4, <1>6, <1>7

(* The texts of the process, and what it is told.                          *)
IsKnown(m) == m \in Texts \/ IsNode(m) \/ \E n : m = redactIdentity(n)

LEMMA NodeMayBe == \A s : IsNode(s) => Committable(s) /\ s[1] = <<"0x">>
<1> SUFFICES ASSUME NEW s, IsNode(s) PROVE Committable(s) /\ s[1] = <<"0x">>
  OBVIOUS
<1>1. IsString(s) /\ Len(s) = 2 /\ s[1] = <<"0x">>
  BY NodeParts
<1>2. ~LooksSigned(s) /\ ~LooksPaired(s)
  BY <1>1 DEF LooksSigned, LooksPaired, NodeThen
<1>3. ~LooksPrinted(s) /\ ~LooksEncoded(s)
  BY <1>1, OnePart DEF LooksPrinted, LooksEncoded
<1> QED
  BY <1>1, <1>2, <1>3 DEF Committable

LEMMA ShortParts == \A part : Len(part) = 1 => ~IsPrinted(part) /\ ~IsEncoded(part)
BY PartsDiffer DEF IsPrinted, IsEncoded

LEMMA KnownMayBe ==
    ASSUME NEW m, IsKnown(m)
    PROVE  Committable(m) /\ (Len(m) > 0 => Len(m[1]) = 1)
<1>1. CASE m \in Texts
  <2>1. IsString(m) /\ \A i \in 1 .. Len(m) : Len(m[i]) = 1
    BY <1>1, StringsAssumption
  <2>2. PICK n \in Nat : n = Len(m)
    BY <2>1 DEF IsString
  <2>3. n > 0 => Len(m[1]) = 1
    BY <2>1, <2>2
  <2>4. Len(m) >= 3 => Len(m[2]) # 2
    <3>1. n >= 3 => Len(m[2]) = 1
      BY <2>1, <2>2
    <3> QED
      BY <2>2, <3>1
  <2>5. ~LooksSigned(m) /\ ~LooksPaired(m)
    BY <2>4 DEF LooksSigned, LooksPaired, NodeThen
  <2>6. ~LooksPrinted(m) /\ ~LooksEncoded(m)
    BY <2>2, <2>3, ShortParts DEF LooksPrinted, LooksEncoded
  <2> QED
    BY <2>1, <2>2, <2>3, <2>5, <2>6 DEF Committable
<1>2. CASE IsNode(m)
  BY <1>2, NodeMayBe, PartsDiffer
<1>3. ASSUME NEW n, m = redactIdentity(n)
      PROVE  Committable(m) /\ Len(m[1]) = 1
  <2>1. PICK c : c = <<"redacted:">>
    OBVIOUS
  <2>2. IsString(m) /\ Len(m) = 3 /\ m[1] = c
    BY <1>3, <2>1, RedactionIs
  <2>3. Len(c) = 1 /\ c # <<"0x">>
    BY <2>1, OnePart, PartsDiffer
  <2>4. ~LooksSigned(m) /\ ~LooksPaired(m)
    BY <2>2, <2>3 DEF LooksSigned, LooksPaired, NodeThen
  <2>5. ~LooksPrinted(m) /\ ~LooksEncoded(m)
    BY <2>2, <2>3, ShortParts DEF LooksPrinted, LooksEncoded
  <2> QED
    BY <2>2, <2>3, <2>4, <2>5 DEF Committable
<1> QED
  BY <1>1, <1>2, <1>3 DEF IsKnown

(* A gap witness commits to what is encoded of it, a single part.          *)
Payload(g, u, l) ==
    Json([gapLB |-> g, slopeUB |-> u, couplings |-> sortedByPrime(l)])

LEMMA PayloadIs ==
    ASSUME NEW g, NEW u, NEW l
    PROVE  LET m == Payload(g, u, l)
           IN  IsString(m) /\ Len(m) = 1 /\ IsEncoded(m[1])
<1>1. PICK v : v = [gapLB |-> g, slopeUB |-> u, couplings |-> sortedByPrime(l)]
  OBVIOUS
<1>2. PICK c : c = <<"json", v>>
  OBVIOUS
<1>3. PICK m : m = <<c>>
  OBVIOUS
<1>4. IsString(m) /\ Len(m) = 1 /\ m[1] = c
  BY <1>3 DEF IsString
<1>5. IsEncoded(m[1])
  BY <1>2, <1>4 DEF IsEncoded
<1>6. m = Payload(g, u, l)
  BY <1>1, <1>2, <1>3 DEF Payload, Json
<1> QED
  BY <1>4, <1>5, <1>6

LEMMA WitnessIs ==
    ASSUME NEW g, NEW u, NEW l, NEW r, IsString(r)
    PROVE  \E x : /\ fallback_commitment(Payload(g, u, l), r) = HashOf(x)
                  /\ Parts(x, Payload(g, u, l), Mark, r)
                  /\ LooksEncoded(x) /\ LooksCommitted(x)
<1>1. PICK m : m = Payload(g, u, l)
  OBVIOUS
<1>2. IsString(m) /\ Len(m) = 1 /\ IsEncoded(m[1])
  BY <1>1, PayloadIs
<1>3. PICK x : fallback_commitment(m, r) = HashOf(x) /\ Parts(x, m, Mark, r)
  BY CommitJoins
<1>4. Parted(x, m, Mark, r)
  BY <1>2, <1>3, PartsAre
<1>5. Len(x) >= 1 /\ x[1] = m[1]
  BY <1>2, <1>4, FirstStays
<1>6. LooksEncoded(x)
  BY <1>2, <1>5 DEF LooksEncoded
<1>7. LooksCommitted(x)
  BY <1>2, <1>4, MarkStays
<1> QED
  BY <1>1, <1>3, <1>6, <1>7

(* The payload and the salt of a witness cannot be taken for others.       *)
LEMMA WitnessTells ==
    ASSUME NEW g, NEW u, NEW l, NEW r, IsString(r),
           NEW h, NEW v, NEW k, NEW q, IsString(q),
           fallback_commitment(Payload(g, u, l), r) = fallback_commitment(Payload(h, v, k), q)
    PROVE  Payload(g, u, l) = Payload(h, v, k) /\ r = q
<1>1. PICK m, n : m = Payload(g, u, l) /\ n = Payload(h, v, k)
  OBVIOUS
<1>2. IsString(m) /\ Len(m) = 1 /\ IsString(n) /\ Len(n) = 1
  BY <1>1, PayloadIs
<1>3. PICK x : fallback_commitment(m, r) = HashOf(x) /\ Parts(x, m, Mark, r)
  BY CommitJoins
<1>4. PICK y : fallback_commitment(n, q) = HashOf(y) /\ Parts(y, n, Mark, q)
  BY CommitJoins
<1>5. x = y
  <2>1. HashOf(x) = HashOf(y)
    BY <1>1, <1>3, <1>4
  <2> QED
    BY <2>1, HashTells
<1>6. Parted(x, m, Mark, r) /\ Parted(x, n, Mark, q)
  BY <1>2, <1>3, <1>4, <1>5, PartsAre
<1>7. PICK i \in Nat, j \in Nat : i = Len(r) /\ j = Len(q)
  BY DEF IsString
<1>8. /\ Len(x) = 1 + 1 + i /\ Len(x) = 1 + 1 + j
      /\ x[1] = m[1] /\ x[1] = n[1]
      /\ \A d \in 1 .. i : x[1 + 1 + d] = r[d]
      /\ \A d \in 1 .. j : x[1 + 1 + d] = q[d]
  BY <1>2, <1>6, <1>7 DEF Parted
<1>9. i = j /\ m[1] = n[1]
  BY <1>8
<1>10. r = q
  BY <1>7, <1>8, <1>9 DEF IsString
<1>11. m = n
  <2>1. \A d \in 1 .. 1 : m[d] = n[d]
    BY <1>9
  <2> QED
    BY <1>2, <2>1 DEF IsString
<1> QED
  BY <1>1, <1>10, <1>11

LEMMA PayloadTells ==
    ASSUME NEW S, Numbered(S),
           NEW g, NEW u, NEW l \in Seq(S), NEW h, NEW v, NEW k \in Seq(S)
    PROVE  Payload(g, u, l) = Payload(h, v, k)
               <=> g = h /\ u = v /\ ByPrime(l) = ByPrime(k)
<1>1. PICK x, y : /\ x = [gapLB |-> g, slopeUB |-> u, couplings |-> sortedByPrime(l)]
                  /\ y = [gapLB |-> h, slopeUB |-> v, couplings |-> sortedByPrime(k)]
  OBVIOUS
<1>2. x = y <=> g = h /\ u = v /\ sortedByPrime(l) = sortedByPrime(k)
  <2>1. ASSUME x = y PROVE g = h /\ u = v /\ sortedByPrime(l) = sortedByPrime(k)
    <3>1. x.gapLB = y.gapLB /\ x.slopeUB = y.slopeUB /\ x.couplings = y.couplings
      BY <2>1
    <3> QED
      BY <1>1, <3>1
  <2> QED
    BY <1>1, <2>1
<1>3. Payload(g, u, l) = Payload(h, v, k) <=> x = y
  <2>1. PICK a, b : a = <<"json", x>> /\ b = <<"json", y>>
    OBVIOUS
  <2>2. a[2] = x /\ b[2] = y /\ <<a>>[1] = a /\ <<b>>[1] = b
    BY <2>1, PartsDiffer
  <2>3. Payload(g, u, l) = <<a>> /\ Payload(h, v, k) = <<b>>
    BY <1>1, <2>1 DEF Payload, Json
  <2> QED
    BY <2>1, <2>2, <2>3
<1>4. sortedByPrime(l) = sortedByPrime(k) <=> ByPrime(l) = ByPrime(k)
  BY SortTells
<1> QED
  BY <1>2, <1>3, <1>4

(* The lists of couplings the process has.                                 *)
LEMMA CouplingsTell ==
    ASSUME NEW g, NEW u, NEW l \in CouplingLists, NEW h, NEW v, NEW k \in CouplingLists
    PROVE  Payload(g, u, l) = Payload(h, v, k)
               <=> g = h /\ u = v /\ ByPrime(l) = ByPrime(k)
<1>1. PICK S : S = {l[i] : i \in 1 .. Len(l)} \cup {k[i] : i \in 1 .. Len(k)}
  OBVIOUS
<1>2. /\ IsString(l) /\ \A i \in 1 .. Len(l) : l[i].prime \in Int
      /\ IsString(k) /\ \A i \in 1 .. Len(k) : k[i].prime \in Int
  BY ListsAssumption
<1>3. Numbered(S)
  BY <1>1, <1>2 DEF Numbered
<1>4. l \in Seq(S) /\ k \in Seq(S)
  BY <1>1, <1>2 DEF IsString
<1> QED
  BY <1>3, <1>4, PayloadTells

(* What the commands answer.                                               *)
LEMMA BridgeAnswers ==
    /\ \A m, r : bridgeCall(<<"computeCommitment", m, r>>) = <<fallback_commitment(m, r)>>
    /\ \A s : bridgeCall(<<"merkleRoot", s>>) =
                  IF s = << >> THEN ValueError ELSE <<merkleRoot(s)>>
    /\ \A s, i : bridgeCall(<<"generateMerkleProof", s, i>>) =
                     IF i \in 0 .. Len(s) - 1
                     THEN <<merkleRoot(s)>> \o generateMerkleProof(s, i + 1) ELSE ValueError
    /\ \A m : bridgeCall(<<"deriveIdentityCommitment", m>>) = <<deriveIdentityCommitment(m)>>
    /\ \A m : bridgeCall(<<"deriveIdentityAuditHash", m>>) = <<deriveIdentityAuditHash(m)>>
    /\ \A m : bridgeCall(<<"redactIdentity", m>>) = <<redactIdentity(m)>>
    /\ \A k, m : bridgeCall(<<"blsSign", k, m>>) = blsSign(k, m)
    /\ \A s : bridgeCall(<<"blsAggregate", s>>) = blsAggregate(s)
    /\ \A p, m, o, n : bridgeCall(<<"qpaRunPrototype", p, m, o, n>>)
                           = qpaRunPrototype(p, m, o, n)
    /\ \A g, u, l, r : bridgeCall(<<"computeGapWitness", g, u, l, r>>)
                           = computeGapWitness(g, u, l, r)
BY DEF bridgeCall

(* The first string of every answer.                                       *)
LEMMA FirstOfTwo ==
    ASSUME NEW a, NEW s, IsString(s), NEW x, Joins(x, <<a>>, s)
    PROVE  x[1] = a
<1>1. PICK one : one = <<a>>
  OBVIOUS
<1>2. IsString(one) /\ Len(one) = 1 /\ one[1] = a
  BY <1>1 DEF IsString
<1>3. Laid(x, one, s)
  BY <1>1, <1>2, JoinIsLaid
<1> QED
  BY <1>2, <1>3 DEF Laid

(* The root of one leaf.                                                   *)
LEMMA RootOfOne ==
    ASSUME NEW a, IsString(a)
    PROVE  merkleRoot(<<a>>) = LeafHash(a)
<1>1. PICK list : list = <<a>>
  OBVIOUS
<1>2. Len(list) = 1 /\ list[1] = a
  BY <1>1
<1>3. IsBatch(list)
  BY <1>1, <1>2 DEF IsBatch, IsString
<1>4. PICK f : IsLevels(f, list)
  BY <1>2, LevelsLoop
<1>5. f[0] = LeafHashes(list) /\ f[1] = Reduce(f[0]) /\ merkleRoot(list) = f[1][1]
  BY <1>2, <1>4 DEF IsLevels
<1>6. Len(f[0]) = 1
  BY <1>2, <1>3, <1>5, LeafHashesLevel
<1>7. f[1] = f[0]
  BY <1>5, <1>6 DEF Reduce
<1>8. f[0][1] = LeafHash(a)
  BY <1>2, <1>5 DEF LeafHashes
<1> QED
  BY <1>1, <1>5, <1>7, <1>8

(* The root of several leaves is a pair of nodes, and looks like one.      *)
LEMMA TopIsPair ==
    ASSUME NEW nodes, IsLevel(nodes), Len(nodes) > 1
    PROVE  \E l, r : IsNode(l) /\ IsNode(r) /\ Reduce(nodes)[1] = NodeHash(l, r)
<1>1. PICK m \in Nat : m = Len(nodes) /\ m > 1
  BY DEF IsLevel, IsString
<1>2. PICK next : next = NextLevel(nodes)
  OBVIOUS
<1>3. /\ Len(next) = (m + 1) \div 2
      /\ \A i \in 1 .. Len(next) :
             next[i] = NodeHash(nodes[2 * i - 1], RightOf(nodes, 2 * i - 1))
  BY <1>1, <1>2, NextLevelIs
<1>4. 1 \in 1 .. Len(next) /\ 2 * 1 - 1 = 1
  BY <1>1, <1>3
<1>5. next[1] = NodeHash(nodes[1], RightOf(nodes, 1))
  BY <1>3, <1>4
<1>6. IsNode(nodes[1]) /\ IsNode(RightOf(nodes, 1))
  <2>1. IsNode(nodes[1]) /\ IsNode(nodes[1 + 1])
    BY <1>1 DEF IsLevel
  <2> QED
    BY <2>1 DEF RightOf
<1>7. Reduce(nodes) = next
  BY <1>1, <1>2 DEF Reduce
<1> QED
  BY <1>5, <1>6, <1>7

LEMMA RootOfMany ==
    ASSUME NEW list, IsBatch(list), Len(list) > 1
    PROVE  \E l, r : IsNode(l) /\ IsNode(r) /\ merkleRoot(list) = NodeHash(l, r)
<1>1. PICK N \in Nat : N = Len(list) /\ N > 1
  BY DEF IsBatch, IsString
<1>2. PICK f : IsLevels(f, list)
  BY <1>1, LevelsLoop
<1> DEFINE IsPair(s) == \E l, r : IsNode(l) /\ IsNode(r) /\ s[1] = NodeHash(l, r)
           S == {k \in 0 .. N : k = 0 \/ IsPair(f[k])}
<1>3. \A k \in 0 .. N : IsLevel(f[k])
  BY <1>1, <1>2, LevelsShape
<1>4. \A k \in 1 .. N : f[k] = Reduce(f[k - 1])
  BY <1>1, <1>2 DEF IsLevels
<1>5. Len(f[0]) = N
  BY <1>1, <1>2, LeafHashesLevel DEF IsLevels
<1>6. 0 \in S
  OBVIOUS
<1>7. ASSUME NEW k \in 1 .. N, k - 1 \in S PROVE k \in S
  <2>1. PICK nodes : nodes = f[k - 1]
    OBVIOUS
  <2>2. IsLevel(nodes) /\ f[k] = Reduce(nodes)
    BY <1>3, <1>4, <2>1
  <2>3. PICK m \in Nat : m = Len(nodes) /\ m > 0
    BY <2>2 DEF IsLevel, IsString
  <2>4. CASE m > 1
    <3>1. IsPair(f[k])
      BY <2>2, <2>3, <2>4, TopIsPair
    <3> QED
      BY <3>1
  <2>5. CASE m = 1
    <3>1. f[k] = nodes
      BY <2>2, <2>3, <2>5 DEF Reduce
    <3>2. k - 1 # 0
      <4>1. ASSUME k - 1 = 0 PROVE FALSE
        <5>1. nodes = f[0]
          BY <2>1, <4>1
        <5>2. Len(nodes) = N
          BY <1>5, <5>1
        <5>3. m = N /\ N > 1
          BY <1>1, <2>3, <5>2, Zenon
        <5> QED
          BY <2>5, <5>3
      <4> QED
        BY <4>1
    <3>3. IsPair(f[k])
      BY <1>7, <2>1, <3>1, <3>2
    <3> QED
      BY <3>3
  <2> QED
    BY <2>3, <2>4, <2>5
<1>8. 0 .. N \subseteq S
  <2> HIDE DEF S
  <2>1. StaysIn(S, N)
    BY <1>7 DEF StaysIn
  <2> QED
    BY <1>6, <2>1, InductionUpTo
<1>9. IsPair(f[N])
  BY <1>1, <1>8
<1> QED
  BY <1>1, <1>2, <1>9 DEF IsLevels

LEMMA PairedIs ==
    ASSUME NEW l, IsNode(l), NEW r, IsNode(r)
    PROVE  \E x : NodeHash(l, r) = HashOf(x) /\ LooksPaired(x) /\ LooksCommitted(x)
<1>1. PICK m, tag : m = l \o Text(":") \o r /\ tag = Text("merkle-node")
  OBVIOUS
<1>2. IsString(m) /\ m = <<l[1], l[2], <<":">>, r[1], r[2]>>
  BY <1>1, PairIs
<1>3. Len(m) = 5 /\ m[1] = l[1] /\ m[2] = l[2] /\ m[3] = <<":">>
  BY <1>2
<1>4. l[1] = <<"0x">> /\ Len(l[2]) = 2
  BY NodeParts
<1>5. IsString(tag)
  BY <1>1 DEF Text, IsString
<1>6. PICK x : fallback_commitment(m, tag) = HashOf(x) /\ Parts(x, m, Mark, tag)
  BY CommitJoins
<1>7. Parted(x, m, Mark, tag)
  BY <1>2, <1>5, <1>6, PartsAre
<1>8. PICK n \in Nat : n = Len(tag)
  BY <1>5 DEF IsString
<1>9. Len(x) = 5 + 1 + n /\ \A i \in 1 .. 5 : x[i] = m[i]
  BY <1>3, <1>7, <1>8 DEF Parted
<1>10. Len(x) >= 3 /\ x[1] = m[1] /\ x[2] = m[2] /\ x[3] = m[3]
  BY <1>9
<1>11. LooksPaired(x)
  BY <1>3, <1>4, <1>10 DEF LooksPaired, NodeThen
<1>12. LooksCommitted(x)
  BY <1>2, <1>5, <1>7, MarkStays
<1> QED
  BY <1>1, <1>6, <1>11, <1>12 DEF NodeHash

-----------------------------------------------------------------------------
(* What a call says: the command, and the first string of its answer.      *)
(* A message is a text, or something that the process was told before.     *)
Direct(d, f) ==
    /\ CommitsDirectly(d)
    /\ \E m, r : /\ Committed(d) = <<m, r>> /\ (m \in Known \/ IsNode(m))
                 /\ IsString(r) /\ f = fallback_commitment(m, r)
Rooting(d, f) == d[1] \in RootCalls /\ Len(d[2]) > 1
Redacting(d, f) ==
    \E m \in Known : d = <<"redactIdentity", m>> /\ f = redactIdentity(m)
Signing(d, f) ==
    \E k \in BlsKeys : \E m \in Known :
        d = <<"blsSign", k, m>> /\ f = signatureUnder(publicKeyOf(k), m)
Aggregating(d, f) ==
    \E s \in Seq(Signatures) : d = <<"blsAggregate", s>> /\ f = blsAggregate(s)[1]
Prototyping(d, f) ==
    \E p, o : \E m \in Known : \E n \in Nat :
        /\ IsString(o) /\ d = <<"qpaRunPrototype", p, m, o, n>>
        /\ f = qpaRunPrototype(p, m, o, n)[1]
Witnessing(d, f) ==
    \E g, u : \E l \in CouplingLists : \E r :
        /\ IsString(r) /\ d = <<"computeGapWitness", g, u, l, r>>
        /\ f = fallback_commitment(Payload(g, u, l), r)

(* Whatever asks for a root is told it.                                    *)
RootIsTold(d, f) ==
    d[1] \in RootCalls => IsBatch(d[2]) /\ f = merkleRoot(d[2])

Told(d, f) ==
    /\ RootIsTold(d, f)
    /\ \/ Direct(d, f) \/ Rooting(d, f) \/ Redacting(d, f) \/ Signing(d, f)
       \/ Aggregating(d, f) \/ Prototyping(d, f) \/ Witnessing(d, f)

LEMMA TextIsString == \A text : IsString(Text(text))
BY DEF Text, IsString

LEMMA ListIs ==
    ASSUME NEW s \in LeafLists
    PROVE  /\ Len(s) \in Nat /\ \A i \in 1 .. Len(s) : s[i] \in Texts
           /\ s # << >> => IsBatch(s)
<1>1. s \in Seq(Texts)
  BY ListsAssumption
<1>2. PICK n \in Nat : n = Len(s)
  BY <1>1
<1>3. ASSUME s # << >> PROVE IsBatch(s)
  <2>1. n > 0
    BY <1>1, <1>2, <1>3
  <2>2. IsString(s) /\ \A i \in 1 .. n : s[i] \in Texts
    BY <1>1, <1>2, SeqIsString
  <2> QED
    BY <1>2, <2>1, <2>2, StringsAssumption DEF IsBatch
<1> QED
  BY <1>1, <1>2, <1>3

LEMMA RootTold ==
    ASSUME NEW d, NEW s \in LeafLists, d[1] \in RootCalls, d[2] = s, s # << >>
    PROVE  Told(d, merkleRoot(s))
<1>1. IsBatch(s)
  BY ListIs
<1>2. PICK n \in Nat : n = Len(s) /\ n > 0
  BY <1>1 DEF IsBatch, IsString
<1>3. CASE n > 1
  BY <1>1, <1>2, <1>3 DEF Told, RootIsTold, Rooting
<1>4. CASE n = 1
  <2>1. PICK a : a = s[1]
    OBVIOUS
  <2>2. a \in Texts /\ IsString(a)
    BY <1>2, <1>4, <2>1, ListIs, StringsAssumption
  <2>3. s = <<a>>
    <3>1. \A i \in 1 .. 1 : s[i] = a
      BY <2>1
    <3> QED
      BY <1>1, <1>2, <1>4, <3>1 DEF IsBatch, IsString
  <2>4. merkleRoot(s) = fallback_commitment(a, Text("merkle-leaf"))
    BY <2>2, <2>3, RootOfOne DEF LeafHash
  <2>5. CommitsDirectly(d)
    BY <1>2, <1>4 DEF CommitsDirectly
  <2>6. Committed(d) = <<a, Text("merkle-leaf")>>
    BY <2>1 DEF Committed, RootCalls
  <2>7. a \in Known
    BY <2>2 DEF Known
  <2>8. Direct(d, merkleRoot(s))
    BY <2>4, <2>5, <2>6, <2>7, TextIsString DEF Direct
  <2> QED
    BY <1>1, <2>8 DEF Told, RootIsTold
<1> QED
  BY <1>2, <1>3, <1>4

LEMMA CommandsTell ==
    ASSUME NEW d \in Commands, NEW a, a = bridgeCall(d), a # ValueError
    PROVE  Told(d, a[1])
<1> DEFINE f == a[1]
<1>1. ASSUME NEW m \in Known, NEW r \in Salts, d = <<"computeCommitment", m, r>>
      PROVE  Told(d, f)
  <2>1. d[1] = "computeCommitment" /\ d[2] = m /\ d[3] = r
    BY <1>1
  <2>2. f = fallback_commitment(m, r)
    BY <1>1, BridgeAnswers
  <2>3. Committed(d) = <<m, r>> /\ CommitsDirectly(d) /\ d[1] \notin RootCalls
    BY <2>1 DEF Committed, CommitsDirectly, RootCalls
  <2>4. IsString(r)
    BY StringsAssumption
  <2> QED
    BY <2>2, <2>3, <2>4 DEF Told, Direct, RootIsTold
<1>2. ASSUME NEW s \in LeafLists, d = <<"merkleRoot", s>>
      PROVE  Told(d, f)
  <2>1. s # << >> /\ a = <<merkleRoot(s)>>
    BY <1>2, BridgeAnswers
  <2>2. d[1] \in RootCalls /\ d[2] = s
    BY <1>2 DEF RootCalls
  <2> QED
    BY <2>1, <2>2, RootTold
<1>3. ASSUME NEW s \in LeafLists, NEW i \in Places, d = <<"generateMerkleProof", s, i>>
      PROVE  Told(d, f)
  <2>1. i \in 0 .. Len(s) - 1 /\ a = <<merkleRoot(s)>> \o generateMerkleProof(s, i + 1)
    BY <1>3, BridgeAnswers
  <2>2. Len(s) \in Nat
    BY ListIs
  <2>3. s # << >> /\ i + 1 \in 1 .. Len(s)
    BY <2>1, <2>2
  <2>4. IsBatch(s)
    BY <2>3, ListIs
  <2>5. PICK j \in 1 .. Len(s) : j = i + 1
    BY <2>3
  <2>6. PICK root, proof : root = merkleRoot(s) /\ proof = generateMerkleProof(s, j)
    OBVIOUS
  <2>7. IsString(proof)
    BY <2>4, <2>6, ProofLeads DEF IsProof
  <2>8. Joins(a, <<root>>, proof)
    BY <2>1, <2>5, <2>6 DEF Joins
  <2>9. f = root
    BY <2>7, <2>8, FirstOfTwo
  <2>10. d[1] \in RootCalls /\ d[2] = s
    BY <1>3 DEF RootCalls
  <2> QED
    BY <2>3, <2>6, <2>9, <2>10, RootTold
<1>4. ASSUME NEW m \in Known, d = <<"deriveIdentityCommitment", m>>
      PROVE  Told(d, f)
  <2>1. d[1] = "deriveIdentityCommitment" /\ d[2] = m
    BY <1>4
  <2>2. f = fallback_commitment(m, Text("identity:v1"))
    BY <1>4, BridgeAnswers DEF deriveIdentityCommitment
  <2>3. /\ Committed(d) = <<m, Text("identity:v1")>>
        /\ CommitsDirectly(d) /\ d[1] \notin RootCalls
    BY <2>1 DEF Committed, CommitsDirectly, RootCalls
  <2> QED
    BY <2>2, <2>3, TextIsString DEF Told, Direct, RootIsTold
<1>5. ASSUME NEW m \in Known, d = <<"deriveIdentityAuditHash", m>>
      PROVE  Told(d, f)
  <2>1. d[1] = "deriveIdentityAuditHash" /\ d[2] = m
    BY <1>5
  <2>2. PICK b : b = base_commitment(m)
    OBVIOUS
  <2>3. f = fallback_commitment(b, Text("audit:v1"))
    BY <1>5, <2>2, BridgeAnswers DEF deriveIdentityAuditHash
  <2>4. /\ Committed(d) = <<b, Text("audit:v1")>>
        /\ CommitsDirectly(d) /\ d[1] \notin RootCalls
    BY <2>1, <2>2 DEF Committed, CommitsDirectly, RootCalls
  <2>5. b \in Known \/ IsNode(b)
    BY <2>2, NodesOfBridge DEF base_commitment, deriveIdentityCommitment
  <2> QED
    BY <2>3, <2>4, <2>5, TextIsString DEF Told, Direct, RootIsTold
<1>6. ASSUME NEW m \in Known, d = <<"redactIdentity", m>>
      PROVE  Told(d, f)
  <2>1. d[1] \notin RootCalls
    BY <1>6 DEF RootCalls
  <2> QED
    BY <1>6, <2>1, BridgeAnswers DEF Told, RootIsTold, Redacting
<1>7. ASSUME NEW k \in BlsKeys, NEW m \in Known, d = <<"blsSign", k, m>>
      PROVE  Told(d, f)
  <2>1. d[1] \notin RootCalls
    BY <1>7 DEF RootCalls
  <2>2. Signing(d, f)
    BY <1>7, BridgeAnswers DEF Signing, blsSign
  <2> QED
    BY <2>1, <2>2 DEF Told, RootIsTold
<1>8. ASSUME NEW n \in Aggregated, NEW s \in [1 .. n -> Signatures], d = <<"blsAggregate", s>>
      PROVE  Told(d, f)
  <2>1. d[1] \notin RootCalls
    BY <1>8 DEF RootCalls
  <2>2. s \in Seq(Signatures)
    <3>1. n \in Nat
      BY CountsAssumption
    <3> QED
      BY <3>1
  <2>3. Aggregating(d, f)
    BY <1>8, <2>2, BridgeAnswers DEF Aggregating
  <2> QED
    BY <2>1, <2>3 DEF Told, RootIsTold
<1>9. ASSUME NEW p \in QpaParams, NEW m \in Known, NEW o \in Modes, NEW n \in ShadowCounts,
             d = <<"qpaRunPrototype", p, m, o, n>>
      PROVE  Told(d, f)
  <2>1. d[1] \notin RootCalls
    BY <1>9 DEF RootCalls
  <2>2. IsString(o) /\ n \in Nat
    BY StringsAssumption, CountsAssumption
  <2>3. Prototyping(d, f)
    BY <1>9, <2>2, BridgeAnswers DEF Prototyping
  <2> QED
    BY <2>1, <2>3 DEF Told, RootIsTold
<1>10. ASSUME NEW g, NEW u, NEW l \in CouplingLists, NEW r \in Salts,
              d = <<"computeGapWitness", g, u, l, r>>
       PROVE  Told(d, f)
  <2>1. d[1] \notin RootCalls
    BY <1>10 DEF RootCalls
  <2>2. a = computeGapWitness(g, u, l, r)
    BY <1>10, BridgeAnswers
  <2>3. PICK h : h = fallback_commitment(Payload(g, u, l), r)
    OBVIOUS
  <2>4. a = <<h>>
    BY <2>2, <2>3 DEF computeGapWitness, Payload
  <2>5. f = h /\ IsString(r)
    BY <2>4, StringsAssumption
  <2>6. Witnessing(d, f)
    BY <1>10, <2>3, <2>5 DEF Witnessing
  <2> QED
    BY <2>1, <2>6 DEF Told, RootIsTold
<1> HIDE DEF f
<1>11. Told(d, f)
  BY <1>1, <1>2, <1>3, <1>4, <1>5, <1>6, <1>7, <1>8, <1>9, <1>10 DEF Commands
<1> QED
  BY <1>11 DEF f

(* Every call was one that the process could make, and was answered.       *)
CallsMade == \A c \in calls : c[1] \in Commands /\ c[2] = bridgeCall(c[1])

Lists(S) == UNION {[1 .. n -> S] : n \in Aggregated}
CommandsOf(known, signatures) ==
    ({"computeCommitment"} \X known \X Salts)
      \cup ({"merkleRoot"} \X LeafLists)
      \cup ({"generateMerkleProof"} \X LeafLists \X Places)
      \cup ({"deriveIdentityCommitment", "deriveIdentityAuditHash",
             "redactIdentity"} \X known)
      \cup ({"blsSign"} \X BlsKeys \X known)
      \cup ({"blsAggregate"} \X Lists(signatures))
      \cup ({"qpaRunPrototype"} \X QpaParams \X known \X Modes \X ShadowCounts)
      \cup ({"computeGapWitness"} \X {0, 1} \X {1} \X CouplingLists \X Salts)

LEMMA CommandsGrow ==
    ASSUME NEW K, NEW L, K \subseteq L, NEW S, NEW T, S \subseteq T
    PROVE  CommandsOf(K, S) \subseteq CommandsOf(L, T)
<1>1. Lists(S) \subseteq Lists(T)
  <2>1. ASSUME NEW n \in Aggregated PROVE [1 .. n -> S] \subseteq [1 .. n -> T]
    OBVIOUS
  <2> QED
    BY <2>1 DEF Lists
<1> QED
  BY <1>1 DEF CommandsOf

LEMMA Calls == BridgeSpec => []CallsMade
<1>1. NoCalls => CallsMade
  BY DEF NoCalls, CallsMade
<1>2. CallsMade /\ [CallBridge]_calls => CallsMade'
  <2>1. ASSUME CallsMade, UNCHANGED calls PROVE CallsMade'
    BY <2>1 DEF CallsMade, Commands, Known, Results, Signatures
  <2>2. ASSUME CallsMade, NEW d \in Commands, calls' = calls \cup {<<d, bridgeCall(d)>>}
        PROVE  CallsMade'
    <3>1. Known \subseteq Known' /\ Signatures \subseteq Signatures'
      BY <2>2 DEF Known, Results, Signatures
    <3>2. Commands = CommandsOf(Known, Signatures)
      BY DEF Commands, CommandsOf, Lists
    <3>3. Commands' = CommandsOf(Known', Signatures')
      BY DEF Commands, CommandsOf, Lists
    <3>4. Commands \subseteq Commands'
      <4>1. PICK K, L, S, T : K = Known /\ L = Known' /\ S = Signatures /\ T = Signatures'
        OBVIOUS
      <4>2. CommandsOf(K, S) \subseteq CommandsOf(L, T)
        BY <3>1, <4>1, CommandsGrow
      <4> QED
        BY <3>2, <3>3, <4>1, <4>2
    <3>5. PICK x : x = <<d, bridgeCall(d)>>
      OBVIOUS
    <3>6. x[1] = d /\ x[2] = bridgeCall(d)
      BY <3>5
    <3>7. \A c \in calls' : c[1] \in Commands /\ c[2] = bridgeCall(c[1])
      BY <2>2, <3>5, <3>6 DEF CallsMade
    <3> QED
      BY <3>4, <3>7 DEF CallsMade
  <2> QED
    BY <2>1, <2>2 DEF CallBridge, Call
<1> QED
  BY <1>1, <1>2, PTL DEF BridgeSpec

LEMMA CallsTell ==
    ASSUME CallsMade, NEW c \in calls, c[2] # ValueError
    PROVE  Told(c[1], c[2][1])
BY CommandsTell DEF CallsMade

(* What the process knows.                                                 *)
(* What the process knows.                                                 *)
LEMMA ToldIsKnown ==
    ASSUME NEW d, NEW f, Told(d, f)
    PROVE  IsNode(f) \/ \E m : f = redactIdentity(m)
<1>1. Rooting(d, f) => IsNode(f)
  BY BatchRootIsNode DEF Told, RootIsTold, Rooting
<1>2. ASSUME NEW s PROVE IsNode(blsAggregate(s)[1])
  BY DigestIs DEF blsAggregate, IsNode
<1>3. ASSUME NEW p, NEW m, NEW o, NEW n \in Nat
      PROVE  IsNode(qpaRunPrototype(p, m, o, n)[1])
  BY QpaIs DEF IsNode
<1> QED
  BY <1>1, <1>2, <1>3, NodesOfBridge DEF Told, Direct, Redacting, Signing, Aggregating,
     Prototyping, Witnessing

LEMMA KnownIs == CallsMade => \A m \in Known : IsKnown(m)
<1> SUFFICES ASSUME CallsMade, NEW m \in Known PROVE IsKnown(m)
  OBVIOUS
<1>1. ASSUME NEW c \in calls, c[2] # ValueError PROVE IsKnown(c[2][1])
  BY <1>1, CallsTell, ToldIsKnown DEF IsKnown
<1>2. m \in Texts \/ \E c \in calls : c[2] # ValueError /\ m = c[2][1]
  BY DEF Known, Results
<1> QED
  BY <1>1, <1>2 DEF IsKnown

LEMMA KnownStrings == CallsMade => \A s \in Known : IsString(s)
BY KnownIs, KnownMayBe DEF Committable

LEMMA SignaturesAre == CallsMade => Nodes(Signatures)
<1> SUFFICES ASSUME CallsMade, NEW c \in calls, c[1][1] = "blsSign"
             PROVE  IsNode(c[2][1])
  BY DEF Nodes, Signatures
<1>1. c[1] \in Commands /\ c[2] = bridgeCall(c[1])
  BY DEF CallsMade
<1>2. PICK k, m : c[1] = <<"blsSign", k, m>>
  BY <1>1 DEF Commands
<1>3. c[2] = blsSign(k, m)
  BY <1>1, <1>2, BridgeAnswers
<1> QED
  BY <1>3, NodesOfBridge DEF blsSign

(* The kinds of answers: none is of two.                                   *)
IsCommitment(f) ==
    \E x : /\ f = HashOf(x) /\ LooksCommitted(x) /\ ~LooksSigned(x) /\ ~LooksPaired(x)
           /\ ~LooksPrinted(x) /\ ~LooksEncoded(x)
IsPairing(f) == \E x : f = HashOf(x) /\ LooksPaired(x) /\ LooksCommitted(x)
IsGapWitness(f) == \E x : f = HashOf(x) /\ LooksEncoded(x) /\ LooksCommitted(x)
IsSignature(f) == \E x : f = HashOf(x) /\ LooksSigned(x)
IsAggregate(f) ==
    \E x : f = HashOf(x) /\ ~LooksCommitted(x) /\ ~LooksSigned(x) /\ ~LooksPrinted(x)
IsPrototype(f) == \E x : f = HashOf(x) /\ LooksPrinted(x)
IsRedaction(f) == f[1] = <<"redacted:">>

LEMMA LooksDiffer ==
    ASSUME NEW x
    PROVE  /\ LooksPaired(x) => ~LooksSigned(x) /\ ~LooksPrinted(x) /\ ~LooksEncoded(x)
           /\ LooksSigned(x) => ~LooksPrinted(x) /\ ~LooksEncoded(x)
           /\ LooksEncoded(x) => ~LooksPrinted(x)
BY OnePart DEF LooksPaired, LooksSigned, NodeThen, LooksPrinted, LooksEncoded

LEMMA KindsDiffer ==
    ASSUME NEW f
    PROVE  /\ IsCommitment(f) => /\ ~IsPairing(f) /\ ~IsGapWitness(f) /\ ~IsSignature(f)
                                 /\ ~IsAggregate(f) /\ ~IsPrototype(f) /\ ~IsRedaction(f)
           /\ IsPairing(f) => /\ ~IsGapWitness(f) /\ ~IsSignature(f) /\ ~IsAggregate(f)
                              /\ ~IsPrototype(f) /\ ~IsRedaction(f)
           /\ IsGapWitness(f) => /\ ~IsSignature(f) /\ ~IsAggregate(f)
                              /\ ~IsPrototype(f) /\ ~IsRedaction(f)
           /\ IsSignature(f) => ~IsAggregate(f) /\ ~IsPrototype(f) /\ ~IsRedaction(f)
           /\ IsAggregate(f) => ~IsPrototype(f) /\ ~IsRedaction(f)
           /\ IsPrototype(f) => ~IsRedaction(f)
<1>1. CASE \E x : f = HashOf(x)
  <2>1. PICK x : f = HashOf(x)
    BY <1>1
  <2>2. \A y : f = HashOf(y) => y = x
    BY <2>1, HashTells
  <2>3. ~IsRedaction(f)
    <3>1. f[1] = <<"0x">>
      BY <2>1 DEF HashOf
    <3> QED
      BY <3>1, OnePart DEF IsRedaction
  <2>4. IsCommitment(f) => /\ LooksCommitted(x) /\ ~LooksSigned(x) /\ ~LooksPaired(x)
                           /\ ~LooksPrinted(x) /\ ~LooksEncoded(x)
    BY <2>2 DEF IsCommitment
  <2>5. /\ IsPairing(f) => LooksPaired(x) /\ LooksCommitted(x)
        /\ IsGapWitness(f) => LooksEncoded(x) /\ LooksCommitted(x)
    BY <2>2 DEF IsPairing, IsGapWitness
  <2>6. /\ IsSignature(f) => LooksSigned(x)
        /\ IsAggregate(f) => ~LooksCommitted(x) /\ ~LooksSigned(x) /\ ~LooksPrinted(x)
        /\ IsPrototype(f) => LooksPrinted(x)
    BY <2>2 DEF IsSignature, IsAggregate, IsPrototype
  <2> QED
    BY <2>3, <2>4, <2>5, <2>6, LooksDiffer
<1>2. CASE ~\E x : f = HashOf(x)
  BY <1>2 DEF IsCommitment, IsPairing, IsGapWitness, IsSignature, IsAggregate, IsPrototype
<1> QED
  BY <1>1, <1>2

LEMMA DirectIs ==
    ASSUME CallsMade, NEW d, NEW f, Direct(d, f)
    PROVE  /\ CommitsDirectly(d) /\ IsCommitment(f)
           /\ \E m, r : Committed(d) = <<m, r>> /\ CommitsTo(f, m, r)
<1>1. PICK m, r : /\ CommitsDirectly(d) /\ Committed(d) = <<m, r>>
                  /\ (m \in Known \/ IsNode(m)) /\ IsString(r)
                  /\ f = fallback_commitment(m, r)
  BY DEF Direct
<1>2. Committable(m)
  BY <1>1, KnownIs, KnownMayBe, NodeMayBe
<1>3. CommitsTo(f, m, r)
  BY <1>1, <1>2 DEF CommitsTo
<1>4. IsCommitment(f)
  BY <1>3, CommittedIs DEF IsCommitment
<1> QED
  BY <1>1, <1>3, <1>4

LEMMA KindsAre ==
    ASSUME CallsMade, NEW d, NEW f, Told(d, f)
    PROVE  /\ Direct(d, f) => IsCommitment(f)
           /\ Rooting(d, f) => IsPairing(f)
           /\ Witnessing(d, f) => IsGapWitness(f)
           /\ Signing(d, f) => IsSignature(f)
           /\ Aggregating(d, f) => IsAggregate(f)
           /\ Prototyping(d, f) => IsPrototype(f)
           /\ Redacting(d, f) => IsRedaction(f)
<1>1. Direct(d, f) => IsCommitment(f)
  BY DirectIs
<1>2. Rooting(d, f) => IsPairing(f)
  <2> SUFFICES ASSUME Rooting(d, f) PROVE IsPairing(f)
    OBVIOUS
  <2>1. PICK list : list = d[2]
    OBVIOUS
  <2>2. IsBatch(list) /\ Len(list) > 1 /\ f = merkleRoot(list)
    BY <2>1 DEF Told, RootIsTold, Rooting
  <2>3. PICK l, r : IsNode(l) /\ IsNode(r) /\ f = NodeHash(l, r)
    BY <2>2, RootOfMany
  <2> QED
    BY <2>3, PairedIs DEF IsPairing
<1>3. Witnessing(d, f) => IsGapWitness(f)
  <2> SUFFICES ASSUME NEW g, NEW u, NEW l, NEW r, IsString(r),
                      f = fallback_commitment(Payload(g, u, l), r)
               PROVE  IsGapWitness(f)
    BY DEF Witnessing
  <2> QED
    BY WitnessIs DEF IsGapWitness
<1>4. \A m \in Known : IsString(m)
  BY KnownStrings
<1>5. Signing(d, f) => IsSignature(f)
  BY <1>4, NodesOfBridge, SignedIs DEF Signing, IsSignature
<1>6. Aggregating(d, f) => IsAggregate(f)
  BY SignaturesAre, AggregateIs DEF Aggregating, IsAggregate
<1>7. Prototyping(d, f) => IsPrototype(f)
  <2> SUFFICES ASSUME NEW p, NEW o, IsString(o), NEW m \in Known, NEW n \in Nat,
                      f = qpaRunPrototype(p, m, o, n)[1]
               PROVE  IsPrototype(f)
    BY DEF Prototyping
  <2>1. PICK w : Joins(w, m, o)
    BY DEF Joins
  <2> QED
    BY <1>4, <2>1, PrototypeIs DEF IsPrototype
<1>8. Redacting(d, f) => IsRedaction(f)
  BY RedactionIs DEF Redacting, IsRedaction
<1> QED
  BY <1>1, <1>2, <1>3, <1>5, <1>6, <1>7, <1>8

(* Every answer is to a call of its kind.                                  *)
LEMMA KindTells ==
    ASSUME CallsMade, NEW d, NEW f, Told(d, f)
    PROVE  /\ IsCommitment(f) => Direct(d, f)
           /\ IsPairing(f) => Rooting(d, f)
           /\ IsGapWitness(f) => Witnessing(d, f)
           /\ IsSignature(f) => Signing(d, f)
           /\ IsAggregate(f) => Aggregating(d, f)
           /\ IsPrototype(f) => Prototyping(d, f)
           /\ IsRedaction(f) => Redacting(d, f)
BY KindsAre, KindsDiffer DEF Told

(* The command's name tells it too.                                        *)
LEMMA NamesTell ==
    ASSUME NEW d, NEW f, Told(d, f)
    PROVE  /\ CommitsDirectly(d) => Direct(d, f)
           /\ d[1] = "computeGapWitness" => Witnessing(d, f)
           /\ d[1] = "qpaRunPrototype" => Prototyping(d, f)
<1>1. CASE Direct(d, f)
  BY <1>1 DEF Direct, CommitsDirectly, RootCalls
<1>2. CASE Rooting(d, f)
  <2>1. Len(d[2]) # 1
    <3>1. IsBatch(d[2]) /\ Len(d[2]) > 1
      BY <1>2 DEF Told, RootIsTold, Rooting
    <3>2. PICK n \in Nat : n = Len(d[2])
      BY <3>1 DEF IsBatch, IsString
    <3>3. n > 1
      BY <3>1, <3>2
    <3> QED
      BY <3>2, <3>3
  <2> QED
    BY <1>2, <2>1 DEF Rooting, CommitsDirectly, RootCalls
<1>3. CASE Redacting(d, f)
  BY <1>3 DEF Redacting, CommitsDirectly, RootCalls
<1>4. CASE Signing(d, f)
  BY <1>4 DEF Signing, CommitsDirectly, RootCalls
<1>5. CASE Aggregating(d, f)
  BY <1>5 DEF Aggregating, CommitsDirectly, RootCalls
<1>6. CASE Prototyping(d, f)
  <2>1. d[1] = "qpaRunPrototype"
    BY <1>6 DEF Prototyping
  <2> QED
    BY <1>6, <2>1 DEF CommitsDirectly, RootCalls
<1>7. CASE Witnessing(d, f)
  <2>1. d[1] = "computeGapWitness"
    BY <1>7 DEF Witnessing
  <2> QED
    BY <1>7, <2>1 DEF CommitsDirectly, RootCalls
<1> QED
  BY <1>1, <1>2, <1>3, <1>4, <1>5, <1>6, <1>7 DEF Told

-----------------------------------------------------------------------------
(* However many calls a process makes, with the results of earlier ones as *)
(* messages too, verifyCommitment accepts exactly what joins to the string *)
(* that was committed to, and blsVerify what was signed with that key.     *)
THEOREM VerificationAcceptsTheTrue == BridgeSpec => []VerificationIsExact
<1>1. CallsMade => VerificationIsExact
  <2> SUFFICES ASSUME CallsMade, NEW c \in calls, c[2] # ValueError
               PROVE  /\ CommitsDirectly(c[1]) =>
                           \A leaf \in Known, salt \in Salts :
                               verifyCommitment(c[2][1], leaf, salt)
                                   <=> SameCommitment(Committed(c[1]), <<leaf, salt>>)
                      /\ c[1][1] = "blsSign" =>
                           \A key \in BlsKeys, message \in Known :
                               blsVerify(c[2][1], publicKeyOf(key), message)
                                   <=> c[1] = <<"blsSign", key, message>>
    BY DEF VerificationIsExact
  <2>1. c[1] \in Commands /\ c[2] = bridgeCall(c[1])
    BY DEF CallsMade
  <2>2. ASSUME CommitsDirectly(c[1]), NEW leaf \in Known, NEW salt \in Salts
        PROVE  verifyCommitment(c[2][1], leaf, salt)
                   <=> SameCommitment(Committed(c[1]), <<leaf, salt>>)
    <3>1. PICK x, f : x = c[1] /\ f = c[2][1]
      OBVIOUS
    <3>2. Told(x, f) /\ CommitsDirectly(x)
      BY <2>2, <3>1, CallsTell
    <3>3. Direct(x, f)
      BY <3>2, NamesTell
    <3>4. PICK m, r : Committed(x) = <<m, r>> /\ CommitsTo(f, m, r)
      BY <3>3, DirectIs
    <3>5. IsString(m) /\ IsString(r) /\ f = fallback_commitment(m, r)
      BY <3>4 DEF CommitsTo, Committable
    <3>6. IsString(leaf) /\ IsString(salt)
      BY KnownStrings, StringsAssumption
    <3>7. f = fallback_commitment(leaf, salt)
              <=> SameCommitment(<<m, r>>, <<leaf, salt>>)
      BY <3>5, <3>6, SaltedTells
    <3> QED
      BY <3>1, <3>4, <3>7 DEF verifyCommitment
  <2>3. ASSUME c[1][1] = "blsSign", NEW key \in BlsKeys, NEW message \in Known
        PROVE  blsVerify(c[2][1], publicKeyOf(key), message)
                   <=> c[1] = <<"blsSign", key, message>>
    <3>1. PICK k \in BlsKeys, m \in Known : c[1] = <<"blsSign", k, m>>
      BY <2>1, <2>3 DEF Commands
    <3>2. IsString(m) /\ c[2][1] = signatureUnder(publicKeyOf(k), m)
      BY <2>1, <3>1, BridgeAnswers, KnownStrings DEF blsSign
    <3>3. IsString(message) /\ IsString(k) /\ IsString(key)
      BY KnownStrings, StringsAssumption
    <3>4. ASSUME signatureUnder(publicKeyOf(k), m)
                     = signatureUnder(publicKeyOf(key), message)
          PROVE  k = key /\ m = message
      <4>1. publicKeyOf(k) = publicKeyOf(key) /\ m = message
        BY <3>2, <3>3, <3>4, SignatureTells, NodesOfBridge
      <4> QED
        BY <3>3, <4>1, KeyTells
    <3>5. blsVerify(c[2][1], publicKeyOf(key), message) <=> k = key /\ m = message
      BY <3>2, <3>4 DEF blsVerify
    <3>6. c[1] = <<"blsSign", key, message>> <=> k = key /\ m = message
      BY <3>1
    <3> QED
      BY <3>5, <3>6
  <2> QED
    BY <2>2, <2>3
<1> QED
  BY <1>1, Calls, PTL

-----------------------------------------------------------------------------
(* Equal answers are to calls that mean the same.                          *)
LEMMA DirectTells ==
    ASSUME CallsMade, NEW x, NEW y, NEW f, Direct(x, f), Told(y, f)
    PROVE  SameMeaning(x, y)
<1>1. IsCommitment(f) /\ CommitsDirectly(x)
  BY DirectIs
<1>2. Direct(y, f)
  BY <1>1, KindTells
<1>3. PICK m, r : Committed(x) = <<m, r>> /\ CommitsTo(f, m, r)
  BY DirectIs
<1>4. PICK n, q : Committed(y) = <<n, q>> /\ CommitsTo(f, n, q)
  BY <1>2, DirectIs
<1>5. /\ IsString(m) /\ IsString(r) /\ f = fallback_commitment(m, r)
      /\ IsString(n) /\ IsString(q) /\ f = fallback_commitment(n, q)
  BY <1>3, <1>4 DEF CommitsTo, Committable
<1>6. SameCommitment(<<m, r>>, <<n, q>>)
  BY <1>5, SaltedTells
<1>7. CommitsDirectly(y)
  BY <1>2, DirectIs
<1>8. SameCommitment(Committed(x), Committed(y))
  BY <1>3, <1>4, <1>6
<1> QED
  BY <1>1, <1>7, <1>8 DEF SameMeaning

LEMMA RootingTells ==
    ASSUME CallsMade, NEW x, NEW y, NEW f, Rooting(x, f), Told(x, f), Told(y, f)
    PROVE  SameMeaning(x, y)
<1>1. Rooting(y, f)
  BY KindsAre, KindTells
<1>2. PICK list, other : list = x[2] /\ other = y[2]
  OBVIOUS
<1>3. IsBatch(list) /\ f = merkleRoot(list) /\ IsBatch(other) /\ f = merkleRoot(other)
  BY <1>1, <1>2 DEF Told, RootIsTold, Rooting
<1>4. Padded(list) = Padded(other)
  BY <1>3, RootsTell
<1> QED
  BY <1>1, <1>2, <1>4 DEF SameMeaning, Rooting

LEMMA WitnessingTells ==
    ASSUME CallsMade, NEW x, NEW y, NEW f, Witnessing(x, f), Told(x, f), Told(y, f)
    PROVE  SameMeaning(x, y)
<1>1. Witnessing(y, f)
  BY KindsAre, KindTells
<1>2. PICK g, u : \E l \in CouplingLists : \E r :
          /\ IsString(r) /\ x = <<"computeGapWitness", g, u, l, r>>
          /\ f = fallback_commitment(Payload(g, u, l), r)
  BY DEF Witnessing
<1> PICK l \in CouplingLists : \E r :
        /\ IsString(r) /\ x = <<"computeGapWitness", g, u, l, r>>
        /\ f = fallback_commitment(Payload(g, u, l), r)
  BY <1>2
<1>3. PICK r : /\ IsString(r) /\ x = <<"computeGapWitness", g, u, l, r>>
               /\ f = fallback_commitment(Payload(g, u, l), r)
  OBVIOUS
<1>4. PICK h, v : \E k \in CouplingLists : \E q :
          /\ IsString(q) /\ y = <<"computeGapWitness", h, v, k, q>>
          /\ f = fallback_commitment(Payload(h, v, k), q)
  BY <1>1 DEF Witnessing
<1> PICK k \in CouplingLists : \E q :
        /\ IsString(q) /\ y = <<"computeGapWitness", h, v, k, q>>
        /\ f = fallback_commitment(Payload(h, v, k), q)
  BY <1>4
<1>5. PICK q : /\ IsString(q) /\ y = <<"computeGapWitness", h, v, k, q>>
               /\ f = fallback_commitment(Payload(h, v, k), q)
  OBVIOUS
<1>6. Payload(g, u, l) = Payload(h, v, k) /\ r = q
  <2>1. fallback_commitment(Payload(g, u, l), r) = fallback_commitment(Payload(h, v, k), q)
    BY <1>3, <1>5
  <2>2. IsString(r) /\ IsString(q)
    BY <1>3, <1>5
  <2> QED
    BY ONLY <2>1, <2>2, WitnessTells
<1>7. g = h /\ u = v /\ ByPrime(l) = ByPrime(k)
  BY <1>6, CouplingsTell
<1>8. /\ x[1] = "computeGapWitness" /\ x[2] = g /\ x[3] = u /\ x[4] = l /\ x[5] = r
      /\ y[1] = "computeGapWitness" /\ y[2] = h /\ y[3] = v /\ y[4] = k /\ y[5] = q
  BY <1>3, <1>5
<1> QED
  BY <1>6, <1>7, <1>8 DEF SameMeaning

LEMMA SigningTells ==
    ASSUME CallsMade, NEW x, NEW y, NEW f, Signing(x, f), Told(x, f), Told(y, f)
    PROVE  x = y
<1>1. Signing(y, f)
  BY KindsAre, KindTells
<1>2. PICK k \in BlsKeys, m \in Known :
          x = <<"blsSign", k, m>> /\ f = signatureUnder(publicKeyOf(k), m)
  BY DEF Signing
<1>3. PICK l \in BlsKeys, n \in Known :
          y = <<"blsSign", l, n>> /\ f = signatureUnder(publicKeyOf(l), n)
  BY <1>1 DEF Signing
<1>4. IsString(m) /\ IsString(n) /\ IsString(k) /\ IsString(l)
  BY KnownStrings, StringsAssumption
<1>5. publicKeyOf(k) = publicKeyOf(l) /\ m = n
  BY <1>2, <1>3, <1>4, SignatureTells, NodesOfBridge
<1>6. k = l
  BY <1>4, <1>5, KeyTells
<1> QED
  BY <1>2, <1>3, <1>5, <1>6

LEMMA AggregatingTells ==
    ASSUME CallsMade, NEW x, NEW y, NEW f, Aggregating(x, f), Told(x, f), Told(y, f)
    PROVE  x = y
<1>1. Aggregating(y, f)
  BY KindsAre, KindTells
<1>2. PICK S : S = Signatures
  OBVIOUS
<1>3. PICK s \in Seq(S) : x = <<"blsAggregate", s>> /\ f = blsAggregate(s)[1]
  BY <1>2 DEF Aggregating
<1>4. PICK t \in Seq(S) : y = <<"blsAggregate", t>> /\ f = blsAggregate(t)[1]
  BY <1>1, <1>2 DEF Aggregating
<1>5. Nodes(S)
  BY <1>2, SignaturesAre
<1>6. s = t
  BY <1>3, <1>4, <1>5, AggregateTells
<1> QED
  BY <1>3, <1>4, <1>6

LEMMA PrototypingTells ==
    ASSUME CallsMade, NEW x, NEW y, NEW f, Prototyping(x, f), Told(x, f), Told(y, f)
    PROVE  SameMeaning(x, y)
<1>1. Prototyping(y, f)
  BY KindsAre, KindTells
<1>2. PICK p, o : \E m \in Known : \E n \in Nat :
          /\ IsString(o) /\ x = <<"qpaRunPrototype", p, m, o, n>>
          /\ f = qpaRunPrototype(p, m, o, n)[1]
  BY DEF Prototyping
<1> PICK m \in Known, n \in Nat :
        /\ IsString(o) /\ x = <<"qpaRunPrototype", p, m, o, n>>
        /\ f = qpaRunPrototype(p, m, o, n)[1]
  BY <1>2
<1>3. PICK q, v : \E u \in Known : \E l \in Nat :
          /\ IsString(v) /\ y = <<"qpaRunPrototype", q, u, v, l>>
          /\ f = qpaRunPrototype(q, u, v, l)[1]
  BY <1>1 DEF Prototyping
<1> PICK u \in Known, l \in Nat :
        /\ IsString(v) /\ y = <<"qpaRunPrototype", q, u, v, l>>
        /\ f = qpaRunPrototype(q, u, v, l)[1]
  BY <1>3
<1>4. IsString(m) /\ IsString(o) /\ IsString(u) /\ IsString(v)
  BY KnownStrings
<1>5. qpaRunPrototype(p, m, o, n)[1] = qpaRunPrototype(q, u, v, l)[1]
  OBVIOUS
<1>6. PICK w : p = q /\ Joins(w, m, o) /\ Joins(w, u, v)
  BY <1>4, <1>5, PrototypeTells
<1>7. /\ x[1] = "qpaRunPrototype" /\ x[2] = p /\ x[3] = m /\ x[4] = o
      /\ y[1] = "qpaRunPrototype" /\ y[2] = q /\ y[3] = u /\ y[4] = v
  OBVIOUS
<1>8. x[3] \o x[4] = y[3] \o y[4]
  BY <1>6, <1>7 DEF Joins
<1> QED
  BY <1>6, <1>7, <1>8 DEF SameMeaning

LEMMA RedactingTells ==
    ASSUME CallsMade, NEW x, NEW y, NEW f, Redacting(x, f), Told(x, f), Told(y, f)
    PROVE  x = y
<1>1. Redacting(y, f)
  BY KindsAre, KindTells
<1>2. PICK m \in Known : x = <<"redactIdentity", m>> /\ f = redactIdentity(m)
  BY DEF Redacting
<1>3. PICK n \in Known : y = <<"redactIdentity", n>> /\ f = redactIdentity(n)
  BY <1>1 DEF Redacting
<1>4. PICK head : head = <<<<"redacted:">>>>
  OBVIOUS
<1>5. PICK g : /\ g = fallback_commitment(m, Text("redact:v1")) /\ IsString(g)
               /\ Joins(f, head, g)
  BY <1>2, <1>4, RedactionIs
<1>6. PICK h : /\ h = fallback_commitment(n, Text("redact:v1")) /\ IsString(h)
               /\ Joins(f, head, h)
  BY <1>3, <1>4, RedactionIs
<1>7. IsString(head)
  BY <1>4 DEF IsString
<1>8. g = h
  BY <1>5, <1>6, <1>7, JoinTells
<1>9. IsString(m) /\ IsString(n)
  BY KnownStrings
<1>10. m = n
  BY <1>5, <1>6, <1>8, <1>9, TextIsString, SaltLeavesMessage
<1> QED
  BY <1>2, <1>3, <1>10

LEMMA EqualAnswersTell ==
    ASSUME CallsMade, NEW x, NEW y, NEW f, Told(x, f), Told(y, f)
    PROVE  SameMeaning(x, y)
<1>1. x = y => SameMeaning(x, y)
  BY DEF SameMeaning
<1> QED
  BY <1>1, DirectTells, RootingTells, WitnessingTells, SigningTells, AggregatingTells,
     PrototypingTells, RedactingTells DEF Told

(* Calls that mean the same have equal answers.                            *)
LEMMA SameMeaningAnswers ==
    ASSUME CallsMade, NEW c \in calls, c[2] # ValueError,
           NEW d \in calls, d[2] # ValueError, SameMeaning(c[1], d[1])
    PROVE  c[2][1] = d[2][1]
<1>1. PICK x, y, f, g : x = c[1] /\ y = d[1] /\ f = c[2][1] /\ g = d[2][1]
  OBVIOUS
<1>2. Told(x, f) /\ Told(y, g) /\ SameMeaning(x, y)
  BY <1>1, CallsTell
<1>3. CASE x = y
  BY <1>1, <1>3 DEF CallsMade
<1>4. ASSUME CommitsDirectly(x), CommitsDirectly(y),
             SameCommitment(Committed(x), Committed(y))
      PROVE  f = g
  <2>1. Direct(x, f) /\ Direct(y, g)
    BY <1>2, <1>4, NamesTell
  <2>2. PICK m, r : Committed(x) = <<m, r>> /\ CommitsTo(f, m, r)
    BY <2>1, DirectIs
  <2>3. PICK n, q : Committed(y) = <<n, q>> /\ CommitsTo(g, n, q)
    BY <2>1, DirectIs
  <2>4. /\ IsString(m) /\ IsString(r) /\ f = fallback_commitment(m, r)
        /\ IsString(n) /\ IsString(q) /\ g = fallback_commitment(n, q)
    BY <2>2, <2>3 DEF CommitsTo, Committable
  <2>5. SameCommitment(<<m, r>>, <<n, q>>)
    BY <1>4, <2>2, <2>3
  <2> QED
    BY <2>4, <2>5, SaltedTells
<1>5. ASSUME {x[1], y[1]} \subseteq RootCalls, Padded(x[2]) = Padded(y[2])
      PROVE  f = g
  <2>1. PICK list, other : list = x[2] /\ other = y[2]
    OBVIOUS
  <2>2. IsBatch(list) /\ f = merkleRoot(list) /\ IsBatch(other) /\ g = merkleRoot(other)
    BY <1>2, <1>5, <2>1 DEF Told, RootIsTold
  <2> QED
    BY <1>5, <2>1, <2>2, RootsTell
<1>6. ASSUME x[1] = "computeGapWitness", y[1] = "computeGapWitness",
             <<x[2], x[3], x[5]>> = <<y[2], y[3], y[5]>>, ByPrime(x[4]) = ByPrime(y[4])
      PROVE  f = g
  <2>1. \E h, u : \E l \in CouplingLists : \E r :
            /\ x = <<"computeGapWitness", h, u, l, r>>
            /\ f = fallback_commitment(Payload(h, u, l), r)
    BY <1>2, <1>6, NamesTell DEF Witnessing
  <2>2. f = fallback_commitment(Payload(x[2], x[3], x[4]), x[5]) /\ x[4] \in CouplingLists
    BY <2>1
  <2>3. \E h, u : \E l \in CouplingLists : \E r :
            /\ y = <<"computeGapWitness", h, u, l, r>>
            /\ g = fallback_commitment(Payload(h, u, l), r)
    BY <1>2, <1>6, NamesTell DEF Witnessing
  <2>4. g = fallback_commitment(Payload(y[2], y[3], y[4]), y[5]) /\ y[4] \in CouplingLists
    BY <2>3
  <2>5. x[2] = y[2] /\ x[3] = y[3] /\ x[5] = y[5]
    BY <1>6
  <2>6. PICK l, k : l = x[4] /\ k = y[4]
    OBVIOUS
  <2>7. Payload(x[2], x[3], l) = Payload(y[2], y[3], k)
    BY <1>6, <2>2, <2>4, <2>5, <2>6, CouplingsTell
  <2> QED
    BY <2>2, <2>4, <2>5, <2>6, <2>7
<1>7. ASSUME x[1] = "qpaRunPrototype", y[1] = "qpaRunPrototype", x[2] = y[2],
             x[3] \o x[4] = y[3] \o y[4]
      PROVE  f = g
  <2>1. PICK p, o : \E m \in Known : \E n \in Nat :
            /\ IsString(o) /\ x = <<"qpaRunPrototype", p, m, o, n>>
            /\ f = qpaRunPrototype(p, m, o, n)[1]
    BY <1>2, <1>7, NamesTell DEF Prototyping
  <2> PICK m \in Known, n \in Nat :
          /\ IsString(o) /\ x = <<"qpaRunPrototype", p, m, o, n>>
          /\ f = qpaRunPrototype(p, m, o, n)[1]
    BY <2>1
  <2>2. PICK q, v : \E u \in Known : \E l \in Nat :
            /\ IsString(v) /\ y = <<"qpaRunPrototype", q, u, v, l>>
            /\ g = qpaRunPrototype(q, u, v, l)[1]
    BY <1>2, <1>7, NamesTell DEF Prototyping
  <2> PICK u \in Known, l \in Nat :
          /\ IsString(v) /\ y = <<"qpaRunPrototype", q, u, v, l>>
          /\ g = qpaRunPrototype(q, u, v, l)[1]
    BY <2>2
  <2>3. /\ x[2] = p /\ x[3] = m /\ x[4] = o
        /\ y[2] = q /\ y[3] = u /\ y[4] = v
    OBVIOUS
  <2>4. PICK w : Joins(w, m, o) /\ Joins(w, u, v) /\ p = q
    BY <1>7, <2>3 DEF Joins
  <2>5. IsString(m) /\ IsString(o) /\ IsString(u) /\ IsString(v)
    BY KnownStrings
  <2>6. qpaRunPrototype(p, m, o, n)[1] = qpaRunPrototype(p, u, v, l)[1]
    BY <2>4, <2>5, PrototypeAnswers
  <2> QED
    BY <2>4, <2>6
<1> QED
  BY <1>1, <1>2, <1>3, <1>4, <1>5, <1>6, <1>7 DEF SameMeaning

(* However many calls a process makes, with lists of any length and with   *)
(* the results of earlier calls as messages too, two results are equal     *)
(* exactly when the calls mean the same: up to the separator and to the    *)
(* leaves repeated in odd levels no commitment, root, audit hash,          *)
(* redaction, signature, aggregate, QPA digest or gap witness passes for   *)
(* one of another kind or of another input.                                *)
THEOREM ResultsAreTold == BridgeSpec => []ResultsTellInputs
<1>1. CallsMade => ResultsTellInputs
  <2> SUFFICES ASSUME CallsMade, NEW c \in calls, c[2] # ValueError,
                      NEW d \in calls, d[2] # ValueError
               PROVE  c[2][1] = d[2][1] <=> SameMeaning(c[1], d[1])
    BY DEF ResultsTellInputs
  <2>1. PICK x, y, f, g : x = c[1] /\ y = d[1] /\ f = c[2][1] /\ g = d[2][1]
    OBVIOUS
  <2>2. Told(x, f) /\ Told(y, g)
    BY <2>1, CallsTell
  <2>3. f = g => SameMeaning(x, y)
    BY <2>2, EqualAnswersTell
  <2>4. SameMeaning(x, y) => f = g
    BY <2>1, SameMeaningAnswers
  <2> QED
    BY <2>1, <2>3, <2>4
<1> QED
  BY <1>1, Calls, PTL
=============================================================================
