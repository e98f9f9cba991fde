----------------------------- MODULE MerkleTree -----------------------------
(***************************************************************************)
(* The Merkle tree of the Python bridge: root, proof and verification.     *)
(* An odd node at the end of a level is paired with itself.  Leaves and    *)
(* nodes are commitments with different salts; a proof is a list of        *)
(* strings "left:..." and "right:...".                                     *)
(***************************************************************************)
EXTENDS BridgeStrings

LeafHash(leaf) == fallback_commitment(leaf, Text("merkle-leaf"))
NodeHash(left, right) ==
    fallback_commitment(left \o Text(":") \o right, Text("merkle-node"))

(* Mutant of RightOf: every node is paired with itself.                    *)
RightOfItself(nodes, i) == nodes[i]

(* The partner of the node at an odd position, which may be the last one.  *)
RightOf(nodes, i) == IF i < Len(nodes) THEN nodes[i + 1] ELSE nodes[i]

NextLevel(nodes) ==
    [i \in 1 .. (Len(nodes) + 1) \div 2 |->
        NodeHash(nodes[2 * i - 1], RightOf(nodes, 2 * i - 1))]

LeafHashes(leaves) == [i \in 1 .. Len(leaves) |-> LeafHash(leaves[i])]

(* One round of the loop, which ends with a level of one node.  There are  *)
(* fewer rounds than leaves.                                               *)
Reduce(nodes) == IF Len(nodes) > 1 THEN NextLevel(nodes) ELSE nodes

merkleRoot(leaves) ==
    LET level[k \in 0 .. Len(leaves)] ==
          IF k = 0 THEN LeafHashes(leaves) ELSE Reduce(level[k - 1])
    IN  level[Len(leaves)][1]

(* The list that the tree is really built over: every level is filled up   *)
(* with its last node, so the last leaves repeat up to a power of two.     *)
Joined(lists) ==
    IF Len(lists) > 1
    THEN [i \in 1 .. (Len(lists) + 1) \div 2 |->
             lists[2 * i - 1] \o lists[IF 2 * i <= Len(lists) THEN 2 * i ELSE 2 * i - 1]]
    ELSE lists
Padded(list) ==
    LET below[k \in 0 .. Len(list)] ==
          IF k = 0 THEN [i \in 1 .. Len(list) |-> <<list[i]>>] ELSE Joined(below[k - 1])
    IN  below[Len(list)][1]

-----------------------------------------------------------------------------
(* Mutant of Sibling: a node at the end of a level has the node before it  *)
(* for a sibling.                                                          *)
SiblingBefore(nodes, i) ==
    IF i % 2 = 1 /\ i < Len(nodes) THEN Text("right") \o Text(":") \o nodes[i + 1]
    ELSE Text("left") \o Text(":") \o nodes[IF i = 1 THEN 1 ELSE i - 1]

Sibling(nodes, i) ==
    IF i % 2 = 1 THEN Text("right") \o Text(":") \o RightOf(nodes, i)
    ELSE Text("left") \o Text(":") \o nodes[i - 1]

(* The loop with one sibling per level; the node above position i of a    *)
(* level is at position (i + 1) \div 2 of the next.                        *)
Ascend(path) ==
    IF Len(path.nodes) > 1
    THEN [nodes |-> NextLevel(path.nodes), index |-> (path.index + 1) \div 2,
          proof |-> Append(path.proof, Sibling(path.nodes, path.index))]
    ELSE path

generateMerkleProof(leaves, index) ==
    LET path[k \in 0 .. Len(leaves)] ==
          IF k = 0 THEN [nodes |-> LeafHashes(leaves), index |-> index, proof |-> << >>]
                   ELSE Ascend(path[k - 1])
    IN  path[Len(leaves)].proof

(* An item is split at its first colon into a position and a sibling.      *)
Combine(current, item) ==
    LET position == SubSeq(item, 1, 1)
        sibling  == SubSeq(item, 3, Len(item))
    IN  IF position = Text("left") THEN NodeHash(sibling, current)
                                   ELSE NodeHash(current, sibling)

(* The root that a proof leads to from a leaf.                             *)
RootOf(leaf, proof) ==
    LET current[k \in 0 .. Len(proof)] ==
          IF k = 0 THEN LeafHash(leaf) ELSE Combine(current[k - 1], proof[k])
    IN  current[Len(proof)]

(* Mutant of verifyMerkleProof: the leaf itself is taken for a node.       *)
verifyAnyNode(leaf, proof, root) == RootOf(leaf, proof) = root \/ proof = << >>

verifyMerkleProof(leaf, proof, root) == RootOf(leaf, proof) = root
=============================================================================
