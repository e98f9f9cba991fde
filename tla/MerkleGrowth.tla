---------------------------- MODULE MerkleGrowth ----------------------------
(***************************************************************************)
(* A Merkle batch that grows by one leaf at a time; leaves may repeat.     *)
(***************************************************************************)
EXTENDS MerkleTree

CONSTANTS
    Leaves,     \* the leaves
    MaxLeaves,  \* bound: the size of the batch
    MaxCompared \* bound: the size of the batches it is compared with

ASSUME LeavesAssumption == \A leaf \in Leaves : IsString(leaf)
ASSUME GrowthAssumption == MaxLeaves \in Nat /\ MaxCompared \in Nat

VARIABLE leaves

EmptyBatch == leaves = << >>

AddLeaf ==
    /\ Len(leaves) < MaxLeaves
    /\ \E leaf \in Leaves : leaves' = Append(leaves, leaf)

GrowthSpec == EmptyBatch /\ [][AddLeaf]_leaves

-----------------------------------------------------------------------------
Index == 1 .. Len(leaves)

(* The proof of every leaf leads from it to the root of its batch, also    *)
(* where odd levels were filled up.                                        *)
EveryLeafVerifies ==
    \A i \in Index :
        verifyMerkleProof(leaves[i], generateMerkleProof(leaves, i), merkleRoot(leaves))

(* The proof of one place verifies only the leaf at that place, so a leaf  *)
(* that is not in the batch has no proof among those of the batch.         *)
ProofBindsLeaf ==
    \A i \in Index : \A leaf \in Leaves :
        verifyMerkleProof(leaf, generateMerkleProof(leaves, i), merkleRoot(leaves))
            => leaf = leaves[i]

(* The root tells two batches of any sizes apart, unless one is the other  *)
(* with the repetitions that fill up its levels written out: a batch that  *)
(* ends in the same witness twice has the root of the batch without the    *)
(* repetition, and no other two batches share a root.                      *)
RootTellsLeaves ==
    leaves # << >> =>
        \A n \in 1 .. MaxCompared : \A other \in [1 .. n -> Leaves] :
            merkleRoot(other) = merkleRoot(leaves) <=> Padded(other) = Padded(leaves)
=============================================================================
