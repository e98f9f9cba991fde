-------------------------------- MODULE MCCas --------------------------------
(***************************************************************************)
(* The Python bridge and the registry that is built on it, for TLC: a      *)
(* Merkle batch that grows, a process that calls the bridge, or the        *)
(* registry.  Which one it is is chosen at the start, the others stay      *)
(* idle.  The ids of witnesses and batches are interchangeable.            *)
(***************************************************************************)
EXTENDS CasRegistry, MerkleGrowth, BridgeCalls

CONSTANT alice

VARIABLE subject   \* the one that runs

CasInit ==
    Init /\ EmptyBatch /\ NoCalls /\ subject \in {"batch", "bridge", "registry"}

GrowStep == subject = "batch" /\ AddLeaf /\ UNCHANGED <<subject, calls, vars>>
BridgeStep == subject = "bridge" /\ CallBridge /\ UNCHANGED <<subject, leaves, vars>>
RegistryStep == subject = "registry" /\ Next /\ UNCHANGED <<subject, leaves, calls>>

CasSpec ==
    CasInit /\ [][GrowStep \/ BridgeStep \/ RegistryStep]_<<subject, leaves, calls, vars>>

-----------------------------------------------------------------------------
(* The leaves are strings.                                                 *)
TwoLeaves == {Text("x"), Text("y")}

TwoData == {[certified |-> TRUE, timestamp |-> "t1"],
            [certified |-> FALSE, timestamp |-> "t2"]}

(* An identity, and the text of its commitment as an identity of its own.  *)
TwoIdentities == {Text(alice), deriveIdentityCommitment(Text(alice))}

(* A text, an identity that looks like a commitment, and a text with the   *)
(* separator in it.                                                        *)
OwnTexts == {Text("m"), Text("0x") \o Text("7"),
             Text("m") \o Text(":commit:") \o Text("b")}

(* Two tags of the bridge, and a salt with the separator in it whose front *)
(* makes the one text of the other and whose rest is a tag.                *)
ThreeSalts == {Text("identity:v1"), Text("merkle-leaf"),
               Text("b") \o Text(":commit:") \o Text("identity:v1")}

(* Lists of up to four leaves, two of them equal up to a repetition.       *)
SomeLeafLists ==
    LET m == Text("m")
        hex == Text("0x") \o Text("7")
    IN  {<< >>, <<m>>, <<m, hex>>, <<hex, m>>, <<m, m>>, <<m, hex, m>>, <<m, hex, m, m>>}
SomePlaces == {0, 3}

TwoKeys == {Text("k1"), Text("k2")}
UpToThree == 0 .. 3

(* The rest of a text, and nothing.                                        *)
TwoModes == {Text(":commit:") \o Text("b"), << >>}
SomeShadows == {0, 1}

(* One dictionary in two orders.                                           *)
TwoParams == {<<"primes", "partitionCount">>, <<"partitionCount", "primes">>}

(* Couplings in either order, with one prime or with two.                  *)
SomeCouplings ==
    LET two == [prime |-> 2, J |-> 1]
        again == [prime |-> 2, J |-> 3]
        three == [prime |-> 3, J |-> 1]
    IN  {<<two, again>>, <<again, two>>, <<two, three>>, <<three, two>>}

Interchangeable == Permutations(WitnessIds) \cup Permutations(Batches)
=============================================================================
