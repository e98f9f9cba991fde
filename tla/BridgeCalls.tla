----------------------------- MODULE BridgeCalls -----------------------------
(***************************************************************************)
(* A process that calls the bridge with strings of its own and with what   *)
(* earlier calls returned: a commitment is passed on as an identity, a     *)
(* digest as a message.  The bridge keeps no state between the calls.      *)
(***************************************************************************)
EXTENDS PythonBridge, FiniteSets

CONSTANTS
    Texts,          \* the strings the process has of its own
    Salts,          \* the salts it commits with
    LeafLists,      \* the lists of leaves it asks roots and proofs for
    Places,         \* the places it asks proofs for, also beyond the list
    BlsKeys,        \* its BLS keys
    Aggregated,     \* how many signatures it aggregates
    QpaParams,      \* the QPA parameters
    Modes,          \* the QPA modes
    ShadowCounts,   \* the numbers of QPA shadows
    CouplingLists,  \* lists of records with a prime and a strength
    MaxCalls        \* bound: how many calls are made

(* Any string may be a text, a salt, a key or a mode, one with a separator *)
(* of the bridge in it or with one of its tags too.  Only what stands for  *)
(* a digest or a printed value is in no text.                              *)
ASSUME StringsAssumption ==
    /\ \A string \in Texts \cup Salts \cup BlsKeys \cup Modes : IsString(string)
    /\ \A text \in Texts : \A i \in 1 .. Len(text) : Len(text[i]) = 1

ASSUME ListsAssumption ==
    /\ \A list \in LeafLists : list \in Seq(Texts)
    /\ \A list \in CouplingLists :
           IsString(list) /\ \A i \in 1 .. Len(list) : list[i].prime \in Int

ASSUME CountsAssumption ==
    MaxCalls \in Nat /\ Places \cup Aggregated \cup ShadowCounts \subseteq Nat

VARIABLE calls      \* <<call, result>> of every call made

NoCalls == calls = {}

Results == {c[2] : c \in calls}
Known == Texts \cup {result[1] : result \in Results \ {ValueError}}
Signatures == {c[2][1] : c \in {c \in calls : c[1][1] = "blsSign"}}

Commands ==
    ({"computeCommitment"} \X Known \X Salts)
      \cup ({"merkleRoot"} \X LeafLists)
      \cup ({"generateMerkleProof"} \X LeafLists \X Places)
      \cup ({"deriveIdentityCommitment", "deriveIdentityAuditHash",
             "redactIdentity"} \X Known)
      \cup ({"blsSign"} \X BlsKeys \X Known)
      \cup ({"blsAggregate"} \X UNION {[1 .. n -> Signatures] : n \in Aggregated})
      \cup ({"qpaRunPrototype"} \X QpaParams \X Known \X Modes \X ShadowCounts)
      \cup ({"computeGapWitness"} \X {0, 1} \X {1} \X CouplingLists \X Salts)

Call(c) ==
    /\ Cardinality(calls) < MaxCalls
    /\ calls' = calls \cup {<<c, bridgeCall(c)>>}

CallBridge == \E c \in Commands : Call(c)

BridgeSpec == NoCalls /\ [][CallBridge]_calls

-----------------------------------------------------------------------------
(* What a call commits to as it was given it, and under which salt: a      *)
(* message, an identity, the commitment of an identity, the only leaf.     *)
RootCalls == {"merkleRoot", "generateMerkleProof"}
CommitsDirectly(c) ==
    \/ c[1] \in {"computeCommitment", "deriveIdentityCommitment",
                 "deriveIdentityAuditHash"}
    \/ c[1] \in RootCalls /\ Len(c[2]) = 1
Committed(c) ==
    CASE c[1] = "computeCommitment" -> <<c[2], c[3]>>
      [] c[1] = "deriveIdentityCommitment" -> <<c[2], Text("identity:v1")>>
      [] c[1] = "deriveIdentityAuditHash" -> <<base_commitment(c[2]), Text("audit:v1")>>
      [] OTHER -> <<c[2][1], Text("merkle-leaf")>>

(* The message and the salt are joined by a separator that either may      *)
(* contain: a salt with one in it can lend its front to the message.       *)
(* computeCommitment("a", "b:commit:c") is computeCommitment("a:commit:b", *)
(* "c"), and with the right salt also an identity's commitment or a root.  *)
LendsItsFront(p, q) ==
    \E i \in DOMAIN p[2] :
        /\ p[2][i] = <<":commit:">>
        /\ q[1] = p[1] \o Text(":commit:") \o SubSeq(p[2], 1, i - 1)
        /\ q[2] = SubSeq(p[2], i + 1, Len(p[2]))
SameCommitment(p, q) == p = q \/ LendsItsFront(p, q) \/ LendsItsFront(q, p)

(* The couplings of a list by their prime, each prime's in their order.    *)
ByPrime(couplings) ==
    [p \in {couplings[i].prime : i \in DOMAIN couplings} |->
        Having(couplings, "prime", p)]

(* Two calls that mean the same to the bridge: the same call; commitments  *)
(* that join to the same string; roots of leaves that differ only in the   *)
(* repetitions that fill up odd levels, with a proof or without; one gap   *)
(* witness from another order of the primes; one QPA run whose message and *)
(* mode join to the same string.                                           *)
SameMeaning(c, d) ==
    \/ c = d
    \/ /\ CommitsDirectly(c) /\ CommitsDirectly(d)
       /\ SameCommitment(Committed(c), Committed(d))
    \/ /\ {c[1], d[1]} \subseteq RootCalls
       /\ Padded(c[2]) = Padded(d[2])
    \/ /\ c[1] = "computeGapWitness" /\ d[1] = "computeGapWitness"
       /\ <<c[2], c[3], c[5]>> = <<d[2], d[3], d[5]>>
       /\ ByPrime(c[4]) = ByPrime(d[4])
    \/ /\ c[1] = "qpaRunPrototype" /\ d[1] = "qpaRunPrototype"
       /\ c[2] = d[2] /\ c[3] \o c[4] = d[3] \o d[4]

(* What the bridge returns tells what it was called with, up to the ways   *)
(* of saying the same: two calls return the same exactly when they mean    *)
(* the same, also when one is fed with the result of another.  So beyond   *)
(* the separator and the repeated leaves that no caller is kept from using *)
(* no commitment, root, audit hash, redaction, signature, aggregate or     *)
(* witness passes for one of another kind or of another input.             *)
ResultsTellInputs ==
    \A c, d \in {c \in calls : c[2] # ValueError} :
        c[2][1] = d[2][1] <=> SameMeaning(c[1], d[1])

(* verifyCommitment accepts what was committed to under that salt and the  *)
(* messages and salts that join to the same string, blsVerify accepts what *)
(* was signed with that key, and neither anything else the process knows.  *)
VerificationIsExact ==
    \A c \in {c \in calls : c[2] # ValueError} :
        /\ CommitsDirectly(c[1]) =>
             \A leaf \in Known, salt \in Salts :
                 verifyCommitment(c[2][1], leaf, salt)
                     <=> SameCommitment(Committed(c[1]), <<leaf, salt>>)
        /\ c[1][1] = "blsSign" =>
             \A key \in BlsKeys, message \in Known :
                 blsVerify(c[2][1], publicKeyOf(key), message)
                     <=> c[1] = <<"blsSign", key, message>>
=============================================================================
