----------------------------- MODULE CasRegistry -----------------------------
(***************************************************************************)
(* The CAS registry of ACE witnesses: commitments, batches with a Merkle   *)
(* proof per witness, the audit trail.                                     *)
(*                                                                         *)
(* The coroutines of the registry and of the bridge await nothing that     *)
(* suspends, so a call of register_witness runs to its end in one step.    *)
(* The data of a witness is its certificate and its timestamp.             *)
(***************************************************************************)
EXTENDS MerkleTree, FiniteSets

CONSTANTS
    WitnessIds,        \* the ids witnesses are registered under
    Data,              \* records [certified, timestamp]: what a witness may say
    Batches,           \* the batch ids
    Identities,        \* the identities given for the audit trail, as strings
    CRYPTO_AVAILABLE,  \* whether the bridge package could be imported
    MaxRegistrations,  \* bound: how many witnesses are registered
    MaxIdentified      \* bound: how many of them with an identity

(* No batch, no identity, no proof, no root: the code asks for the truth   *)
(* value, so an empty string or list is none.                              *)
None == << >>

ASSUME NoneAssumption == None \notin Batches \cup Identities
(* Identities are strings, none of them the text of its own commitment: a  *)
(* digest does not occur in what it is the digest of.                      *)
ASSUME IdentitiesAssumption ==
    \A identity \in Identities :
        IsString(identity) /\ deriveIdentityCommitment(identity) # identity
ASSUME CryptoAvailableAssumption == CRYPTO_AVAILABLE \in BOOLEAN

VARIABLES
    witnesses,        \* id -> what is stored of the witness
    merkle_batches,   \* batch -> the ids registered in it, in order
    identity_commitments,   \* commitment of an identity -> audit hash
    audit_trail,      \* the entries, in order
    identified,       \* <<identity, id>> of the registrations with an identity
    placedIn,         \* id -> the batch it was last given a place in, or None
    registrations     \* how many witnesses were registered

vars == <<witnesses, merkle_batches, identity_commitments, audit_trail,
          identified, placedIn, registrations>>

Empty == [x \in {} |-> x]
With(f, x, y) == [z \in DOMAIN f \cup {x} |-> IF z = x THEN y ELSE f[z]]

-----------------------------------------------------------------------------
(* What is committed to of a witness, and the salt if none was given.      *)
WitnessData(id, data) == Json([witness_id |-> id, data |-> data])
SaltOf(id, data) == sha256_hex(Text(id) \o Text(":") \o Text(data.timestamp))

(* Places in a batch are counted from 1.                                   *)
NoIndex == 0

(* A witness that was just created has no place in a batch.                *)
CreateBacked(id, data) ==
    [data |-> data, salt |-> SaltOf(id, data),
     commitment |-> fallback_commitment(WitnessData(id, data), SaltOf(id, data)),
     root |-> None, proof |-> None, index |-> NoIndex]

(* Mutant of LeafOf: the leaf holds the id alone.                          *)
LeafWithoutCommitment(stored, id) == Json([witness_id |-> id])

(* The leaf of a witness holds its id and its present commitment.          *)
LeafOf(stored, id) ==
    Json([commitment |-> stored[id].commitment, witness_id |-> id])
LeavesOf(stored, ids) == [i \in 1 .. Len(ids) |-> LeafOf(stored, ids[i])]

(* Mutant of UpdateProofs: only the witness that was added gets a proof.   *)
UpdateLastProof(stored, ids) ==
    IF Len(ids) < 2 THEN stored
    ELSE [stored EXCEPT ![Last(ids)].proof =
             generateMerkleProof(LeavesOf(stored, ids), Len(ids)),
             ![Last(ids)].root = merkleRoot(LeavesOf(stored, ids)),
             ![Last(ids)].index = Len(ids)]

(* Every witness of the batch gets the proof of its place; of several      *)
(* places the last one.  A batch of one leaves its witness as it is.       *)
LastPlaceOf(ids, id) ==
    CHOOSE i \in 1 .. Len(ids) :
        ids[i] = id /\ \A j \in i + 1 .. Len(ids) : ids[j] # id
Proved(witness, leaves, i) ==
    [witness EXCEPT !.root = merkleRoot(leaves),
                    !.proof = generateMerkleProof(leaves, i), !.index = i]
UpdateProofs(stored, ids) ==
    IF Len(ids) < 2 THEN stored
    ELSE [id \in DOMAIN stored |->
            IF ~Contains(ids, id) THEN stored[id]
            ELSE Proved(stored[id], LeavesOf(stored, ids), LastPlaceOf(ids, id))]

-----------------------------------------------------------------------------
MembersOf(b) == IF b \in DOMAIN merkle_batches THEN merkle_batches[b] ELSE << >>

get_batch_root(b) ==
    IF MembersOf(b) = << >> THEN None
    ELSE merkleRoot(LeavesOf(witnesses, MembersOf(b)))

verify_integrity(id) ==
    verifyCommitment(witnesses[id].commitment, WitnessData(id, witnesses[id].data),
                     witnesses[id].salt)

(* Mutant of verify_batch_membership: a witness without a proof belongs to *)
(* every batch.                                                            *)
membershipWithoutProof(id, root) ==
    \/ witnesses[id].proof = None
    \/ verifyMerkleProof(LeafOf(witnesses, id), witnesses[id].proof, root)

verify_batch_membership(id, root) ==
    /\ witnesses[id].proof # None
    /\ witnesses[id].index # NoIndex
    /\ verifyMerkleProof(LeafOf(witnesses, id), witnesses[id].proof, root)

(* The root is optional.                                                   *)
verify_witness(id, root) ==
    /\ id \in DOMAIN witnesses
    /\ verify_integrity(id)
    /\ root # None => verify_batch_membership(id, root)

(* The entry points of the ACE bridge act on the one registry of the       *)
(* process.                                                                *)
verify_ace_witness(id, root) == verify_witness(id, root)

get_audit_trail(identity_commitment) ==
    IF identity_commitment = None THEN audit_trail
    ELSE Having(audit_trail, "identity_commitment", identity_commitment)

get_witness_stats ==
    [total_witnesses |-> Cardinality(DOMAIN witnesses),
     certified_witnesses |->
        Cardinality({id \in DOMAIN witnesses : witnesses[id].data.certified}),
     batches |-> Cardinality(DOMAIN merkle_batches),
     identities_tracked |-> Cardinality(DOMAIN identity_commitments),
     audit_entries |-> Len(audit_trail)]

-----------------------------------------------------------------------------
Init ==
    /\ witnesses = Empty
    /\ merkle_batches = Empty
    /\ identity_commitments = Empty
    /\ audit_trail = << >>
    /\ identified = << >>
    /\ placedIn = Empty
    /\ registrations = 0

(* Mutant of AuditEntry: what looks like a commitment is taken for one.    *)
AuditEntryUnlessHex(identity, id) ==
    LET commitment == IF startsWithHex(identity) THEN identity
                      ELSE deriveIdentityCommitment(identity)
    IN  [witness_id |-> id, identity_commitment |-> commitment,
         identity_audit_hash |-> deriveIdentityAuditHash(commitment),
         redacted_identity |-> redactIdentity(identity)]

AuditEntry(identity, id) ==
    [witness_id |-> id, identity_commitment |-> deriveIdentityCommitment(identity),
     identity_audit_hash |-> deriveIdentityAuditHash(deriveIdentityCommitment(identity)),
     redacted_identity |-> redactIdentity(identity)]

(* Without the bridge package nothing is tracked.                          *)
TrackIdentity(identity, id) ==
    IF identity = None \/ ~CRYPTO_AVAILABLE
    THEN UNCHANGED <<identity_commitments, audit_trail>>
    ELSE LET entry == AuditEntry(identity, id)
         IN  /\ identity_commitments' = With(identity_commitments,
                    entry.identity_commitment, entry.identity_audit_hash)
             /\ audit_trail' = Append(audit_trail, entry)

(* A witness may be registered again under its id, with new data, in the   *)
(* same batch, in another one, or in none.                                 *)
register_witness(id, data, batch, identity) ==
    LET stored == With(witnesses, id, CreateBacked(id, data))
        ids    == Append(MembersOf(batch), id)
    IN  /\ registrations < MaxRegistrations
        /\ \/ /\ batch = None
              /\ witnesses' = stored
              /\ UNCHANGED merkle_batches
           \/ /\ batch # None
              /\ witnesses' = UpdateProofs(stored, ids)
              /\ merkle_batches' = With(merkle_batches, batch, ids)
        /\ identity # None => Len(identified) < MaxIdentified
        /\ TrackIdentity(identity, id)
        /\ identified' = IF identity = None THEN identified
                         ELSE Append(identified, <<identity, id>>)
        /\ placedIn' = [x \in DOMAIN stored |->
                          IF x = id \/ (batch # None /\ Contains(ids, x))
                          THEN batch ELSE placedIn[x]]
        /\ registrations' = registrations + 1

register_ace_witness(id, data, batch, identity) ==
    register_witness(id, data, batch, identity)

Next ==
    \E id \in WitnessIds, data \in Data, batch \in Batches \cup {None},
       identity \in Identities \cup {None} :
        register_ace_witness(id, data, batch, identity)

Spec == Init /\ [][Next]_vars

-----------------------------------------------------------------------------
Settled(b) == \A i \in 1 .. Len(MembersOf(b)) : placedIn[MembersOf(b)[i]] = b

(* In a batch of two or more witnesses none of which was registered or     *)
(* placed elsewhere since, every member verifies against the batch root,   *)
(* however often members were registered again, with whatever data, and    *)
(* whatever happened to the other batches, and the root that is stored     *)
(* with it is that of the batch.                                           *)
SettledBatchVerifies ==
    \A b \in DOMAIN merkle_batches :
        Settled(b) /\ Len(MembersOf(b)) >= 2 =>
            \A i \in 1 .. Len(MembersOf(b)) :
                /\ verify_ace_witness(MembersOf(b)[i], get_batch_root(b))
                /\ witnesses[MembersOf(b)[i]].root = get_batch_root(b)

(* A witness that verifies against the root of a batch was registered in   *)
(* that batch, and is in it with the data it has now.                      *)
VerifiedIsMember ==
    \A id \in WitnessIds : \A b \in DOMAIN merkle_batches :
        verify_witness(id, get_batch_root(b)) => Contains(MembersOf(b), id)

(* The root of a batch commits to what its members said: a witness that    *)
(* verified against a root no longer does once its data has changed, not   *)
(* even against that same root.                                            *)
ChangedDataIsNoticed ==
    [][\A id \in DOMAIN witnesses :
       \A root \in {get_batch_root(b) : b \in DOMAIN merkle_batches} :
          /\ verify_witness(id, root)
          /\ witnesses'[id].data # witnesses[id].data
          => ~verify_witness(id, root)']_vars

(* With the bridge package, asking for the audit trail of an identity by   *)
(* its commitment gives the registrations made under that identity, all of *)
(* them and in order, even if another identity is the text of that         *)
(* commitment; the registry tracks as many identities as were given, and   *)
(* the audit hash it stores is the one the bridge derives from the         *)
(* identity, unless that starts with 0x and so is taken for a commitment.  *)
NamesOf(entries) == [i \in DOMAIN entries |-> entries[i].witness_id]
RegisteredUnder(identity) ==
    LET mine == Having(identified, 1, identity)
    IN  [i \in DOMAIN mine |-> mine[i][2]]
TrailTellsRegistrations ==
    CRYPTO_AVAILABLE =>
        /\ Len(get_audit_trail(None)) = Len(identified)
        /\ get_witness_stats.identities_tracked
             = Cardinality({identified[i][1] : i \in DOMAIN identified})
        /\ \A identity \in Identities :
             LET commitment == deriveIdentityCommitment(identity)
             IN  /\ NamesOf(get_audit_trail(commitment)) = RegisteredUnder(identity)
                 /\ RegisteredUnder(identity) # << >> =>
                       (identity_commitments[commitment]
                            = deriveIdentityAuditHash(identity)
                        <=> ~startsWithHex(identity))
=============================================================================
