---------------------------- MODULE PythonBridge ----------------------------
(***************************************************************************)
(* The commands of the Python bridge, every one of which has its SHA-256   *)
(* fallback for its only implementation.  A result is the list of strings  *)
(* that depend on the arguments; an error is one string of its own.        *)
(***************************************************************************)
EXTENDS MerkleTree

ValueError == << << <<"ValueError">> >> >>

(* str() of a dictionary prints its items in the order they were put in.   *)
Printed(params) == << <<"str", params>> >>

-----------------------------------------------------------------------------
(* The BLS stand-ins.                                                      *)
publicKeyOf(privateKey) == normalize_hex(sha256_hex(Text("bls-pk:") \o privateKey))

(* Mutant of signatureUnder: the key is not part of what is signed.        *)
signatureUnderAnyKey(publicKey, message) ==
    normalize_hex(sha256_hex(Text(":bls-sign:") \o message))

signatureUnder(publicKey, message) ==
    normalize_hex(sha256_hex(publicKey \o Text(":bls-sign:") \o message))

blsSign(privateKey, message) ==
    <<signatureUnder(publicKeyOf(privateKey), message), publicKeyOf(privateKey), message>>

blsVerify(signature, publicKey, message) == signature = signatureUnder(publicKey, message)

blsAggregate(signatures) ==
    <<normalize_hex(sha256_hex(FlattenSeq(signatures) \o Text(":aggregate:")))>>

-----------------------------------------------------------------------------
(* The QPA stand-ins: a commitment to the parameters, the message and the  *)
(* mode, an invariant that names the message, one outcome per shadow.      *)
qpaRunPrototype(params, message, mode, shadow_count) ==
    <<normalize_hex(sha256_hex(Printed(params) \o message \o mode)),
      Text("qpa-invariant-fallback:") \o message>>
      \o [i \in 1 .. shadow_count |->
            normalize_hex(sha256_hex(Printed(params) \o Text(ToString(i - 1))))]

(* One coupling more comes behind those of its own prime and of lower ones.*)
placed(sorted, coupling) ==
    InsertAt(sorted,
             CHOOSE i \in 1 .. Len(sorted) + 1 :
                 \A j \in DOMAIN sorted : j < i <=> sorted[j].prime <= coupling.prime,
             coupling)

(* The couplings by their prime; those of one prime stay as they came.     *)
sortedByPrime(couplings) ==
    LET sorted[n \in 0 .. Len(couplings)] ==
          IF n = 0 THEN << >> ELSE placed(sorted[n - 1], couplings[n])
    IN  sorted[Len(couplings)]

computeGapWitness(gap_lb, slope_ub, couplings, salt) ==
    LET payload == Json([gapLB |-> gap_lb, slopeUB |-> slope_ub,
                         couplings |-> sortedByPrime(couplings)])
    IN  <<fallback_commitment(payload, salt)>>

-----------------------------------------------------------------------------
(* MultiplicityCrypto._call: the command and its arguments as one tuple.   *)
bridgeCall(c) ==
    CASE c[1] = "computeCommitment" -> <<fallback_commitment(c[2], c[3])>>
      [] c[1] = "merkleRoot" ->
           IF c[2] = << >> THEN ValueError ELSE <<merkleRoot(c[2])>>
      [] c[1] = "generateMerkleProof" ->
           IF c[3] \in 0 .. Len(c[2]) - 1
           THEN <<merkleRoot(c[2])>> \o generateMerkleProof(c[2], c[3] + 1)
           ELSE ValueError
      [] c[1] = "deriveIdentityCommitment" -> <<deriveIdentityCommitment(c[2])>>
      [] c[1] = "deriveIdentityAuditHash" -> <<deriveIdentityAuditHash(c[2])>>
      [] c[1] = "redactIdentity" -> <<redactIdentity(c[2])>>
      [] c[1] = "blsSign" -> blsSign(c[2], c[3])
      [] c[1] = "blsAggregate" -> blsAggregate(c[2])
      [] c[1] = "qpaRunPrototype" -> qpaRunPrototype(c[2], c[3], c[4], c[5])
      [] c[1] = "computeGapWitness" -> computeGapWitness(c[2], c[3], c[4], c[5])
      [] OTHER -> ValueError
=============================================================================
