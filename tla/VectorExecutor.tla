--------------------------- MODULE VectorExecutor ---------------------------
(***************************************************************************)
(* The executor of the conformance vectors of one language: compute in the *)
(* vitest suite, py/scripts/vector_executor.py or                          *)
(* rust/src/bin/vector_executor.rs.  It takes the name of an operation and *)
(* its inputs and answers the outputs by key, through the shipped code.    *)
(* What becomes of a number on its way to an executor is VectorGate's.     *)
(*                                                                         *)
(* Hashes, MACs and ciphertexts are free constructors.  Rust reads its     *)
(* inputs from a line of text, where an unsigned type refuses a number     *)
(* that it cannot hold and a list is its elements joined by commas.        *)
(***************************************************************************)
EXTENDS Integers, SequencesExt

CONSTANTS
    Impl,                             \* the language: "ts", "py" or "rs"
    SeqMax, LastSeq,                  \* the largest u32 and u64
    HashLength, MaxCounter,           \* of HKDF; keys are as long as hashes
    PrefixLength,                     \* of a nonce prefix
    Base, SequenceWidth, LengthWidth, AUTHENTICATION_TAG_LENGTH,
    BOOTSTRAP_MESSAGE, CLASSICAL_MESSAGE, NoTag, Refused   \* of FrameCodec

Codec == INSTANCE FrameCodec
Chain == INSTANCE TranscriptChain
Trace == INSTANCE TraceSequence

FourBytes(hash) == <<"four bytes", hash>>
Cipher == INSTANCE DirectionalCipher WITH Truncate <- FourBytes

(* Outputs are text: bytes in hexadecimal, numbers in decimal.             *)
Hex(bytes) == <<"hex", bytes>>
Text(value) == <<"text", value>>

Throws == [error |-> <<"error">>]

-----------------------------------------------------------------------------
(* A list of one empty element is joined to no text at all, and no text is *)
(* read back as the empty list.                                            *)
parse_list(list) == IF list = << << >> >> THEN << >> ELSE list

(* The blocks that fit: Rust's counter overflows after the last one.  The  *)
(* key of the blocks must not be empty.                                    *)
hkdfExpand(prk, info, length) ==
    LET largest == IF Impl = "rs" THEN MaxCounter - 1 ELSE MaxCounter
    IN  IF length \in 1 .. HashLength * largest /\ prk # << >>
        THEN [out |-> Hex(<<"hkdf", prk, info, length>>)]
        ELSE Throws

(* A frame of an executor has no tag, so a classical one is refused.       *)
frameEncode(inputs) ==
    LET frame == [type |-> inputs.message_type, sequence |-> inputs.sequence,
                  payload |-> inputs.payload, tag |-> NoTag]
        parses == Impl = "rs" => inputs.sequence \in 0 .. SeqMax
        wire == Codec!encodeFrame(frame)
    IN  IF parses /\ wire # Refused THEN [out |-> Hex(wire)] ELSE Throws

(* The version is one byte.                                                *)
transcript(inputs) ==
    LET Given(list) == IF Impl = "rs" THEN parse_list(list) ELSE list
        result == Chain!computeTranscript(
                      inputs.nonceA, inputs.nonceB, inputs.version,
                      Given(inputs.messagesA), Given(inputs.messagesB))
    IN  IF inputs.version \in 0 .. Base - 1
        THEN [sid |-> Hex(result.sid), h_a |-> Hex(result.heads["A"]),
              h_b |-> Hex(result.heads["B"]),
              context_hash |-> Hex(result.contextHash)]
        ELSE Throws

sequenceTrace(sequences) ==
    LET parses == Impl = "rs" => \A i \in DOMAIN sequences : sequences[i] \in 0 .. SeqMax
        result == Trace!traceSequence(sequences)
    IN  IF parses
        THEN [outcomes |-> Text(result.outcomes),
              accepted |-> Text(result.acceptedCount),
              next_expected |-> Text(result.expected),
              aborted |-> Text(result.aborted)]
        ELSE Throws

(* Two bits for each of the four bases, the first one the lowest.          *)
packBasis(bases) ==
    IF Len(bases) = 4 /\ \A i \in 1 .. 4 : bases[i] \in 0 .. 3
    THEN [out |-> Hex(FoldRight(LAMBDA basis, packed : 4 * packed + basis, bases, 0))]
    ELSE Throws

AsLongAsHashes(fields) == \A bytes \in fields : Len(bytes) = HashLength

directionalKeys(inputs) ==
    LET Derived(direction) ==
            Hex(<<inputs.ikm, inputs.salt,
                  Cipher!deriveDirectionalKey(direction, inputs.context)>>)
    IN  IF AsLongAsHashes({inputs.ikm, inputs.context})
        THEN [k_a2b |-> Derived("A2B"), k_b2a |-> Derived("B2A")]
        ELSE Throws

noncePrefixes(inputs) ==
    IF AsLongAsHashes({inputs.k_a2b, inputs.k_b2a, inputs.context})
    THEN [a2b |-> Hex(Cipher!deriveNoncePrefix("A2B", inputs.k_a2b, inputs.context)),
          b2a |-> Hex(Cipher!deriveNoncePrefix("B2A", inputs.k_b2a, inputs.context))]
    ELSE Throws

buildNonce(inputs) ==
    IF Len(inputs.prefix) = PrefixLength /\ inputs.sequence \in 0 .. LastSeq
    THEN [out |-> Hex(Cipher!buildNonce(inputs.prefix, inputs.sequence))]
    ELSE Throws

(* Rust reads every direction that is not A2B as B2A.                      *)
aeadEncrypt(inputs) ==
    LET direction == IF Impl = "rs" /\ inputs.direction # "A2B" THEN "B2A"
                     ELSE inputs.direction
        cipher == [key |-> inputs.key, nextSequence |-> 0,
                   prefix |-> Cipher!deriveNoncePrefix(
                                  direction, inputs.key, inputs.context)]
    IN  IF /\ AsLongAsHashes({inputs.key, inputs.context})
           /\ direction \in Cipher!Directions
        THEN [out |-> Hex(<<Cipher!encrypt(cipher, inputs.plaintext), inputs.aad>>)]
        ELSE Throws

-----------------------------------------------------------------------------
compute(operation, inputs) ==
    CASE operation = "sha256" -> [out |-> Hex(<<"sha256", inputs.data>>)]
      [] operation = "hkdf_extract" -> [out |-> Hex(<<"hmac", inputs.salt, inputs.ikm>>)]
      [] operation = "hkdf_expand" ->
             hkdfExpand(inputs.prk, inputs.info, inputs.length)
      [] operation = "hmac_sha256" -> [out |-> Hex(<<"hmac", inputs.key, inputs.data>>)]
      [] operation = "frame_encode" -> frameEncode(inputs)
      [] operation = "session_id" ->
             [out |-> Hex(Chain!sessionId(inputs.nonceA, inputs.nonceB))]
      [] operation = "transcript" -> transcript(inputs)
      [] operation = "sequence_trace" -> sequenceTrace(inputs.sequences)
      [] operation = "pack_basis" -> packBasis(inputs.bases)
      [] operation = "directional_keys" -> directionalKeys(inputs)
      [] operation = "nonce_prefixes" -> noncePrefixes(inputs)
      [] operation = "build_nonce" -> buildNonce(inputs)
      [] operation = "aead_encrypt" -> aeadEncrypt(inputs)
      [] OTHER -> Throws
=============================================================================
