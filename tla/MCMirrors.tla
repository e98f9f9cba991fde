------------------------------ MODULE MCMirrors ------------------------------
(***************************************************************************)
(* What the mirrors have to agree on, for TLC: a lane and the trace beside *)
(* it, the transcript chains of a session, or the gate that compares the   *)
(* three languages.  Which one it is is chosen at the start, the others    *)
(* stay idle.                                                              *)
(***************************************************************************)
EXTENDS SequenceTrace

CONSTANTS
    Messages, version, MaxAppends,    \* of Transcript
    LastSeq, HashLength, MaxCounter, Base, SequenceWidth, LengthWidth,
    PrefixLength, AUTHENTICATION_TAG_LENGTH,
    BOOTSTRAP_MESSAGE, CLASSICAL_MESSAGE, NoTag, Refused,
    Numbers, MaxSafe, AsDouble, AsWritten,
    Pool, Size, Builds, MaxRuns    \* of VectorGate

ASSUME BoundsAssumption == MaxAppends \in Nat /\ Size \in Nat /\ MaxRuns \in Nat

VARIABLES
    subject,             \* the one that runs
    chain, appended,     \* of Transcript
    file, manifest, build, stage, failures, exit, runs, pins, rewrote   \* of VectorGate

Chains == INSTANCE Transcript
Gate == INSTANCE VectorGate

ASSUME BuildsAssumption == Builds \subseteq [Gate!Languages -> Gate!Faults]

(* What the proofs ask of the constants, for TLC to evaluate.  IsList is   *)
(* said without Seq, which TLC cannot enumerate over any set of messages.  *)
IsList(list) == Len(list) \in Nat /\ list = [i \in 1 .. Len(list) |-> list[i]]

(* The inputs of each operation.                                           *)
KeysOf ==
    [sha256 |-> {"data"}, hkdf_extract |-> {"ikm", "salt"},
     hkdf_expand |-> {"prk", "info", "length"}, hmac_sha256 |-> {"key", "data"},
     frame_encode |-> {"message_type", "sequence", "payload"},
     session_id |-> {"nonceA", "nonceB"},
     transcript |-> {"nonceA", "nonceB", "version", "messagesA", "messagesB"},
     sequence_trace |-> {"sequences"}, pack_basis |-> {"bases"},
     directional_keys |-> {"ikm", "context", "salt"},
     nonce_prefixes |-> {"k_a2b", "k_b2a", "context"},
     build_nonce |-> {"prefix", "sequence"},
     aead_encrypt |-> {"key", "context", "direction", "plaintext", "aad"}]

InputsOK(operation, inputs) ==
    /\ inputs = [key \in DOMAIN inputs |-> inputs[key]]
    /\ operation \in DOMAIN KeysOf => DOMAIN inputs = KeysOf[operation]
    /\ operation = "transcript" => IsList(inputs.messagesA) /\ IsList(inputs.messagesB)
    /\ \A key \in {"sequence", "length", "message_type", "version"} \cap DOMAIN inputs :
         inputs[key] \in Numbers
    /\ \A key \in {"sequences", "bases"} \cap DOMAIN inputs : inputs[key] \in Seq(Numbers)

ASSUME PoolAssumption == \A vector \in Pool : InputsOK(vector.operation, vector.inputs)
ASSUME HkdfAssumption == HashLength \in Nat /\ MaxCounter \in Nat
ASSUME WireAssumption == Gate!Ts!Codec!MaxSequence = SeqMax
(* JSON.parse makes the nearest double of a number, and String and         *)
(* JSON.stringify print the shortest digits that are read as that double.  *)
(* A safe integer stays what it is, and none but itself becomes it.        *)
ASSUME NumbersAssumption ==
    /\ Numbers \subseteq Int /\ MaxSafe \in Nat
    /\ {AsDouble, AsWritten} \subseteq [Numbers -> Numbers]
    /\ \A n \in Numbers :
         /\ AsDouble[AsWritten[n]] = AsDouble[n]
         /\ AsWritten[AsWritten[n]] = AsWritten[n]
         /\ {n, AsDouble[n], AsWritten[n]} \cap -MaxSafe .. MaxSafe # {} =>
              {AsDouble[n], AsWritten[n]} = {n}
ASSUME SafeAssumption ==
    /\ SeqMax <= MaxSafe /\ HashLength * MaxCounter <= MaxSafe
    /\ Base \in Nat /\ Base <= MaxSafe /\ 3 <= MaxSafe
    /\ {BOOTSTRAP_MESSAGE, CLASSICAL_MESSAGE} \subseteq 0 .. MaxSafe

gateVars == <<file, manifest, build, stage, failures, exit, runs, pins, rewrote>>
allVars == <<subject, vars, chain, appended, gateVars>>

GateIdle ==
    /\ file = << >> /\ manifest = << >> /\ build = Gate!NoFault /\ stage = "idle"
    /\ failures = {} /\ exit = "none" /\ runs = 0 /\ pins = "stale" /\ rewrote = FALSE

MirrorsInit ==
    /\ Init /\ Chains!Init
    /\ \/ subject \in {"sequence", "transcript"} /\ GateIdle
       \/ subject = "gate" /\ Gate!Init

SequenceStep ==
    subject = "sequence" /\ Next /\ UNCHANGED <<subject, chain, appended, gateVars>>
TranscriptStep ==
    subject = "transcript" /\ Chains!Next /\ UNCHANGED <<subject, vars, gateVars>>
GateStep ==
    subject = "gate" /\ Gate!Next /\ UNCHANGED <<subject, vars, chain, appended>>

MirrorsSpec ==
    MirrorsInit /\ [][SequenceStep \/ TranscriptStep \/ GateStep]_allVars

-----------------------------------------------------------------------------
(* One number below the field's range and two above it.                    *)
AnyNumber == -1 .. SeqMax + 2

Vector(id, mechanism, operation, inputs) ==
    [id |-> id, mechanism |-> mechanism, operation |-> operation, inputs |-> inputs]

(* Byte strings as long as a hash and of other lengths.                    *)
Bytes(n) == [i \in 1 .. n |-> 7]
Hash == Bytes(HashLength)

Messaging(number, list) ==
    [nonceA |-> <<0>>, nonceB |-> <<1>>, version |-> number,
     messagesA |-> list, messagesB |-> << >>]
Frame(type, sequence) ==
    [message_type |-> type, sequence |-> sequence, payload |-> <<1, 2>>]
Sealing(key, direction) ==
    [key |-> key, context |-> Hash, direction |-> direction, plaintext |-> "p", aad |-> "a"]
Expanding(key, n) == [prk |-> key, info |-> "info", length |-> n]
Offering(numbers) == [sequences |-> numbers]
Counting(prefix, n) == [prefix |-> prefix, sequence |-> n]
Deriving(context) == [ikm |-> Hash, context |-> context, salt |-> "s"]
Prefixing(key) == [k_a2b |-> Hash, k_b2a |-> key, context |-> Hash]

(* Doubles of four significant bits: up to 8 every number is one, from     *)
(* there to 16 every second and above that every fourth.  For 24 other     *)
(* digits are printed, which are read as 24.                               *)
HalfEven(n, step) ==
    LET below == n \div step
    IN  IF 2 * (n % step) < step \/ (2 * (n % step) = step /\ below % 2 = 0)
        THEN below * step
        ELSE (below + 1) * step

SomeNumbers == -1 .. 32
Doubles ==
    [n \in SomeNumbers |->
        IF n <= 8 THEN n ELSE IF n <= 16 THEN HalfEven(n, 2) ELSE HalfEven(n, 4)]
Digits == [n \in SomeNumbers |-> IF Doubles[n] = 24 THEN 23 ELSE Doubles[n]]

(* Vectors as those of the manifest, and ones at the limits of a type, a   *)
(* loop, a length, the doubles or the encoding of the inputs.  Two of them *)
(* share an identifier.                                                    *)
SomeVectors ==
    {Vector("transcript", "specified", "transcript", Messaging(1, << <<1>>, << >> >>)),
     Vector("transcript of an empty message", "specified", "transcript", Messaging(1, << << >> >>)),
     Vector("version of two bytes", "specified", "transcript", Messaging(Base, << >>)),
     Vector("frame", "specified", "frame_encode", Frame(BOOTSTRAP_MESSAGE, 1)),
     Vector("classical frame", "specified", "frame_encode", Frame(CLASSICAL_MESSAGE, 1)),
     Vector("trace", "specified", "sequence_trace", Offering(<<0, 2, 1, 1>>)),
     Vector("trace", "specified", "sequence_trace", Offering(<<0, 1, 2>>)),
     Vector("trace beyond the field", "specified", "sequence_trace", Offering(<<0, SeqMax + 1>>)),
     Vector("bases", "specified", "pack_basis", [bases |-> <<0, 1, 2, 3>>]),
     Vector("expand", "shipped", "hkdf_expand", Expanding(Hash, HashLength * (MaxCounter - 1))),
     Vector("expand all", "shipped", "hkdf_expand", Expanding(Hash, HashLength * MaxCounter)),
     Vector("expand nothing", "shipped", "hkdf_expand", Expanding(<< >>, 1)),
     Vector("session", "specified", "session_id", [nonceA |-> <<0>>, nonceB |-> <<1>>]),
     Vector("unheard of", "shipped", "ed25519", [data |-> "d"]),
     Vector("seal", "shipped", "aead_encrypt", Sealing(Hash, "A2B")),
     Vector("seal sideways", "shipped", "aead_encrypt", Sealing(Hash, "A2C")),
     Vector("nonce", "shipped", "build_nonce", Counting(Bytes(PrefixLength), 8)),
     Vector("nonce between doubles", "shipped", "build_nonce", Counting(Bytes(PrefixLength), 9)),
     Vector("nonce of other digits", "shipped", "build_nonce", Counting(Bytes(PrefixLength), 24)),
     Vector("last nonce", "shipped", "build_nonce", Counting(Bytes(PrefixLength), LastSeq)),
     Vector("nonce of a hash", "shipped", "build_nonce", Counting(Hash, 1)),
     Vector("keys", "shipped", "directional_keys", Deriving(Hash)),
     Vector("keys of no context", "shipped", "directional_keys", Deriving(<< >>)),
     Vector("prefixes", "shipped", "nonce_prefixes", Prefixing(Hash))}

(* At most one of the languages is broken.                                 *)
Healthy == [language \in {"ts", "py", "rs"} |-> "none"]
OneBroken ==
    {Healthy} \cup
    {[Healthy EXCEPT ![language] = fault] :
        language \in {"ts", "py", "rs"},
        fault \in {"throws", "wrong", "missing key", "extra key"}}

-----------------------------------------------------------------------------
(* TranscriptChain's digests and context hash do not depend on the         *)
(* interleaving of the roles.                                              *)
SnapshotMatchesBatch == Chains!SnapshotMatchesBatch

(* A TranscriptChain implements the transcript of the Lean mirror.         *)
ImplementsLeanTranscript == Chains!ImplementsLeanTranscript

(* diff-vectors.mjs exits with 0 exactly on mirrors that match the pins.   *)
VerdictIsTrue == Gate!VerdictIsTrue

(* Healthy mirrors pass diff-vectors.mjs on every portable manifest.       *)
HealthyMirrorsPass == Gate!HealthyMirrorsPass

(* "--update: regenerate the manifest pins, then gate."                    *)
UpdateGatesNewPins == Gate!UpdateGatesNewPins
=============================================================================
