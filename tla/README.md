# TLA+ models of multiplicity-crypto

This directory holds TLA+ specifications of the hybrid-encryption protocol core
of multiplicity-crypto, its QKD pipeline, the Python bridge and CAS registry and
the cross-language vector gate, TLC configurations that check them on small
instances, and TLAPS proofs of the theorems that matter most. `PROJECT.json`
maps every definition to the source lines it stands for.

Run a model with `tlc -config X.cfg M`, a proof with `tlapm M.tla`.

## The system

The protocol core exists three times, in `ts/src/protocol.ts`,
`py/multiplicity/crypto/protocol.py` and `rust/src/protocol.rs`, and is mirrored
in `lean/MultiplicityCrypto/Protocol.lean`. All of it is synchronous library
code: the caller owns the network, the order of the calls and the lifetime of
the objects. The constant `Impl` ("ts", "py", "rs") selects the implementation
wherever they differ.

| Component | State | Operations | What makes it correct |
| --- | --- | --- | --- |
| `StrictSequenceState`, `SenderSequenceRegistry` | per sender: expected number, sticky abort flag | `tryAccept`, `accept`/`verify`, `state` | accepts 0, 1, 2, ... once each; abort is final; senders do not disturb each other |
| `traceSequence` | none (pure loop) | one call | describes the lane that it is used to test |
| `ProtocolReceiver` | a registry, an optional key | `receive` | per-sender ordered delivery; what is not authentic costs a lane nothing, but for a frame without a tag |
| Frame codec, frame HMAC | none | `encodeFrame`, `decodeFrame`, `signFrame`, `verifyFrameAuthentication` | round trip, one wire form, exact boundaries |
| HKDF expand | block counter and offset inside one call | one call | complete output for every allowed length |
| `TranscriptChain` | session id, two chain heads, in TypeScript a stored context hash | `append`, `snapshot`; batch `computeTranscript` | the context binds both lists of messages and is never stale |
| `DirectionalAead` / `DirectionalCipher` | key, nonce prefix, 64-bit counter | `encrypt`, `decrypt` | no nonce twice under a key; in-order opening; ends stay in step |
| Merkle functions of the Python bridge | none | root, proof, verify | every proof leads to the root, and only from its own leaf; the root tells its leaves |
| Python bridge (`crypto/__init__.py`) | none that a call leaves behind | the commands of `_call`: commitments, identities, BLS and QPA stand-ins, gap witnesses | a result tells its inputs, across commands; verification is exact |
| `CasRegistry` | witnesses, batches, identities, audit trail | `register_witness`, `verify_witness`, `get_batch_root`, `get_audit_trail`, `get_witness_stats` | the proofs of a batch follow its root; the trail follows the registrations |
| `simulateQKD`, `MockQKDBackend`, `HardwareQKDBackend` | none; one HTTP call | `getKey` | errors reach the caller, a key belongs to its call, a repeated nonce does no harm |
| Multiplicity profile, feedback gate | the caller's profile | `encodeProfile`, `computeFeedback` | the gate moves one step or nothing; it only ever opens |
| Vector executors, `diff-vectors.mjs` | the manifest file with its pins | `compute` in three languages; compare, update | the verdict is true of all three languages |
| Keccak transcript, Pedersen (Rust) | sponge; none | append, challenge; commit | |
| MKT stubs, certificates, probes, sorry ratchet | | batch scripts | |

How they interact: `signFrame` and `encodeFrame` make the frames that a link
carries to `receive`, which calls the codec, the HMAC check and the registry in
that order. What the ends say goes into their `TranscriptChain`s; the context
hash keys a `DirectionalAead` per direction through HKDF. The CAS registry calls
the commitment, identity and Merkle functions of the bridge. `simulateQKD`
composes a transcript, a key derivation, a commitment and an AEAD of its own
under the caller's profile; the hardware backend runs it with a key fetched over
HTTP. The vector executors call all of the protocol core, and the gate compares
what the three of them say.

What is hard: frames and ciphertexts that are lost, repeated, reordered, damaged
or reflected; aborts and their reach; receivers and ciphers constructed anew
with counters that start over; counters at the end of their width; transcripts
that the two ends extend at different times; derived data (context hash, Merkle
proofs) that must follow the data it came from; texts that are joined without
separators and hashed with tags; answers of a key server that come late or
never while the profile moves on; an update of the pins that is interrupted.
There are no threads, and no coroutine of the registry or the bridge awaits
anything that suspends, so a call is one atomic step; the one exception is the
hardware backend's `getKey`. `PROJECT.json` lists each hazard at its line.

## Modules

**Sequence numbers.** `StrictSequence` is the state of one sender as pure
operators: `TryAcceptTs`, `TryAcceptPy` and `TryAcceptRs` give the next lane,
`Accepts` the answer. They differ in what follows `SeqMax`: Rust saturates.
`TraceSequence` is `traceSequence`, its loop a recursive
function over how many numbers it has read. `SequenceLane` is one object
offered any numbers; `SequenceTrace` puts the trace beside it. `LeanSequence` is
the abstract specification, translated from the Lean mirror, and
`ImplementsLean` the refinement (aborted, expected and the count of accepted
numbers map to `status`, `nextSeq`, `acceptedCount`).

**Receiver.** `Receiver` extends `StrictSequence`. `receive(s, wire)` is the
whole handler with its three early throws. `lanes` is the registry's map, in
which a lane appears when it is first asked for. `sent` and `taken` are the
sender and the ordered part of its link; `ReceiveOutOfTurn` and `ReceiveNoise`
are the faults of links in `ReplayLinks` and `NoisyLinks`. Damage may change
anything in a frame, its type and its tag included; only the tag of other contents
cannot come about. A bootstrap frame has no tag and `receive` asks for none, so a
damaged frame of that type is delivered, if its number is the one the lane
expects, or aborts the lane. `spoofed` remembers the senders in whose name that
came: the properties say what still holds of them and what of all others.
`NewReceiver` is a process restart or a change of key: nothing is persisted.
`delivered` is what `receive` returned to the application. `OrderedDelivery` is the
abstract specification: send, deliver in order, slip an unsigned frame into a lane,
abort one lane, start over.

**Transcripts.** `TranscriptChain` holds the operators, `Transcript` one object
under any sequence of appends, `LeanTranscript` the abstract specification.

**Sessions.** `DirectionalCipher` is one AEAD object; `SecureSession` composes it
with `TranscriptChain`: two ends that append, open channels and exchange
ciphertexts over a link with every fault, reflection included. There is no
session driver in the repository, so all orders of calls are allowed.
One thing the code leaves to its callers: not to construct the ciphers of one
context twice. The model lets them, and the properties say what follows.
The abstract specification is `OrderedDelivery` again, with a lane per
direction that never aborts.

**Codec, HKDF.** `FrameCodec` models bytes, with `Base`, the field widths
and the tag length as constants; `FrameTransfer` encodes, damages and decodes.
`HkdfExpand` is the block loop, one action per iteration.

**Python bridge.** `BridgeStrings` has the strings the bridge hashes: a string is
a sequence of texts, digests and printed values, and concatenation is real, so
what the code joins without a separator stays joined. `MerkleTree` builds root,
proof and verification from them, down to the `left:` and `right:` items of a
proof that are split at the first colon. `PythonBridge` has the commands of
`_call` with their errors, `BridgeCalls` a process that feeds results of one
command to another, `MerkleGrowth` a batch that grows. Python's stable sort is
modelled as what it does, one coupling after the other put behind those of its
own prime and of lower ones (`placed`).

**CAS registry.** `CasRegistry` has `register_witness` as one action with
everything it calls, the identity tracking included; `placedIn` is a history
variable that says which batch a witness was last given a place in, `identified`
one that lists the registrations made under an identity. Where the code asks for
the truth value of an id, a root or a proof, the empty string or list is `None`.
That the members of a batch are stored, which the code asks before it makes their
leaves, is part of the invariant that is proved.

**QKD.** `QkdPipeline` has the profile, the primes, the four steps of
`simulateQKD` and `computeFeedback` as operators. `QkdSession` is a caller that
steps its profile, calls the mock backend (one step) and the hardware backend
(`RequestKey`, then `AnswerKey` or `AnswerFailure`, or nothing for ever), with any
number of calls under way. The key server is external: it answers in any order,
with any key or the same key twice, with an error or an empty list.

**Vectors.** `VectorExecutor` gives, for each of the thirteen operations, what the
executor of one language computes, through the modules above at its `Impl`: the
limits of Rust's types and of its line format, the throwing cases. `VectorGate`
has one instance of it for each language and gives each the numbers it gets:
Python's are exact, TypeScript's are the doubles of `JSON.parse` (`AsDouble`), and
Rust reads the digits that the gate prints of a double (`AsWritten`). Above 2^53
these differ: 2^53 + 1 is one number in Python and another in TypeScript and Rust,
and 2^64 - 1 becomes 2^64 - which `buildNonce` of TypeScript refuses - and the
shortest digits of that, another number again, which Rust cannot parse. An update
prints the doubles back into the file.
`VectorGate` is `diff-vectors.mjs`: the manifest it has read, the file, the three
stages, the update by the vitest suite, and builds that are broken or repaired
between runs. `Commit` also interrupts a run at any stage.

`MCAlgorithms` runs the codec or HKDF, `MCMirrors` a lane, a transcript or the
gate, `MCCas` a growing batch, a process that calls the bridge, or the registry:
the choice is made at the start, the others stay idle. `ReceiverClaims` and
`CasClaims` state what the documents say and the code does not do. The other `MC*`
modules give TLC its constant sets.

The operators marked as mutants in the comments are small deliberate errors in
the operator that follows them; no specification uses them. Each shows that a
property can fail.

### Abstractions

SHA-256, HMAC, HKDF and the printing of JSON are free constructors: two outputs
are equal exactly when the inputs are. Where the code truncates a hash (the
four-byte nonce prefix) `Truncate` may map all inputs to one value, and does in
every session run. AES-GCM opens a ciphertext under the key, nonce and associated
data it was sealed with. Concatenations stay concatenations where they are
ambiguous (`sessionId`, the bridge's strings; but of each string the bridge is
given by its caller, one spelling as parts is used). Payloads and messages are model
values. The bridge's native module does not exist in the repository, so its
SHA-256 fallback is the implementation; the registry's own fallback computes the
same. Both the instance the bridge keeps and the wording of errors are left out.
Hexadecimal text and the layout of the executors' lines are abstracted to what
they can express. A contractivity score is an exact fraction where the code has a
floating-point number; a secret is its first twelve bytes and the rest. Every
call of `getKey` gets an input object of its own, as in the tests; the code
reads the object again after the answer, so a caller that changes it in between
is outside the model. A file is written in one step: a manifest that is cut off
because the suite is killed while it writes it is not modelled. Type and range
checks are kept where a program can reach them; left out are the refusal of the
empty sender by the registry, of a non-integral or negative start by
`traceSequence` (its callers here start at 0) and of a tag of another length by
`decrypt`, a `RangeError` that leaves the cipher as an `AuthenticationError` does.
The primes of the QKD model have no limit where `getInfo` and `encryptAEAD`
refuse those above 2^32 - 1: the model has more behaviours. In the refinement of the Lean state machine -1 stands for
every number outside the field: one that no lane expects.

## Runs

| Configuration (module) | Shows | Bounds |
| --- | --- | --- |
| `MCReceiver` (`Receiver`) | delivered is as sent, unless it is unsigned and forged; aborts stay local and are final; what does not decode or verify aborts nobody; lanes count deliveries; a sender on an ordered link gets through; refinement of `OrderedDelivery` | two senders, two numbers, one replacement of the receiver; one link keeps the order and damages frames in every way, the other repeats, reorders and loses them; the field used up (a counter that wrapped would repeat it), a restart in between |
| `MCMirrors` | the lane against the Lean state machine and against the trace, Rust against TypeScript; batch equals incremental transcript, refinement of the Lean transcript; the gate's verdict is true, healthy mirrors pass it | five observations of six numbers, three more than the range holds; four appends of two messages, every interleaving of two and two; two vectors of twenty-four (at the limits of types, loops, lengths and doubles), two runs, any one language broken in one of four ways in each |
| `MCSession_rekey` (`MCSession`) | nonces repeat only within a reopened context, channels do not mix, counters tell the history, opening implies agreement | two versions, one message per role, two channels per end, one ciphertext per channel and direction |
| `MCSession_delivery` (`MCSession`) | refinement of `OrderedDelivery` in both directions; everything retransmitted is opened | one channel per end, two ciphertexts per direction use up the counter |
| `MCAlgorithms` | frames: round trip, boundaries, single changes, canonical form; HKDF: complete output, termination | base 3, two-byte numbers, payloads 0 to 3 (limit 2), one-byte tag: every header value, both sides of the limit; fifteen blocks of four bytes |
| `MCCas_batches` (`MCCas`) | a growing batch: proofs and roots tell the leaves; the bridge: results tell inputs up to what the bridge cannot tell apart, verification is exact; the registry: settled batches verify; only members verify; changes show; the audit trail tells the registrations | up to seven leaves, odd levels at each height, against all batches of up to five; three calls, so that the result of a result is used, with texts, salts and modes that hold the separator or a tag, and lists of up to four leaves, the shortest that share a root with a list of three; four registrations, two of them identified, three witnesses, two contents, two batches; one identity is the text of the other's commitment |
| `MCQkd` | repeated nonces are harmless; a key follows the call it was asked for; a permitted score stays permitted | prime indices modulo 4, states modulo 2, five transitions: more than a cycle of each; two calls, so that each may overtake the other; secrets with a common beginning; scores on both sides of three bounds |

`SettledBatchVerifies` is the strongest form that holds: a batch of one stores no
proof, a witness in two batches keeps the proof of the later one only, and a
member that is registered again elsewhere makes the proofs of the others stale.
`RootTellsLeaves` likewise: a batch and the one in which the leaves that fill up
odd levels are written out have the same root.
`HealthyMirrorsPass` holds on the vectors that the languages compute alike
(`Portable`): Rust cannot read a list of one empty message, numbers outside the
field or the last HKDF block, and a number that is no double, or whose double is
printed with other digits, is not the same number everywhere. The shipped manifest
contains none of these.
`DeliveredAsSent`, `NoiseNeverAborts` and `EverythingArrives` except what a
damaged unsigned frame can do, because the code does not keep it from doing it.
They also say that damage which shows costs nothing, where the documents ask for
the contrary: `docs/qkd-hybrid-encryption-v1.0-systems.md:119` has implementations
abort on malformed frames, and `docs/Hybrid Encryption System.tex:547` sends a
failed HMAC to ABORTED. `receive` throws there and leaves its state alone; the
properties state what the code does.
`ResultsTellInputs` says when two calls of the bridge return the same
(`SameMeaning`): the same call; a message and a salt that join to the same
string, as `("a", "b:commit:c")` and `("a:commit:b", "c")`, or one that so makes an
identity's commitment or a leaf's; leaves that differ in the repetitions that fill
up odd levels, as three and the same with the third twice; couplings of each prime
in the same order; a QPA message and mode that join to the same string. In every
other case results differ, and in these they do not.

The `MCClaims_*` configurations each find one disagreement of the code with its
documents or with its sister implementations:

- `session`: a sequence failure aborts one sender's lane, not the session.
- `saturation`: Rust accepts number 0xffffffff without end.
- `hkdf`: Rust fails for output lengths of 8129 to 8160 bytes.
- `cas`: a member of a CAS batch no longer verifies against the root of its batch
  after another member was registered again outside of it.
- `gate`: `diff-vectors.mjs --update` does not go on to gate the new pins: the suite
  that writes them goes on to test the old ones it has in memory and fails, if any
  pin has changed.

Deadlock is checked in the receiver and session runs, where something can always
arrive. The others are bounded and end.

### Fairness

`Receiver!FairSpec`: `receive` is synchronous, so a frame that its link hands
over is handled; links outside `ReplayLinks` hand over every frame. Nothing is
assumed of the faulty links or of the senders.
`SecureSession!FairSpec`: the link retransmits the ciphertext that is due until
it is opened. `decrypt` leaves the cipher alone when it fails, so that suffices;
no other action is fair. `HkdfExpand!Spec`: a function that is called runs to
its end. `QkdSession` and `VectorGate` assume none and claim no liveness: `fetch`
has no timeout, so a `getKey` may wait for ever, and a run of the gate may be
killed.

## Proofs

All proofs are in the `*_proofs` modules and hold for every value of the
constants that the `ASSUME`s of the modules allow. `NumberLemmas` has what they
need of natural numbers: induction over a set of numbers, the existence of the
functions that the loops of the code are written as, division with remainder.
Two more hypotheses stand in theorems where the property needs them:
`Impl # "rs"` where it is about the end of the counter, because the saturating
counter violates it (`MCClaims_saturation`), and `MaxChannels <= 1` in the
refinement by the session, as in its run: a new channel starts at zero again.

- `StrictSequence_proofs`: case lemma for `TryAccept`; an aborted lane stays so.
- `Mirrors_proofs`, sequence: `LaneCorrect` and the refinement `LaneImplementsLean`,
  by the conjunction of `AcceptedIsInitialSegment` and `LaneTellsHistory`: the
  accepted numbers are an initial segment and the lane's number is their count.
  `TraceTellsLane` and `LanguagesAgree` compare a loop over the whole input with
  an object that sees one number at a time. What makes them inductive is that a
  loop over one number more is one more step of the loop (`TraceAppend`,
  `LaneAppend`); the invariants say where lane and trace stand after the numbers
  so far, before the first refusal, after it and with the counter used up.
- `Receiver_proofs`: `IInv` adds to the checked invariants that sent frames are
  well formed: the i-th carries number i - 1 and, if classical, the tag of its
  own fields. It is needed because delivery is argued from what arrived: an
  accepted signed frame is one that was sent (damage cannot make the tag of other
  contents), an accepted frame without a tag is one that was sent or its sender
  is spoofed, and its number is the number of frames delivered so far, so it is
  the next one sent. `DeliveryCorrect` and `LanesCount` are parts of the
  invariant, `AbortFinal` the action property, `NoiseHarmless` needs one more
  conjunct (on an ordered link that is not spoofed the first receiver is level
  with its link, or has no key), `ReceiverImplementsOrderedDelivery` maps each
  receive to deliver, slip in, abort or a stutter. `TypesCorrect` and `AbortFinal`
  hold in Rust too.
- `Mirrors_proofs`, transcripts: `ChainInv` says that the object is the one its messages make,
  with each role's digest the genesis and the messages after it, and in
  TypeScript the stored context hash that of both digests. `SnapshotCorrect`
  follows with what the two loops of `computeTranscript` compute, and
  `ChainImplementsLean` with one append per step of the Lean machine.
- `Mirrors_proofs`, gate: `VerdictTold`. `GateInv` says at every stage what the
  stages before have settled: from the TypeScript gate on, the manifest that was
  read is the file, because the suite of the update process tests the old pins
  before, or differs from it in the digits of numbers only, because an update that
  finds the same pins still prints the inputs anew (`SameButDigits`, `DigitsTell`);
  the Python and Rust stages compare with pins that TypeScript matches.
  That a comparison by keys is equality needs that every answer of every executor
  is a record (`AnswersAreFcns`), and that no pin is an error. The faults are
  those that `Faults` lists; vectors, inputs and pins are arbitrary.
- `Mirrors_proofs`, gate and executors: `HealthyGatePasses`. `PinsInv` says where
  the pins come from: the manifest is the one the run began with, or what the
  TypeScript executor last wrote, and what was read is the file unless it was
  rewritten since. So without a fault the gate passes exactly when the executors
  agree, and they agree exactly when the operation of the vector is one that both
  languages have (`PortableIsAlike`). That takes one lemma per operation
  (`TraceAlike`, `TranscriptAlike`, `ExpandAlike`, `FrameAlike`, `AeadAlike`) on
  what the two languages compute of one input. Since Python alone is given the
  number itself, they can agree on a conversion that changes it only if its output
  does not show it, and every output does, or the number is outside a limit and
  the reference refuses it (`AnsweredIsExact`). Assumed of the constants: inputs
  have the fields of their operation and hold `Numbers` and lists
  (`PoolAssumption`), HKDF's limits (`HkdfAssumption`), the codec's
  (`WireAssumption`), that printing a double and reading it again gives the same
  double and that safe integers stay what they are (`NumbersAssumption`), and that
  all limits of the code but that of the nonce are safe integers
  (`SafeAssumption`). The run uses doubles of four bits.
- `SecureSession_proofs`: the properties say little of the ciphers that are still
  at work, so `IInv` does: the two heads of every context are beginnings of the
  heads of the chain it was taken from (`ContextsWell`); the i-th ciphertext of a
  channel is sealed under the key of its context and direction with number i - 1
  (`SealedWell`); what the present channel has opened is a beginning of what a
  channel of the peer with the same context has sealed (`OpenedWell`); and the
  ciphers stand where the two lists end (`ChannelsWell`). A ciphertext opens only
  under the key it was sealed with, a key identifies context and direction
  (`KeyIdentifies`), so it is the peer's, and the nonce says it is the next one
  (`OpensTheNext`). The checked invariants and the refinement follow. Keys are
  free constructors here: that is where the theorems rest on HKDF and AES-GCM.
- `Algorithms_proofs`, HKDF: `ExpandCorrect`. The invariant ties the counter, the
  offset and the number of blocks; the last block is the only one that is short.
- `Algorithms_proofs`, frames: reading and writing a field of any width are
  inverse to each other (`ReadWrite`, `WriteRead`), and so are `encodeFrame` and
  `decodeFrame` on what each accepts (`EncodeDecode`, `DecodeEncode`). No frame is
  a proper beginning of another (`NoFrameInAnother`), because its header gives its
  length. The invariant `FrameInv` says that the wire holds the encoding of a
  frame of the code's types, damaged in at most the way `damage` names, and that
  the output is what was decoded from it. `FrameRoundTrip`, `FrameBoundaries`,
  `FrameCanonical` and `FrameChangeShows` are read off it. No assumption limits
  the base, the widths or the tag length but that they are positive, and that a
  byte holds the message types.
- `CasRegistry_proofs`, Merkle trees: a commitment tells what it was made of
  (`CommitmentTells`), nodes tell their two children (`NodeHashTells`) and no leaf
  is a node (`LeafIsNoNode`), because their salts differ and have no separator.
  Along the loop over the levels, what `generateMerkleProof` has found so far leads
  from the leaf to the node above it (`Leads`): `EveryLeafHasItsProof`. Up a proof,
  different leaves stay different (`ProofTells`): `ProofsBindTheirLeaves`; down from
  the root, whoever is led to it is among the leaves (`OnlyLeavesVerify`). Two
  trees are compared level by level: nodes are equal exactly where the lists of
  leaves below them are (`LevelsMatch`), which gives `RootsTellBatches`. Nothing
  limits the size of a batch; the leaves are any strings.
- `CasRegistry_proofs`, registry: the invariant `Consistent` says that what is
  stored of a witness is the commitment to its present data and a list of
  siblings, that the members of batches are stored, and that a settled batch has
  given each of its members the proof of a place of that member under the
  commitments of now (`Given`). A registration touches the members of one batch,
  which it settles, and unsettles every batch that shares a member with it
  (`RegisteredStaysConsistent`). `SettledBatchesVerify` follows with
  `EveryLeafHasItsProof`'s lemma, `OnlyMembersVerify` with `OnlyLeavesVerify`, and
  `ChangesAreNoticed` because the leaf of the changed witness would have to be one
  of those under the old root.
- `CasRegistry_proofs`, audit trail: `TrailIsComplete`. `TrailInv` ties the trail
  to the history of registrations entry by entry: as many, in the same order, each
  with the audit hash of the identity of its registration. The filters of
  `get_audit_trail` then select the same places of both, because an audit hash
  tells the identity: `IdentitiesTell`, from `IdentitiesAssumption`, which says
  that no identity is the text of its own commitment. The code takes such a text
  for the identity it commits to. The filter is the recursive function `Having`,
  and what it does to a list that grows is `FilterAppend`.
- `CasRegistry_proofs`, bridge: the invariant `CallsMade` says that every call was
  one the process could make and was answered by the bridge, so whatever it
  knows is a text of its own, a digest or a redaction (`KnownIs`), whatever it has
  fed to what. The code joins message and salt with `:commit:` and escapes it in
  neither. If two joined strings are equal and one message is longer, the longer
  is the shorter with the separator and a front of the other's salt
  (`LongerBorrows`), and otherwise message and salt are equal: `JoinedTell`, whose
  converse is `BorrowedIsEqual`. Nothing is assumed of salts. In a signature nothing
  need be assumed of the message: the public key before it is always two parts
  long. This gives `VerificationAcceptsTheTrue`.
- `CasRegistry_proofs`, bridge: `ResultsAreTold`. Digests of different kinds are of
  strings that look different: a node of a tree begins with a digest and `:`, a
  signature with a public key and `:bls-sign:`, a gap witness with what is printed
  of its couplings, a QPA digest with what is printed of its parameters, any other
  commitment with none of these but has its separator, an aggregate has none, and a
  redaction is no digest (`KindsDiffer`). No message that the process can commit to
  directly looks like one of the others (`KnownMayBe`), because its texts contain no
  digest and no printed value: that is the one thing `StringsAssumption` asks, and
  it is asked of texts only. Without it a process could spell out in a text what
  the bridge joins. Identities, audit hashes and the root of a single leaf are
  commitments with a fixed salt, and `SameMeaning` compares them with all others as
  such. Within a kind each result tells its input, up to what the code leaves
  ambiguous: commitments (`DirectTells`), roots of two leaves or more, of any
  length (`RootingTells`, by `RootsTell`), aggregates, QPA digests and so on. For
  gap witnesses the sort must be shown to keep, for each prime, the couplings in
  the order they came (`SortedIs`), and two rising lists with the same couplings of
  each prime to be one list (`RisingTell`): `SortTells`. `EqualAnswersTell` is the
  one direction of the theorem, `SameMeaningAnswers` the other.
- `QkdSession_proofs`: the profile, and that of each call, is the one that a start
  profile has after as many steps as the profile or the call has seen
  (`Follows`); what came back is what `simulateQKD` makes of its input. Keys are
  then compared as records: `NonceReuseIsHarmless`, `KeysTellCalls`. For
  `PermissionStays` the primes must grow with their index, which is true if there
  is a prime above n and up to 2n: Bertrand's postulate is a hypothesis of the
  theorem, as it is what the search of `getPrimeAtIndex` in the model relies on.
  `QkdPipeline` assumes that `PrimeValues` is a multiple of `StateValues`, as 2^32
  is of 2^16: the state repeats whenever the prime index does.

Only model-checked, and why:

- Liveness (`EverythingOpens` of the session, `EverythingArrives` of the receiver,
  `AllowedLengthsWork` of HKDF): it needs `ENABLED`, which the prover does not treat.

Every safety invariant and action property of the runs is stated by a theorem.

## Not modelled

- `pedersen.rs` (curve arithmetic of one call), `frequency.ts` and `core_math.py`
  (floating point), the MKT and certificate modules (stubs and estimates).
- The Keccak transcript of Rust: a linear append and challenge that nothing else
  in the repository calls.
- The Kani harnesses, whose subject, the sequence state, is modelled; the probe
  and sorry scripts, which are part of the build.
- `decryptAEAD`: nothing opens what `simulateQKD` seals and drops.
- One AEAD object that both encrypts and decrypts with its single counter;
  session ids of nonces of varying length; `verify_frame_authentication` called
  with undecoded bytes, where Python lets a `ValueError` through.
- The buffering of early frames that the articles mention has no code.

## Plan

1. Done: sequence, receiver, transcript, session, codec, HKDF, Merkle, bridge,
   registry, QKD, vector gate; proofs of the sequence state and its trace, the
   receiver, the transcripts, the session, the codec, HKDF, the QKD session, the
   gate and the executors it compares, the Merkle trees, the registry's membership
   and audit trail, the bridge's results and its verification.
2. A composition of receiver and session: signed frames that carry the transcript
   messages from which both ends open their channels.
