--------------------------- MODULE TranscriptChain ---------------------------
(***************************************************************************)
(* The per-role transcript hash chains of a session and the context hash   *)
(* that the AEAD keys are bound to, in TypeScript, Python and Rust.        *)
(*                                                                         *)
(* SHA-256 is a free constructor, so a digest is the term of what was      *)
(* hashed.  The inputs h || m of a chain start with a digest of 32 bytes,  *)
(* which makes them unambiguous: a chain's digest is the sequence that     *)
(* starts with its genesis input and goes on with its messages.            *)
(***************************************************************************)
EXTENDS Naturals, Sequences

CONSTANT Impl   \* the implementation: "ts", "py" or "rs"

Roles == {"A", "B"}
Label == [A |-> "ALICE", B |-> "BOB"]

(* H(nonceA || nonceB): a concatenation of two inputs of any length, which *)
(* does not tell where the first one ends.                                 *)
sessionId(nonceA, nonceB) == nonceA \o nonceB

Genesis(version, sid, role) == << <<version, sid, Label[role]>> >>
Extend(digest, message) == Append(digest, message)

(* Mutant of combineContext: one head is hashed twice.                     *)
combineOneHead(heads) == <<heads["A"], heads["A"]>>

combineContext(heads) == <<heads["A"], heads["B"]>>

-----------------------------------------------------------------------------
(* TypeScript stores the context hash with the chain and refreshes it.     *)
NewChainTs(nonceA, nonceB, version) ==
    LET sid   == sessionId(nonceA, nonceB)
        heads == [r \in Roles |-> Genesis(version, sid, r)]
    IN  [sid |-> sid, heads |-> heads, context |-> combineContext(heads)]

(* Mutant of appendTs: the stored context hash is refreshed for the        *)
(* messages of one role only.                                              *)
appendRefreshingA(chain, role, message) ==
    LET heads == [chain.heads EXCEPT ![role] = Extend(@, message)]
    IN  [chain EXCEPT !.heads = heads,
                      !.context = IF role = "A" THEN combineContext(heads) ELSE @]

appendTs(chain, role, message) ==
    LET heads == [chain.heads EXCEPT ![role] = Extend(@, message)]
    IN  [chain EXCEPT !.heads = heads, !.context = combineContext(heads)]

snapshotTs(chain) ==
    [sid |-> chain.sid, heads |-> chain.heads, contextHash |-> chain.context]

-----------------------------------------------------------------------------
(* Python and Rust compute it whenever it is asked for.                    *)
NewChainPy(nonceA, nonceB, version) ==
    LET sid == sessionId(nonceA, nonceB)
    IN  [sid |-> sid, heads |-> [r \in Roles |-> Genesis(version, sid, r)]]

appendPy(chain, role, message) ==
    [chain EXCEPT !.heads[role] = Extend(@, message)]

snapshotPy(chain) ==
    [sid |-> chain.sid, heads |-> chain.heads,
     contextHash |-> combineContext(chain.heads)]

-----------------------------------------------------------------------------
NewChain(nonceA, nonceB, version) ==
    IF Impl = "ts" THEN NewChainTs(nonceA, nonceB, version)
                   ELSE NewChainPy(nonceA, nonceB, version)

append(chain, role, message) ==
    IF Impl = "ts" THEN appendTs(chain, role, message)
                   ELSE appendPy(chain, role, message)

snapshot(chain) == IF Impl = "ts" THEN snapshotTs(chain) ELSE snapshotPy(chain)

(* computeTranscript appends all of Alice's messages, then all of Bob's.   *)
appendAll(chain, role, messages) ==
    LET after[n \in 0 .. Len(messages)] ==
            IF n = 0 THEN chain ELSE append(after[n - 1], role, messages[n])
    IN  after[Len(messages)]

computeTranscript(nonceA, nonceB, version, messagesA, messagesB) ==
    snapshot(appendAll(appendAll(NewChain(nonceA, nonceB, version),
                                 "A", messagesA),
                       "B", messagesB))
=============================================================================
