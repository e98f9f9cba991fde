--------------------------- MODULE LeanTranscript ---------------------------
(***************************************************************************)
(* The transcript of the Lean mirror: one chain per sender, which keeps    *)
(* its genesis, its present digest and the list of its messages; the       *)
(* context hash is computed from the two present digests.  It is the       *)
(* abstract specification of a TranscriptChain.                            *)
(***************************************************************************)
EXTENDS Sequences

CONSTANTS Messages, Genesis(_)   \* the genesis digest of a role

VARIABLES
    alice, bob,   \* the chains
    contextHash   \* what contextHash answers

vars == <<alice, bob, contextHash>>

InitialChain(role) ==
    [genesis |-> Genesis(role), current |-> Genesis(role), messages |-> << >>]

AppendTo(chain, message) ==
    [chain EXCEPT !.current = Append(@, message),
                  !.messages = Append(@, message)]

ContextOf(a, b) == <<a.current, b.current>>

Init ==
    /\ alice = InitialChain("A")
    /\ bob = InitialChain("B")
    /\ contextHash = ContextOf(alice, bob)

appendAlice(message) == alice' = AppendTo(alice, message) /\ UNCHANGED bob
appendBob(message) == bob' = AppendTo(bob, message) /\ UNCHANGED alice

Next ==
    /\ \E message \in Messages : appendAlice(message) \/ appendBob(message)
    /\ contextHash' = ContextOf(alice', bob')

Spec == Init /\ [][Next]_vars
=============================================================================
