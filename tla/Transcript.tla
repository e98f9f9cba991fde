----------------------------- MODULE Transcript -----------------------------
(***************************************************************************)
(* One TranscriptChain object and the messages appended to it, for either  *)
(* role in any interleaving.                                               *)
(***************************************************************************)
EXTENDS TranscriptChain

CONSTANTS
    Messages,     \* the messages
    version,      \* the version the transcript starts with
    MaxAppends    \* bound: how many messages are appended

VARIABLES
    chain,      \* the object
    appended    \* appended[role]: the messages appended for the role, in order

vars == <<chain, appended>>

nonceA == <<"nonceA">>
nonceB == <<"nonceB">>

Init ==
    /\ chain = NewChain(nonceA, nonceB, version)
    /\ appended = [role \in Roles |-> << >>]

AppendMessage(role, message) ==
    /\ Len(appended["A"]) + Len(appended["B"]) < MaxAppends
    /\ chain' = append(chain, role, message)
    /\ appended' = [appended EXCEPT ![role] = Append(@, message)]

Next == \E role \in Roles, message \in Messages : AppendMessage(role, message)

Spec == Init /\ [][Next]_vars

-----------------------------------------------------------------------------
(* After any calls in any interleaving of the roles, the object is where   *)
(* computeTranscript gets from the messages of each role: its digests and  *)
(* its context hash do not depend on who spoke between whose messages, and *)
(* the stored context hash is never behind the digests.                    *)
SnapshotMatchesBatch ==
    snapshot(chain) =
        computeTranscript(nonceA, nonceB, version, appended["A"], appended["B"])

(* An object behaves as the transcript of the Lean mirror does, of which   *)
(* the mirror proves that the digest is the fold of the messages.          *)
GenesisOf(role) == Genesis(version, sessionId(nonceA, nonceB), role)
ChainOf(role) ==
    [genesis |-> GenesisOf(role),
     current |-> chain.heads[role],
     messages |-> appended[role]]
Lean == INSTANCE LeanTranscript
          WITH Genesis <- GenesisOf,
               alice <- ChainOf("A"), bob <- ChainOf("B"),
               contextHash <- snapshot(chain).contextHash

ImplementsLeanTranscript == Lean!Spec
=============================================================================
