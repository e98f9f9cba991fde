---------------------------- MODULE LeanSequence ----------------------------
(***************************************************************************)
(* The sequence state machine of the Lean mirror of the protocol: a status *)
(* that only ever goes from active to aborted, the next sequence number,   *)
(* and the count of accepted observations, in unbounded naturals.  It is   *)
(* the abstract specification of one StrictSequenceState.                  *)
(***************************************************************************)
EXTENDS Integers

CONSTANT Observations   \* the numbers that may be observed

VARIABLES status, nextSeq, acceptedCount

vars == <<status, nextSeq, acceptedCount>>

Init == status = "active" /\ nextSeq = 0 /\ acceptedCount = 0

observeSequence(sequence) ==
    \/ /\ status = "active" /\ sequence = nextSeq
       /\ nextSeq' = nextSeq + 1
       /\ acceptedCount' = acceptedCount + 1
       /\ UNCHANGED status
    \/ /\ status = "active" /\ sequence # nextSeq
       /\ status' = "aborted"
       /\ UNCHANGED <<nextSeq, acceptedCount>>
    \/ /\ status = "aborted"
       /\ UNCHANGED vars

Next == \E sequence \in Observations : observeSequence(sequence)

Spec == Init /\ [][Next]_vars
=============================================================================
