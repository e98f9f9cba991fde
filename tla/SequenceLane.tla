---------------------------- MODULE SequenceLane ----------------------------
(***************************************************************************)
(* One StrictSequenceState on its own, offered any number at all: tryAccept*)
(* is public, and unlike a decoded header its argument may be negative or  *)
(* exceed the field.                                                       *)
(***************************************************************************)
EXTENDS StrictSequence, Sequences

CONSTANTS
    Observations,   \* the numbers offered to tryAccept
    MaxObserved     \* bound: how many numbers are offered

ASSUME ObservationsAssumption ==
    /\ Observations \subseteq Int
    /\ Impl = "rs" => Observations \subseteq SequenceNumber   \* the type is u32
ASSUME MaxObservedAssumption == MaxObserved \in Nat

VARIABLES
    lane,       \* expected and abortedState
    observed,   \* the numbers offered so far, in order
    accepted    \* the numbers for which tryAccept answered true, in order

vars == <<lane, observed, accepted>>

Init ==
    /\ lane = NewLane
    /\ observed = << >>
    /\ accepted = << >>

Observe(sequence) ==
    /\ Len(observed) < MaxObserved
    /\ lane' = TryAccept(lane, sequence)
    /\ observed' = Append(observed, sequence)
    /\ accepted' = IF Accepts(lane, sequence)
                   THEN Append(accepted, sequence)
                   ELSE accepted

Next == \E sequence \in Observations : Observe(sequence)

Spec == Init /\ [][Next]_vars

-----------------------------------------------------------------------------
TypeOK ==
    /\ lane \in Lane
    /\ observed \in Seq(Observations)
    /\ accepted \in Seq(SequenceNumber)

(* The accepted numbers are 0, 1, 2, ... without gap or repetition, also   *)
(* when the whole range of the field has been used up, and the lane then   *)
(* accepts nothing any more.                                               *)
AcceptedIsInitialSegment ==
    /\ Len(accepted) <= SeqMax + 1
    /\ \A i \in 1 .. Len(accepted) : accepted[i] = i - 1

(* The lane is exactly as far as what was accepted, and it is aborted if   *)
(* anything offered was not.                                               *)
LaneTellsHistory ==
    /\ lane.expected = Len(accepted)
    /\ lane.aborted <=> Len(accepted) < Len(observed)

(* A lane behaves as the sequence state that the Lean mirror proves its    *)
(* invariants about.  A number the field cannot hold is one that the lane  *)
(* never expects, for which -1 stands.                                     *)
Lean == INSTANCE LeanSequence
          WITH Observations <- Observations \cup {-1},
               status <- IF lane.aborted THEN "aborted" ELSE "active",
               nextSeq <- lane.expected,
               acceptedCount <- Len(accepted)

ImplementsLean == Lean!Spec
=============================================================================
