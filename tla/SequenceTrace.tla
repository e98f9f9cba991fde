---------------------------- MODULE SequenceTrace ----------------------------
(***************************************************************************)
(* The trace beside the stateful lane it is meant to describe.             *)
(***************************************************************************)
EXTENDS SequenceLane, TraceSequence

Trace == traceSequence(observed)

(* The trace and the lane raise the abort flag on the same input, agree on *)
(* everything up to there, and the trace never falls behind the lane.      *)
TraceMatchesLane ==
    /\ Trace.aborted = lane.aborted
    /\ Len(Trace.outcomes) = Len(observed)
    /\ \A i \in 1 .. Len(accepted) : Trace.outcomes[i]
    /\ Trace.expected >= lane.expected
    /\ ~lane.aborted => Trace.expected = lane.expected

(* The TypeScript or the Rust lane after a number, and after a sequence.   *)
LaneStep(language, current, sequence) ==
    IF language = "rs" THEN TryAcceptRs(current, sequence) ELSE TryAcceptTs(current, sequence)

LaneAfter(language, sequences) ==
    LET after[i \in 0 .. Len(sequences)] ==
            IF i = 0 THEN NewLane
            ELSE LaneStep(language, after[i - 1], sequences[i])
    IN  after[Len(sequences)]

(* As long as no more numbers were accepted than the counter of Rust can   *)
(* hold, it gives the same lane and the same trace as TypeScript does for  *)
(* every input of the field's range.                                       *)
ImplementationsAgree ==
    (\A i \in 1 .. Len(observed) : observed[i] \in SequenceNumber) =>
        /\ Len(accepted) <= SeqMax =>
               LaneAfter("rs", observed) = LaneAfter("ts", observed)
        /\ traceSequenceTs(observed, 0).expected <= SeqMax =>
               traceSequenceRs(observed) = traceSequenceTs(observed, 0)
=============================================================================
