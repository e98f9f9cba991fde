---------------------------- MODULE TraceSequence ----------------------------
(***************************************************************************)
(* traceSequence: the pure function that the test vectors pin, in its      *)
(* three forms.  Unlike the lane it describes it goes on accepting after a *)
(* mismatch.                                                               *)
(***************************************************************************)
EXTENDS StrictSequence, Sequences

(* The next number in the arithmetic of the language.                      *)
Increment(language, n) == IF language = "rs" THEN SaturatingIncrement(n) ELSE n + 1

(* Mutant of TraceStep: an accepted number clears the abort flag.          *)
TraceStepForgiving(language, trace, sequence) ==
    LET matches == sequence \in SequenceNumber /\ sequence = trace.expected
    IN  [outcomes |-> Append(trace.outcomes, matches),
         acceptedCount |-> trace.acceptedCount + (IF matches THEN 1 ELSE 0),
         expected |-> IF matches THEN Increment(language, trace.expected) ELSE trace.expected,
         aborted |-> ~matches]

(* One iteration of the loop.                                              *)
TraceStep(language, trace, sequence) ==
    IF sequence \in SequenceNumber /\ sequence = trace.expected
    THEN [trace EXCEPT !.outcomes = Append(@, TRUE),
                       !.acceptedCount = @ + 1,
                       !.expected = Increment(language, @)]
    ELSE [trace EXCEPT !.outcomes = Append(@, FALSE),
                       !.aborted = TRUE]

EmptyTrace(initial) ==
    [outcomes |-> << >>, acceptedCount |-> 0, expected |-> initial,
     aborted |-> FALSE]

(* The loop, over the trace of the first i numbers.                        *)
traceFrom(language, sequences, initial) ==
    LET after[i \in 0 .. Len(sequences)] ==
            IF i = 0 THEN EmptyTrace(initial)
            ELSE TraceStep(language, after[i - 1], sequences[i])
    IN  after[Len(sequences)]

(* TypeScript and Python count on past the field's range.                  *)
traceSequenceTs(sequences, initial) == traceFrom("ts", sequences, initial)

traceSequencePy(sequences) == traceSequenceTs(sequences, 0)

traceSequenceRs(sequences) == traceFrom("rs", sequences, 0)

traceSequence(sequences) ==
    CASE Impl = "ts" -> traceSequenceTs(sequences, 0)
      [] Impl = "py" -> traceSequencePy(sequences)
      [] Impl = "rs" -> traceSequenceRs(sequences)
=============================================================================
