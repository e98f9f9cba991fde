--------------------------- MODULE StrictSequence ---------------------------
(***************************************************************************)
(* The strict sequence check of one sender: the StrictSequenceState class  *)
(* of the TypeScript protocol and its Python and Rust mirrors.  A lane     *)
(* holds the sequence number expected next and the sticky abort flag.      *)
(*                                                                         *)
(* A sequence number is an unsigned field of the frame header.  SeqMax is  *)
(* its largest value, 2^32 - 1 in the code.  The three implementations     *)
(* differ in what follows SeqMax: TypeScript and Python count in unbounded *)
(* integers, Rust counts in the width of the field and saturates.          *)
(***************************************************************************)
EXTENDS Integers

CONSTANTS
    SeqMax,   \* the largest sequence number the header can carry
    Impl      \* the implementation: "ts", "py" or "rs"

ASSUME SeqMaxAssumption == SeqMax \in Nat
ASSUME ImplAssumption == Impl \in {"ts", "py", "rs"}

(* The sequence numbers a decoded frame can carry.                         *)
SequenceNumber == 0 .. SeqMax

(* No lane of any implementation ever expects more than SeqMax + 1.        *)
Lane == [expected : 0 .. SeqMax + 1, aborted : BOOLEAN]

NewLane == [expected |-> 0, aborted |-> FALSE]

(* Mutants of Accepts: no look at the abort flag, gaps allowed, no range   *)
(* check.                                                                  *)
AcceptsAfterAbort(lane, sequence) ==
    sequence \in SequenceNumber /\ sequence = lane.expected
AcceptsAhead(lane, sequence) ==
    sequence \in SequenceNumber /\ ~lane.aborted /\ sequence >= lane.expected
AcceptsAnyInteger(lane, sequence) ==
    ~lane.aborted /\ sequence = lane.expected

(* tryAccept answers TRUE exactly on these arguments; a value outside the  *)
(* field's range is refused whatever the lane expects.                     *)
Accepts(lane, sequence) ==
    /\ sequence \in SequenceNumber
    /\ ~lane.aborted
    /\ sequence = lane.expected

(* Mutant of AbortLane: the counter is reset as well.                      *)
AbortLaneAndReset(lane) == [expected |-> 0, aborted |-> TRUE]

AbortLane(lane) == [lane EXCEPT !.aborted = TRUE]

(* Mutant of TryAcceptTs: the counter wraps in the width of the field.     *)
TryAcceptTsWrapping(lane, sequence) ==
    IF Accepts(lane, sequence)
    THEN [lane EXCEPT !.expected = (@ + 1) % (SeqMax + 1)]
    ELSE AbortLane(lane)

TryAcceptTs(lane, sequence) ==
    IF Accepts(lane, sequence)
    THEN [lane EXCEPT !.expected = @ + 1]
    ELSE AbortLane(lane)

(* Python refuses and counts as TypeScript does.                           *)
TryAcceptPy(lane, sequence) == TryAcceptTs(lane, sequence)

SaturatingIncrement(n) == IF n = SeqMax THEN n ELSE n + 1

(* Mutant of TryAcceptRs: a refused number is counted too.                 *)
TryAcceptRsCountingAll(lane, sequence) ==
    [expected |-> SaturatingIncrement(lane.expected),
     aborted  |-> ~Accepts(lane, sequence)]

TryAcceptRs(lane, sequence) ==
    IF Accepts(lane, sequence)
    THEN [lane EXCEPT !.expected = SaturatingIncrement(@)]
    ELSE AbortLane(lane)

TryAccept(lane, sequence) ==
    CASE Impl = "ts" -> TryAcceptTs(lane, sequence)
      [] Impl = "py" -> TryAcceptPy(lane, sequence)
      [] Impl = "rs" -> TryAcceptRs(lane, sequence)
=============================================================================
