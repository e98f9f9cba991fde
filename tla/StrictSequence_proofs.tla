------------------------ MODULE StrictSequence_proofs ------------------------
(***************************************************************************)
(* Lemmas about one call of tryAccept.                                     *)
(***************************************************************************)
EXTENDS StrictSequence, TLAPS

(* One call of tryAccept leaves a lane, in every implementation.           *)
LEMMA TryAcceptType ==
    ASSUME NEW l \in Lane, NEW n \in Int
    PROVE  TryAccept(l, n) \in Lane
<1> USE SeqMaxAssumption
<1>1. AbortLane(l) \in Lane
  BY DEF AbortLane, Lane
<1>2. ASSUME Accepts(l, n)
      PROVE  /\ [l EXCEPT !.expected = @ + 1] \in Lane
             /\ [l EXCEPT !.expected = SaturatingIncrement(@)] \in Lane
  BY <1>2 DEF Accepts, SequenceNumber, SaturatingIncrement, Lane
<1> QED
  BY <1>1, <1>2, ImplAssumption
  DEF TryAccept, TryAcceptTs, TryAcceptPy, TryAcceptRs

(* One call of tryAccept, in TypeScript or Python: it counts what it       *)
(* accepts and aborts on everything else.                                  *)
LEMMA TryAcceptCases ==
    ASSUME Impl # "rs", NEW l \in Lane, NEW n \in Int
    PROVE  /\ TryAccept(l, n) \in Lane
           /\ TryAccept(l, n).expected
                = IF Accepts(l, n) THEN l.expected + 1 ELSE l.expected
           /\ TryAccept(l, n).aborted <=> ~Accepts(l, n)
<1> USE SeqMaxAssumption
<1>1. TryAccept(l, n) = TryAcceptTs(l, n)
  BY ImplAssumption DEF TryAccept, TryAcceptPy
<1>2. CASE Accepts(l, n)
  <2>1. ~l.aborted /\ l.expected \in 0 .. SeqMax
    BY <1>2 DEF Accepts, SequenceNumber
  <2>2. TryAccept(l, n) = [l EXCEPT !.expected = l.expected + 1]
    BY <1>1, <1>2 DEF TryAcceptTs
  <2> QED
    BY <1>2, <2>1, <2>2 DEF Lane
<1>3. CASE ~Accepts(l, n)
  <2>1. TryAccept(l, n) = [l EXCEPT !.aborted = TRUE]
    BY <1>1, <1>3 DEF TryAcceptTs, AbortLane
  <2> QED
    BY <1>3, <2>1 DEF Lane
<1> QED
  BY <1>2, <1>3

(* In every implementation an aborted lane accepts nothing and stays as it *)
(* is.                                                                     *)
LEMMA AbortedLaneStays ==
    ASSUME NEW l \in Lane, l.aborted, NEW n
    PROVE  ~Accepts(l, n) /\ TryAccept(l, n).aborted
<1>1. ~Accepts(l, n)
  BY DEF Accepts
<1>2. TryAccept(l, n) = AbortLane(l)
  BY <1>1, ImplAssumption
  DEF TryAccept, TryAcceptTs, TryAcceptPy, TryAcceptRs
<1> QED
  BY <1>1, <1>2 DEF AbortLane, Lane
=============================================================================
