---------------------------- MODULE Mirrors_proofs ----------------------------
(***************************************************************************)
(* What the mirrors agree on, for every value of the constants: a lane and *)
(* what traceSequence tells about it, a TranscriptChain, the verdict of    *)
(* the gate.                                                               *)
(***************************************************************************)
EXTENDS MCMirrors, StrictSequence_proofs, NumberLemmas

(* The inductive invariant: what was accepted was also observed.           *)
IInv ==
    /\ TypeOK
    /\ AcceptedIsInitialSegment
    /\ LaneTellsHistory
    /\ Len(accepted) <= Len(observed)

LEMMA InitIInv == Init => IInv
BY SeqMaxAssumption
DEF Init, IInv, TypeOK, AcceptedIsInitialSegment, LaneTellsHistory, NewLane,
    Lane

LEMMA NextIInv ==
    ASSUME Impl # "rs", IInv, [Next]_vars
    PROVE  IInv'
<1> USE SeqMaxAssumption
<1>1. ASSUME NEW n \in Observations, Observe(n)
      PROVE  IInv'
  <2>1. n \in Int /\ lane \in Lane
    BY ObservationsAssumption DEF IInv, TypeOK
  <2>2. observed' \in Seq(Observations) /\ Len(observed') = Len(observed) + 1
    BY <1>1 DEF Observe, IInv, TypeOK
  <2>3. CASE Accepts(lane, n)
    <3>1. lane'.expected = lane.expected + 1 /\ ~lane'.aborted
      BY <1>1, <2>1, <2>3, TryAcceptCases DEF Observe
    <3>2. n \in SequenceNumber /\ n = Len(accepted) /\ ~lane.aborted
      BY <2>1, <2>3 DEF Accepts, IInv, LaneTellsHistory, Lane
    <3>3. accepted' = Append(accepted, n)
      BY <1>1, <2>3 DEF Observe
    <3>4. accepted' \in Seq(SequenceNumber) /\ Len(accepted') = Len(accepted) + 1
      BY <3>2, <3>3 DEF IInv, TypeOK
    <3>5. AcceptedIsInitialSegment'
      <4>1. Len(accepted') <= SeqMax + 1
        BY <3>2, <3>4 DEF SequenceNumber, IInv, TypeOK
      <4>2. ASSUME NEW i \in 1 .. Len(accepted')
            PROVE  accepted'[i] = i - 1
        BY <3>2, <3>3, <3>4 DEF IInv, TypeOK, AcceptedIsInitialSegment
      <4> QED
        BY <4>1, <4>2 DEF AcceptedIsInitialSegment
    <3>6. LaneTellsHistory' /\ (Len(accepted) <= Len(observed))'
      BY <2>2, <3>1, <3>2, <3>4 DEF LaneTellsHistory, IInv, TypeOK, Lane
    <3>7. TypeOK'
      BY <1>1, <2>1, <2>2, <3>4, TryAcceptCases DEF Observe, TypeOK
    <3> QED
      BY <3>5, <3>6, <3>7 DEF IInv
  <2>4. CASE ~Accepts(lane, n)
    <3>1. lane'.expected = lane.expected /\ lane'.aborted
      BY <1>1, <2>1, <2>4, TryAcceptCases DEF Observe
    <3>2. accepted' = accepted
      BY <1>1, <2>4 DEF Observe
    <3>3. TypeOK' /\ AcceptedIsInitialSegment'
      BY <1>1, <2>1, <2>2, <3>2, TryAcceptCases
      DEF Observe, IInv, TypeOK, AcceptedIsInitialSegment
    <3>4. LaneTellsHistory' /\ (Len(accepted) <= Len(observed))'
      BY <2>2, <3>1, <3>2 DEF LaneTellsHistory, IInv, TypeOK
    <3> QED
      BY <3>3, <3>4 DEF IInv
  <2> QED
    BY <2>3, <2>4
<1>2. CASE UNCHANGED vars
  BY <1>2 DEF vars, IInv, TypeOK, AcceptedIsInitialSegment, LaneTellsHistory
<1> QED
  BY <1>1, <1>2 DEF Next

(* In TypeScript and Python a lane has accepted exactly 0, 1, 2, ... up to *)
(* what it expects, and is aborted as soon as anything else was offered,   *)
(* also past the end of the field's range.                                 *)
THEOREM LaneCorrect ==
    ASSUME Impl # "rs"
    PROVE  Spec => [](TypeOK /\ AcceptedIsInitialSegment /\ LaneTellsHistory)
<1>1. Init => IInv
  BY InitIInv
<1>2. IInv /\ [Next]_vars => IInv'
  BY NextIInv
<1>3. IInv => TypeOK /\ AcceptedIsInitialSegment /\ LaneTellsHistory
  BY DEF IInv
<1> QED
  BY <1>1, <1>2, <1>3, PTL DEF Spec

(* In TypeScript and Python every step of a lane is a step of the Lean     *)
(* mirror's sequence state, so what Lean proves of that holds of them.     *)
THEOREM LaneImplementsLean ==
    ASSUME Impl # "rs"
    PROVE  Spec => ImplementsLean
<1>1. Init => Lean!Init
  BY DEF Init, Lean!Init, NewLane
<1>2. ASSUME IInv, [Next]_vars
      PROVE  [Lean!Next]_Lean!vars
  <2>1. ASSUME NEW n \in Observations, Observe(n)
        PROVE  Lean!Next \/ UNCHANGED Lean!vars
    <3>1. n \in Int /\ lane \in Lane /\ accepted \in Seq(SequenceNumber)
      BY <1>2, ObservationsAssumption DEF IInv, TypeOK
    <3>2. CASE Accepts(lane, n)
      <4>1. lane'.expected = lane.expected + 1 /\ ~lane'.aborted
        BY <2>1, <3>1, <3>2, TryAcceptCases DEF Observe
      <4>2. n = lane.expected /\ ~lane.aborted /\ n \in SequenceNumber
        BY <3>1, <3>2 DEF Accepts, Lane
      <4>3. Len(accepted') = Len(accepted) + 1
        BY <2>1, <3>1, <3>2, <4>2 DEF Observe
      <4>4. Lean!observeSequence(n)
        BY <4>1, <4>2, <4>3 DEF Lean!observeSequence
      <4> QED
        BY <4>4 DEF Lean!Next
    <3>3. CASE ~Accepts(lane, n)
      <4>1. lane'.expected = lane.expected /\ lane'.aborted
        BY <2>1, <3>1, <3>3, TryAcceptCases DEF Observe
      <4>2. accepted' = accepted
        BY <2>1, <3>3 DEF Observe
      <4>3. -1 # lane.expected
        BY <3>1, SeqMaxAssumption DEF Lane
      <4>4. Lean!observeSequence(-1)
        BY <3>1, <4>1, <4>2, <4>3 DEF Lean!observeSequence, Lean!vars, Lane
      <4> QED
        BY <4>4 DEF Lean!Next
    <3> QED
      BY <3>2, <3>3
  <2>2. CASE UNCHANGED vars
    BY <2>2 DEF vars, Lean!vars
  <2> QED
    BY <1>2, <2>1, <2>2 DEF Next
<1>3. Init => IInv
  BY InitIInv
<1>4. IInv /\ [Next]_vars => IInv'
  BY NextIInv
<1> QED
  BY <1>1, <1>2, <1>3, <1>4, PTL DEF Spec, ImplementsLean, Lean!Spec

-----------------------------------------------------------------------------
(* The two loops over a sequence of numbers: f has the trace, or the lane, *)
(* after each number.                                                      *)
TraceRun(f, language, s, initial) ==
    /\ traceFrom(language, s, initial) = f[Len(s)]
    /\ f[0] = EmptyTrace(initial)
    /\ \A i \in 1 .. Len(s) : f[i] = TraceStep(language, f[i - 1], s[i])

LaneRun(f, language, s) ==
    /\ LaneAfter(language, s) = f[Len(s)]
    /\ f[0] = NewLane
    /\ \A i \in 1 .. Len(s) : f[i] = LaneStep(language, f[i - 1], s[i])

LEMMA TraceLoop ==
    ASSUME NEW language, NEW s, NEW initial, Len(s) \in Nat
    PROVE  \E f : TraceRun(f, language, s, initial)
<1> DEFINE N == Len(s)
           Body(n, f) == [i \in 0 .. n |-> IF i = 0 THEN EmptyTrace(initial)
                                           ELSE TraceStep(language, f[i - 1], s[i])]
           S == {n \in Nat : \E f : f = Body(n, f)}
<1>1. 0 \in S
  <2> DEFINE f == [i \in 0 .. 0 |-> EmptyTrace(initial)]
  <2>1. f = Body(0, f)
    OBVIOUS
  <2> QED
    BY <2>1
<1>2. ASSUME NEW n \in Nat, n \in S
      PROVE  n + 1 \in S
  <2>1. PICK f : f = Body(n, f)
    BY <1>2
  <2> DEFINE g == [i \in 0 .. n + 1 |-> IF i = n + 1
                                        THEN TraceStep(language, f[n], s[n + 1])
                                        ELSE f[i]]
  <2>2. ASSUME NEW i \in 0 .. n + 1
        PROVE  g[i] = IF i = 0 THEN EmptyTrace(initial)
                      ELSE TraceStep(language, g[i - 1], s[i])
    <3>1. CASE i = n + 1
      BY <3>1
    <3>2. CASE i = 0
      BY <2>1, <3>2
    <3>3. CASE i \in 1 .. n
      <4>1. g[i] = f[i] /\ g[i - 1] = f[i - 1]
        BY <3>3
      <4>2. f[i] = TraceStep(language, f[i - 1], s[i])
        BY <2>1, <3>3
      <4> QED
        BY <3>3, <4>1, <4>2
    <3> QED
      BY <3>1, <3>2, <3>3
  <2>3. g = Body(n + 1, g)
    BY <2>2
  <2> HIDE DEF g, Body
  <2> QED
    BY <2>3
<1>3. Nat \subseteq S
  <2> HIDE DEF S
  <2> QED
    BY <1>1, <1>2, NatSetInduction
<1> DEFINE after == CHOOSE f : f = Body(N, f)
<1>4. after = Body(N, after)
  <2> HIDE DEF Body
  <2> QED
    BY <1>3
<1>5. traceFrom(language, s, initial) = after[N]
  BY DEF traceFrom
<1> HIDE DEF after
<1>6. /\ after[0] = EmptyTrace(initial)
      /\ \A i \in 1 .. N : after[i] = TraceStep(language, after[i - 1], s[i])
  BY <1>4
<1> QED
  BY <1>5, <1>6 DEF TraceRun

LEMMA TraceEmpty ==
    ASSUME NEW language, NEW initial
    PROVE  traceFrom(language, << >>, initial) = EmptyTrace(initial)
BY TraceLoop DEF TraceRun

LEMMA TraceAppend ==
    ASSUME NEW language, NEW s \in Seq(Int), NEW n \in Int, NEW initial
    PROVE  traceFrom(language, Append(s, n), initial)
             = TraceStep(language, traceFrom(language, s, initial), n)
<1> DEFINE t == Append(s, n)
           N == Len(s)
<1>2. N \in Nat /\ Len(t) = N + 1 /\ t[N + 1] = n /\ \A i \in 1 .. N : t[i] = s[i]
  OBVIOUS
<1>3. PICK f : TraceRun(f, language, s, initial)
  BY <1>2, TraceLoop
<1>4. PICK g : TraceRun(g, language, t, initial)
  <2>1. Len(t) \in Nat
    BY <1>2
  <2> HIDE DEF t
  <2> QED
    BY <2>1, TraceLoop
<1>5. /\ traceFrom(language, s, initial) = f[N] /\ f[0] = EmptyTrace(initial)
      /\ \A i \in 1 .. N : f[i] = TraceStep(language, f[i - 1], s[i])
  BY <1>3 DEF TraceRun
<1>6. /\ traceFrom(language, t, initial) = g[N + 1] /\ g[0] = EmptyTrace(initial)
      /\ \A i \in 1 .. N + 1 : g[i] = TraceStep(language, g[i - 1], t[i])
  <2> HIDE DEF t
  <2> QED
    BY <1>2, <1>4 DEF TraceRun
<1> HIDE DEF t, N
<1>7. StayAlike(f, g, N)
  <2> SUFFICES ASSUME NEW i \in 1 .. N, f[i - 1] = g[i - 1]
               PROVE  f[i] = g[i]
    BY DEF StayAlike
  <2>1. i \in 1 .. N + 1 /\ t[i] = s[i]
    BY <1>2
  <2> QED
    BY <1>5, <1>6, <2>1
<1>8. f[N] = g[N]
  <2>1. Alike(f, g, N)
    BY <1>2, <1>5, <1>6, <1>7, SameLoop
  <2> QED
    BY <1>2, <2>1 DEF Alike
<1>9. g[N + 1] = TraceStep(language, g[N], n)
  BY <1>2, <1>6
<1> QED
  BY <1>5, <1>6, <1>8, <1>9 DEF t

LEMMA LaneLoop ==
    ASSUME NEW language, NEW s, Len(s) \in Nat
    PROVE  \E f : LaneRun(f, language, s)
<1> DEFINE N == Len(s)
           Body(n, f) == [i \in 0 .. n |-> IF i = 0 THEN NewLane
                                           ELSE LaneStep(language, f[i - 1], s[i])]
           S == {n \in Nat : \E f : f = Body(n, f)}
<1>1. 0 \in S
  <2> DEFINE f == [i \in 0 .. 0 |-> NewLane]
  <2>1. f = Body(0, f)
    OBVIOUS
  <2> QED
    BY <2>1
<1>2. ASSUME NEW n \in Nat, n \in S
      PROVE  n + 1 \in S
  <2>1. PICK f : f = Body(n, f)
    BY <1>2
  <2> DEFINE g == [i \in 0 .. n + 1 |-> IF i = n + 1
                                        THEN LaneStep(language, f[n], s[n + 1])
                                        ELSE f[i]]
  <2>2. ASSUME NEW i \in 0 .. n + 1
        PROVE  g[i] = IF i = 0 THEN NewLane
                      ELSE LaneStep(language, g[i - 1], s[i])
    <3>1. CASE i = n + 1
      BY <3>1
    <3>2. CASE i = 0
      BY <2>1, <3>2
    <3>3. CASE i \in 1 .. n
      <4>1. g[i] = f[i] /\ g[i - 1] = f[i - 1]
        BY <3>3
      <4>2. f[i] = LaneStep(language, f[i - 1], s[i])
        BY <2>1, <3>3
      <4> QED
        BY <3>3, <4>1, <4>2
    <3> QED
      BY <3>1, <3>2, <3>3
  <2>3. g = Body(n + 1, g)
    BY <2>2
  <2> HIDE DEF g, Body
  <2> QED
    BY <2>3
<1>3. Nat \subseteq S
  <2> HIDE DEF S
  <2> QED
    BY <1>1, <1>2, NatSetInduction
<1> DEFINE after == CHOOSE f : f = Body(N, f)
<1>4. after = Body(N, after)
  <2> HIDE DEF Body
  <2> QED
    BY <1>3
<1>5. LaneAfter(language, s) = after[N]
  BY DEF LaneAfter
<1> HIDE DEF after
<1>6. /\ after[0] = NewLane
      /\ \A i \in 1 .. N : after[i] = LaneStep(language, after[i - 1], s[i])
  BY <1>4
<1> QED
  BY <1>5, <1>6 DEF LaneRun

LEMMA LaneEmpty ==
    ASSUME NEW language
    PROVE  LaneAfter(language, << >>) = NewLane
BY LaneLoop DEF LaneRun

LEMMA LaneAppend ==
    ASSUME NEW language, NEW s \in Seq(Int), NEW n \in Int
    PROVE  LaneAfter(language, Append(s, n))
             = LaneStep(language, LaneAfter(language, s), n)
<1> DEFINE t == Append(s, n)
           N == Len(s)
<1>2. N \in Nat /\ Len(t) = N + 1 /\ t[N + 1] = n /\ \A i \in 1 .. N : t[i] = s[i]
  OBVIOUS
<1>3. PICK f : LaneRun(f, language, s)
  BY <1>2, LaneLoop
<1>4. PICK g : LaneRun(g, language, t)
  <2>1. Len(t) \in Nat
    BY <1>2
  <2> HIDE DEF t
  <2> QED
    BY <2>1, LaneLoop
<1>5. /\ LaneAfter(language, s) = f[N] /\ f[0] = NewLane
      /\ \A i \in 1 .. N : f[i] = LaneStep(language, f[i - 1], s[i])
  BY <1>3 DEF LaneRun
<1>6. /\ LaneAfter(language, t) = g[N + 1] /\ g[0] = NewLane
      /\ \A i \in 1 .. N + 1 : g[i] = LaneStep(language, g[i - 1], t[i])
  <2> HIDE DEF t
  <2> QED
    BY <1>2, <1>4 DEF LaneRun
<1> HIDE DEF t, N
<1>7. StayAlike(f, g, N)
  <2> SUFFICES ASSUME NEW i \in 1 .. N, f[i - 1] = g[i - 1]
               PROVE  f[i] = g[i]
    BY DEF StayAlike
  <2>1. i \in 1 .. N + 1 /\ t[i] = s[i]
    BY <1>2
  <2> QED
    BY <1>5, <1>6, <2>1
<1>8. f[N] = g[N]
  <2>1. Alike(f, g, N)
    BY <1>2, <1>5, <1>6, <1>7, SameLoop
  <2> QED
    BY <1>2, <2>1 DEF Alike
<1>9. g[N + 1] = LaneStep(language, g[N], n)
  BY <1>2, <1>6
<1> QED
  BY <1>5, <1>6, <1>8, <1>9 DEF t

-----------------------------------------------------------------------------
(* Traces of sequences.                                                    *)
Traces ==
    [outcomes : Seq(BOOLEAN), acceptedCount : Nat, expected : Nat, aborted : BOOLEAN]

Matches(t, n) == n \in SequenceNumber /\ n = t.expected

StepsTo(language, t, n, u) ==
    /\ u \in Traces
    /\ Len(u.outcomes) = Len(t.outcomes) + 1
    /\ \A i \in 1 .. Len(t.outcomes) : u.outcomes[i] = t.outcomes[i]
    /\ u.outcomes[Len(t.outcomes) + 1] = Matches(t, n)
    /\ u.expected = IF Matches(t, n) THEN Increment(language, t.expected) ELSE t.expected
    /\ u.expected >= t.expected
    /\ u.aborted <=> t.aborted \/ ~Matches(t, n)

LEMMA TraceStepCases ==
    ASSUME NEW language, NEW t \in Traces, NEW n \in Int
    PROVE  StepsTo(language, t, n, TraceStep(language, t, n))
<1>a. PICK u : u = TraceStep(language, t, n)
  OBVIOUS
<1>b. PICK matches \in BOOLEAN : matches = Matches(t, n)
  BY DEF Matches
<1> DEFINE k == Len(t.outcomes)
<1>1. /\ t.outcomes \in Seq(BOOLEAN) /\ k \in Nat /\ t.acceptedCount \in Nat
      /\ t.expected \in Nat /\ t.aborted \in BOOLEAN
  BY DEF Traces
<1>2. /\ Increment(language, t.expected) \in Nat
      /\ Increment(language, t.expected) >= t.expected
  BY <1>1, SeqMaxAssumption DEF Increment, SaturatingIncrement
<1>3. PICK o : o = t.outcomes
  OBVIOUS
<1>4. ASSUME NEW b \in BOOLEAN
      PROVE  /\ Append(o, b) \in Seq(BOOLEAN) /\ Len(Append(o, b)) = k + 1
             /\ \A i \in 1 .. k : Append(o, b)[i] = o[i]
             /\ Append(o, b)[k + 1] = b
  BY <1>1, <1>3
<1>5. CASE matches
  <2>1. PICK v, c, x : v = Append(o, TRUE) /\ c = t.acceptedCount + 1
                       /\ x = Increment(language, t.expected)
    OBVIOUS
  <2>2. u = [t EXCEPT !.outcomes = v, !.acceptedCount = c, !.expected = x]
    BY <1>a, <1>b, <1>3, <1>5, <2>1 DEF TraceStep, Traces, Matches
  <2>3. /\ v \in Seq(BOOLEAN) /\ Len(v) = k + 1
        /\ \A i \in 1 .. k : v[i] = o[i]
        /\ v[k + 1] = TRUE
    BY <1>4, <2>1
  <2>4. u \in Traces /\ u.outcomes = v /\ u.expected = x /\ u.aborted = t.aborted
    <3>1. c \in Nat /\ x \in Nat
      BY <1>1, <1>2, <2>1
    <3>2. /\ u.outcomes = v /\ u.expected = x /\ u.aborted = t.aborted
          /\ u.acceptedCount = c
      BY <2>2 DEF Traces
    <3>3. u = [outcomes |-> v, acceptedCount |-> c, expected |-> x, aborted |-> t.aborted]
      BY <2>2 DEF Traces
    <3> QED
      BY <1>1, <2>3, <3>1, <3>2, <3>3 DEF Traces
  <2> QED
    BY <1>a, <1>b, <1>2, <1>3, <1>5, <2>1, <2>3, <2>4 DEF StepsTo
<1>6. CASE ~matches
  <2>1. PICK v : v = Append(o, FALSE)
    OBVIOUS
  <2>2. u = [t EXCEPT !.outcomes = v, !.aborted = TRUE]
    BY <1>a, <1>b, <1>3, <1>6, <2>1 DEF TraceStep, Traces, Matches
  <2>3. /\ v \in Seq(BOOLEAN) /\ Len(v) = k + 1
        /\ \A i \in 1 .. k : v[i] = o[i]
        /\ v[k + 1] = FALSE
    BY <1>4, <2>1
  <2>4. u \in Traces /\ u.outcomes = v /\ u.expected = t.expected /\ u.aborted = TRUE
    BY <1>1, <2>2, <2>3 DEF Traces
  <2> QED
    BY <1>a, <1>b, <1>1, <1>3, <1>6, <2>3, <2>4 DEF StepsTo
<1> QED
  BY <1>5, <1>6

-----------------------------------------------------------------------------
(* The invariant of a lane and its trace, in every implementation: up to   *)
(* the abort everything offered was accepted.                              *)
Here == IF Impl = "rs" THEN "rs" ELSE "ts"

HistoryOK ==
    /\ lane \in Lane /\ observed \in Seq(Int) /\ accepted \in Seq(Int)
    /\ Len(accepted) <= Len(observed)
    /\ ~lane.aborted => Len(accepted) = Len(observed)

TraceInv == HistoryOK /\ Trace \in Traces /\ TraceMatchesLane

LEMMA TraceIs == Trace = traceFrom(Here, observed, 0)
BY ImplAssumption
DEF Trace, traceSequence, traceSequenceTs, traceSequencePy, traceSequenceRs, Here

(* One call of tryAccept, in every implementation.                         *)
LEMMA StepCases ==
    ASSUME NEW l \in Lane, NEW n \in Int
    PROVE  /\ TryAccept(l, n) = LaneStep(Here, l, n)
           /\ LaneStep(Here, l, n) =
                IF Accepts(l, n) THEN [l EXCEPT !.expected = Increment(Here, l.expected)]
                ELSE [l EXCEPT !.aborted = TRUE]
<1>1. TryAccept(l, n) = LaneStep(Here, l, n)
  BY ImplAssumption DEF TryAccept, TryAcceptPy, LaneStep, Here
<1>2. LaneStep(Here, l, n) =
        IF Accepts(l, n) THEN [l EXCEPT !.expected = Increment(Here, l.expected)]
        ELSE [l EXCEPT !.aborted = TRUE]
  BY DEF LaneStep, TryAcceptRs, TryAcceptTs, AbortLane, Increment, Lane, Here
<1> QED
  BY <1>1, <1>2

LEMMA ObserveHistory ==
    ASSUME HistoryOK, NEW n \in Observations, Observe(n)
    PROVE  HistoryOK'
<1>1. /\ n \in Int /\ lane \in Lane /\ observed \in Seq(Int) /\ accepted \in Seq(Int)
      /\ Len(accepted) <= Len(observed)
      /\ ~lane.aborted => Len(accepted) = Len(observed)
  BY ObservationsAssumption DEF HistoryOK
<1>2. lane' \in Lane
  BY <1>1, TryAcceptType DEF Observe
<1>3. observed' \in Seq(Int) /\ Len(observed') = Len(observed) + 1
  BY <1>1 DEF Observe
<1>4. CASE Accepts(lane, n)
  <2>1. accepted' \in Seq(Int) /\ Len(accepted') = Len(accepted) + 1
    BY <1>1, <1>4 DEF Observe
  <2>2. ~lane.aborted
    BY <1>4 DEF Accepts
  <2> QED
    BY <1>1, <1>2, <1>3, <2>1, <2>2 DEF HistoryOK
<1>5. CASE ~Accepts(lane, n)
  <2>1. accepted' = accepted
    BY <1>5 DEF Observe
  <2>2. lane'.aborted
    BY <1>1, <1>5, StepCases DEF Observe, Lane
  <2> QED
    BY <1>1, <1>2, <1>3, <2>1, <2>2 DEF HistoryOK
<1> QED
  BY <1>4, <1>5

LEMMA ObserveTrace ==
    ASSUME TraceInv, NEW n \in Observations, Observe(n)
    PROVE  TraceInv'
<1>1. HistoryOK'
  BY ObserveHistory DEF TraceInv
<1>2. /\ n \in Int /\ lane \in Lane /\ observed \in Seq(Int) /\ accepted \in Seq(Int)
      /\ Len(accepted) <= Len(observed)
      /\ ~lane.aborted => Len(accepted) = Len(observed)
  BY ObservationsAssumption DEF HistoryOK, TraceInv
<1>3. PICK t, u : t = Trace /\ u = Trace'
  OBVIOUS
<1>4. /\ t \in Traces /\ t.aborted = lane.aborted /\ Len(t.outcomes) = Len(observed)
      /\ \A i \in 1 .. Len(accepted) : t.outcomes[i]
      /\ t.expected >= lane.expected
      /\ ~lane.aborted => t.expected = lane.expected
  BY <1>3 DEF TraceInv, TraceMatchesLane
<1>5. u = TraceStep(Here, t, n)
  <2>1. Trace' = traceFrom(Here, observed', 0)
    BY ImplAssumption
    DEF Trace, traceSequence, traceSequenceTs, traceSequencePy, traceSequenceRs,
        Here
  <2>2. observed' = Append(observed, n)
    BY DEF Observe
  <2> QED
    BY <1>2, <1>3, <2>1, <2>2, TraceIs, TraceAppend
<1>6. PICK matches \in BOOLEAN : matches = Matches(t, n)
  BY DEF Matches
<1>7. /\ u \in Traces
      /\ Len(u.outcomes) = Len(t.outcomes) + 1
      /\ \A i \in 1 .. Len(t.outcomes) : u.outcomes[i] = t.outcomes[i]
      /\ u.outcomes[Len(t.outcomes) + 1] = matches
      /\ u.expected = IF matches THEN Increment(Here, t.expected) ELSE t.expected
      /\ u.expected >= t.expected
      /\ u.aborted <=> t.aborted \/ ~matches
  <2>1. PICK language : language = Here
    OBVIOUS
  <2>2. StepsTo(language, t, n, u)
    BY <1>2, <1>4, <1>5, <2>1, TraceStepCases
  <2> QED
    BY <1>6, <2>1, <2>2 DEF StepsTo
<1>8. Len(observed') = Len(observed) + 1 /\ Len(observed) \in Nat /\ Len(accepted) \in Nat
  BY <1>2 DEF Observe
<1>9. lane' = LaneStep(Here, lane, n)
  BY <1>2, StepCases DEF Observe
<1>10. CASE Accepts(lane, n)
  <2>1. ~lane.aborted /\ matches /\ t.expected = lane.expected
    BY <1>4, <1>6, <1>10 DEF Accepts, Matches
  <2>2. lane'.expected = Increment(Here, lane.expected) /\ lane'.aborted = lane.aborted
    BY <1>2, <1>9, <1>10, StepCases DEF Lane
  <2>3. Len(accepted') = Len(accepted) + 1
    BY <1>2, <1>10 DEF Observe
  <2>4. u.aborted = lane'.aborted /\ u.expected = lane'.expected
    BY <1>4, <1>7, <2>1, <2>2 DEF Traces
  <2>5. ASSUME NEW i \in 1 .. Len(accepted')
        PROVE  u.outcomes[i]
    <3>1. CASE i = Len(accepted) + 1
      BY <1>2, <1>4, <1>7, <2>1, <3>1
    <3>2. CASE i \in 1 .. Len(accepted)
      <4>1. i \in 1 .. Len(t.outcomes)
        BY <1>2, <1>4, <1>8, <3>2
      <4> QED
        BY <1>4, <1>7, <3>2, <4>1, Zenon
    <3> QED
      BY <1>8, <2>3, <3>1, <3>2
  <2>6. u.expected \in Nat
    BY <1>7 DEF Traces
  <2> QED
    BY <1>1, <1>3, <1>4, <1>7, <1>8, <2>4, <2>5, <2>6 DEF TraceInv, TraceMatchesLane
<1>11. CASE ~Accepts(lane, n)
  <2>1. lane'.expected = lane.expected /\ lane'.aborted = TRUE
    BY <1>2, <1>9, <1>11, StepCases DEF Lane
  <2>2. accepted' = accepted
    BY <1>11 DEF Observe
  <2>3. u.aborted = TRUE
    <3>1. CASE lane.aborted
      BY <1>4, <1>7, <3>1 DEF Traces
    <3>2. CASE ~lane.aborted
      <4>1. ~matches
        BY <1>4, <1>6, <1>11, <3>2 DEF Accepts, Matches
      <4> QED
        BY <1>7, <4>1 DEF Traces
    <3> QED
      BY <3>1, <3>2
  <2>4. \A i \in 1 .. Len(accepted') : u.outcomes[i]
    <3>1. \A i \in 1 .. Len(accepted') :
             i \in 1 .. Len(accepted) /\ i \in 1 .. Len(t.outcomes)
      BY <1>2, <1>4, <1>8, <2>2
    <3> QED
      BY <1>4, <1>7, <3>1, Zenon
  <2>5. u.expected >= lane'.expected
    BY <1>2, <1>4, <1>7, <2>1 DEF Traces, Lane
  <2> QED
    BY <1>1, <1>3, <1>4, <1>7, <1>8, <2>1, <2>3, <2>4, <2>5
    DEF TraceInv, TraceMatchesLane
<1> QED
  BY <1>10, <1>11

LEMMA InitTrace == Init => TraceInv
<1> SUFFICES ASSUME Init PROVE TraceInv
  OBVIOUS
<1>1. lane = NewLane /\ observed = << >> /\ accepted = << >>
  BY DEF Init
<1>2. Trace = EmptyTrace(0)
  BY <1>1, TraceIs, TraceEmpty
<1>3. EmptyTrace(0) \in Traces /\ NewLane \in Lane
  BY SeqMaxAssumption DEF EmptyTrace, Traces, NewLane, Lane
<1> QED
  BY <1>1, <1>2, <1>3
  DEF TraceInv, HistoryOK, TraceMatchesLane, EmptyTrace, NewLane

LEMMA NextTrace == TraceInv /\ [Next]_vars => TraceInv'
<1> SUFFICES ASSUME TraceInv, [Next]_vars PROVE TraceInv'
  OBVIOUS
<1>1. CASE UNCHANGED vars
  BY <1>1 DEF vars, TraceInv, HistoryOK, TraceMatchesLane, Trace
<1>2. CASE Next
  BY <1>2, ObserveTrace DEF Next
<1> QED
  BY <1>1, <1>2

(* In every implementation the trace and the lane abort on the same input, *)
(* agree up to there, and the trace never falls behind.                    *)
THEOREM TraceTellsLane == Spec => []TraceMatchesLane
<1>1. TraceInv => TraceMatchesLane
  BY DEF TraceInv
<1> QED
  BY <1>1, InitTrace, NextTrace, PTL DEF Spec

-----------------------------------------------------------------------------
(* The invariant of the lanes of the languages beside the one that runs:   *)
(* the counter has not reached its end while it counts what was accepted.  *)
LanesAgree ==
    Len(accepted) <= SeqMax =>
        /\ LaneAfter("rs", observed) = lane
        /\ LaneAfter("ts", observed) = lane
        /\ lane.expected = Len(accepted)

(* The traces of TypeScript and of Rust: the counter of Rust stays in the  *)
(* field's range, and while that of TypeScript does they are the same.     *)
TracesAlike(t, r) ==
    /\ t \in Traces /\ r \in Traces /\ r.expected <= SeqMax
    /\ t.expected <= SeqMax => r = t

TracesAgree ==
    TracesAlike(traceFrom("ts", observed, 0), traceFrom("rs", observed, 0))

AgreeInv == HistoryOK /\ LanesAgree /\ TracesAgree

LEMMA ObserveLanes ==
    ASSUME AgreeInv, NEW n \in Observations, Observe(n)
    PROVE  LanesAgree'
<1>1. /\ n \in Int /\ lane \in Lane /\ observed \in Seq(Int) /\ accepted \in Seq(Int)
  BY ObservationsAssumption DEF HistoryOK, AgreeInv
<1>2. /\ observed' = Append(observed, n) /\ lane' = LaneStep(Here, lane, n)
  BY <1>1, StepCases DEF Observe
<1>3. Len(accepted') = IF Accepts(lane, n) THEN Len(accepted) + 1 ELSE Len(accepted)
  BY <1>1 DEF Observe
<1>4. SUFFICES ASSUME Len(accepted') <= SeqMax
               PROVE  /\ LaneAfter("rs", observed') = lane'
                      /\ LaneAfter("ts", observed') = lane'
                      /\ lane'.expected = Len(accepted')
  BY DEF LanesAgree
<1>5. Len(accepted) <= SeqMax /\ Len(accepted) \in Nat
  BY <1>1, <1>3, <1>4, SeqMaxAssumption
<1>6. /\ LaneAfter("rs", observed) = lane /\ LaneAfter("ts", observed) = lane
      /\ lane.expected = Len(accepted)
  BY <1>5 DEF AgreeInv, LanesAgree
<1>7. /\ LaneAfter("rs", observed') = TryAcceptRs(lane, n)
      /\ LaneAfter("ts", observed') = TryAcceptTs(lane, n)
  BY <1>1, <1>2, <1>6, LaneAppend DEF LaneStep
<1>8. CASE Accepts(lane, n)
  <2>1. lane.expected # SeqMax
    BY <1>3, <1>4, <1>5, <1>6, <1>8, SeqMaxAssumption
  <2>2. SaturatingIncrement(lane.expected) = lane.expected + 1
    BY <2>1 DEF SaturatingIncrement
  <2>3. /\ TryAcceptRs(lane, n) = [lane EXCEPT !.expected = lane.expected + 1]
        /\ TryAcceptTs(lane, n) = [lane EXCEPT !.expected = lane.expected + 1]
    BY <1>1, <1>8, <2>2 DEF TryAcceptRs, TryAcceptTs, Lane
  <2>4. lane' = [lane EXCEPT !.expected = lane.expected + 1]
    BY <1>2, <2>3 DEF LaneStep
  <2> QED
    BY <1>1, <1>3, <1>6, <1>7, <1>8, <2>3, <2>4 DEF Lane
<1>9. CASE ~Accepts(lane, n)
  <2>1. TryAcceptRs(lane, n) = AbortLane(lane) /\ TryAcceptTs(lane, n) = AbortLane(lane)
    BY <1>9 DEF TryAcceptRs, TryAcceptTs
  <2>2. lane' = AbortLane(lane)
    BY <1>2, <2>1 DEF LaneStep
  <2> QED
    BY <1>1, <1>3, <1>6, <1>7, <1>9, <2>1, <2>2 DEF AbortLane, Lane
<1> QED
  BY <1>8, <1>9

LEMMA BothStep ==
    ASSUME NEW t, NEW r, TracesAlike(t, r), NEW n \in Int
    PROVE  TracesAlike(TraceStep("ts", t, n), TraceStep("rs", r, n))
<1>1. /\ t \in Traces /\ r \in Traces /\ r.expected <= SeqMax
      /\ t.expected <= SeqMax => r = t
  BY DEF TracesAlike
<1>2. PICK u : u = TraceStep("ts", t, n)
  OBVIOUS
<1>3. PICK v : v = TraceStep("rs", r, n)
  OBVIOUS
<1>4. StepsTo("ts", t, n, u) /\ StepsTo("rs", r, n, v)
  BY <1>1, <1>2, <1>3, TraceStepCases
<1>5. u \in Traces /\ u.expected >= t.expected
      /\ u.expected = IF Matches(t, n) THEN t.expected + 1 ELSE t.expected
  BY <1>4 DEF StepsTo, Increment
<1>6. v \in Traces /\ v.expected <= SeqMax
  BY <1>1, <1>4, SeqMaxAssumption DEF StepsTo, Increment, SaturatingIncrement, Traces
<1>7. ASSUME u.expected <= SeqMax
      PROVE  v = u
  <2>1. t.expected <= SeqMax /\ r = t
    BY <1>1, <1>5, <1>7, SeqMaxAssumption DEF Traces
  <2>2. CASE Matches(t, n)
    <3>1. t.expected # SeqMax
      BY <1>1, <1>5, <1>7, <2>2, SeqMaxAssumption DEF Traces
    <3>2. Increment("rs", t.expected) = Increment("ts", t.expected)
      BY <3>1 DEF Increment, SaturatingIncrement
    <3> QED
      BY <1>2, <1>3, <2>1, <2>2, <3>2 DEF TraceStep, Matches
  <2>3. CASE ~Matches(t, n)
    BY <1>2, <1>3, <2>1, <2>3 DEF TraceStep, Matches
  <2> QED
    BY <2>2, <2>3
<1> QED
  BY <1>2, <1>3, <1>5, <1>6, <1>7 DEF TracesAlike

LEMMA EmptyTraces == TracesAlike(EmptyTrace(0), EmptyTrace(0))
BY SeqMaxAssumption DEF EmptyTrace, Traces, TracesAlike

LEMMA ObserveTraces ==
    ASSUME AgreeInv, NEW n \in Observations, Observe(n)
    PROVE  TracesAgree'
<1>1. n \in Int /\ observed \in Seq(Int) /\ observed' = Append(observed, n)
  BY ObservationsAssumption DEF HistoryOK, AgreeInv, Observe
<1>2. PICK t, r : t = traceFrom("ts", observed, 0) /\ r = traceFrom("rs", observed, 0)
  OBVIOUS
<1>3. /\ traceFrom("ts", observed', 0) = TraceStep("ts", t, n)
      /\ traceFrom("rs", observed', 0) = TraceStep("rs", r, n)
  BY <1>1, <1>2, TraceAppend
<1>4. TracesAlike(t, r)
  BY <1>2 DEF AgreeInv, TracesAgree
<1> QED
  BY <1>1, <1>3, <1>4, BothStep DEF TracesAgree

LEMMA InitAgree == Init => AgreeInv
<1> SUFFICES ASSUME Init PROVE AgreeInv
  OBVIOUS
<1>1. lane = NewLane /\ observed = << >> /\ accepted = << >>
  BY DEF Init
<1>2. /\ traceFrom("ts", observed, 0) = EmptyTrace(0)
      /\ traceFrom("rs", observed, 0) = EmptyTrace(0)
      /\ LaneAfter("ts", observed) = NewLane /\ LaneAfter("rs", observed) = NewLane
  BY <1>1, TraceEmpty, LaneEmpty
<1>3. HistoryOK
  BY <1>1, InitTrace DEF TraceInv
<1> QED
  BY <1>1, <1>2, <1>3, EmptyTraces DEF AgreeInv, LanesAgree, TracesAgree, NewLane

LEMMA NextAgree == AgreeInv /\ [Next]_vars => AgreeInv'
<1> SUFFICES ASSUME AgreeInv, [Next]_vars PROVE AgreeInv'
  OBVIOUS
<1>1. CASE UNCHANGED vars
  BY <1>1 DEF vars, AgreeInv, HistoryOK, LanesAgree, TracesAgree
<1>2. ASSUME NEW n \in Observations, Observe(n)
      PROVE  AgreeInv'
  <2>1. HistoryOK'
    BY <1>2, ObserveHistory DEF AgreeInv
  <2> QED
    BY <1>2, <2>1, ObserveLanes, ObserveTraces DEF AgreeInv
<1> QED
  BY <1>1, <1>2 DEF Next

(* While the counter of Rust has not reached its end, it gives the lanes   *)
(* and the traces that TypeScript gives, on every input.                   *)
THEOREM LanguagesAgree == Spec => []ImplementationsAgree
<1>1. AgreeInv => ImplementationsAgree
  BY DEF AgreeInv, LanesAgree, TracesAgree, TracesAlike, ImplementationsAgree,
         traceSequenceTs, traceSequenceRs
<1> QED
  BY <1>1, InitAgree, NextAgree, PTL DEF Spec

-----------------------------------------------------------------------------
(* The transcript chains of a language, and computeTranscript, with the    *)
(* language as an argument.                                                *)
AppendOf(language, c, role, message) ==
    IF language = "ts" THEN Chains!appendTs(c, role, message)
                       ELSE Chains!appendPy(c, role, message)

AppendAllOf(language, c, role, messages) ==
    LET after[n \in 0 .. Len(messages)] ==
            IF n = 0 THEN c ELSE AppendOf(language, after[n - 1], role, messages[n])
    IN  after[Len(messages)]

SnapshotOf(language, c) ==
    IF language = "ts" THEN Chains!snapshotTs(c) ELSE Chains!snapshotPy(c)

(* The object of a session with the given digests.                         *)
ObjectOf(language, sid, heads) ==
    IF language = "ts"
    THEN [sid |-> sid, heads |-> heads, context |-> Chains!combineContext(heads)]
    ELSE [sid |-> sid, heads |-> heads]

TranscriptOf(language, nA, nB, v, messagesA, messagesB) ==
    LET sid   == Chains!sessionId(nA, nB)
        start == ObjectOf(language, sid, [r \in Chains!Roles |-> Chains!Genesis(v, sid, r)])
    IN  SnapshotOf(language,
            AppendAllOf(language,
                AppendAllOf(language, start, "A", messagesA), "B", messagesB))

(* The digests after the given messages.                                   *)
HeadsOf(v, sid, messages) ==
    [role \in Chains!Roles |-> Chains!Genesis(v, sid, role) \o messages[role]]

(* A list for each role, and one of them continued.                        *)
ListsOver(S, lists) == lists \in [Chains!Roles -> Seq(S)]
Continued(lists, role, list) == [lists EXCEPT ![role] = @ \o list]

TranscriptAfter(sid, v, messages) ==
    [sid |-> sid, heads |-> HeadsOf(v, sid, messages),
     contextHash |-> Chains!combineContext(HeadsOf(v, sid, messages))]

(* append extends one digest and leaves the object consistent.             *)
LEMMA AppendOfIs ==
    ASSUME NEW language, NEW sid, NEW digests, NEW role, NEW m
    PROVE  AppendOf(language, ObjectOf(language, sid, digests), role, m) =
             ObjectOf(language, sid, [digests EXCEPT ![role] = Append(@, m)])
<1> DEFINE longer == [digests EXCEPT ![role] = Append(@, m)]
<1>1. CASE language = "ts"
  <2>1. PICK c : c = ObjectOf(language, sid, digests)
    OBVIOUS
  <2>2. c = [sid |-> sid, heads |-> digests, context |-> Chains!combineContext(digests)]
    BY <1>1, <2>1 DEF ObjectOf
  <2>3. AppendOf(language, c, role, m)
          = [c EXCEPT !.heads = longer, !.context = Chains!combineContext(longer)]
    BY <1>1, <2>2 DEF AppendOf, Chains!appendTs, Chains!Extend
  <2> HIDE DEF longer
  <2>4. AppendOf(language, c, role, m)
          = [sid |-> sid, heads |-> longer, context |-> Chains!combineContext(longer)]
    BY <2>2, <2>3
  <2> QED
    BY <1>1, <2>1, <2>4 DEF ObjectOf, longer
<1>2. CASE language # "ts"
  BY <1>2 DEF ObjectOf, AppendOf, Chains!appendPy, Chains!Extend
<1> QED
  BY <1>1, <1>2

(* Both snapshots are the digests and their combination.                   *)
LEMMA SnapshotOfIs ==
    ASSUME NEW language, NEW sid, NEW heads
    PROVE  SnapshotOf(language, ObjectOf(language, sid, heads)) =
             [sid |-> sid, heads |-> heads, contextHash |-> Chains!combineContext(heads)]
BY DEF ObjectOf, SnapshotOf, Chains!snapshotTs, Chains!snapshotPy

LEMMA ConcatAppend ==
    ASSUME NEW S, NEW s \in Seq(S), NEW t \in Seq(S), NEW x \in S
    PROVE  s \o Append(t, x) = Append(s \o t, x)
OBVIOUS

LEMMA ConcatSubSeq ==
    ASSUME NEW S, NEW s \in Seq(S), NEW list \in Seq(S), NEW n \in 1 .. Len(list)
    PROVE  /\ s \o SubSeq(list, 1, n) = Append(s \o SubSeq(list, 1, n - 1), list[n])
           /\ SubSeq(list, 1, n - 1) \in Seq(S)
<1>1. /\ SubSeq(list, 1, n) = Append(SubSeq(list, 1, n - 1), list[n])
      /\ SubSeq(list, 1, n - 1) \in Seq(S) /\ list[n] \in S
  OBVIOUS
<1>2. PICK t \in Seq(S) : t = SubSeq(list, 1, n - 1)
  BY <1>1
<1>3. s \o Append(t, list[n]) = Append(s \o t, list[n])
  BY <1>1, ConcatAppend
<1> QED
  BY <1>1, <1>2, <1>3

(* The loop of computeTranscript over the messages of one role.            *)
LEMMA AppendAllOfIs ==
    ASSUME NEW language, NEW sid, NEW S, NEW heads, ListsOver(S, heads),
           NEW role \in Chains!Roles, NEW messages \in Seq(S)
    PROVE  AppendAllOf(language, ObjectOf(language, sid, heads), role, messages)
             = ObjectOf(language, sid, Continued(heads, role, messages))
<1> DEFINE N == Len(messages)
           Longer(n) == [heads EXCEPT ![role] = @ \o SubSeq(messages, 1, n)]
           At(h) == ObjectOf(language, sid, h)
           Body(f) == [n \in 0 .. N |-> IF n = 0 THEN At(heads)
                                        ELSE AppendOf(language, f[n - 1], role, messages[n])]
           after == CHOOSE f : f = Body(f)
           closed == [n \in 0 .. N |-> At(Longer(n))]
<1> USE DEF ListsOver
<1>1. N \in Nat /\ heads[role] \in Seq(S) /\ messages \in Seq(S)
  OBVIOUS
<1>2. AppendAllOf(language, At(heads), role, messages) = after[N]
  BY DEF AppendAllOf
<1>3. Longer(0) = heads
  <2>1. SubSeq(messages, 1, 0) = << >>
    BY <1>1
  <2>2. heads[role] \o SubSeq(messages, 1, 0) = heads[role]
    BY <1>1, <2>1
  <2> QED
    BY <2>2
<1>4. ASSUME NEW n \in 1 .. N
      PROVE  At(Longer(n)) = AppendOf(language, At(Longer(n - 1)), role, messages[n])
  <2>1. heads[role] \o SubSeq(messages, 1, n)
          = Append(heads[role] \o SubSeq(messages, 1, n - 1), messages[n])
    BY <1>1, ConcatSubSeq
  <2>2. Longer(n) = [Longer(n - 1) EXCEPT ![role] = Append(@, messages[n])]
    BY <2>1
  <2> HIDE DEF Longer
  <2> QED
    BY <2>2, AppendOfIs
<1> HIDE DEF Longer, At
<1>5. after = Body(after)
  <2>1. closed = Body(closed)
    BY <1>1, <1>3, <1>4
  <2> HIDE DEF Body, closed
  <2> QED
    BY <2>1
<1>6. \A n \in 0 .. N : after[n] = closed[n]
  <2> HIDE DEF after
  <2>1. after[0] = closed[0]
    BY <1>1, <1>3, <1>5
  <2>2. ASSUME NEW n \in 1 .. N, after[n - 1] = closed[n - 1]
        PROVE  after[n] = closed[n]
    <3>1. after[n] = AppendOf(language, after[n - 1], role, messages[n])
      BY <1>1, <1>5
    <3>2. closed[n] = At(Longer(n)) /\ closed[n - 1] = At(Longer(n - 1))
      BY <1>1
    <3> QED
      BY <1>4, <2>2, <3>1, <3>2
  <2> HIDE DEF closed
  <2> QED
    BY <1>1, <2>1, <2>2, SameLoop, ZenonT(40) DEF StayAlike, Alike
<1>7. Longer(N) = Continued(heads, role, messages)
  <2>1. SubSeq(messages, 1, N) = messages
    BY <1>1
  <2> QED
    BY <2>1 DEF Longer, Continued
<1>8. closed[N] = At(Longer(N))
  BY <1>1
<1> QED
  BY <1>1, <1>2, <1>6, <1>7, <1>8 DEF At

LEMMA GenesisIs ==
    ASSUME NEW v, NEW sid
    PROVE  /\ Chains!Genesis(v, sid, "A") = << <<v, sid, "ALICE">> >>
           /\ Chains!Genesis(v, sid, "B") = << <<v, sid, "BOB">> >>
BY DEF Chains!Genesis, Chains!Label

(* computeTranscript in closed form, the same in every language.           *)
LEMMA TranscriptOfIs ==
    ASSUME NEW language, NEW nA, NEW nB, NEW v, NEW S,
           NEW messages, ListsOver(S, messages)
    PROVE  TranscriptOf(language, nA, nB, v, messages["A"], messages["B"])
             = TranscriptAfter(Chains!sessionId(nA, nB), v, messages)
<1>0. PICK sid : sid = Chains!sessionId(nA, nB)
  OBVIOUS
<1>1. PICK list, rest : list = messages["A"] /\ rest = messages["B"]
  OBVIOUS
<1>2. PICK a, b : a = <<v, sid, "ALICE">> /\ b = <<v, sid, "BOB">>
  OBVIOUS
<1>3. PICK T : T = S \cup {a, b}
  OBVIOUS
<1>4. /\ "A" \in Chains!Roles /\ "B" \in Chains!Roles /\ Chains!Roles = {"A", "B"}
      /\ list \in Seq(T) /\ rest \in Seq(T) /\ <<a>> \in Seq(T) /\ <<b>> \in Seq(T)
  BY <1>1, <1>3 DEF Chains!Roles, ListsOver
<1>5. PICK start : start = [role \in Chains!Roles |-> Chains!Genesis(v, sid, role)]
  OBVIOUS
<1>6. PICK middle : middle = Continued(start, "A", list)
  OBVIOUS
<1>7. start["A"] = <<a>> /\ start["B"] = <<b>> /\ ListsOver(T, start)
  <2>1. Chains!Genesis(v, sid, "A") = <<a>> /\ Chains!Genesis(v, sid, "B") = <<b>>
    BY <1>2, GenesisIs
  <2> QED
    BY <1>4, <1>5, <2>1 DEF ListsOver
<1>8. ListsOver(T, middle)
  <2>1. start["A"] \o list \in Seq(T)
    BY <1>4, <1>7
  <2> QED
    BY <1>4, <1>6, <1>7, <2>1 DEF ListsOver, Continued
<1>9. Continued(middle, "B", rest) = HeadsOf(v, sid, messages)
  BY <1>1, <1>4, <1>5, <1>6 DEF HeadsOf, Continued
<1>10. AppendAllOf(language, ObjectOf(language, sid, start), "A", list)
         = ObjectOf(language, sid, middle)
  BY <1>4, <1>6, <1>7, AppendAllOfIs
<1>11. AppendAllOf(language, ObjectOf(language, sid, middle), "B", rest)
         = ObjectOf(language, sid, HeadsOf(v, sid, messages))
  BY <1>4, <1>8, <1>9, AppendAllOfIs
<1> QED
  BY <1>0, <1>1, <1>5, <1>10, <1>11, SnapshotOfIs DEF TranscriptOf, TranscriptAfter

-----------------------------------------------------------------------------
Sid == Chains!sessionId(Chains!nonceA, Chains!nonceB)

(* The object with the given digests.                                      *)
At(heads) == ObjectOf(Impl, Sid, heads)

(* The digests after the given messages.                                   *)
HeadsAfter(messages) == HeadsOf(version, Sid, messages)

(* The inductive invariant: the object is what its messages make it.       *)
ChainInv ==
    /\ appended \in [Chains!Roles -> Seq(Messages)]
    /\ chain = At(HeadsAfter(appended))

LEMMA GenesisType ==
    ASSUME NEW role \in Chains!Roles
    PROVE  \E input : Chains!GenesisOf(role) = <<input>>
BY DEF Chains!GenesisOf, Chains!Genesis

LEMMA AppendAt ==
    ASSUME NEW digests, NEW role, NEW m
    PROVE  Chains!append(At(digests), role, m) =
             At([digests EXCEPT ![role] = Append(@, m)])
<1>1. PICK c : c = At(digests)
  OBVIOUS
<1>2. Chains!append(c, role, m) = AppendOf(Impl, c, role, m)
  BY DEF Chains!append, AppendOf
<1> QED
  BY <1>1, <1>2, AppendOfIs DEF At

LEMMA SnapshotAt ==
    ASSUME NEW heads
    PROVE  Chains!snapshot(At(heads)) =
             [sid |-> Sid, heads |-> heads, contextHash |-> Chains!combineContext(heads)]
BY SnapshotOfIs DEF At, Chains!snapshot, SnapshotOf

LEMMA NewChainAt ==
    Chains!NewChain(Chains!nonceA, Chains!nonceB, version) =
        At([role \in Chains!Roles |-> Chains!GenesisOf(role)])
BY
DEF Chains!NewChain, Chains!NewChainTs, Chains!NewChainPy, At, ObjectOf, Chains!GenesisOf,
    Sid

LEMMA ComputeTranscriptIs ==
    ASSUME NEW messages, ListsOver(Messages, messages)
    PROVE  Chains!computeTranscript(Chains!nonceA, Chains!nonceB, version,
                                    messages["A"], messages["B"])
             = Chains!snapshot(At(HeadsAfter(messages)))
<1>1. ASSUME NEW list, NEW rest
      PROVE  Chains!computeTranscript(Chains!nonceA, Chains!nonceB, version, list, rest)
               = TranscriptOf(Impl, Chains!nonceA, Chains!nonceB, version, list, rest)
  BY DEF Chains!computeTranscript, TranscriptOf, Chains!NewChain, Chains!NewChainTs,
         Chains!NewChainPy, ObjectOf, Chains!snapshot, SnapshotOf, Chains!appendAll,
         AppendAllOf, Chains!append, AppendOf
<1>2. TranscriptOf(Impl, Chains!nonceA, Chains!nonceB, version, messages["A"], messages["B"])
        = TranscriptAfter(Sid, version, messages)
  BY TranscriptOfIs DEF Sid
<1>3. PICK heads : heads = HeadsAfter(messages)
  OBVIOUS
<1>4. Chains!snapshot(At(heads)) = TranscriptAfter(Sid, version, messages)
  BY <1>3, SnapshotAt DEF HeadsAfter, TranscriptAfter
<1> QED
  BY <1>1, <1>2, <1>3, <1>4

-----------------------------------------------------------------------------
LEMMA InitChain == Chains!Init => ChainInv
<1> SUFFICES ASSUME Chains!Init PROVE ChainInv
  OBVIOUS
<1>1. appended \in [Chains!Roles -> Seq(Messages)]
  BY DEF Chains!Init
<1>2. HeadsAfter(appended) = [role \in Chains!Roles |-> Chains!GenesisOf(role)]
  <2>1. ASSUME NEW role \in Chains!Roles
        PROVE  Chains!GenesisOf(role) \o appended[role] = Chains!GenesisOf(role)
    BY GenesisType DEF Chains!Init
  <2> QED
    BY <2>1 DEF HeadsAfter, HeadsOf, Sid, Chains!GenesisOf
<1> QED
  BY <1>1, <1>2, NewChainAt DEF Chains!Init, ChainInv

LEMMA ChainAppend ==
    ASSUME ChainInv, NEW role \in Chains!Roles, NEW message \in Messages,
           Chains!AppendMessage(role, message)
    PROVE  /\ ChainInv'
           /\ HeadsAfter(appended)'
                = [HeadsAfter(appended) EXCEPT ![role] = Append(@, message)]
<1> DEFINE heads == HeadsAfter(appended)
<1>1. appended \in [Chains!Roles -> Seq(Messages)] /\ chain = At(heads)
  BY DEF ChainInv
<1>2. /\ appended' = [appended EXCEPT ![role] = Append(@, message)]
      /\ appended' \in [Chains!Roles -> Seq(Messages)]
  BY <1>1 DEF Chains!AppendMessage
<1>3. HeadsAfter(appended)' = [heads EXCEPT ![role] = Append(@, message)]
  <2>1. ASSUME NEW r \in Chains!Roles
        PROVE  Chains!GenesisOf(r) \o appended'[r]
                 = [heads EXCEPT ![role] = Append(@, message)][r]
    <3>1. CASE r = role
      <4>1. appended'[r] = Append(appended[r], message)
        BY <1>1, <1>2, <3>1
      <4>2. PICK input : Chains!GenesisOf(r) = <<input>>
        BY GenesisType
      <4>3. PICK S : S = Messages \cup {input}
        OBVIOUS
      <4>4. <<input>> \in Seq(S) /\ appended[r] \in Seq(S) /\ message \in S
        BY <1>1, <4>3
      <4>5. Chains!GenesisOf(r) \o Append(appended[r], message)
              = Append(Chains!GenesisOf(r) \o appended[r], message)
        BY <4>2, <4>4, ConcatAppend
      <4> QED
        BY <3>1, <4>1, <4>5 DEF HeadsAfter, HeadsOf, Sid, Chains!GenesisOf
    <3>2. CASE r # role
      BY <1>1, <1>2, <3>2 DEF HeadsAfter, HeadsOf, Sid, Chains!GenesisOf
    <3> QED
      BY <3>1, <3>2
  <2> QED
    BY <2>1 DEF HeadsAfter, HeadsOf, Sid, Chains!GenesisOf
<1>4. chain' = At(HeadsAfter(appended)')
  <2>1. PICK digests : digests = heads
    OBVIOUS
  <2> HIDE DEF heads
  <2>2. Chains!append(At(digests), role, message)
          = At([digests EXCEPT ![role] = Append(@, message)])
    BY AppendAt, Zenon
  <2> QED
    BY <1>1, <1>3, <2>1, <2>2 DEF Chains!AppendMessage
<1> QED
  BY <1>2, <1>3, <1>4 DEF ChainInv

LEMMA NextChain == ChainInv /\ [Chains!Next]_Chains!vars => ChainInv'
<1> SUFFICES ASSUME ChainInv, [Chains!Next]_Chains!vars PROVE ChainInv'
  OBVIOUS
<1>1. CASE UNCHANGED Chains!vars
  BY <1>1 DEF Chains!vars, ChainInv
<1> QED
  BY <1>1, ChainAppend DEF Chains!Next

(* However the appends of the two roles were interleaved, the object has   *)
(* the digests and the context hash that computeTranscript finds.          *)
THEOREM SnapshotCorrect == Chains!Spec => []SnapshotMatchesBatch
<1>1. ChainInv => SnapshotMatchesBatch
  BY ComputeTranscriptIs
  DEF ChainInv, ListsOver, SnapshotMatchesBatch, Chains!SnapshotMatchesBatch
<1> QED
  BY <1>1, InitChain, NextChain, PTL DEF Chains!Spec

-----------------------------------------------------------------------------
(* Of the chains that the mirror keeps.                                    *)
LEMMA ChainsAre ==
    ASSUME ChainInv
    PROVE  /\ \A role \in Chains!Roles :
                Chains!ChainOf(role) = [genesis |-> Chains!GenesisOf(role),
                                 current |-> HeadsAfter(appended)[role],
                                 messages |-> appended[role]]
           /\ Chains!snapshot(chain).contextHash
                = <<HeadsAfter(appended)["A"], HeadsAfter(appended)["B"]>>
<1>1. chain.heads = HeadsAfter(appended)
  BY DEF ChainInv, At, ObjectOf
<1>2. Chains!snapshot(chain).contextHash = Chains!combineContext(HeadsAfter(appended))
  BY SnapshotAt DEF ChainInv
<1> QED
  BY <1>1, <1>2 DEF Chains!ChainOf, Chains!combineContext

LEMMA LeanAppend ==
    ASSUME NEW g, NEW c, NEW list, NEW m
    PROVE  Chains!Lean!AppendTo([genesis |-> g, current |-> c, messages |-> list], m)
             = [genesis |-> g, current |-> Append(c, m), messages |-> Append(list, m)]
<1>1. PICK r : r = [genesis |-> g, current |-> c, messages |-> list]
  OBVIOUS
<1>2. PICK x : x = Append(c, m)
  OBVIOUS
<1>3. PICK y : y = Append(list, m)
  OBVIOUS
<1>4. Chains!Lean!AppendTo(r, m) = [r EXCEPT !.current = x, !.messages = y]
  BY <1>1, <1>2, <1>3 DEF Chains!Lean!AppendTo
<1>5. Chains!Lean!AppendTo(r, m) = [genesis |-> g, current |-> x, messages |-> y]
  BY <1>1, <1>4
<1> QED
  BY <1>1, <1>2, <1>3, <1>5

LEMMA InitLeanChain == Chains!Init => Chains!Lean!Init
<1> SUFFICES ASSUME Chains!Init PROVE Chains!Lean!Init
  OBVIOUS
<1>1. ChainInv
  BY InitChain
<1>2. ASSUME NEW role \in Chains!Roles
      PROVE  /\ HeadsAfter(appended)[role] = Chains!GenesisOf(role)
             /\ appended[role] = << >>
  BY GenesisType DEF Chains!Init, HeadsAfter, HeadsOf, Sid, Chains!GenesisOf
<1> QED
  BY <1>1, <1>2, ChainsAre
  DEF Chains!Lean!Init, Chains!Lean!InitialChain, Chains!Lean!ContextOf,
      Chains!Roles

LEMMA AppendIsLean ==
    ASSUME ChainInv, NEW role \in Chains!Roles, NEW message \in Messages,
           Chains!AppendMessage(role, message)
    PROVE  Chains!Lean!Next
<1> DEFINE heads == HeadsAfter(appended)
<1>1. /\ ChainInv' /\ DOMAIN heads = Chains!Roles /\ DOMAIN appended = Chains!Roles
      /\ HeadsAfter(appended)' = [heads EXCEPT ![role] = Append(@, message)]
      /\ appended' = [appended EXCEPT ![role] = Append(@, message)]
  BY ChainAppend DEF ChainInv, HeadsAfter, HeadsOf, Chains!AppendMessage
<1>2. ASSUME NEW r \in Chains!Roles
      PROVE  Chains!ChainOf(r)' = [genesis |-> Chains!GenesisOf(r),
                            current |-> HeadsAfter(appended)'[r],
                            messages |-> appended'[r]]
  <2>1. chain'.heads = HeadsAfter(appended)'
    BY <1>1 DEF ChainInv, At, ObjectOf
  <2> QED
    BY <2>1 DEF Chains!ChainOf
<1>3. Chains!snapshot(chain').contextHash =
        Chains!Lean!ContextOf(Chains!ChainOf("A")', Chains!ChainOf("B")')
  <2>1. chain' = At(HeadsAfter(appended)')
    BY <1>1 DEF ChainInv
  <2>2. Chains!snapshot(chain').contextHash =
          Chains!combineContext(HeadsAfter(appended)')
    BY <2>1, SnapshotAt
  <2> QED
    BY <1>2, <2>2 DEF Chains!Lean!ContextOf, Chains!combineContext, Chains!Roles
<1>4. Chains!ChainOf(role)' = Chains!Lean!AppendTo(Chains!ChainOf(role), message)
  <2>1. Chains!ChainOf(role) =
          [genesis |-> Chains!GenesisOf(role), current |-> heads[role],
           messages |-> appended[role]]
    BY ChainsAre
  <2>2. /\ HeadsAfter(appended)'[role] = Append(heads[role], message)
        /\ appended'[role] = Append(appended[role], message)
    BY <1>1
  <2>3. Chains!ChainOf(role)' = [genesis |-> Chains!GenesisOf(role),
                          current |-> Append(heads[role], message),
                          messages |-> Append(appended[role], message)]
    BY <1>2, <2>2
  <2> HIDE DEF heads
  <2>4. Chains!Lean!AppendTo(
            [genesis |-> Chains!GenesisOf(role), current |-> heads[role],
             messages |-> appended[role]], message)
          = [genesis |-> Chains!GenesisOf(role), current |-> Append(heads[role], message),
             messages |-> Append(appended[role], message)]
    BY LeanAppend
  <2> QED
    BY <2>1, <2>3, <2>4
<1>5. ASSUME NEW r \in Chains!Roles \ {role}
      PROVE  Chains!ChainOf(r)' = Chains!ChainOf(r)
  <2>1. HeadsAfter(appended)'[r] = heads[r] /\ appended'[r] = appended[r]
    BY <1>1
  <2> QED
    BY <1>2, <2>1, ChainsAre
<1> QED
  BY <1>3, <1>4, <1>5
  DEF Chains!Lean!Next, Chains!Lean!appendAlice, Chains!Lean!appendBob, Chains!Roles

(* An object in any of the three languages is the transcript of the Lean   *)
(* mirror, so what Lean proves of that holds of it.                        *)
THEOREM ChainImplementsLean == Chains!Spec => ImplementsLeanTranscript
<1>1. ChainInv /\ [Chains!Next]_Chains!vars => [Chains!Lean!Next]_Chains!Lean!vars
  <2> SUFFICES ASSUME ChainInv, [Chains!Next]_Chains!vars
               PROVE  [Chains!Lean!Next]_Chains!Lean!vars
    OBVIOUS
  <2>1. CASE UNCHANGED Chains!vars
    BY <2>1 DEF Chains!vars, Chains!Lean!vars, Chains!ChainOf
  <2> QED
    BY <2>1, AppendIsLean DEF Chains!Next
<1> QED
  BY <1>1, InitChain, InitLeanChain, NextChain, PTL
  DEF Chains!Spec, ImplementsLeanTranscript, Chains!ImplementsLeanTranscript,
      Chains!Lean!Spec

-----------------------------------------------------------------------------
(* The gate.  A run compares the outputs that an executor gives now with   *)
(* pins that were read earlier and may be rewritten meanwhile; GateInv     *)
(* says at every stage what the stages before have settled.                *)

(* A value that is a function, as every answer of an executor is.          *)
IsFcn(f) == f = [x \in DOMAIN f |-> f[x]]

(* The lists that a manifest is: Size vectors with a pin each.             *)
PinnedList(vectors) ==
    /\ vectors = [i \in 1 .. Size |-> vectors[i]]
    /\ \A i \in 1 .. Size :
           /\ vectors[i] = Gate!Pinned(vectors[i], vectors[i].inputs, vectors[i].expected)
           /\ InputsOK(vectors[i].operation, vectors[i].inputs)
           /\ IsFcn(vectors[i].expected) /\ vectors[i].expected # Gate!Throws

Agrees(language) ==
    \A i \in 1 .. Size : Gate!Run(language, file[i]) = file[i].expected

(* What an update that finds the same pins leaves of what was read.        *)
SameButDigits ==
    \A i \in 1 .. Size :
        \/ file[i] = manifest[i]
        \/ file[i] = Gate!Rewritten(manifest[i], manifest[i].expected)

GateInv ==
    /\ build \in Builds /\ PinnedList(file)
    /\ stage \in {"idle", "update", "updated", "ts", "py", "rs", "done"}
    /\ stage # "idle" => PinnedList(manifest)
    /\ stage # "idle" /\ ~rewrote => manifest = file
    /\ stage = "update" => manifest = file
    /\ stage \in {"update", "updated", "ts", "py"} => failures = {}
    /\ stage = "updated" =>
           \A i \in 1 .. Size :
               file[i] = Gate!Rewritten(manifest[i], Gate!Run("ts", manifest[i]))
    /\ stage \in {"ts", "py", "rs"} => SameButDigits
    /\ stage \in {"py", "rs"} => Gate!WellFormed(file) /\ Agrees("ts")
    /\ stage = "rs" => (failures = {} <=> Agrees("py"))
    /\ Gate!VerdictIsTrue

-----------------------------------------------------------------------------
(* What becomes of the numbers among the inputs.                           *)
NumberKeys == {"sequence", "length", "message_type", "version"}
ListKeys == {"sequences", "bases"}

LEMMA ConvertedIs ==
    ASSUME NEW operation, NEW inputs, InputsOK(operation, inputs),
           NEW f \in [Numbers -> Numbers], NEW c, c = Gate!Converted(inputs, f)
    PROVE  /\ DOMAIN c = DOMAIN inputs /\ c = [key \in DOMAIN c |-> c[key]]
           /\ \A key \in DOMAIN inputs \ (NumberKeys \cup ListKeys) : c[key] = inputs[key]
           /\ \A key \in NumberKeys \cap DOMAIN inputs :
                 inputs[key] \in Numbers /\ c[key] = f[inputs[key]] /\ c[key] \in Numbers
           /\ \A key \in ListKeys \cap DOMAIN inputs :
                 /\ inputs[key] \in Seq(Numbers) /\ c[key] \in Seq(Numbers)
                 /\ c[key] = [i \in 1 .. Len(inputs[key]) |-> f[inputs[key][i]]]
<1>1. DOMAIN c = DOMAIN inputs /\ c = [key \in DOMAIN c |-> c[key]]
  BY DEF Gate!Converted
<1>2. \A key \in DOMAIN inputs \ (NumberKeys \cup ListKeys) : c[key] = inputs[key]
  BY DEF Gate!Converted, NumberKeys, ListKeys
<1>3. ASSUME NEW key \in NumberKeys \cap DOMAIN inputs
      PROVE  inputs[key] \in Numbers /\ c[key] = f[inputs[key]] /\ c[key] \in Numbers
  <2>1. inputs[key] \in Numbers
    BY <1>3 DEF InputsOK, NumberKeys
  <2>2. c[key] = f[inputs[key]]
    BY <1>3 DEF Gate!Converted, NumberKeys
  <2> QED
    BY <2>1, <2>2
<1>4. ASSUME NEW key \in ListKeys \cap DOMAIN inputs
      PROVE  /\ inputs[key] \in Seq(Numbers) /\ c[key] \in Seq(Numbers)
             /\ c[key] = [i \in 1 .. Len(inputs[key]) |-> f[inputs[key][i]]]
  <2>1. PICK list \in Seq(Numbers) : list = inputs[key]
    BY <1>4 DEF InputsOK, ListKeys
  <2>2. c[key] = [i \in DOMAIN inputs[key] |-> f[inputs[key][i]]]
    BY <1>4 DEF Gate!Converted, NumberKeys, ListKeys
  <2>3. c[key] = [i \in 1 .. Len(list) |-> f[list[i]]]
    BY <2>1, <2>2
  <2>4. Len(list) \in Nat /\ \A i \in 1 .. Len(list) : list[i] \in Numbers
    OBVIOUS
  <2>5. [i \in 1 .. Len(list) |-> f[list[i]]] \in Seq(Numbers)
    BY <2>4
  <2> QED
    BY <2>1, <2>3, <2>5
<1> QED
  BY <1>1, <1>2, <1>3, <1>4

(* Two conversions that agree on numbers agree on inputs.                  *)
LEMMA ConvertedAlike ==
    ASSUME NEW operation, NEW inputs, InputsOK(operation, inputs),
           NEW others, InputsOK(operation, others), DOMAIN others = DOMAIN inputs,
           NEW f \in [Numbers -> Numbers], NEW g \in [Numbers -> Numbers],
           others = Gate!Converted(inputs, f),
           NEW h \in [Numbers -> Numbers], \A n \in Numbers : g[f[n]] = h[n]
    PROVE  Gate!Converted(others, g) = Gate!Converted(inputs, h)
<1>1. PICK c, d : c = Gate!Converted(others, g) /\ d = Gate!Converted(inputs, h)
  OBVIOUS
<1>2. /\ DOMAIN c = DOMAIN inputs /\ c = [key \in DOMAIN c |-> c[key]]
      /\ DOMAIN d = DOMAIN inputs /\ d = [key \in DOMAIN d |-> d[key]]
  BY <1>1, ConvertedIs
<1>3. ASSUME NEW key \in DOMAIN inputs
      PROVE  c[key] = d[key]
  <2>1. CASE key \notin NumberKeys \cup ListKeys
    <3>1. c[key] = others[key] /\ others[key] = inputs[key] /\ d[key] = inputs[key]
      BY <1>1, <2>1, ConvertedIs
    <3> QED
      BY <3>1
  <2>2. CASE key \in NumberKeys
    <3>1. /\ inputs[key] \in Numbers /\ c[key] = g[others[key]]
          /\ others[key] = f[inputs[key]] /\ d[key] = h[inputs[key]]
      BY <1>1, <2>2, ConvertedIs
    <3> QED
      BY <3>1
  <2>3. CASE key \in ListKeys
    <3>1. /\ inputs[key] \in Seq(Numbers) /\ others[key] \in Seq(Numbers)
          /\ c[key] = [i \in 1 .. Len(others[key]) |-> g[others[key][i]]]
          /\ others[key] = [i \in 1 .. Len(inputs[key]) |-> f[inputs[key][i]]]
          /\ d[key] = [i \in 1 .. Len(inputs[key]) |-> h[inputs[key][i]]]
      <4>1. key \in ListKeys \cap DOMAIN inputs /\ key \in ListKeys \cap DOMAIN others
        BY <2>3
      <4>2. PICK made : made = others
        OBVIOUS
      <4>5. made = Gate!Converted(inputs, f)
        BY <4>2
      <4>6. inputs[key] \in Seq(Numbers) /\ made[key] \in Seq(Numbers)
        BY <4>1, <4>5, ConvertedIs
      <4>7. made[key] = [i \in 1 .. Len(inputs[key]) |-> f[inputs[key][i]]]
        <5>1. made[key] = [i \in DOMAIN inputs[key] |-> f[inputs[key][i]]]
          BY <4>1, <4>5 DEF Gate!Converted, NumberKeys, ListKeys
        <5>2. PICK list \in Seq(Numbers) : list = inputs[key]
          BY <4>6
        <5>3. made[key] = [i \in 1 .. Len(list) |-> f[list[i]]]
          BY <5>1, <5>2
        <5> QED
          BY <5>2, <5>3
      <4>3. c[key] = [i \in 1 .. Len(others[key]) |-> g[others[key][i]]]
        BY <1>1, <4>1, ConvertedIs
      <4>4. d[key] = [i \in 1 .. Len(inputs[key]) |-> h[inputs[key][i]]]
        BY <1>1, <4>1, ConvertedIs
      <4> QED
        BY <4>2, <4>3, <4>4, <4>6, <4>7
    <3>2. PICK list, made \in Seq(Numbers) : list = inputs[key] /\ made = others[key]
      BY <3>1
    <3>3. Len(list) \in Nat /\ Len(made) = Len(list)
      BY <3>1, <3>2
    <3>4. \A i \in 1 .. Len(list) : list[i] \in Numbers /\ made[i] = f[list[i]]
      BY <3>1, <3>2
    <3>5. /\ c[key] = [i \in 1 .. Len(list) |-> g[made[i]]]
          /\ d[key] = [i \in 1 .. Len(list) |-> h[list[i]]]
      BY <3>1, <3>2, <3>3
    <3> QED
      BY <3>4, <3>5
  <2> QED
    BY <2>1, <2>2, <2>3
<1> QED
  BY <1>1, <1>2, <1>3

(* Inputs that were printed can be read again, as what they were.          *)
LEMMA Reprinted ==
    ASSUME NEW operation, NEW inputs, InputsOK(operation, inputs),
           NEW printed, printed = Gate!Converted(inputs, AsWritten)
    PROVE  /\ InputsOK(operation, printed)
           /\ Gate!Converted(printed, AsDouble) = Gate!Converted(inputs, AsDouble)
           /\ Gate!Converted(printed, AsWritten) = Gate!Converted(inputs, AsWritten)
<1>1. AsWritten \in [Numbers -> Numbers] /\ AsDouble \in [Numbers -> Numbers]
  BY NumbersAssumption
<1>2. DOMAIN printed = DOMAIN inputs /\ printed = [key \in DOMAIN printed |-> printed[key]]
  BY <1>1, ConvertedIs
<1>3. \A key \in NumberKeys \cap DOMAIN printed : printed[key] \in Numbers
  BY <1>1, <1>2, ConvertedIs
<1>4. \A key \in ListKeys \cap DOMAIN printed : printed[key] \in Seq(Numbers)
  BY <1>1, <1>2, ConvertedIs
<1>5. operation = "transcript" =>
         IsList(printed.messagesA) /\ IsList(printed.messagesB)
  <2>1. operation = "transcript" => {"messagesA", "messagesB"} \subseteq DOMAIN inputs
    BY DEF InputsOK, KeysOf
  <2>2. {"messagesA", "messagesB"} \cap (NumberKeys \cup ListKeys) = {}
    BY DEF NumberKeys, ListKeys
  <2>3. operation = "transcript" =>
           printed.messagesA = inputs.messagesA /\ printed.messagesB = inputs.messagesB
    BY <1>1, <2>1, <2>2, ConvertedIs
  <2>4. operation = "transcript" => IsList(inputs.messagesA) /\ IsList(inputs.messagesB)
    BY DEF InputsOK
  <2> QED
    BY <2>3, <2>4
<1>6. operation \in DOMAIN KeysOf => DOMAIN printed = KeysOf[operation]
  BY <1>2 DEF InputsOK
<1>7. InputsOK(operation, printed)
  BY <1>2, <1>3, <1>4, <1>5, <1>6 DEF InputsOK, NumberKeys, ListKeys
<1>8. /\ \A n \in Numbers : AsDouble[AsWritten[n]] = AsDouble[n]
      /\ \A n \in Numbers : AsWritten[AsWritten[n]] = AsWritten[n]
  BY NumbersAssumption
<1>9. Gate!Converted(printed, AsDouble) = Gate!Converted(inputs, AsDouble)
  BY <1>1, <1>2, <1>7, <1>8, ConvertedAlike
<1>10. Gate!Converted(printed, AsWritten) = Gate!Converted(inputs, AsWritten)
  BY <1>1, <1>2, <1>7, <1>8, ConvertedAlike
<1> QED
  BY <1>7, <1>9, <1>10

LEMMA RecordsAreFcns ==
    \A a, b, c, d :
        /\ IsFcn([out |-> a]) /\ IsFcn([error |-> a])
        /\ IsFcn([k_a2b |-> a, k_b2a |-> b]) /\ IsFcn([a2b |-> a, b2a |-> b])
        /\ IsFcn([sid |-> a, h_a |-> b, h_b |-> c, context_hash |-> d])
        /\ IsFcn([outcomes |-> a, accepted |-> b, next_expected |-> c, aborted |-> d])
BY DEF IsFcn

LEMMA AnswersAreFcns ==
    ASSUME NEW operation, NEW inputs
    PROVE  /\ IsFcn(Gate!Ts!compute(operation, inputs))
           /\ IsFcn(Gate!Py!compute(operation, inputs))
           /\ IsFcn(Gate!Rs!compute(operation, inputs))
<1>1. IsFcn(Gate!Ts!compute(operation, inputs))
  BY RecordsAreFcns
  DEF Gate!Ts!compute, Gate!Ts!hkdfExpand, Gate!Ts!frameEncode, Gate!Ts!transcript,
      Gate!Ts!sequenceTrace, Gate!Ts!packBasis, Gate!Ts!directionalKeys,
      Gate!Ts!noncePrefixes, Gate!Ts!buildNonce, Gate!Ts!aeadEncrypt, Gate!Ts!Throws
<1>2. IsFcn(Gate!Py!compute(operation, inputs))
  BY RecordsAreFcns
  DEF Gate!Py!compute, Gate!Py!hkdfExpand, Gate!Py!frameEncode, Gate!Py!transcript,
      Gate!Py!sequenceTrace, Gate!Py!packBasis, Gate!Py!directionalKeys,
      Gate!Py!noncePrefixes, Gate!Py!buildNonce, Gate!Py!aeadEncrypt, Gate!Py!Throws
<1>3. IsFcn(Gate!Rs!compute(operation, inputs))
  BY RecordsAreFcns
  DEF Gate!Rs!compute, Gate!Rs!hkdfExpand, Gate!Rs!frameEncode, Gate!Rs!transcript,
      Gate!Rs!sequenceTrace, Gate!Rs!packBasis, Gate!Rs!directionalKeys,
      Gate!Rs!noncePrefixes, Gate!Rs!buildNonce, Gate!Rs!aeadEncrypt, Gate!Rs!Throws
<1> QED
  BY <1>1, <1>2, <1>3

LEMMA ComputedAreFcns ==
    ASSUME NEW language \in Gate!Languages, NEW operation, NEW inputs
    PROVE  IsFcn(Gate!compute(language, operation, inputs))
<1>1. PICK read, sent : /\ read = Gate!Converted(inputs, AsDouble)
                        /\ sent = Gate!Converted(inputs, AsWritten)
  OBVIOUS
<1> QED
  BY <1>1, AnswersAreFcns DEF Gate!compute, Gate!Languages

LEMMA MappedAreFcns ==
    \A S, a : IsFcn([x \in S |-> a])
BY DEF IsFcn

LEMMA RunsAreFcns ==
    ASSUME build \in Builds, NEW language \in Gate!Languages, NEW vector
    PROVE  IsFcn(Gate!Run(language, vector))
<1> DEFINE output == Gate!compute(language, vector.operation, vector.inputs)
<1>1. IsFcn(output)
  BY ComputedAreFcns
<1>2. build[language] \in Gate!Faults
  BY BuildsAssumption
<1>3. PICK answer : answer = output
  OBVIOUS
<1>4. /\ IsFcn([key \in DOMAIN answer \ {"out", "aborted"} |-> answer[key]])
      /\ IsFcn([key \in DOMAIN answer \cup {"debug"} |->
                   IF key = "debug" THEN Gate!Wrong ELSE answer[key]])
      /\ IsFcn([key \in DOMAIN answer |-> Gate!Wrong])
  BY DEF IsFcn
<1>5. IsFcn(Gate!Throws)
  BY RecordsAreFcns DEF Gate!Throws, Gate!Ts!Throws
<1> QED
  BY <1>1, <1>2, <1>3, <1>4, <1>5 DEF Gate!Run, Gate!Faults

(* A comparison that passes is one of equal outputs.                       *)
LEMMA ComparedIsEqual ==
    ASSUME NEW expected, NEW actual, IsFcn(expected), IsFcn(actual)
    PROVE  Gate!compareVector(expected, actual) <=> actual = expected
BY DEF Gate!compareVector, IsFcn

LEMMA SuiteMatches ==
    ASSUME build \in Builds, NEW vectors, PinnedList(vectors)
    PROVE  Gate!SuitePasses(vectors) <=>
               /\ Gate!WellFormed(vectors)
               /\ \A i \in 1 .. Size : Gate!Run("ts", vectors[i]) = vectors[i].expected
<1>1. DOMAIN vectors = 1 .. Size
  BY DEF PinnedList
<1>2. \A i \in 1 .. Size : /\ IsFcn(Gate!Run("ts", vectors[i]))
                           /\ IsFcn(vectors[i].expected)
  BY RunsAreFcns DEF Gate!Languages, PinnedList
<1>3. \A i \in 1 .. Size :
         Gate!compareVector(vectors[i].expected, Gate!Run("ts", vectors[i]))
         <=> Gate!Run("ts", vectors[i]) = vectors[i].expected
  BY <1>2, ComparedIsEqual
<1> QED
  BY <1>1, <1>3 DEF Gate!SuitePasses

(* The results of an executor on well-formed vectors are those of the      *)
(* vectors one by one.                                                     *)
LEMMA MismatchesTell ==
    ASSUME build \in Builds, PinnedList(manifest), NEW language \in Gate!Languages,
           NEW vectors, PinnedList(vectors), Gate!WellFormed(vectors),
           \A i \in 1 .. Size : /\ manifest[i].id = vectors[i].id
                                /\ manifest[i].expected = vectors[i].expected
    PROVE  Gate!Mismatches(language, Gate!Results(language, vectors)) = {}
           <=> \A i \in 1 .. Size :
                   Gate!Run(language, vectors[i]) = vectors[i].expected
<1> DEFINE results == Gate!Results(language, vectors)
<1>1. DOMAIN vectors = 1 .. Size /\ Len(vectors) = Size /\ DOMAIN manifest = 1 .. Size
  <2>1. DOMAIN vectors = 1 .. Size /\ DOMAIN manifest = 1 .. Size
    BY DEF PinnedList
  <2>2. vectors \in Seq({vectors[i] : i \in 1 .. Size})
    BY BoundsAssumption DEF PinnedList
  <2> QED
    BY <2>1, <2>2, BoundsAssumption
<1>2. ASSUME NEW k \in 1 .. Size
      PROVE  /\ vectors[k].id \in DOMAIN results
             /\ results[vectors[k].id] = Gate!Run(language, vectors[k])
  <2> DEFINE Last(i) == /\ vectors[i].id = vectors[k].id
                        /\ \A j \in i + 1 .. Len(vectors) :
                               vectors[j].id # vectors[k].id
  <2>1. \A i, j \in 1 .. Size : vectors[i].id = vectors[j].id => i = j
    BY <1>1 DEF Gate!WellFormed
  <2>2. Last(k)
    BY <2>1, <1>1, BoundsAssumption
  <2>3. (CHOOSE i \in DOMAIN vectors : Last(i)) = k
    BY <2>1, <2>2, <1>1
  <2>4. vectors[k].id \in Gate!Ids(vectors)
    BY <1>1 DEF Gate!Ids
  <2> QED
    BY <2>3, <2>4 DEF Gate!Results
<1>3. ASSUME NEW k \in 1 .. Size
      PROVE  Gate!compareVector(manifest[k].expected, results[manifest[k].id])
             <=> Gate!Run(language, vectors[k]) = vectors[k].expected
  <2>1. IsFcn(manifest[k].expected) /\ IsFcn(Gate!Run(language, vectors[k]))
    BY RunsAreFcns DEF PinnedList
  <2> QED
    BY <2>1, <1>2, ComparedIsEqual
<1>4. Gate!Mismatches(language, results) =
         {<<language, manifest[i].id>> :
             i \in {j \in 1 .. Size :
                       Gate!Run(language, vectors[j]) # vectors[j].expected}}
  <2> HIDE DEF results
  <2>1. \A j \in DOMAIN manifest :
           (/\ manifest[j].id \in DOMAIN results
            /\ Gate!compareVector(manifest[j].expected, results[manifest[j].id]))
           <=> Gate!Run(language, vectors[j]) = vectors[j].expected
    BY <1>1, <1>2, <1>3
  <2>2. {j \in DOMAIN manifest :
            ~(/\ manifest[j].id \in DOMAIN results
              /\ Gate!compareVector(manifest[j].expected, results[manifest[j].id]))}
        = {j \in 1 .. Size : Gate!Run(language, vectors[j]) # vectors[j].expected}
    BY <2>1, <1>1
  <2> QED
    BY <2>2 DEF Gate!Mismatches
<1> QED
  BY <1>4

LEMMA PinnedLists ==
    ASSUME NEW vectors, NEW given, NEW outputs,
           \A i \in 1 .. Size : /\ IsFcn(outputs[i]) /\ outputs[i] # Gate!Throws
                                /\ InputsOK(vectors[i].operation, given[i])
    PROVE  PinnedList([i \in 1 .. Size |-> Gate!Pinned(vectors[i], given[i], outputs[i])])
<1>1. PICK made : made = [i \in 1 .. Size |->
                             Gate!Pinned(vectors[i], given[i], outputs[i])]
  OBVIOUS
<1>2. \A i \in 1 .. Size : /\ made[i] = Gate!Pinned(vectors[i], given[i], outputs[i])
                           /\ made[i].id = vectors[i].id
                           /\ made[i].mechanism = vectors[i].mechanism
                           /\ made[i].operation = vectors[i].operation
                           /\ made[i].inputs = given[i]
                           /\ made[i].expected = outputs[i]
  BY <1>1 DEF Gate!Pinned
<1>3. \A i \in 1 .. Size :
         made[i] = Gate!Pinned(made[i], made[i].inputs, made[i].expected)
  BY <1>2 DEF Gate!Pinned
<1>4. made = [i \in 1 .. Size |-> made[i]]
  BY <1>1
<1> QED
  BY <1>1, <1>2, <1>3, <1>4 DEF PinnedList

LEMMA InitGate == Gate!Init => GateInv
<1> SUFFICES ASSUME Gate!Init PROVE GateInv
  OBVIOUS
<1>1. PICK vectors \in [1 .. Size -> Pool] :
         \/ /\ \A i \in 1 .. Size : Gate!Reference(vectors[i]) # Gate!Throws
            /\ file = [i \in 1 .. Size |-> Gate!Pinned(vectors[i], vectors[i].inputs,
                                                       Gate!Reference(vectors[i]))]
         \/ file = [i \in 1 .. Size |-> Gate!Pinned(vectors[i], vectors[i].inputs,
                                                    [out |-> Gate!Wrong])]
  BY DEF Gate!Init
<1>2. \A i \in 1 .. Size : IsFcn(Gate!Reference(vectors[i]))
  BY ComputedAreFcns DEF Gate!Reference, Gate!Languages
<1>3. IsFcn([out |-> Gate!Wrong]) /\ [out |-> Gate!Wrong] # Gate!Throws
  <2>1. "out" \in DOMAIN [out |-> Gate!Wrong] /\ "out" \notin DOMAIN Gate!Throws
    BY DEF Gate!Throws, Gate!Ts!Throws
  <2> QED
    BY <2>1, RecordsAreFcns
<1>4. PICK given : given = [i \in 1 .. Size |-> vectors[i].inputs]
  OBVIOUS
<1>5. \A i \in 1 .. Size : InputsOK(vectors[i].operation, given[i])
  BY <1>4, PoolAssumption
<1>6. PICK outputs :
         /\ \A i \in 1 .. Size : IsFcn(outputs[i]) /\ outputs[i] # Gate!Throws
         /\ file = [i \in 1 .. Size |-> Gate!Pinned(vectors[i], given[i], outputs[i])]
  <2>1. CASE /\ \A i \in 1 .. Size : Gate!Reference(vectors[i]) # Gate!Throws
             /\ file = [i \in 1 .. Size |-> Gate!Pinned(vectors[i], vectors[i].inputs,
                                                        Gate!Reference(vectors[i]))]
    <3>1. PICK outputs : outputs = [i \in 1 .. Size |-> Gate!Reference(vectors[i])]
      OBVIOUS
    <3>2. /\ \A i \in 1 .. Size : IsFcn(outputs[i]) /\ outputs[i] # Gate!Throws
          /\ file = [i \in 1 .. Size |-> Gate!Pinned(vectors[i], given[i], outputs[i])]
      BY <1>2, <1>4, <2>1, <3>1
    <3> QED
      BY <3>2
  <2>2. CASE file = [i \in 1 .. Size |-> Gate!Pinned(vectors[i], vectors[i].inputs,
                                                    [out |-> Gate!Wrong])]
    <3>1. PICK outputs : outputs = [i \in 1 .. Size |-> [out |-> Gate!Wrong]]
      OBVIOUS
    <3>2. /\ \A i \in 1 .. Size : IsFcn(outputs[i]) /\ outputs[i] # Gate!Throws
          /\ file = [i \in 1 .. Size |-> Gate!Pinned(vectors[i], given[i], outputs[i])]
      BY <1>3, <1>4, <2>2, <3>1
    <3> QED
      BY <3>2
  <2> QED
    BY <1>1, <2>1, <2>2
<1>7. PinnedList(file)
  BY <1>5, <1>6, PinnedLists
<1> QED
  BY <1>7 DEF Gate!Init, GateInv, Gate!VerdictIsTrue

(* A file that differs in its digits only is run alike, but by Python.     *)
LEMMA DigitsTell ==
    ASSUME PinnedList(file), PinnedList(manifest), SameButDigits
    PROVE  /\ \A i \in 1 .. Size : /\ manifest[i].id = file[i].id
                                    /\ manifest[i].expected = file[i].expected
           /\ \A i \in 1 .. Size : Gate!Run("rs", manifest[i]) = Gate!Run("rs", file[i])
           /\ Gate!Read(manifest) = Gate!Read(file)
           /\ Gate!WellFormed(manifest) <=> Gate!WellFormed(file)
<1>1. ASSUME NEW i \in 1 .. Size
      PROVE  /\ manifest[i].id = file[i].id
             /\ manifest[i].mechanism = file[i].mechanism
             /\ manifest[i].operation = file[i].operation
             /\ manifest[i].expected = file[i].expected
             /\ Gate!Converted(manifest[i].inputs, AsDouble)
                  = Gate!Converted(file[i].inputs, AsDouble)
             /\ Gate!Converted(manifest[i].inputs, AsWritten)
                  = Gate!Converted(file[i].inputs, AsWritten)
  <2>1. CASE file[i] = manifest[i]
    BY <2>1
  <2>2. CASE file[i] = Gate!Rewritten(manifest[i], manifest[i].expected)
    <3>1. /\ file[i].id = manifest[i].id
          /\ file[i].mechanism = manifest[i].mechanism
          /\ file[i].operation = manifest[i].operation
          /\ file[i].expected = manifest[i].expected
          /\ file[i].inputs = Gate!Converted(manifest[i].inputs, AsWritten)
      BY <2>2 DEF Gate!Rewritten, Gate!Pinned
    <3>2. PICK operation, inputs :
             operation = manifest[i].operation /\ inputs = manifest[i].inputs
      OBVIOUS
    <3>3. InputsOK(operation, inputs)
      BY <3>2 DEF PinnedList
    <3>4. PICK printed : printed = Gate!Converted(inputs, AsWritten)
      OBVIOUS
    <3>5. /\ Gate!Converted(printed, AsDouble) = Gate!Converted(inputs, AsDouble)
          /\ Gate!Converted(printed, AsWritten) = Gate!Converted(inputs, AsWritten)
      BY <3>3, <3>4, Reprinted
    <3> QED
      BY <3>1, <3>2, <3>4, <3>5
  <2> QED
    BY <2>1, <2>2 DEF SameButDigits
<1>2. ASSUME NEW i \in 1 .. Size
      PROVE  Gate!Run("rs", manifest[i]) = Gate!Run("rs", file[i])
  <2>1. Gate!compute("rs", manifest[i].operation, manifest[i].inputs)
          = Gate!compute("rs", file[i].operation, file[i].inputs)
    BY <1>1 DEF Gate!compute
  <2> QED
    BY <2>1 DEF Gate!Run
<1>3. DOMAIN manifest = 1 .. Size /\ DOMAIN file = 1 .. Size
  BY DEF PinnedList
<1>4. Gate!Read(manifest) = Gate!Read(file)
  <2>1. ASSUME NEW i \in 1 .. Size
        PROVE  [manifest[i] EXCEPT !.inputs = Gate!Converted(@, AsDouble)]
                 = [file[i] EXCEPT !.inputs = Gate!Converted(@, AsDouble)]
    <3>1. /\ manifest[i] = Gate!Pinned(manifest[i], manifest[i].inputs, manifest[i].expected)
          /\ file[i] = Gate!Pinned(file[i], file[i].inputs, file[i].expected)
      BY DEF PinnedList
    <3>2. PICK a, b, c, d, e, f, g :
             /\ a = manifest[i].id /\ b = manifest[i].mechanism
             /\ c = manifest[i].operation /\ d = manifest[i].inputs
             /\ e = file[i].inputs /\ f = manifest[i].expected
             /\ g = Gate!Converted(manifest[i].inputs, AsDouble)
      OBVIOUS
    <3>3. /\ manifest[i] = [id |-> a, mechanism |-> b, operation |-> c, inputs |-> d,
                            expected |-> f]
          /\ file[i] = [id |-> a, mechanism |-> b, operation |-> c, inputs |-> e,
                        expected |-> f]
      BY <1>1, <3>1, <3>2 DEF Gate!Pinned
    <3>4. g = Gate!Converted(d, AsDouble) /\ g = Gate!Converted(e, AsDouble)
      BY <1>1, <3>2
    <3>5. PICK made : made = [id |-> a, mechanism |-> b, operation |-> c, inputs |-> g,
                              expected |-> f]
      OBVIOUS
    <3>6. ASSUME NEW m, NEW x, g = Gate!Converted(x, AsDouble),
                 m = [id |-> a, mechanism |-> b, operation |-> c, inputs |-> x,
                      expected |-> f]
          PROVE  [m EXCEPT !.inputs = Gate!Converted(@, AsDouble)] = made
      BY <3>5, <3>6
    <3> QED
      BY <3>3, <3>4, <3>6
  <2> QED
    BY <1>3, <2>1 DEF Gate!Read
<1>5. Gate!WellFormed(manifest) <=> Gate!WellFormed(file)
  BY <1>1, <1>3 DEF Gate!WellFormed
<1> QED
  BY <1>1, <1>2, <1>4, <1>5

(* As long as the builds and the file stay, so does what matches.          *)
LEMMA MatchesStay ==
    ASSUME build' = build, file' = file
    PROVE  /\ \A language : Agrees(language)' <=> Agrees(language)
           /\ Gate!AllMatch' <=> Gate!AllMatch
           /\ Gate!WellFormed(file)' <=> Gate!WellFormed(file)
           /\ PinnedList(file)' <=> PinnedList(file)
<1>1. \A language, vector : Gate!Run(language, vector)' = Gate!Run(language, vector)
  BY DEF Gate!Run
<1>2. \A language : Agrees(language)' <=> Agrees(language)
  BY <1>1 DEF Agrees
<1>3. Gate!AllMatch' <=> Gate!AllMatch
  BY <1>1 DEF Gate!AllMatch
<1> QED
  BY <1>2, <1>3 DEF Gate!WellFormed, PinnedList

LEMMA ReadStays ==
    ASSUME manifest' = manifest
    PROVE  PinnedList(manifest)' <=> PinnedList(manifest)
BY DEF PinnedList

LEMMA AllMatchIs ==
    ASSUME PinnedList(file)
    PROVE  Gate!AllMatch <=> Agrees("ts") /\ Agrees("py") /\ Agrees("rs")
BY DEF PinnedList, Gate!AllMatch, Gate!Languages, Agrees

(* The file that an update writes.                                         *)
LEMMA RegeneratedLists ==
    ASSUME build \in Builds, NEW vectors, PinnedList(vectors),
           \A i \in 1 .. Size : Gate!Run("ts", vectors[i]) # Gate!Throws
    PROVE  PinnedList([i \in 1 .. Size |-> Gate!Regenerated(vectors[i])])
<1>1. PICK outputs, given :
         /\ outputs = [i \in 1 .. Size |-> Gate!Run("ts", vectors[i])]
         /\ given = [i \in 1 .. Size |-> Gate!Converted(vectors[i].inputs, AsWritten)]
  OBVIOUS
<1>2. \A i \in 1 .. Size : IsFcn(outputs[i]) /\ outputs[i] # Gate!Throws
  BY <1>1, RunsAreFcns DEF Gate!Languages
<1>3. \A i \in 1 .. Size : InputsOK(vectors[i].operation, given[i])
  <2> SUFFICES ASSUME NEW i \in 1 .. Size
               PROVE  InputsOK(vectors[i].operation, given[i])
    OBVIOUS
  <2>1. PICK operation, inputs :
           operation = vectors[i].operation /\ inputs = vectors[i].inputs
    OBVIOUS
  <2>2. InputsOK(operation, inputs)
    BY <2>1 DEF PinnedList
  <2>3. PICK printed : printed = Gate!Converted(inputs, AsWritten)
    OBVIOUS
  <2>4. InputsOK(operation, printed)
    BY <2>2, <2>3, Reprinted
  <2> QED
    BY <1>1, <2>1, <2>3, <2>4
<1>4. PinnedList([i \in 1 .. Size |-> Gate!Pinned(vectors[i], given[i], outputs[i])])
  BY <1>2, <1>3, PinnedLists
<1>5. \A i \in 1 .. Size :
         Gate!Regenerated(vectors[i]) = Gate!Pinned(vectors[i], given[i], outputs[i])
  BY <1>1 DEF Gate!Regenerated, Gate!Rewritten
<1>6. [i \in 1 .. Size |-> Gate!Regenerated(vectors[i])]
        = [i \in 1 .. Size |-> Gate!Pinned(vectors[i], given[i], outputs[i])]
  BY <1>5
<1> QED
  BY <1>4, <1>6

LEMMA NextGate == GateInv /\ [Gate!Next]_Gate!gateVars => GateInv'
<1> SUFFICES ASSUME GateInv, [Gate!Next]_Gate!gateVars PROVE GateInv'
  OBVIOUS
<1> USE DEF GateInv
<1>1. CASE Gate!StartRun
  <2>1. PinnedList(file)' /\ PinnedList(manifest)'
    BY <1>1 DEF Gate!StartRun, PinnedList
  <2>2. SameButDigits'
    BY <1>1 DEF Gate!StartRun, SameButDigits
  <2> QED
    BY <1>1, <2>1, <2>2 DEF Gate!StartRun, Gate!VerdictIsTrue
<1>2. CASE Gate!UpdatePins
  <2>1. CASE \E i \in DOMAIN file : Gate!Run("ts", file[i]) = Gate!Throws
    <3>1. /\ build' = build /\ file' = file /\ manifest' = manifest /\ rewrote' = rewrote
          /\ manifest = file /\ stage' = "done" /\ exit' = "1"
      BY <1>2, <2>1 DEF Gate!UpdatePins, Gate!Abort
    <3>2. PinnedList(file)' /\ PinnedList(manifest)'
      BY <1>2, <3>1, MatchesStay, ReadStays DEF Gate!UpdatePins
    <3>3. PICK i \in 1 .. Size : Gate!Run("ts", file[i]) = Gate!Throws
      BY <2>1 DEF PinnedList
    <3>4. ~Agrees("ts")
      BY <3>3 DEF PinnedList, Agrees
    <3>5. ~Gate!AllMatch'
      BY <3>1, <3>4, MatchesStay, AllMatchIs
    <3> QED
      BY <1>2, <3>1, <3>2, <3>5 DEF Gate!UpdatePins, Gate!VerdictIsTrue
  <2>2. CASE ~ \E i \in DOMAIN file : Gate!Run("ts", file[i]) = Gate!Throws
    <3>1. DOMAIN file = 1 .. Size
      BY DEF PinnedList
    <3>2. file' = [i \in 1 .. Size |-> Gate!Regenerated(file[i])]
      BY <1>2, <2>2, <3>1 DEF Gate!UpdatePins
    <3>3. PinnedList(file')
      BY <2>2, <3>1, <3>2, RegeneratedLists
    <3>4. PinnedList(file)' /\ PinnedList(manifest)'
      BY <1>2, <3>3, ReadStays DEF Gate!UpdatePins, PinnedList
    <3>5. (\A i \in 1 .. Size :
              file[i] = Gate!Rewritten(manifest[i], Gate!Run("ts", manifest[i])))'
      <4>1. \A vector : Gate!Run("ts", vector)' = Gate!Run("ts", vector)
        BY <1>2 DEF Gate!UpdatePins, Gate!Run
      <4>2. manifest' = file
        BY <1>2 DEF Gate!UpdatePins
      <4> QED
        BY <3>2, <4>1, <4>2 DEF Gate!Regenerated
    <3>6. ~rewrote' => manifest' = file'
      BY <1>2, <2>2 DEF Gate!UpdatePins
    <3> QED
      BY <1>2, <2>2, <3>4, <3>5, <3>6 DEF Gate!UpdatePins, Gate!VerdictIsTrue
  <2> QED
    BY <2>1, <2>2
<1>3. CASE Gate!TestOldPins
  <2>1. /\ build' = build /\ file' = file /\ manifest' = manifest /\ rewrote' = rewrote
        /\ failures' = failures /\ stage = "updated"
    BY <1>3 DEF Gate!TestOldPins
  <2>2. PinnedList(file)' /\ PinnedList(manifest)'
    BY <2>1, MatchesStay, ReadStays
  <2>3. Gate!SuitePasses(manifest) <=>
           /\ Gate!WellFormed(manifest)
           /\ \A i \in 1 .. Size : Gate!Run("ts", manifest[i]) = manifest[i].expected
    BY <2>1, SuiteMatches
  <2>4. CASE Gate!SuitePasses(manifest)
    <3>1. SameButDigits
      BY <2>1, <2>3, <2>4 DEF SameButDigits
    <3>2. SameButDigits'
      BY <2>1, <3>1 DEF SameButDigits
    <3> QED
      BY <1>3, <2>1, <2>2, <2>4, <3>2 DEF Gate!TestOldPins, Gate!VerdictIsTrue
  <2>5. CASE ~Gate!SuitePasses(manifest)
    <3>1. ~rewrote => ~Gate!WellFormed(file) \/ ~Gate!AllMatch
      BY <2>1, <2>3, <2>5, AllMatchIs DEF Agrees
    <3>2. (~rewrote => ~Gate!WellFormed(file) \/ ~Gate!AllMatch)'
      BY <2>1, <3>1, MatchesStay
    <3> QED
      BY <1>3, <2>1, <2>2, <2>5, <3>2
      DEF Gate!TestOldPins, Gate!Abort, Gate!VerdictIsTrue
  <2> QED
    BY <2>4, <2>5
<1>4. CASE Gate!TypeScriptGate
  <2>1. /\ build' = build /\ file' = file /\ manifest' = manifest /\ rewrote' = rewrote
        /\ failures' = failures /\ stage = "ts"
    BY <1>4 DEF Gate!TypeScriptGate
  <2>2. PinnedList(file)' /\ PinnedList(manifest)'
    BY <2>1, MatchesStay, ReadStays
  <2>3. Gate!SuitePasses(file) <=> Gate!WellFormed(file) /\ Agrees("ts")
    BY SuiteMatches DEF Agrees
  <2>4. CASE Gate!SuitePasses(file)
    <3>1. (Gate!WellFormed(file) /\ Agrees("ts"))'
      BY <2>1, <2>3, <2>4, MatchesStay
    <3>2. SameButDigits'
      BY <2>1 DEF SameButDigits
    <3> QED
      BY <1>4, <2>1, <2>2, <2>4, <3>1, <3>2 DEF Gate!TypeScriptGate, Gate!VerdictIsTrue
  <2>5. CASE ~Gate!SuitePasses(file)
    <3>1. ~Gate!WellFormed(file) \/ ~Gate!AllMatch
      BY <2>3, <2>5, AllMatchIs
    <3>2. (~Gate!WellFormed(file) \/ ~Gate!AllMatch)'
      BY <2>1, <3>1, MatchesStay
    <3> QED
      BY <1>4, <2>1, <2>2, <2>5, <3>2
      DEF Gate!TypeScriptGate, Gate!Abort, Gate!VerdictIsTrue
  <2> QED
    BY <2>4, <2>5
<1>5. CASE Gate!PythonGate
  <2>1. /\ build' = build /\ file' = file /\ manifest' = manifest /\ rewrote' = rewrote
        /\ failures = {} /\ stage = "py"
    BY <1>5 DEF Gate!PythonGate
  <2>2. PinnedList(file)' /\ PinnedList(manifest)'
    BY <2>1, MatchesStay, ReadStays
  <2>3. CASE Gate!Fails("py", file)
    <3>1. ~Agrees("py")
      BY <2>3 DEF Gate!Fails, Agrees, PinnedList
    <3>2. ~Gate!AllMatch'
      BY <2>1, <3>1, MatchesStay, AllMatchIs
    <3> QED
      BY <1>5, <2>1, <2>2, <2>3, <3>2 DEF Gate!PythonGate, Gate!Abort, Gate!VerdictIsTrue
  <2>4. CASE ~Gate!Fails("py", file)
    <3>1. \A i \in 1 .. Size : /\ manifest[i].id = file[i].id
                               /\ manifest[i].expected = file[i].expected
      BY <2>1, DigitsTell
    <3>2. Gate!Mismatches("py", Gate!Results("py", file)) = {} <=> Agrees("py")
      <4>1. Gate!WellFormed(file) /\ PinnedList(file) /\ PinnedList(manifest)
        BY <2>1
      <4>2. PICK vectors : vectors = file
        OBVIOUS
      <4>3. Gate!Mismatches("py", Gate!Results("py", vectors)) = {}
              <=> \A i \in 1 .. Size : Gate!Run("py", vectors[i]) = vectors[i].expected
        BY <3>1, <4>1, <4>2, MismatchesTell DEF Gate!Languages
      <4> QED
        BY <4>2, <4>3 DEF Agrees
    <3>3. failures' = {} <=> Agrees("py")
      BY <1>5, <2>1, <2>4, <3>2 DEF Gate!PythonGate
    <3>4. /\ (Gate!WellFormed(file) /\ Agrees("ts"))'
          /\ (failures = {} <=> Agrees("py"))'
      BY <2>1, <3>3, MatchesStay
    <3>5. SameButDigits'
      BY <2>1 DEF SameButDigits
    <3> QED
      BY <1>5, <2>1, <2>2, <2>4, <3>4, <3>5 DEF Gate!PythonGate, Gate!VerdictIsTrue
  <2> QED
    BY <2>3, <2>4
<1>6. CASE Gate!RustGate
  <2>1. /\ build' = build /\ file' = file /\ manifest' = manifest /\ rewrote' = rewrote
        /\ stage = "rs" /\ SameButDigits
    BY <1>6 DEF Gate!RustGate
  <2>2. PinnedList(file)' /\ PinnedList(manifest)'
    BY <2>1, MatchesStay, ReadStays
  <2>3. Gate!AllMatch <=> Agrees("py") /\ Agrees("rs")
    BY <2>1, AllMatchIs
  <2>4. Gate!AllMatch' <=> Gate!AllMatch
    BY <2>1, MatchesStay
  <2>5. /\ \A i \in 1 .. Size : /\ manifest[i].id = file[i].id
                                 /\ manifest[i].expected = file[i].expected
                                 /\ Gate!Run("rs", manifest[i]) = Gate!Run("rs", file[i])
        /\ Gate!Read(manifest) = Gate!Read(file)
        /\ Gate!WellFormed(manifest) <=> Gate!WellFormed(file)
    BY <2>1, DigitsTell
  <2>6. CASE Gate!Fails("rs", manifest)
    <3>1. ~Agrees("rs")
      BY <2>1, <2>5, <2>6 DEF Gate!Fails, Agrees, PinnedList
    <3> QED
      BY <1>6, <2>1, <2>2, <2>3, <2>4, <2>6, <3>1
      DEF Gate!RustGate, Gate!Abort, Gate!VerdictIsTrue
  <2>7. CASE ~Gate!Fails("rs", manifest)
    <3>1. Gate!Mismatches("rs", Gate!Results("rs", manifest)) = {} <=> Agrees("rs")
      <4>1. Gate!WellFormed(manifest) /\ PinnedList(manifest)
        BY <2>1, <2>5
      <4>2. PICK vectors : vectors = manifest
        OBVIOUS
      <4>3. Gate!Mismatches("rs", Gate!Results("rs", vectors)) = {}
              <=> \A i \in 1 .. Size : Gate!Run("rs", vectors[i]) = vectors[i].expected
        BY <4>1, <4>2, MismatchesTell DEF Gate!Languages
      <4> QED
        BY <2>5, <4>2, <4>3 DEF Agrees
    <3>2. failures' = {} <=> Gate!AllMatch
      BY <1>6, <2>3, <2>7, <3>1 DEF Gate!RustGate
    <3>3. (Gate!Read(manifest) = Gate!Read(file) /\ Gate!WellFormed(file))'
      BY <2>1, <2>5, MatchesStay DEF Gate!Read
    <3>4. stage' = "done" /\ exit' = IF failures' = {} THEN "0" ELSE "1"
      BY <1>6, <2>7 DEF Gate!RustGate
    <3>5. Gate!VerdictIsTrue'
      BY <2>4, <3>2, <3>3, <3>4 DEF Gate!VerdictIsTrue
    <3> QED
      BY <2>1, <2>2, <3>4, <3>5
  <2> QED
    BY <2>6, <2>7
<1>7. CASE Gate!Commit
  <2>1. PinnedList(file)'
    BY <1>7 DEF Gate!Commit, PinnedList
  <2> QED
    BY <1>7, <2>1 DEF Gate!Commit, Gate!VerdictIsTrue
<1>8. CASE UNCHANGED Gate!gateVars
  <2>1. /\ stage' = stage /\ build' = build /\ file' = file /\ manifest' = manifest
        /\ failures' = failures /\ exit' = exit /\ rewrote' = rewrote
    BY <1>8 DEF Gate!gateVars
  <2>2. PinnedList(file)' /\ (PinnedList(manifest)' <=> PinnedList(manifest))
    BY <2>1, MatchesStay, ReadStays
  <2>3. \A vector : Gate!Run("ts", vector)' = Gate!Run("ts", vector)
    BY <2>1 DEF Gate!Run
  <2>4. SameButDigits' <=> SameButDigits
    BY <2>1 DEF SameButDigits
  <2>5. (Gate!Read(manifest) = Gate!Read(file))' <=> Gate!Read(manifest) = Gate!Read(file)
    BY <2>1 DEF Gate!Read
  <2>6. Gate!VerdictIsTrue'
    BY <2>1, <2>5, MatchesStay DEF Gate!VerdictIsTrue
  <2> QED
    BY <2>1, <2>2, <2>3, <2>4, <2>6, MatchesStay
<1> QED
  BY <1>1, <1>2, <1>3, <1>4, <1>5, <1>6, <1>7, <1>8 DEF Gate!Next

-----------------------------------------------------------------------------
(* VerdictIsTrue: the gate exits with 0 only if every language gives       *)
(* exactly the pinned outputs of a well-formed file, and with 1 only if    *)
(* that is not so or the run has changed the pins, for every list of       *)
(* vectors and every set of faults of the mirrors.                         *)
THEOREM VerdictTold == Gate!Spec => []VerdictIsTrue
<1>1. GateInv => VerdictIsTrue
  BY DEF GateInv, VerdictIsTrue
<1> QED
  BY <1>1, InitGate, NextGate, PTL DEF Gate!Spec

-----------------------------------------------------------------------------
(* What the executors of the three languages have in common.               *)

(* The traces of a list of sequence numbers.                               *)
LEMMA TracesOf ==
    ASSUME NEW s \in Seq(Int)
    PROVE  TracesAlike(traceFrom("ts", s, 0), traceFrom("rs", s, 0))
<1> DEFINE N == Len(s)
<1>1. N \in Nat /\ \A i \in 1 .. N : s[i] \in Int
  OBVIOUS
<1>2. PICK f : TraceRun(f, "ts", s, 0)
  BY <1>1, TraceLoop
<1>3. PICK g : TraceRun(g, "rs", s, 0)
  BY <1>1, TraceLoop
<1>4. /\ traceFrom("ts", s, 0) = f[N] /\ f[0] = EmptyTrace(0)
      /\ traceFrom("rs", s, 0) = g[N] /\ g[0] = EmptyTrace(0)
      /\ \A i \in 1 .. N : /\ f[i] = TraceStep("ts", f[i - 1], s[i])
                           /\ g[i] = TraceStep("rs", g[i - 1], s[i])
  BY <1>2, <1>3 DEF TraceRun
<1> DEFINE S == {i \in Nat : TracesAlike(f[i], g[i])}
<1> HIDE DEF N
<1>5. 0 \in S
  BY <1>4, EmptyTraces
<1>6. StaysIn(S, N)
  <2> SUFFICES ASSUME NEW i \in 1 .. N, TracesAlike(f[i - 1], g[i - 1])
               PROVE  TracesAlike(f[i], g[i])
    BY <1>1 DEF StaysIn
  <2>1. PICK t, r : t = f[i - 1] /\ r = g[i - 1]
    OBVIOUS
  <2>2. TracesAlike(TraceStep("ts", t, s[i]), TraceStep("rs", r, s[i]))
    BY <1>1, <2>1, BothStep
  <2> QED
    BY <1>4, <2>1, <2>2
<1>7. N \in S
  <2> HIDE DEF S
  <2> QED
    BY <1>1, <1>5, <1>6, InductionUpTo
<1> QED
  BY <1>4, <1>7

(* The traces that the executors use are those of the lane's module.       *)
LEMMA TracesAre ==
    ASSUME NEW s
    PROVE  /\ Gate!Ts!Trace!traceSequence(s) = traceFrom("ts", s, 0)
           /\ Gate!Py!Trace!traceSequence(s) = traceFrom("ts", s, 0)
           /\ Gate!Rs!Trace!traceSequence(s) = traceFrom("rs", s, 0)
<1>1. Gate!Ts!Trace!traceSequence(s) = traceFrom("ts", s, 0)
  BY DEF Gate!Ts!Trace!traceSequence, Gate!Ts!Trace!traceSequenceTs,
         Gate!Ts!Trace!traceFrom, Gate!Ts!Trace!TraceStep, Gate!Ts!Trace!EmptyTrace,
         Gate!Ts!Trace!Increment, Gate!Ts!Trace!SaturatingIncrement,
         Gate!Ts!Trace!SequenceNumber, traceFrom, TraceStep, EmptyTrace, Increment,
         SaturatingIncrement, SequenceNumber
<1>2. Gate!Py!Trace!traceSequence(s) = traceFrom("ts", s, 0)
  BY DEF Gate!Py!Trace!traceSequence, Gate!Py!Trace!traceSequencePy,
         Gate!Py!Trace!traceSequenceTs, Gate!Py!Trace!traceFrom, Gate!Py!Trace!TraceStep,
         Gate!Py!Trace!EmptyTrace, Gate!Py!Trace!Increment,
         Gate!Py!Trace!SaturatingIncrement, Gate!Py!Trace!SequenceNumber, traceFrom,
         TraceStep, EmptyTrace, Increment, SaturatingIncrement, SequenceNumber
<1>3. Gate!Rs!Trace!traceSequence(s) = traceFrom("rs", s, 0)
  BY DEF Gate!Rs!Trace!traceSequence, Gate!Rs!Trace!traceSequenceRs,
         Gate!Rs!Trace!traceFrom, Gate!Rs!Trace!TraceStep, Gate!Rs!Trace!EmptyTrace,
         Gate!Rs!Trace!Increment, Gate!Rs!Trace!SaturatingIncrement,
         Gate!Rs!Trace!SequenceNumber, traceFrom, TraceStep, EmptyTrace, Increment,
         SaturatingIncrement, SequenceNumber
<1> QED
  BY <1>1, <1>2, <1>3

(* And the transcripts those of the section on chains.                     *)
LEMMA TranscriptsAre ==
    ASSUME NEW nA, NEW nB, NEW v, NEW a, NEW b
    PROVE  /\ Gate!Ts!Chain!computeTranscript(nA, nB, v, a, b)
                = TranscriptOf("ts", nA, nB, v, a, b)
           /\ Gate!Py!Chain!computeTranscript(nA, nB, v, a, b)
                = TranscriptOf("py", nA, nB, v, a, b)
           /\ Gate!Rs!Chain!computeTranscript(nA, nB, v, a, b)
                = TranscriptOf("rs", nA, nB, v, a, b)
<1> USE DEF TranscriptOf, AppendAllOf, AppendOf, SnapshotOf, ObjectOf, Chains!appendTs,
            Chains!appendPy, Chains!Extend, Chains!combineContext, Chains!snapshotTs,
            Chains!snapshotPy, Chains!sessionId, Chains!Genesis, Chains!Label,
            Chains!Roles
<1>1. Gate!Ts!Chain!computeTranscript(nA, nB, v, a, b)
        = TranscriptOf("ts", nA, nB, v, a, b)
  BY DEF Gate!Ts!Chain!computeTranscript, Gate!Ts!Chain!appendAll, Gate!Ts!Chain!append,
         Gate!Ts!Chain!appendTs, Gate!Ts!Chain!appendPy, Gate!Ts!Chain!Extend,
         Gate!Ts!Chain!combineContext, Gate!Ts!Chain!snapshot, Gate!Ts!Chain!snapshotTs,
         Gate!Ts!Chain!snapshotPy, Gate!Ts!Chain!sessionId, Gate!Ts!Chain!Genesis,
         Gate!Ts!Chain!Label, Gate!Ts!Chain!Roles, Gate!Ts!Chain!NewChain,
         Gate!Ts!Chain!NewChainTs, Gate!Ts!Chain!NewChainPy
<1>2. Gate!Py!Chain!computeTranscript(nA, nB, v, a, b)
        = TranscriptOf("py", nA, nB, v, a, b)
  BY DEF Gate!Py!Chain!computeTranscript, Gate!Py!Chain!appendAll, Gate!Py!Chain!append,
         Gate!Py!Chain!appendTs, Gate!Py!Chain!appendPy, Gate!Py!Chain!Extend,
         Gate!Py!Chain!combineContext, Gate!Py!Chain!snapshot, Gate!Py!Chain!snapshotTs,
         Gate!Py!Chain!snapshotPy, Gate!Py!Chain!sessionId, Gate!Py!Chain!Genesis,
         Gate!Py!Chain!Label, Gate!Py!Chain!Roles, Gate!Py!Chain!NewChain,
         Gate!Py!Chain!NewChainTs, Gate!Py!Chain!NewChainPy
<1>3. Gate!Rs!Chain!computeTranscript(nA, nB, v, a, b)
        = TranscriptOf("rs", nA, nB, v, a, b)
  BY DEF Gate!Rs!Chain!computeTranscript, Gate!Rs!Chain!appendAll, Gate!Rs!Chain!append,
         Gate!Rs!Chain!appendTs, Gate!Rs!Chain!appendPy, Gate!Rs!Chain!Extend,
         Gate!Rs!Chain!combineContext, Gate!Rs!Chain!snapshot, Gate!Rs!Chain!snapshotTs,
         Gate!Rs!Chain!snapshotPy, Gate!Rs!Chain!sessionId, Gate!Rs!Chain!Genesis,
         Gate!Rs!Chain!Label, Gate!Rs!Chain!Roles, Gate!Rs!Chain!NewChain,
         Gate!Rs!Chain!NewChainTs, Gate!Rs!Chain!NewChainPy
<1> QED
  BY <1>1, <1>2, <1>3

-----------------------------------------------------------------------------
(* All three executors answer the same.                                    *)
Unanimous(operation, inputs) ==
    /\ Gate!Py!compute(operation, inputs) = Gate!Ts!compute(operation, inputs)
    /\ Gate!Rs!compute(operation, inputs) = Gate!Ts!compute(operation, inputs)

PlainOperations ==
    {"sha256", "hkdf_extract", "hmac_sha256", "session_id", "pack_basis",
     "directional_keys", "nonce_prefixes", "build_nonce"}

Operations ==
    PlainOperations \cup
        {"hkdf_expand", "frame_encode", "transcript", "sequence_trace", "aead_encrypt"}

(* The operations whose executors differ in nothing.                       *)
LEMMA PlainAlike ==
    ASSUME NEW operation \in PlainOperations, NEW inputs
    PROVE  Unanimous(operation, inputs)
<1> USE DEF Unanimous, Gate!Ts!compute, Gate!Py!compute, Gate!Rs!compute, Gate!Ts!Hex,
            Gate!Py!Hex, Gate!Rs!Hex, Gate!Ts!Throws, Gate!Py!Throws, Gate!Rs!Throws
<1>1. CASE operation \in {"sha256", "hkdf_extract", "hmac_sha256"}
  BY <1>1
<1>2. CASE operation = "session_id"
  BY <1>2 DEF Gate!Ts!Chain!sessionId, Gate!Py!Chain!sessionId, Gate!Rs!Chain!sessionId
<1>3. CASE operation = "pack_basis"
  <2>1. /\ Gate!Ts!packBasis(inputs.bases) = Gate!Py!packBasis(inputs.bases)
        /\ Gate!Ts!packBasis(inputs.bases) = Gate!Rs!packBasis(inputs.bases)
    BY DEF Gate!Ts!packBasis, Gate!Py!packBasis, Gate!Rs!packBasis, Gate!Ts!FoldRight,
           Gate!Py!FoldRight, Gate!Rs!FoldRight, Gate!Ts!MapThenFoldSet,
           Gate!Py!MapThenFoldSet, Gate!Rs!MapThenFoldSet, Gate!Ts!Min, Gate!Py!Min,
           Gate!Rs!Min
  <2> QED
    BY <1>3, <2>1
<1>4. CASE operation = "directional_keys"
  BY <1>4
  DEF Gate!Ts!AsLongAsHashes, Gate!Py!AsLongAsHashes, Gate!Rs!AsLongAsHashes,
      Gate!Ts!directionalKeys, Gate!Py!directionalKeys, Gate!Rs!directionalKeys,
      Gate!Ts!Cipher!deriveDirectionalKey, Gate!Py!Cipher!deriveDirectionalKey,
      Gate!Rs!Cipher!deriveDirectionalKey
<1>5. CASE operation = "nonce_prefixes"
  BY <1>5
  DEF Gate!Ts!AsLongAsHashes, Gate!Py!AsLongAsHashes, Gate!Rs!AsLongAsHashes,
      Gate!Ts!noncePrefixes, Gate!Py!noncePrefixes, Gate!Rs!noncePrefixes,
      Gate!Ts!Cipher!deriveNoncePrefix, Gate!Py!Cipher!deriveNoncePrefix,
      Gate!Rs!Cipher!deriveNoncePrefix, Gate!Ts!FourBytes, Gate!Py!FourBytes,
      Gate!Rs!FourBytes
<1>6. CASE operation = "build_nonce"
  BY <1>6
  DEF Gate!Ts!buildNonce, Gate!Py!buildNonce, Gate!Rs!buildNonce,
      Gate!Ts!Cipher!buildNonce, Gate!Py!Cipher!buildNonce, Gate!Rs!Cipher!buildNonce
<1> QED
  BY <1>1, <1>2, <1>3, <1>4, <1>5, <1>6 DEF PlainOperations

(* What the dispatch of each executor calls.                               *)
LEMMA OperationsAre ==
    ASSUME NEW operation, NEW inputs
    PROVE  /\ operation = "hkdf_expand" =>
                /\ Gate!Ts!compute(operation, inputs)
                     = Gate!Ts!hkdfExpand(inputs.prk, inputs.info, inputs.length)
                /\ Gate!Py!compute(operation, inputs)
                     = Gate!Py!hkdfExpand(inputs.prk, inputs.info, inputs.length)
                /\ Gate!Rs!compute(operation, inputs)
                     = Gate!Rs!hkdfExpand(inputs.prk, inputs.info, inputs.length)
           /\ operation = "frame_encode" =>
                /\ Gate!Ts!compute(operation, inputs) = Gate!Ts!frameEncode(inputs)
                /\ Gate!Py!compute(operation, inputs) = Gate!Py!frameEncode(inputs)
                /\ Gate!Rs!compute(operation, inputs) = Gate!Rs!frameEncode(inputs)
           /\ operation = "transcript" =>
                /\ Gate!Ts!compute(operation, inputs) = Gate!Ts!transcript(inputs)
                /\ Gate!Py!compute(operation, inputs) = Gate!Py!transcript(inputs)
                /\ Gate!Rs!compute(operation, inputs) = Gate!Rs!transcript(inputs)
           /\ operation = "sequence_trace" =>
                /\ Gate!Ts!compute(operation, inputs)
                     = Gate!Ts!sequenceTrace(inputs.sequences)
                /\ Gate!Py!compute(operation, inputs)
                     = Gate!Py!sequenceTrace(inputs.sequences)
                /\ Gate!Rs!compute(operation, inputs)
                     = Gate!Rs!sequenceTrace(inputs.sequences)
           /\ operation = "aead_encrypt" =>
                /\ Gate!Ts!compute(operation, inputs) = Gate!Ts!aeadEncrypt(inputs)
                /\ Gate!Py!compute(operation, inputs) = Gate!Py!aeadEncrypt(inputs)
                /\ Gate!Rs!compute(operation, inputs) = Gate!Rs!aeadEncrypt(inputs)
           /\ operation \notin Operations =>
                Gate!Ts!compute(operation, inputs) = Gate!Throws
BY DEF Gate!Ts!compute, Gate!Py!compute, Gate!Rs!compute, Operations, PlainOperations,
       Gate!Throws

LEMMA OutOnly ==
    \A a, b : /\ [out |-> a] # Gate!Throws
              /\ [out |-> a] = [out |-> b] <=> a = b
BY DEF Gate!Throws, Gate!Ts!Throws

(* Rust overflows after the last block.                                    *)
LEMMA ExpandAlike ==
    ASSUME NEW inputs, Gate!Ts!compute("hkdf_expand", inputs) # Gate!Throws
    PROVE  Unanimous("hkdf_expand", inputs)
               <=> inputs.length <= HashLength * (MaxCounter - 1)
<1>1. PICK prk, info, n : prk = inputs.prk /\ info = inputs.info /\ n = inputs.length
  OBVIOUS
<1>2. PICK out : out = [out |-> Gate!Ts!Hex(<<"hkdf", prk, info, n>>)]
  OBVIOUS
<1>3. PICK all, fewer \in Int : all = HashLength * MaxCounter
                               /\ fewer = HashLength * (MaxCounter - 1)
  BY HkdfAssumption
<1>4. /\ Gate!Ts!compute("hkdf_expand", inputs)
           = IF n \in 1 .. all /\ prk # << >> THEN out ELSE Gate!Throws
      /\ Gate!Py!compute("hkdf_expand", inputs)
           = IF n \in 1 .. all /\ prk # << >> THEN out ELSE Gate!Throws
      /\ Gate!Rs!compute("hkdf_expand", inputs)
           = IF n \in 1 .. fewer /\ prk # << >> THEN out ELSE Gate!Throws
  <2>1. /\ Gate!Ts!compute("hkdf_expand", inputs) = Gate!Ts!hkdfExpand(prk, info, n)
        /\ Gate!Py!compute("hkdf_expand", inputs) = Gate!Py!hkdfExpand(prk, info, n)
        /\ Gate!Rs!compute("hkdf_expand", inputs) = Gate!Rs!hkdfExpand(prk, info, n)
    BY <1>1, OperationsAre
  <2>2. Gate!Ts!hkdfExpand(prk, info, n)
          = IF n \in 1 .. all /\ prk # << >> THEN out ELSE Gate!Throws
    BY <1>2, <1>3 DEF Gate!Ts!hkdfExpand, Gate!Throws
  <2>3. Gate!Py!hkdfExpand(prk, info, n)
          = IF n \in 1 .. all /\ prk # << >> THEN out ELSE Gate!Throws
    BY <1>2, <1>3
    DEF Gate!Py!hkdfExpand, Gate!Throws, Gate!Ts!Throws, Gate!Py!Throws, Gate!Py!Hex,
        Gate!Ts!Hex
  <2>4. Gate!Rs!hkdfExpand(prk, info, n)
          = IF n \in 1 .. fewer /\ prk # << >> THEN out ELSE Gate!Throws
    BY <1>2, <1>3
    DEF Gate!Rs!hkdfExpand, Gate!Throws, Gate!Ts!Throws, Gate!Rs!Throws, Gate!Rs!Hex,
        Gate!Ts!Hex
  <2> QED
    BY <2>1, <2>2, <2>3, <2>4
<1>5. out # Gate!Throws /\ n \in 1 .. all /\ prk # << >>
  BY <1>2, <1>4, OutOnly
<1>6. n \in 1 .. fewer <=> n <= fewer
  BY <1>3, <1>5
<1>7. Unanimous("hkdf_expand", inputs) <=> n <= fewer
  BY <1>4, <1>5, <1>6 DEF Unanimous
<1> QED
  BY <1>1, <1>3, <1>7

(* The codecs of all languages write the frames that TypeScript writes.    *)
LEMMA FrameAlike ==
    ASSUME NEW inputs, Gate!Ts!compute("frame_encode", inputs) # Gate!Throws
    PROVE  Unanimous("frame_encode", inputs)
<1>1. PICK frame : frame = [type |-> inputs.message_type, sequence |-> inputs.sequence,
                            payload |-> inputs.payload, tag |-> NoTag]
  OBVIOUS
<1>2. PICK wire :
         wire = Gate!Ts!Codec!encodeHeader(frame.type, frame.sequence, Len(frame.payload))
                    \o frame.payload \o << >>
  OBVIOUS
<1>3. frame.tag = NoTag /\ frame.sequence = inputs.sequence
  BY <1>1
<1> USE DEF Gate!Throws
<1>4. Gate!Ts!frameEncode(inputs)
        = IF Gate!Ts!Codec!EncodableTs(frame) /\ wire # Refused
          THEN [out |-> Gate!Ts!Hex(wire)] ELSE Gate!Ts!Throws
  BY <1>1, <1>2, <1>3
  DEF Gate!Ts!frameEncode, Gate!Ts!Codec!encodeFrame, Gate!Ts!Codec!Encodable
<1>5. Gate!Py!frameEncode(inputs)
        = IF Gate!Py!Codec!EncodableTs(frame) /\ wire # Refused
          THEN [out |-> Gate!Ts!Hex(wire)] ELSE Gate!Ts!Throws
  <2>1. wire = Gate!Py!Codec!encodeHeader(frame.type, frame.sequence, Len(frame.payload))
           \o frame.payload \o << >>
    BY <1>2
    DEF Gate!Ts!Codec!encodeHeader, Gate!Py!Codec!encodeHeader, Gate!Ts!Codec!BigEndian,
        Gate!Py!Codec!BigEndian
  <2> QED
    BY <1>1, <1>3, <2>1
    DEF Gate!Py!frameEncode, Gate!Py!Codec!encodeFrame, Gate!Py!Codec!Encodable,
        Gate!Py!Codec!EncodablePy, Gate!Py!Hex, Gate!Ts!Hex, Gate!Py!Throws,
        Gate!Ts!Throws
<1>6. Gate!Rs!frameEncode(inputs)
        = IF /\ frame.sequence \in 0 .. SeqMax
             /\ Gate!Rs!Codec!EncodableRs(frame) /\ wire # Refused
          THEN [out |-> Gate!Ts!Hex(wire)] ELSE Gate!Ts!Throws
  <2>1. wire = Gate!Rs!Codec!encodeHeader(frame.type, frame.sequence, Len(frame.payload))
           \o frame.payload \o << >>
    BY <1>2
    DEF Gate!Ts!Codec!encodeHeader, Gate!Rs!Codec!encodeHeader, Gate!Ts!Codec!BigEndian,
        Gate!Rs!Codec!BigEndian
  <2> QED
    BY <1>1, <1>3, <2>1
    DEF Gate!Rs!frameEncode, Gate!Rs!Codec!encodeFrame, Gate!Rs!Codec!Encodable,
        Gate!Rs!Hex, Gate!Ts!Hex, Gate!Rs!Throws, Gate!Ts!Throws
<1>7. Gate!Ts!Codec!EncodableTs(frame) /\ wire # Refused
  BY <1>4, OperationsAre
<1>8. Gate!Py!Codec!EncodableTs(frame)
  BY <1>7
  DEF Gate!Ts!Codec!EncodableTs, Gate!Py!Codec!EncodableTs, Gate!Ts!Codec!MessageTypes,
      Gate!Py!Codec!MessageTypes, Gate!Ts!Codec!MaxSequence, Gate!Py!Codec!MaxSequence,
      Gate!Ts!Codec!MAX_PAYLOAD_LENGTH, Gate!Py!Codec!MAX_PAYLOAD_LENGTH,
      Gate!Ts!Codec!LargestOf, Gate!Py!Codec!LargestOf, Gate!Ts!Codec!FromBigEndian,
      Gate!Py!Codec!FromBigEndian
<1>9. frame.sequence \in 0 .. SeqMax
  BY <1>7, WireAssumption DEF Gate!Ts!Codec!EncodableTs
<1>10. Gate!Rs!Codec!EncodableRs(frame)
  BY <1>3, <1>7
  DEF Gate!Ts!Codec!EncodableTs, Gate!Rs!Codec!EncodableRs, Gate!Ts!Codec!MessageTypes,
      Gate!Rs!Codec!MessageTypes, Gate!Ts!Codec!MAX_PAYLOAD_LENGTH,
      Gate!Rs!Codec!MAX_PAYLOAD_LENGTH, Gate!Ts!Codec!LargestOf, Gate!Rs!Codec!LargestOf,
      Gate!Ts!Codec!FromBigEndian, Gate!Rs!Codec!FromBigEndian
<1> QED
  BY <1>4, <1>5, <1>6, <1>7, <1>8, <1>9, <1>10, OperationsAre DEF Unanimous

(* A message is sealed alike in the two directions there are.              *)
LEMMA AeadAlike ==
    ASSUME NEW inputs, Gate!Ts!compute("aead_encrypt", inputs) # Gate!Throws
    PROVE  Unanimous("aead_encrypt", inputs)
<1>1. inputs.direction \in {"A2B", "B2A"}
  BY OperationsAre DEF Gate!Ts!aeadEncrypt, Gate!Throws, Gate!Ts!Cipher!Directions
<1>2. Gate!Py!aeadEncrypt(inputs) = Gate!Ts!aeadEncrypt(inputs)
  BY <1>1
  DEF Gate!Py!aeadEncrypt, Gate!Ts!aeadEncrypt, Gate!Py!Throws, Gate!Ts!Throws,
      Gate!Py!AsLongAsHashes, Gate!Ts!AsLongAsHashes,
      Gate!Py!Hex, Gate!Ts!Hex, Gate!Ts!Cipher!Directions, Gate!Py!Cipher!Directions,
      Gate!Ts!Cipher!encrypt, Gate!Py!Cipher!encrypt, Gate!Ts!Cipher!nonceForNextSequence,
      Gate!Py!Cipher!nonceForNextSequence, Gate!Ts!Cipher!buildNonce,
      Gate!Py!Cipher!buildNonce, Gate!Ts!Cipher!deriveNoncePrefix,
      Gate!Py!Cipher!deriveNoncePrefix, Gate!Ts!FourBytes, Gate!Py!FourBytes
<1>3. Gate!Rs!aeadEncrypt(inputs) = Gate!Ts!aeadEncrypt(inputs)
  BY <1>1
  DEF Gate!Rs!aeadEncrypt, Gate!Ts!aeadEncrypt, Gate!Rs!Throws, Gate!Ts!Throws,
      Gate!Rs!AsLongAsHashes, Gate!Ts!AsLongAsHashes,
      Gate!Rs!Hex, Gate!Ts!Hex, Gate!Ts!Cipher!Directions, Gate!Rs!Cipher!Directions,
      Gate!Ts!Cipher!encrypt, Gate!Rs!Cipher!encrypt, Gate!Ts!Cipher!nonceForNextSequence,
      Gate!Rs!Cipher!nonceForNextSequence, Gate!Ts!Cipher!buildNonce,
      Gate!Rs!Cipher!buildNonce, Gate!Ts!Cipher!deriveNoncePrefix,
      Gate!Rs!Cipher!deriveNoncePrefix, Gate!Ts!FourBytes, Gate!Rs!FourBytes
<1> QED
  BY <1>2, <1>3, OperationsAre DEF Unanimous

(* A trace as text.                                                        *)
TraceText(t) ==
    [outcomes |-> Gate!Ts!Text(t.outcomes), accepted |-> Gate!Ts!Text(t.acceptedCount),
     next_expected |-> Gate!Ts!Text(t.expected), aborted |-> Gate!Ts!Text(t.aborted)]

(* Rust refuses numbers beyond the field's range, and saturates at its end.*)
LEMMA TraceAlike ==
    ASSUME NEW inputs, InputsOK("sequence_trace", inputs)
    PROVE  Unanimous("sequence_trace", inputs) <=>
               /\ \A i \in DOMAIN inputs.sequences : inputs.sequences[i] \in 0 .. SeqMax
               /\ Gate!Ts!Trace!traceSequence(inputs.sequences).expected <= SeqMax
<1>1. PICK s \in Seq(Int) : s = inputs.sequences
  <2>1. "sequences" \in {"sequences", "bases"} \cap DOMAIN inputs
    BY DEF InputsOK, KeysOf
  <2>2. inputs.sequences \in Seq(Numbers)
    BY <2>1 DEF InputsOK
  <2>3. PICK s \in Seq(Numbers) : s = inputs.sequences
    BY <2>2
  <2>4. s \in Seq(Int)
    BY NumbersAssumption
  <2> QED
    BY <2>3, <2>4
<1>2. PICK t, r : t = traceFrom("ts", s, 0) /\ r = traceFrom("rs", s, 0)
  OBVIOUS
<1>3. PICK parses \in BOOLEAN : parses = \A i \in DOMAIN s : s[i] \in 0 .. SeqMax
  OBVIOUS
<1>4. TracesAlike(t, r)
  BY <1>2, TracesOf
<1>5. /\ Gate!Ts!compute("sequence_trace", inputs) = TraceText(t)
      /\ Gate!Py!compute("sequence_trace", inputs) = TraceText(t)
      /\ Gate!Rs!compute("sequence_trace", inputs)
           = IF parses THEN TraceText(r) ELSE Gate!Throws
  <2>1. /\ Gate!Ts!compute("sequence_trace", inputs) = Gate!Ts!sequenceTrace(s)
        /\ Gate!Py!compute("sequence_trace", inputs) = Gate!Py!sequenceTrace(s)
        /\ Gate!Rs!compute("sequence_trace", inputs) = Gate!Rs!sequenceTrace(s)
    BY <1>1, OperationsAre
  <2>2. /\ Gate!Ts!Trace!traceSequence(s) = t /\ Gate!Py!Trace!traceSequence(s) = t
        /\ Gate!Rs!Trace!traceSequence(s) = r
    BY <1>2, TracesAre
  <2>3. Gate!Ts!sequenceTrace(s) = TraceText(t)
    BY <2>2 DEF Gate!Ts!sequenceTrace, TraceText
  <2>4. Gate!Py!sequenceTrace(s) = TraceText(t)
    BY <2>2 DEF Gate!Py!sequenceTrace, Gate!Py!Text, Gate!Ts!Text, TraceText
  <2>5. Gate!Rs!sequenceTrace(s) = IF parses THEN TraceText(r) ELSE Gate!Throws
    BY <1>3, <2>2
    DEF Gate!Rs!sequenceTrace, Gate!Rs!Text, Gate!Ts!Text, TraceText, Gate!Throws,
        Gate!Rs!Throws, Gate!Ts!Throws
  <2> QED
    BY <2>1, <2>3, <2>4, <2>5
<1>6. TraceText(t) # Gate!Throws
  BY DEF TraceText, Gate!Throws, Gate!Ts!Throws
<1>7. TraceText(r) = TraceText(t) <=> t.expected <= SeqMax
  <2>1. TraceText(r) = TraceText(t) => r.expected = t.expected
    BY DEF TraceText, Gate!Ts!Text
  <2> QED
    BY <1>4, <2>1 DEF TracesAlike
<1>8. Gate!Ts!Trace!traceSequence(inputs.sequences) = t
  BY <1>1, <1>2, TracesAre
<1> QED
  BY <1>1, <1>3, <1>5, <1>6, <1>7, <1>8 DEF Unanimous

-----------------------------------------------------------------------------
(* What computeTranscript answers on the messages of the two roles.        *)
TranscriptText(nA, nB, v, a, b) ==
    LET sid   == Chains!sessionId(nA, nB)
        headA == Chains!Genesis(v, sid, "A") \o a
        headB == Chains!Genesis(v, sid, "B") \o b
    IN  [sid |-> Gate!Ts!Hex(sid), h_a |-> Gate!Ts!Hex(headA), h_b |-> Gate!Ts!Hex(headB),
         context_hash |-> Gate!Ts!Hex(<<headA, headB>>)]

ResultText(result) ==
    [sid |-> Gate!Ts!Hex(result.sid), h_a |-> Gate!Ts!Hex(result.heads["A"]),
     h_b |-> Gate!Ts!Hex(result.heads["B"]),
     context_hash |-> Gate!Ts!Hex(result.contextHash)]

LEMMA TranscriptTextIs ==
    ASSUME NEW language, NEW nA, NEW nB, NEW v, NEW a, NEW b, IsList(a), IsList(b)
    PROVE  ResultText(TranscriptOf(language, nA, nB, v, a, b))
             = TranscriptText(nA, nB, v, a, b)
<1>1. PICK S : a \in Seq(S) /\ b \in Seq(S)
  <2>1. a \in Seq({a[i] : i \in 1 .. Len(a)} \cup {b[i] : i \in 1 .. Len(b)})
    BY DEF IsList
  <2>2. b \in Seq({a[i] : i \in 1 .. Len(a)} \cup {b[i] : i \in 1 .. Len(b)})
    BY DEF IsList
  <2> QED
    BY <2>1, <2>2
<1>2. PICK m : m = [role \in Chains!Roles |-> IF role = "A" THEN a ELSE b]
  OBVIOUS
<1>3. m["A"] = a /\ m["B"] = b /\ ListsOver(S, m)
  BY <1>1, <1>2 DEF Chains!Roles, ListsOver
<1>4. TranscriptOf(language, nA, nB, v, m["A"], m["B"])
        = TranscriptAfter(Chains!sessionId(nA, nB), v, m)
  BY <1>3, TranscriptOfIs
<1>5. ResultText(TranscriptAfter(Chains!sessionId(nA, nB), v, m))
        = TranscriptText(nA, nB, v, a, b)
  BY <1>3
  DEF ResultText, TranscriptAfter, TranscriptText, HeadsOf, Chains!combineContext,
      Chains!Roles
<1> QED
  BY <1>3, <1>4, <1>5

(* Rust loses the only message of a role if it is empty.                   *)
Readable(a) == a # << << >> >>

LEMMA ParsedIs ==
    ASSUME NEW a, IsList(a)
    PROVE  /\ IsList(Gate!Rs!parse_list(a))
           /\ Readable(a) => Gate!Rs!parse_list(a) = a
           /\ ~Readable(a) => Len(a) = 1 /\ Len(Gate!Rs!parse_list(a)) = 0
BY DEF Gate!Rs!parse_list, Readable, IsList

(* A head tells how many messages it is of.                                *)
LEMMA LongerHead ==
    ASSUME NEW v, NEW sid, NEW role \in {"A", "B"}, NEW a, NEW c, IsList(a), IsList(c),
           Chains!Genesis(v, sid, role) \o a = Chains!Genesis(v, sid, role) \o c
    PROVE  Len(a) = Len(c)
<1>1. PICK x : Chains!Genesis(v, sid, role) = <<x>>
  BY DEF Chains!Genesis
<1>2. a \in Seq({a[i] : i \in 1 .. Len(a)}) /\ c \in Seq({c[i] : i \in 1 .. Len(c)})
  BY DEF IsList
<1>3. PICK S : <<x>> \in Seq(S) /\ a \in Seq(S) /\ c \in Seq(S)
  <2>1. PICK S : S = {x} \cup {a[i] : i \in 1 .. Len(a)} \cup {c[i] : i \in 1 .. Len(c)}
    OBVIOUS
  <2>2. <<x>> \in Seq(S) /\ a \in Seq(S) /\ c \in Seq(S)
    BY <2>1 DEF IsList
  <2> QED
    BY <2>2
<1>4. Len(<<x>> \o a) = 1 + Len(a) /\ Len(<<x>> \o c) = 1 + Len(c)
  BY <1>3
<1> QED
  BY <1>1, <1>3, <1>4

(* Rust gives another transcript exactly if its list was not readable.     *)
LEMMA TranscriptAlike ==
    ASSUME NEW inputs, InputsOK("transcript", inputs),
           Gate!Ts!compute("transcript", inputs) # Gate!Throws
    PROVE  Unanimous("transcript", inputs)
               <=> << << >> >> \notin {inputs.messagesA, inputs.messagesB}
<1>1. PICK nA, nB, v, a, b :
         /\ nA = inputs.nonceA /\ nB = inputs.nonceB /\ v = inputs.version
         /\ a = inputs.messagesA /\ b = inputs.messagesB
  OBVIOUS
<1>2. PICK c, d : c = Gate!Rs!parse_list(a) /\ d = Gate!Rs!parse_list(b)
  OBVIOUS
<1>3. IsList(a) /\ IsList(b) /\ IsList(c) /\ IsList(d)
  BY <1>1, <1>2, ParsedIs DEF InputsOK
<1>4. v \in 0 .. Base - 1
  BY <1>1, OperationsAre DEF Gate!Ts!transcript, Gate!Throws
<1>5. Gate!Ts!compute("transcript", inputs) = TranscriptText(nA, nB, v, a, b)
  <2>1. Gate!Ts!transcript(inputs)
          = ResultText(Gate!Ts!Chain!computeTranscript(nA, nB, v, a, b))
    BY <1>1, <1>4 DEF Gate!Ts!transcript, ResultText
  <2> QED
    BY <1>3, <2>1, OperationsAre, TranscriptsAre, TranscriptTextIs
<1>6. Gate!Py!compute("transcript", inputs) = TranscriptText(nA, nB, v, a, b)
  <2>1. Gate!Py!transcript(inputs)
          = ResultText(Gate!Py!Chain!computeTranscript(nA, nB, v, a, b))
    BY <1>1, <1>4 DEF Gate!Py!transcript, ResultText, Gate!Py!Hex, Gate!Ts!Hex
  <2> QED
    BY <1>3, <2>1, OperationsAre, TranscriptsAre, TranscriptTextIs
<1>7. Gate!Rs!compute("transcript", inputs) = TranscriptText(nA, nB, v, c, d)
  <2>1. Gate!Rs!transcript(inputs)
          = ResultText(Gate!Rs!Chain!computeTranscript(nA, nB, v, c, d))
    BY <1>1, <1>2, <1>4 DEF Gate!Rs!transcript, ResultText, Gate!Rs!Hex, Gate!Ts!Hex
  <2> QED
    BY <1>3, <2>1, OperationsAre, TranscriptsAre, TranscriptTextIs
<1>8. Unanimous("transcript", inputs)
        <=> TranscriptText(nA, nB, v, c, d) = TranscriptText(nA, nB, v, a, b)
  BY <1>5, <1>6, <1>7 DEF Unanimous
<1>9. Readable(a) /\ Readable(b) => c = a /\ d = b
  BY <1>2, <1>3, ParsedIs
<1>10. ASSUME TranscriptText(nA, nB, v, c, d) = TranscriptText(nA, nB, v, a, b)
      PROVE  Readable(a) /\ Readable(b)
  <2>1. PICK sid : sid = Chains!sessionId(nA, nB)
    OBVIOUS
  <2>2. /\ Chains!Genesis(v, sid, "A") \o c = Chains!Genesis(v, sid, "A") \o a
        /\ Chains!Genesis(v, sid, "B") \o d = Chains!Genesis(v, sid, "B") \o b
    BY <1>10, <2>1 DEF TranscriptText, Gate!Ts!Hex
  <2>3. Len(c) = Len(a) /\ Len(d) = Len(b)
    BY <1>3, <2>2, LongerHead
  <2> QED
    BY <1>2, <1>3, <2>3, ParsedIs
<1>11. Readable(a) /\ Readable(b) <=> << << >> >> \notin {a, b}
  BY DEF Readable
<1> QED
  BY <1>1, <1>8, <1>9, <1>10, <1>11

-----------------------------------------------------------------------------
(* A number that reaches every executor as what it is, and such inputs.    *)
Kept(n) == AsDouble[n] = n /\ AsWritten[n] = n

Exact(inputs) ==
    {Gate!Converted(inputs, AsDouble), Gate!Converted(inputs, AsWritten)} = {inputs}

LEMMA SafeIsKept ==
    ASSUME NEW n \in Numbers,
           n \in 0 .. MaxSafe \/ AsDouble[n] \in 0 .. MaxSafe \/ AsWritten[n] \in 0 .. MaxSafe
    PROVE  Kept(n)
<1>1. {n, AsDouble[n], AsWritten[n]} \cap -MaxSafe .. MaxSafe # {} =>
         {AsDouble[n], AsWritten[n]} = {n}
  BY NumbersAssumption
<1>2. MaxSafe \in Nat
  BY NumbersAssumption
<1>3. \A m \in 0 .. MaxSafe : m \in -MaxSafe .. MaxSafe
  BY <1>2
<1> QED
  BY <1>1, <1>3 DEF Kept

LEMMA KeptIsExact ==
    ASSUME NEW operation, NEW inputs, InputsOK(operation, inputs),
           \A key \in NumberKeys \cap DOMAIN inputs : Kept(inputs[key]),
           \A key \in ListKeys \cap DOMAIN inputs :
               \A i \in DOMAIN inputs[key] : Kept(inputs[key][i])
    PROVE  Exact(inputs)
<1>1. ASSUME NEW f \in [Numbers -> Numbers], \A n \in Numbers : Kept(n) => f[n] = n
      PROVE  Gate!Converted(inputs, f) = inputs
  <2>1. PICK c : c = Gate!Converted(inputs, f)
    OBVIOUS
  <2>2. DOMAIN c = DOMAIN inputs /\ c = [key \in DOMAIN c |-> c[key]]
    BY <2>1, ConvertedIs
  <2>3. ASSUME NEW key \in DOMAIN inputs
        PROVE  c[key] = inputs[key]
    <3>1. CASE key \notin NumberKeys \cup ListKeys
      BY <2>1, <3>1, ConvertedIs
    <3>2. CASE key \in NumberKeys
      <4>1. c[key] = f[inputs[key]] /\ inputs[key] \in Numbers
        BY <2>1, <3>2, ConvertedIs
      <4> QED
        BY <1>1, <3>2, <4>1
    <3>3. CASE key \in ListKeys
      <4>1. /\ inputs[key] \in Seq(Numbers)
            /\ c[key] = [i \in 1 .. Len(inputs[key]) |-> f[inputs[key][i]]]
        BY <2>1, <3>3, ConvertedIs
      <4>2. PICK list \in Seq(Numbers) : list = inputs[key]
        BY <4>1
      <4>3. c[key] = [i \in 1 .. Len(list) |-> f[list[i]]]
        BY <4>1, <4>2
      <4>4. \A i \in 1 .. Len(list) : list[i] \in Numbers /\ Kept(list[i])
        BY <3>3, <4>2
      <4>5. \A i \in 1 .. Len(list) : f[list[i]] = list[i]
        BY <1>1, <4>4
      <4>6. [i \in 1 .. Len(list) |-> f[list[i]]] = list
        BY <4>5
      <4> QED
        BY <4>2, <4>3, <4>6
    <3> QED
      BY <3>1, <3>2, <3>3
  <2>4. inputs = [key \in DOMAIN inputs |-> inputs[key]]
    BY DEF InputsOK
  <2> QED
    BY <2>1, <2>2, <2>3, <2>4
<1>2. AsWritten \in [Numbers -> Numbers] /\ AsDouble \in [Numbers -> Numbers]
  BY NumbersAssumption
<1>3. Gate!Converted(inputs, AsDouble) = inputs
  BY <1>1, <1>2 DEF Kept
<1>4. Gate!Converted(inputs, AsWritten) = inputs
  BY <1>1, <1>2 DEF Kept
<1> QED
  BY <1>3, <1>4 DEF Exact

(* All three languages answer the same on what becomes of the inputs.      *)
Answered(operation, inputs) ==
    /\ Gate!compute("py", operation, inputs) = Gate!compute("ts", operation, inputs)
    /\ Gate!compute("rs", operation, inputs) = Gate!compute("ts", operation, inputs)

(* Only Python's integers are exact, so that what all answer alike is what *)
(* no conversion has changed.                                              *)
LEMMA AnsweredIsExact ==
    ASSUME NEW operation, NEW inputs, InputsOK(operation, inputs),
           Gate!compute("ts", operation, inputs) # Gate!Throws,
           Answered(operation, inputs)
    PROVE  Exact(inputs)
<1>1. PICK read, sent : /\ read = Gate!Converted(inputs, AsDouble)
                        /\ sent = Gate!Converted(inputs, AsWritten)
  OBVIOUS
<1>2. /\ Gate!Py!compute(operation, inputs) = Gate!Ts!compute(operation, read)
      /\ Gate!Rs!compute(operation, sent) = Gate!Ts!compute(operation, read)
      /\ Gate!Ts!compute(operation, read) # Gate!Throws
  BY <1>1 DEF Answered, Gate!compute
<1>3. AsWritten \in [Numbers -> Numbers] /\ AsDouble \in [Numbers -> Numbers]
  BY NumbersAssumption
<1>4. operation \in DOMAIN KeysOf /\ DOMAIN inputs = KeysOf[operation]
  <2>1. operation \in Operations
    BY <1>2, OperationsAre
  <2>2. DOMAIN KeysOf = Operations
    BY DEF KeysOf, Operations, PlainOperations
  <2> QED
    BY <2>1, <2>2 DEF InputsOK
<1>5. CASE operation \in {"sha256", "hkdf_extract", "hmac_sha256", "session_id",
                         "directional_keys", "nonce_prefixes", "aead_encrypt"}
  <2>1. DOMAIN inputs \cap (NumberKeys \cup ListKeys) = {}
    BY <1>4, <1>5 DEF KeysOf, NumberKeys, ListKeys
  <2> QED
    BY <2>1, KeptIsExact
<1>6. CASE operation = "hkdf_expand"
  <2>1. DOMAIN inputs \cap ListKeys = {} /\ DOMAIN inputs \cap NumberKeys = {"length"}
    BY <1>4, <1>6 DEF KeysOf, NumberKeys, ListKeys
  <2>2. inputs.length \in Numbers
    BY <2>1, <1>3, ConvertedIs
  <2>3. inputs.length \in 1 .. HashLength * MaxCounter
    <3>1. Gate!Py!hkdfExpand(inputs.prk, inputs.info, inputs.length) # Gate!Py!Throws
      BY <1>2, <1>6, OperationsAre DEF Gate!Throws, Gate!Ts!Throws, Gate!Py!Throws
    <3> QED
      BY <3>1 DEF Gate!Py!hkdfExpand
  <2>4. inputs.length \in 0 .. MaxSafe
    <3>1. PICK all \in Nat : all = HashLength * MaxCounter
      BY HkdfAssumption
    <3> QED
      BY <2>3, <3>1, SafeAssumption, NumbersAssumption
  <2>5. Kept(inputs.length)
    BY <2>2, <2>4, SafeIsKept
  <2> QED
    BY <2>1, <2>5, KeptIsExact
<1>7. CASE operation = "frame_encode"
  <2>1. /\ DOMAIN inputs \cap ListKeys = {}
        /\ DOMAIN inputs \cap NumberKeys = {"message_type", "sequence"}
    BY <1>4, <1>7 DEF KeysOf, NumberKeys, ListKeys
  <2>2. inputs.message_type \in Numbers /\ inputs.sequence \in Numbers
    BY <2>1, <1>3, ConvertedIs
  <2>3. PICK frame : frame = [type |-> inputs.message_type, sequence |-> inputs.sequence,
                              payload |-> inputs.payload, tag |-> NoTag]
    OBVIOUS
  <2>4. Gate!Py!frameEncode(inputs) # Gate!Py!Throws
    BY <1>2, <1>7, OperationsAre DEF Gate!Throws, Gate!Ts!Throws, Gate!Py!Throws
  <2>5. Gate!Py!Codec!EncodableTs(frame)
    BY <2>3, <2>4
    DEF Gate!Py!frameEncode, Gate!Py!Codec!encodeFrame, Gate!Py!Codec!Encodable,
        Gate!Py!Codec!EncodablePy
  <2>6. Gate!Py!Codec!MaxSequence = SeqMax
    <3>1. Gate!Py!Codec!MaxSequence = Gate!Ts!Codec!MaxSequence
      BY DEF Gate!Ts!Codec!MaxSequence, Gate!Py!Codec!MaxSequence,
             Gate!Ts!Codec!LargestOf, Gate!Py!Codec!LargestOf,
             Gate!Ts!Codec!FromBigEndian, Gate!Py!Codec!FromBigEndian
    <3> QED
      BY <3>1, WireAssumption
  <2>7. frame.sequence \in 0 .. SeqMax /\ frame.type \in {BOOTSTRAP_MESSAGE, CLASSICAL_MESSAGE}
    BY <2>5, <2>6 DEF Gate!Py!Codec!EncodableTs, Gate!Py!Codec!MessageTypes
  <2>8. inputs.message_type \in 0 .. MaxSafe /\ inputs.sequence \in 0 .. MaxSafe
    BY <2>3, <2>7, SafeAssumption, NumbersAssumption, SeqMaxAssumption
  <2>9. Kept(inputs.message_type) /\ Kept(inputs.sequence)
    BY <2>2, <2>8, SafeIsKept
  <2> QED
    BY <2>1, <2>9, KeptIsExact
<1>8. CASE operation = "transcript"
  <2>1. DOMAIN inputs \cap ListKeys = {} /\ DOMAIN inputs \cap NumberKeys = {"version"}
    BY <1>4, <1>8 DEF KeysOf, NumberKeys, ListKeys
  <2>2. inputs.version \in Numbers
    BY <2>1, <1>3, ConvertedIs
  <2>3. inputs.version \in 0 .. Base - 1
    <3>1. Gate!Py!transcript(inputs) # Gate!Py!Throws
      BY <1>2, <1>8, OperationsAre DEF Gate!Throws, Gate!Ts!Throws, Gate!Py!Throws
    <3> QED
      BY <3>1 DEF Gate!Py!transcript
  <2>4. inputs.version \in 0 .. MaxSafe
    BY <2>3, SafeAssumption, NumbersAssumption
  <2>5. Kept(inputs.version)
    BY <2>2, <2>4, SafeIsKept
  <2> QED
    BY <2>1, <2>5, KeptIsExact
<1>9. CASE operation = "sequence_trace"
  <2>1. DOMAIN inputs \cap NumberKeys = {} /\ DOMAIN inputs \cap ListKeys = {"sequences"}
    BY <1>4, <1>9 DEF KeysOf, NumberKeys, ListKeys
  <2>2. /\ inputs.sequences \in Seq(Numbers)
        /\ sent.sequences = [i \in 1 .. Len(inputs.sequences) |->
                               AsWritten[inputs.sequences[i]]]
    <3>1. "sequences" \in ListKeys \cap DOMAIN inputs
      BY <2>1
    <3>2. inputs.sequences \in Seq(Numbers)
      BY <1>1, <1>3, <3>1, ConvertedIs
    <3>3. sent.sequences = [i \in 1 .. Len(inputs.sequences) |->
                               AsWritten[inputs.sequences[i]]]
      BY <1>1, <1>3, <3>1, ConvertedIs
    <3> QED
      BY <3>2, <3>3
  <2>3. PICK list \in Seq(Numbers) : list = inputs.sequences
    BY <2>2
  <2>4. PICK made : made = [i \in 1 .. Len(list) |-> AsWritten[list[i]]]
    OBVIOUS
  <2>5. sent.sequences = made
    BY <2>2, <2>3, <2>4
  <2>6. \A i \in 1 .. Len(list) : made[i] \in 0 .. SeqMax
    <3>1. Gate!Rs!compute(operation, sent) = Gate!Rs!sequenceTrace(made)
      BY <1>9, <2>5, OperationsAre
    <3>2. Gate!Rs!sequenceTrace(made) # Gate!Rs!Throws
      BY <1>2, <3>1 DEF Gate!Throws, Gate!Ts!Throws, Gate!Rs!Throws
    <3>3. \A i \in DOMAIN made : made[i] \in 0 .. SeqMax
      BY <3>2 DEF Gate!Rs!sequenceTrace
    <3> QED
      BY <2>4, <3>3
  <2>7. \A i \in 1 .. Len(list) : AsWritten[list[i]] \in 0 .. MaxSafe
    <3>1. \A m \in 0 .. SeqMax : m \in 0 .. MaxSafe
      BY SafeAssumption, NumbersAssumption, SeqMaxAssumption
    <3> QED
      BY <2>4, <2>6, <3>1
  <2>8. \A i \in 1 .. Len(list) : Kept(list[i])
    BY <2>7, SafeIsKept
  <2> QED
    BY <2>1, <2>3, <2>8, KeptIsExact
<1>10. CASE operation = "pack_basis"
  <2>1. DOMAIN inputs \cap NumberKeys = {} /\ DOMAIN inputs \cap ListKeys = {"bases"}
    BY <1>4, <1>10 DEF KeysOf, NumberKeys, ListKeys
  <2>2. PICK list \in Seq(Numbers) : list = inputs.bases
    BY <2>1, <1>3, ConvertedIs
  <2>3. Gate!Py!packBasis(list) # Gate!Py!Throws
    <3>1. Gate!Py!compute(operation, inputs) = Gate!Py!packBasis(list)
      BY <1>10, <2>2 DEF Gate!Py!compute
    <3> QED
      BY <1>2, <3>1 DEF Gate!Throws, Gate!Ts!Throws, Gate!Py!Throws
  <2>4. Len(list) = 4 /\ \A i \in 1 .. 4 : list[i] \in 0 .. 3
    BY <2>3 DEF Gate!Py!packBasis
  <2>5. \A i \in 1 .. Len(list) : list[i] \in 0 .. MaxSafe
    BY <2>4, SafeAssumption, NumbersAssumption
  <2>6. \A i \in 1 .. Len(list) : Kept(list[i])
    BY <2>5, SafeIsKept
  <2> QED
    BY <2>1, <2>2, <2>6, KeptIsExact
<1>11. CASE operation = "build_nonce"
  <2>1. DOMAIN inputs \cap ListKeys = {} /\ DOMAIN inputs \cap NumberKeys = {"sequence"}
    BY <1>4, <1>11 DEF KeysOf, NumberKeys, ListKeys
  <2>2. PICK n \in Numbers : n = inputs.sequence
    BY <2>1, <1>3, ConvertedIs
  <2>3. read.sequence = AsDouble[n]
    BY <2>1, <2>2, <1>1, <1>3, ConvertedIs
  <2>4. sent.sequence = AsWritten[n]
    BY <2>1, <2>2, <1>1, <1>3, ConvertedIs
  <2>5. /\ Gate!Ts!compute(operation, read) = Gate!Ts!buildNonce(read)
        /\ Gate!Py!compute(operation, inputs) = Gate!Py!buildNonce(inputs)
        /\ Gate!Rs!compute(operation, sent) = Gate!Rs!buildNonce(sent)
    BY <1>11 DEF Gate!Ts!compute, Gate!Py!compute, Gate!Rs!compute
  <2>6. Gate!Ts!buildNonce(read) = [out |-> <<"hex", <<read.prefix, AsDouble[n]>> >>]
    BY <1>2, <2>3, <2>5
    DEF Gate!Ts!buildNonce, Gate!Ts!Cipher!buildNonce, Gate!Ts!Hex, Gate!Throws
  <2>7. Gate!Py!buildNonce(inputs) = [out |-> <<"hex", <<inputs.prefix, n>> >>]
    BY <1>2, <2>2, <2>5
    DEF Gate!Py!buildNonce, Gate!Py!Cipher!buildNonce, Gate!Py!Hex, Gate!Throws,
        Gate!Ts!Throws, Gate!Py!Throws
  <2>8. Gate!Rs!buildNonce(sent) = [out |-> <<"hex", <<sent.prefix, AsWritten[n]>> >>]
    BY <1>2, <2>4, <2>5
    DEF Gate!Rs!buildNonce, Gate!Rs!Cipher!buildNonce, Gate!Rs!Hex, Gate!Throws,
        Gate!Ts!Throws, Gate!Rs!Throws
  <2>9. AsDouble[n] = n
    <3>1. [out |-> <<"hex", <<read.prefix, AsDouble[n]>> >>]
            = [out |-> <<"hex", <<inputs.prefix, n>> >>]
      BY <1>2, <2>5, <2>6, <2>7
    <3> QED
      BY <3>1
  <2>10. AsWritten[n] = AsDouble[n]
    <3>1. [out |-> <<"hex", <<read.prefix, AsDouble[n]>> >>]
            = [out |-> <<"hex", <<sent.prefix, AsWritten[n]>> >>]
      BY <1>2, <2>5, <2>6, <2>8
    <3> QED
      BY <3>1
  <2>11. Kept(inputs.sequence)
    BY <2>2, <2>9, <2>10 DEF Kept
  <2> QED
    BY <2>1, <2>11, KeptIsExact
<1> QED
  BY <1>4, <1>5, <1>6, <1>7, <1>8, <1>9, <1>10, <1>11 DEF KeysOf

(* The vectors that a manifest can hold are those that the executors of    *)
(* all languages answer alike.                                             *)
LEMMA PortableIsAlike ==
    ASSUME NEW operation, NEW inputs, InputsOK(operation, inputs),
           Gate!compute("ts", operation, inputs) # Gate!Throws
    PROVE  Gate!Portable(operation, inputs) <=> Answered(operation, inputs)
<1>1. ASSUME ~Exact(inputs)
      PROVE  Gate!Portable(operation, inputs) <=> Answered(operation, inputs)
  BY <1>1, AnsweredIsExact DEF Gate!Portable, Exact
<1>2. ASSUME Exact(inputs)
      PROVE  Gate!Portable(operation, inputs) <=> Answered(operation, inputs)
  <2>1. /\ Gate!Converted(inputs, AsDouble) = inputs
        /\ Gate!Converted(inputs, AsWritten) = inputs
    BY <1>2 DEF Exact
  <2>2. /\ Answered(operation, inputs) <=> Unanimous(operation, inputs)
        /\ Gate!Ts!compute(operation, inputs) # Gate!Throws
    BY <2>1 DEF Answered, Unanimous, Gate!compute
  <2>3. operation \in Operations
    BY <2>2, OperationsAre
  <2>4. Gate!Portable(operation, inputs) <=>
           /\ operation = "hkdf_expand" =>
                  inputs.length <= HashLength * (MaxCounter - 1)
           /\ operation = "transcript" =>
                  << << >> >> \notin {inputs.messagesA, inputs.messagesB}
           /\ operation = "sequence_trace" =>
                  /\ \A i \in DOMAIN inputs.sequences : inputs.sequences[i] \in 0 .. SeqMax
                  /\ Gate!Ts!Trace!traceSequence(inputs.sequences).expected <= SeqMax
    BY <1>2 DEF Gate!Portable, Exact
  <2>5. CASE operation \in PlainOperations
    BY <2>2, <2>4, <2>5, PlainAlike DEF PlainOperations
  <2>6. CASE operation = "hkdf_expand"
    BY <2>2, <2>4, <2>6, ExpandAlike
  <2>7. CASE operation = "frame_encode"
    BY <2>2, <2>4, <2>7, FrameAlike
  <2>8. CASE operation = "transcript"
    BY <2>2, <2>4, <2>8, TranscriptAlike
  <2>9. CASE operation = "sequence_trace"
    BY <2>2, <2>4, <2>9, TraceAlike
  <2>10. CASE operation = "aead_encrypt"
    BY <2>2, <2>4, <2>10, AeadAlike
  <2> QED
    BY <2>3, <2>5, <2>6, <2>7, <2>8, <2>9, <2>10 DEF Operations
<1> QED
  BY <1>1, <1>2

-----------------------------------------------------------------------------
(* Where the pins of the file come from.                                   *)
PinsInv ==
    /\ pins = "reference" =>
           \A i \in 1 .. Size : file[i].expected = Gate!Reference(file[i])
    /\ stage = "done" => exit \in {"0", "1"}

LEMMA InitPins == Gate!Init => PinsInv
<1> SUFFICES ASSUME Gate!Init PROVE PinsInv
  OBVIOUS
<1>1. PICK vectors \in [1 .. Size -> Pool] :
         \/ file = [i \in 1 .. Size |-> Gate!Pinned(vectors[i], vectors[i].inputs,
                                                    Gate!Reference(vectors[i]))]
         \/ pins = "stale"
  BY DEF Gate!Init
<1>2. pins = "reference" =>
         \A i \in 1 .. Size : file[i].expected = Gate!Reference(file[i])
  BY <1>1 DEF Gate!Pinned, Gate!Reference
<1> QED
  BY <1>2 DEF PinsInv, Gate!Init

(* Printing the inputs anew does not change what is right for them.        *)
LEMMA ReferenceStays ==
    ASSUME NEW vector, NEW expected, InputsOK(vector.operation, vector.inputs)
    PROVE  Gate!Reference(Gate!Rewritten(vector, expected)) = Gate!Reference(vector)
<1>1. PICK operation, inputs : operation = vector.operation /\ inputs = vector.inputs
  OBVIOUS
<1>2. PICK printed : printed = Gate!Converted(inputs, AsWritten)
  OBVIOUS
<1>3. Gate!Converted(printed, AsDouble) = Gate!Converted(inputs, AsDouble)
  BY <1>1, <1>2, Reprinted
<1>4. /\ Gate!Rewritten(vector, expected).operation = operation
      /\ Gate!Rewritten(vector, expected).inputs = printed
  BY <1>1, <1>2 DEF Gate!Rewritten, Gate!Pinned
<1> QED
  BY <1>1, <1>3, <1>4 DEF Gate!Reference, Gate!compute

LEMMA NextPins == GateInv /\ PinsInv /\ [Gate!Next]_Gate!gateVars => PinsInv'
<1> SUFFICES ASSUME GateInv, PinsInv, [Gate!Next]_Gate!gateVars PROVE PinsInv'
  OBVIOUS
<1> USE DEF PinsInv
<1>1. ASSUME file' = file, pins' = pins
      PROVE  (pins = "reference" =>
                 \A i \in 1 .. Size : file[i].expected = Gate!Reference(file[i]))'
  BY <1>1 DEF Gate!Reference
<1>2. CASE Gate!StartRun
  BY <1>1, <1>2 DEF Gate!StartRun
<1>3. CASE Gate!UpdatePins
  <2>1. PinnedList(file)
    BY DEF GateInv
  <2>2. CASE \E i \in DOMAIN file : Gate!Run("ts", file[i]) = Gate!Throws
    BY <1>1, <1>3, <2>2 DEF Gate!UpdatePins, Gate!Abort
  <2>3. CASE ~ \E i \in DOMAIN file : Gate!Run("ts", file[i]) = Gate!Throws
    <3>1. /\ file' = [i \in 1 .. Size |-> Gate!Rewritten(file[i], Gate!Run("ts", file[i]))]
          /\ pins' = IF build["ts"] = "none" THEN "reference" ELSE "stale"
          /\ stage' = "updated"
      BY <1>3, <2>1, <2>3 DEF Gate!UpdatePins, Gate!Regenerated, PinnedList
    <3>2. ASSUME build["ts"] = "none", NEW i \in 1 .. Size
          PROVE  file'[i].expected = Gate!Reference(file'[i])
      <4>1. PICK vector, answer : vector = file[i] /\ answer = Gate!Run("ts", file[i])
        OBVIOUS
      <4>2. file'[i] = Gate!Rewritten(vector, answer)
        BY <3>1, <4>1
      <4>3. file'[i].expected = answer
        BY <4>2 DEF Gate!Rewritten, Gate!Pinned
      <4>4. answer = Gate!Reference(vector)
        BY <3>2, <4>1 DEF Gate!Run, Gate!Reference
      <4>5. InputsOK(vector.operation, vector.inputs)
        BY <2>1, <4>1 DEF PinnedList
      <4>6. Gate!Reference(Gate!Rewritten(vector, answer)) = Gate!Reference(vector)
        BY <4>5, ReferenceStays
      <4> QED
        BY <4>2, <4>3, <4>4, <4>6
    <3>3. (pins = "reference" =>
              \A i \in 1 .. Size : file[i].expected = Gate!Reference(file[i]))'
      BY <3>1, <3>2 DEF Gate!Reference
    <3> QED
      BY <3>1, <3>3
  <2> QED
    BY <2>2, <2>3
<1>4. CASE Gate!TestOldPins
  BY <1>1, <1>4 DEF Gate!TestOldPins, Gate!Abort
<1>5. CASE Gate!TypeScriptGate
  BY <1>1, <1>5 DEF Gate!TypeScriptGate, Gate!Abort
<1>6. CASE Gate!PythonGate
  BY <1>1, <1>6 DEF Gate!PythonGate, Gate!Abort
<1>7. CASE Gate!RustGate
  BY <1>1, <1>7 DEF Gate!RustGate, Gate!Abort
<1>8. CASE Gate!Commit
  BY <1>1, <1>8 DEF Gate!Commit
<1>9. CASE UNCHANGED Gate!gateVars
  BY <1>1, <1>9 DEF Gate!gateVars
<1> QED
  BY <1>2, <1>3, <1>4, <1>5, <1>6, <1>7, <1>8, <1>9 DEF Gate!Next

LEMMA PinsTell ==
    ASSUME GateInv, PinsInv
    PROVE  HealthyMirrorsPass
<1> SUFFICES ASSUME stage = "done", build = Gate!NoFault, pins = "reference", ~rewrote
             PROVE  exit = "0" <=>
                       /\ Gate!WellFormed(manifest)
                       /\ \A i \in DOMAIN manifest :
                             Gate!Portable(manifest[i].operation, manifest[i].inputs)
  BY DEF HealthyMirrorsPass, Gate!HealthyMirrorsPass
<1>1. manifest = file /\ PinnedList(manifest) /\ DOMAIN manifest = 1 .. Size
  BY DEF GateInv, PinnedList
<1>2. exit = "0" <=> Gate!WellFormed(manifest) /\ Gate!AllMatch
  BY <1>1 DEF GateInv, PinsInv, Gate!VerdictIsTrue
<1>3. ASSUME NEW i \in 1 .. Size
      PROVE  (\A language \in Gate!Languages :
                 Gate!Run(language, manifest[i]) = manifest[i].expected)
             <=> Gate!Portable(manifest[i].operation, manifest[i].inputs)
  <2>1. PICK vector, operation, inputs :
           vector = manifest[i] /\ operation = vector.operation /\ inputs = vector.inputs
    OBVIOUS
  <2>2. \A language \in Gate!Languages :
           Gate!Run(language, vector) = Gate!compute(language, operation, inputs)
    BY <2>1 DEF Gate!Run, Gate!NoFault
  <2>3. vector.expected = Gate!compute("ts", operation, inputs)
    BY <1>1, <2>1 DEF PinsInv, Gate!Reference
  <2>4. Gate!compute("ts", operation, inputs) # Gate!Throws
    BY <1>1, <2>1, <2>3 DEF PinnedList
  <2>5. InputsOK(operation, inputs)
    BY <1>1, <2>1 DEF PinnedList
  <2>6. Gate!Portable(operation, inputs) <=> Answered(operation, inputs)
    BY <2>4, <2>5, PortableIsAlike
  <2>7. (\A language \in Gate!Languages :
            Gate!Run(language, vector) = vector.expected) <=> Answered(operation, inputs)
    BY <2>2, <2>3 DEF Answered, Gate!Languages
  <2> QED
    BY <2>1, <2>6, <2>7
<1>4. Gate!AllMatch <=>
         \A i \in 1 .. Size : Gate!Portable(manifest[i].operation, manifest[i].inputs)
  BY <1>1, <1>3 DEF Gate!AllMatch
<1> QED
  BY <1>1, <1>2, <1>4

(* HealthyMirrorsPass: on pins from a healthy reference, the gate passes   *)
(* healthy mirrors on exactly the vectors they all answer alike, which are *)
(* those within the limits of Rust's types, counter and list format whose  *)
(* numbers a JavaScript program reads and prints as they are.              *)
THEOREM HealthyGatePasses == Gate!Spec => []HealthyMirrorsPass
<1>1. GateInv /\ PinsInv => HealthyMirrorsPass
  BY PinsTell
<1> QED
  BY <1>1, InitGate, NextGate, InitPins, NextPins, PTL DEF Gate!Spec
=============================================================================
