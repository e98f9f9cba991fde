-------------------------- MODULE QkdSession_proofs --------------------------
(***************************************************************************)
(* What a caller of the QKD backends can rely on, for any contexts,        *)
(* secrets, scores and number of calls, any widths of the profile's        *)
(* fields of which one divides the other, and any behaviour of the key     *)
(* server.                                                                 *)
(***************************************************************************)
EXTENDS QkdSession, NumberLemmas

QkdInput == [role : {"A", "B"}, context : Contexts, profile : Profile,
             sharedSecret : Secrets]
Labels == {"SIMULATED_QKD", "HARDWARE_QKD_ETSI_014"}
Output == {Failed} \cup {simulateQKD(input, label) : input \in QkdInput, label \in Labels}

(* The profile after k transitions.                                        *)
ProfileAfter(start, k) ==
    [type |-> start.type, version |-> start.version,
     stateIndex  |-> (start.stateIndex + k) % StateValues,
     prime_index |-> (start.prime_index + k) % PrimeValues]

(* What a settled call returned is the pipeline's answer for its input.    *)
IsAnswer(input, output) ==
    output = Failed \/ \E label \in Labels : output = simulateQKD(input, label)

-----------------------------------------------------------------------------
(* The inductive invariant: the present profile and that of every call     *)
(* are where as many transitions lead from the profile of the start as     *)
(* there had been when the call was made.                                  *)
SettledWell ==
    /\ settled \in Seq([step : Nat, input : QkdInput, output : Output])
    /\ \A i \in 1 .. Len(settled) : IsAnswer(settled[i].input, settled[i].output)

InFlightWell == \A call \in inFlight : call.step \in Nat /\ call.input \in QkdInput

Follows(start) ==
    /\ profile = ProfileAfter(start, steps)
    /\ \A call \in inFlight : call.input.profile = ProfileAfter(start, call.step)
    /\ \A i \in 1 .. Len(settled) :
         settled[i].input.profile = ProfileAfter(start, settled[i].step)

IInv ==
    /\ steps \in Nat /\ profile \in Profile
    /\ InFlightWell /\ SettledWell
    /\ \E start \in StartProfiles : Follows(start)

-----------------------------------------------------------------------------
(* Profiles.                                                               *)
LEMMA AfterNone ==
    ASSUME NEW start \in Profile
    PROVE  ProfileAfter(start, 0) = start
<1>1. /\ start.stateIndex \in 0 .. StateValues - 1
      /\ start.prime_index \in 0 .. PrimeValues - 1
      /\ start = [type |-> start.type, version |-> start.version,
                  stateIndex |-> start.stateIndex, prime_index |-> start.prime_index]
  BY DEF Profile
<1>2. /\ (start.stateIndex + 0) % StateValues = start.stateIndex
      /\ (start.prime_index + 0) % PrimeValues = start.prime_index
  BY <1>1, ValuesAssumption
<1> QED
  BY <1>1, <1>2 DEF ProfileAfter

LEMMA AfterNext ==
    ASSUME NEW start \in Profile, NEW k \in Nat
    PROVE  /\ NextProfile(ProfileAfter(start, k)) = ProfileAfter(start, k + 1)
           /\ ProfileAfter(start, k) \in Profile
<1> DEFINE x == start.stateIndex + k
           y == start.prime_index + k
<1>1. /\ start.stateIndex \in Nat /\ start.prime_index \in Nat
      /\ start.type \in 0 .. 255 /\ start.version \in 0 .. 255
  BY DEF Profile
<1>2. /\ x \in Int /\ y \in Int
      /\ x + 1 = start.stateIndex + (k + 1) /\ y + 1 = start.prime_index + (k + 1)
  BY <1>1
<1>3. ProfileAfter(start, k) = [type |-> start.type, version |-> start.version,
                                stateIndex |-> x % StateValues,
                                prime_index |-> y % PrimeValues]
  BY DEF ProfileAfter
<1>4. ProfileAfter(start, k + 1) = [type |-> start.type, version |-> start.version,
                                    stateIndex |-> (x + 1) % StateValues,
                                    prime_index |-> (y + 1) % PrimeValues]
  BY <1>2 DEF ProfileAfter
<1> HIDE DEF x, y
<1>5. StateValues \in Nat \ {0} /\ PrimeValues \in Nat \ {0} /\ 1 \in Int
  BY ValuesAssumption
<1>6. /\ ((x % StateValues) + 1) % StateValues = (x + 1) % StateValues
      /\ ((y % PrimeValues) + 1) % PrimeValues = (y + 1) % PrimeValues
  BY <1>2, <1>5, ModAdd
<1>7. ProfileAfter(start, k) \in Profile
  <2>1. /\ x % StateValues \in 0 .. StateValues - 1
        /\ y % PrimeValues \in 0 .. PrimeValues - 1
    BY <1>2, <1>5
  <2> QED
    BY <1>1, <1>3, <2>1 DEF Profile
<1>8. NextProfile(ProfileAfter(start, k)) = ProfileAfter(start, k + 1)
  <2> DEFINE v == x % StateValues
             w == y % PrimeValues
  <2>1. PICK p : p = ProfileAfter(start, k)
    OBVIOUS
  <2>2. p = [type |-> start.type, version |-> start.version,
             stateIndex |-> v, prime_index |-> w]
    BY <1>3, <2>1
  <2>3. /\ (v + 1) % StateValues = (x + 1) % StateValues
        /\ (w + 1) % PrimeValues = (y + 1) % PrimeValues
    BY <1>6
  <2> HIDE DEF v, w
  <2>4. NextProfile(p) = [p EXCEPT !.stateIndex = (v + 1) % StateValues,
                                   !.prime_index = (w + 1) % PrimeValues]
    BY <2>2 DEF NextProfile
  <2>5. NextProfile(p) = [type |-> start.type, version |-> start.version,
                          stateIndex |-> (v + 1) % StateValues,
                          prime_index |-> (w + 1) % PrimeValues]
    BY <2>2, <2>4
  <2> QED
    BY <1>4, <2>1, <2>3, <2>5
<1> QED
  BY <1>7, <1>8

(* Two profiles on the way from one start are encoded alike just if they   *)
(* are a multiple of the cycle of prime_index apart.                       *)
LEMMA EncodedAlike ==
    ASSUME NEW start \in Profile, NEW k \in Int, NEW j \in Int
    PROVE  encodeProfile(ProfileAfter(start, k)) = encodeProfile(ProfileAfter(start, j))
             <=> k % PrimeValues = j % PrimeValues
<1> DEFINE S == StateValues
           P == PrimeValues
<1>1. S \in Nat \ {0}
  BY ValuesAssumption
<1>2. P \in Nat \ {0}
  BY ValuesAssumption
<1>3. PICK x \in Int, y \in Int : x = start.stateIndex /\ y = start.prime_index
  BY DEF Profile
<1>4. encodeProfile(ProfileAfter(start, k)) = encodeProfile(ProfileAfter(start, j))
        <=> (x + k) % S = (x + j) % S /\ (y + k) % P = (y + j) % P
  BY <1>3 DEF encodeProfile, ProfileAfter
<1>5. \A b, c \in Int : b % P = c % P => b % S = c % S
  <2>1. P % S = 0
    BY ValuesAssumption
  <2> HIDE DEF S, P
  <2> QED
    BY <1>1, <1>2, <2>1, ModDivides
<1> HIDE DEF S, P
<1> DEFINE s(a) == a % S
           p(a) == a % P
<1>6. \A b, c, d, e \in Int : d - b = e - c => (s(d) = s(e) <=> s(b) = s(c))
  BY <1>1, ModShift
<1>7. \A b, c, d, e \in Int : d - b = e - c => (p(d) = p(e) <=> p(b) = p(c))
  BY <1>2, ModShift
<1>8. /\ \A a, b \in Int : p(a) = p(b) => s(a) = s(b)
      /\ encodeProfile(ProfileAfter(start, k)) = encodeProfile(ProfileAfter(start, j))
            <=> s(x + k) = s(x + j) /\ p(y + k) = p(y + j)
  BY <1>4, <1>5
<1>9. encodeProfile(ProfileAfter(start, k)) = encodeProfile(ProfileAfter(start, j))
        <=> p(k) = p(j)
  <2> HIDE DEF s, p
  <2>1. s(x + k) = s(x + j) <=> s(k) = s(j)
    BY <1>6
  <2>2. p(y + k) = p(y + j) <=> p(k) = p(j)
    BY <1>7
  <2>3. p(k) = p(j) => s(k) = s(j)
    BY <1>8
  <2> QED
    BY <1>8, <2>1, <2>2, <2>3
<1> QED
  BY <1>9 DEF P

-----------------------------------------------------------------------------
(* The pipeline never sees a regression; its answer in full.               *)
DirectionOf(role) == IF role = "A" THEN "A2B" ELSE "B2A"
HashOf(input) ==
    <<input.context, input.sharedSecret.first, input.profile.version,
      encodeProfile(input.profile)>>
PrimeOf(input) == getPrimeAtIndex[input.profile.prime_index]
KeyOf(input) ==
    <<input.sharedSecret, <<DirectionOf(input.role), HashOf(input),
                            encodeProfile(input.profile), PrimeOf(input)>>>>

LEMMA AnswerIs ==
    ASSUME NEW input \in QkdInput, NEW label
    PROVE  simulateQKD(input, label) =
             [simulatedKey |-> KeyOf(input), label |-> label,
              sealed |-> [key |-> KeyOf(input), nonce |-> input.sharedSecret.first,
                          plaintext |-> <<PrimeOf(input), KeyOf(input), HashOf(input)>>,
                          aad |-> <<encodeProfile(input.profile),
                                    encodeProfile(input.profile), PrimeOf(input)>>]]
<1>1. input.profile.prime_index \in Int
  BY DEF QkdInput, Profile
<1>2. ~(input.profile.prime_index < input.profile.prime_index)
  BY <1>1
<1> QED
  BY <1>2 DEF simulateQKD, computeTranscript, deriveKey, getInfo, computeCommitment,
              encryptAEAD, KeyOf, HashOf, PrimeOf, DirectionOf

LEMMA KeysAlike ==
    ASSUME NEW c \in QkdInput, NEW d \in QkdInput
    PROVE  KeyOf(c) = KeyOf(d) <=>
             /\ c.role = d.role /\ c.context = d.context
             /\ c.sharedSecret = d.sharedSecret
             /\ encodeProfile(c.profile) = encodeProfile(d.profile)
<1>1. /\ c.role \in {"A", "B"} /\ d.role \in {"A", "B"}
  BY DEF QkdInput
<1>2. encodeProfile(c.profile) = encodeProfile(d.profile)
        => c.profile.prime_index = d.profile.prime_index
           /\ c.profile.version = d.profile.version
  BY DEF encodeProfile
<1> QED
  BY <1>1, <1>2 DEF KeyOf, HashOf, PrimeOf, DirectionOf

(* Of a call that returned, all that the properties speak of.              *)
LEMMA ReturnedIs ==
    ASSUME SettledWell, NEW start, Follows(start), NEW c \in Returned
    PROVE  /\ c.input \in QkdInput /\ c.step \in Nat
           /\ c.input.profile = ProfileAfter(start, c.step)
           /\ \E label : c.output = simulateQKD(c.input, label)
<1>1. PICK i \in DOMAIN settled :
        settled[i] = c /\ "simulatedKey" \in DOMAIN settled[i].output
  BY DEF Returned
<1>2. /\ i \in 1 .. Len(settled)
      /\ settled[i] \in [step : Nat, input : QkdInput, output : Output]
      /\ IsAnswer(settled[i].input, settled[i].output)
  <2> DEFINE Settlement == [step : Nat, input : QkdInput, output : Output]
  <2>1. /\ settled \in Seq(Settlement)
        /\ \A n \in 1 .. Len(settled) : IsAnswer(settled[n].input, settled[n].output)
    BY DEF SettledWell
  <2> HIDE DEF Settlement
  <2>2. i \in 1 .. Len(settled) /\ settled[i] \in Settlement
    BY <1>1, <2>1
  <2> QED
    BY <2>1, <2>2 DEF Settlement
<1>3. c.output # Failed
  <2>1. "simulatedKey" \notin DOMAIN Failed
    BY DEF Failed
  <2> QED
    BY <1>1, <2>1
<1> QED
  BY <1>1, <1>2, <1>3 DEF IsAnswer, Follows

-----------------------------------------------------------------------------
LEMMA InitIInv == Init => IInv
<1> SUFFICES ASSUME Init PROVE IInv
  OBVIOUS
<1>1. profile \in StartProfiles /\ profile \in Profile /\ steps = 0
  BY StartProfilesAssumption DEF Init
<1>2. inFlight = {} /\ settled = << >> /\ Len(settled) = 0
  BY DEF Init
<1>3. InFlightWell /\ SettledWell
  BY <1>2 DEF InFlightWell, SettledWell
<1>4. Follows(profile)
  BY <1>1, <1>2, AfterNone DEF Follows
<1> QED
  BY <1>1, <1>3, <1>4 DEF IInv

LEMMA FeedbackPreserves ==
    ASSUME IInv, NEW score \in Scores, Feedback(score)
    PROVE  IInv'
<1>1. PICK start \in StartProfiles : Follows(start)
  BY DEF IInv
<1>2. start \in Profile /\ steps \in Nat /\ profile = ProfileAfter(start, steps)
  BY <1>1, StartProfilesAssumption DEF IInv, Follows
<1>3. UNCHANGED <<inFlight, settled>>
  BY DEF Feedback
<1>4. \/ profile' = NextProfile(profile) /\ steps' = steps + 1
      \/ profile' = profile /\ steps' = steps
  <2>1. CASE Permits(profile, score)
    BY <1>2, <2>1 DEF Feedback, computeFeedback
  <2>2. CASE ~Permits(profile, score)
    BY <1>2, <2>2 DEF Feedback, computeFeedback
  <2> QED
    BY <2>1, <2>2
<1>5. steps' \in Nat /\ profile' = ProfileAfter(start, steps')
  BY <1>2, <1>4, AfterNext
<1>6. profile' \in Profile
  BY <1>2, <1>5, AfterNext
<1>7. InFlightWell' /\ SettledWell' /\ Follows(start)'
  BY <1>1, <1>3, <1>5 DEF IInv, InFlightWell, SettledWell, Follows
<1> QED
  BY <1>5, <1>6, <1>7 DEF IInv

(* A call that settles with the pipeline's answer or the failure.          *)
LEMMA SettlePreserves ==
    ASSUME SettledWell, NEW start, Follows(start),
           NEW step \in Nat, NEW input \in QkdInput, NEW output,
           IsAnswer(input, output), input.profile = ProfileAfter(start, step),
           Settle(step, input, output)
    PROVE  /\ SettledWell'
           /\ \A i \in 1 .. Len(settled') :
                settled'[i].input.profile = ProfileAfter(start, settled'[i].step)
<1> DEFINE Settlement == [step : Nat, input : QkdInput, output : Output]
           call == [step |-> step, input |-> input, output |-> output]
<1>1. output \in Output
  BY DEF IsAnswer, Output
<1>2. call \in Settlement
  BY <1>1
<1>3. settled' = Append(settled, call) /\ settled \in Seq(Settlement)
  BY DEF Settle, SettledWell
<1> HIDE DEF Settlement
<1>4. /\ settled' \in Seq(Settlement) /\ Len(settled') = Len(settled) + 1
      /\ settled'[Len(settled) + 1] = call /\ Len(settled) \in Nat
      /\ \A i \in 1 .. Len(settled) : settled'[i] = settled[i]
  <2> HIDE DEF call
  <2> QED
    BY <1>2, <1>3
<1>5. ASSUME NEW i \in 1 .. Len(settled')
      PROVE  /\ IsAnswer(settled'[i].input, settled'[i].output)
             /\ settled'[i].input.profile = ProfileAfter(start, settled'[i].step)
  <2>1. CASE i = Len(settled) + 1
    BY <1>4, <2>1
  <2>2. CASE i \in 1 .. Len(settled)
    BY <1>4, <2>2 DEF SettledWell, Follows
  <2> QED
    BY <1>4, <2>1, <2>2
<1> QED
  BY <1>4, <1>5 DEF SettledWell, Settlement

LEMMA CallPreserves ==
    ASSUME IInv, NEW role \in {"A", "B"}, NEW context \in Contexts, NEW secret \in Secrets,
           GetMockKey(role, context, secret) \/ RequestKey(role, context, secret)
    PROVE  IInv'
<1> DEFINE input == InputOf(role, context, secret)
<1>1. PICK start \in StartProfiles : Follows(start)
  BY DEF IInv
<1>2. /\ input \in QkdInput /\ input.profile = ProfileAfter(start, steps)
      /\ steps \in Nat
  BY <1>1 DEF IInv, InputOf, QkdInput, Follows
<1> HIDE DEF input
<1>3. UNCHANGED <<profile, steps>>
  BY DEF GetMockKey, RequestKey
<1>4. CASE GetMockKey(role, context, secret)
  <2>1. /\ Settle(steps, input, simulateQKD(input, "SIMULATED_QKD"))
        /\ UNCHANGED inFlight
    BY <1>4 DEF GetMockKey, input
  <2>2. IsAnswer(input, simulateQKD(input, "SIMULATED_QKD"))
    BY DEF IsAnswer, Labels
  <2>3. /\ SettledWell'
        /\ \A i \in 1 .. Len(settled') :
             settled'[i].input.profile = ProfileAfter(start, settled'[i].step)
    BY <1>1, <1>2, <2>1, <2>2, SettlePreserves DEF IInv
  <2> QED
    BY <1>1, <1>3, <2>1, <2>3 DEF IInv, InFlightWell, Follows
<1>5. CASE RequestKey(role, context, secret)
  <2>1. /\ inFlight' = inFlight \cup {[id |-> Calls, step |-> steps, input |-> input]}
        /\ UNCHANGED settled
    BY <1>5 DEF RequestKey, input
  <2> QED
    BY <1>1, <1>2, <1>3, <2>1 DEF IInv, InFlightWell, SettledWell, Follows
<1> QED
  BY <1>4, <1>5

(* However late the answer comes, it is for the input of the call.         *)
LEMMA AnswerPreserves ==
    ASSUME IInv, NEW call \in inFlight,
           AnswerFailure(call) \/ \E secret \in Secrets : AnswerKey(call, secret)
    PROVE  IInv'
<1>1. PICK start \in StartProfiles : Follows(start)
  BY DEF IInv
<1>2. /\ call.input \in QkdInput /\ call.step \in Nat
      /\ call.input.profile = ProfileAfter(start, call.step)
  BY <1>1 DEF IInv, InFlightWell, Follows
<1>3. UNCHANGED <<profile, steps>> /\ inFlight' = inFlight \ {call}
  BY DEF AnswerFailure, AnswerKey
<1>4. PICK input, output :
        /\ input \in QkdInput
        /\ Settle(call.step, input, output) /\ IsAnswer(input, output)
        /\ input.profile = ProfileAfter(start, call.step)
  <2>1. CASE AnswerFailure(call)
    BY <1>2, <2>1 DEF AnswerFailure, IsAnswer
  <2>2. ASSUME NEW secret \in Secrets, AnswerKey(call, secret)
        PROVE  \E input, output :
                 /\ input \in QkdInput
                 /\ Settle(call.step, input, output) /\ IsAnswer(input, output)
                 /\ input.profile = ProfileAfter(start, call.step)
    <3> DEFINE input == [call.input EXCEPT !.sharedSecret = secret]
    <3>1. Settle(call.step, input, simulateQKD(input, "HARDWARE_QKD_ETSI_014"))
      BY <2>2 DEF AnswerKey, InputAtAnswer
    <3>2. input \in QkdInput /\ input.profile = call.input.profile
      BY <1>2 DEF QkdInput
    <3> HIDE DEF input
    <3>3. IsAnswer(input, simulateQKD(input, "HARDWARE_QKD_ETSI_014"))
      BY DEF IsAnswer, Labels
    <3> QED
      BY <1>2, <3>1, <3>2, <3>3
  <2> QED
    BY <2>1, <2>2
<1>5. /\ SettledWell'
      /\ \A i \in 1 .. Len(settled') :
           settled'[i].input.profile = ProfileAfter(start, settled'[i].step)
  BY <1>1, <1>2, <1>4, SettlePreserves DEF IInv
<1> QED
  BY <1>1, <1>3, <1>5 DEF IInv, InFlightWell, Follows

LEMMA NextIInv == IInv /\ [Next]_vars => IInv'
<1> SUFFICES ASSUME IInv, [Next]_vars PROVE IInv'
  OBVIOUS
<1>1. CASE UNCHANGED vars
  BY <1>1 DEF vars, IInv, InFlightWell, SettledWell, Follows
<1>2. CASE \E score \in Scores : Feedback(score)
  BY <1>2, FeedbackPreserves
<1>3. ASSUME NEW role \in {"A", "B"}, NEW context \in Contexts, NEW secret \in Secrets,
             GetMockKey(role, context, secret) \/ RequestKey(role, context, secret)
      PROVE  IInv'
  BY <1>3, CallPreserves
<1>4. ASSUME NEW call \in inFlight,
             AnswerFailure(call) \/ \E secret \in Secrets : AnswerKey(call, secret)
      PROVE  IInv'
  BY <1>4, AnswerPreserves
<1> QED
  BY <1>1, <1>2, <1>3, <1>4 DEF Next

-----------------------------------------------------------------------------
(* Two encryptions under one key and one nonce are one and the same, for   *)
(* whatever keys the server hands out and however often it repeats them.   *)
THEOREM NonceReuseIsHarmless == Spec => []NonceReuseHarmless
<1>1. ASSUME IInv PROVE NonceReuseHarmless
  <2>1. PICK start \in StartProfiles : Follows(start)
    BY <1>1 DEF IInv
  <2>2. ASSUME NEW c \in Returned, NEW d \in Returned,
               c.output.sealed.key = d.output.sealed.key,
               c.output.sealed.nonce = d.output.sealed.nonce
        PROVE  c.output.sealed = d.output.sealed
    <3>1. /\ c.input \in QkdInput /\ \E label : c.output = simulateQKD(c.input, label)
          /\ d.input \in QkdInput /\ \E label : d.output = simulateQKD(d.input, label)
      BY <1>1, <2>1, ReturnedIs DEF IInv
    <3> DEFINE Sealing(input) ==
                 [key |-> KeyOf(input), nonce |-> input.sharedSecret.first,
                  plaintext |-> <<PrimeOf(input), KeyOf(input), HashOf(input)>>,
                  aad |-> <<encodeProfile(input.profile),
                            encodeProfile(input.profile), PrimeOf(input)>>]
    <3>2. c.output.sealed = Sealing(c.input) /\ d.output.sealed = Sealing(d.input)
      BY <3>1, AnswerIs
    <3>3. KeyOf(c.input) = KeyOf(d.input)
      BY <2>2, <3>2
    <3>4. /\ HashOf(c.input) = HashOf(d.input) /\ PrimeOf(c.input) = PrimeOf(d.input)
          /\ encodeProfile(c.input.profile) = encodeProfile(d.input.profile)
          /\ c.input.sharedSecret = d.input.sharedSecret
      BY <3>3 DEF KeyOf
    <3> QED
      BY <3>2, <3>3, <3>4
  <2> QED
    BY <2>2 DEF NonceReuseHarmless
<1> QED
  BY <1>1, InitIInv, NextIInv, PTL DEF Spec

(* Two calls return one key just if they ask for one: same role, context   *)
(* and secret, at steps a multiple of the cycle of prime_index apart.      *)
THEOREM KeysTellCalls == Spec => []KeysFollowCalls
<1>1. ASSUME IInv PROVE KeysFollowCalls
  <2>1. PICK start \in StartProfiles : Follows(start)
    BY <1>1 DEF IInv
  <2>2. ASSUME NEW c \in Returned, NEW d \in Returned
        PROVE  c.output.simulatedKey = d.output.simulatedKey <=>
                 /\ c.input.role = d.input.role /\ c.input.context = d.input.context
                 /\ c.input.sharedSecret = d.input.sharedSecret
                 /\ c.step % PrimeValues = d.step % PrimeValues
    <3>1. /\ c.input \in QkdInput /\ \E label : c.output = simulateQKD(c.input, label)
          /\ d.input \in QkdInput /\ \E label : d.output = simulateQKD(d.input, label)
          /\ c.step \in Nat /\ c.input.profile = ProfileAfter(start, c.step)
          /\ d.step \in Nat /\ d.input.profile = ProfileAfter(start, d.step)
      BY <1>1, <2>1, ReturnedIs DEF IInv
    <3>2. /\ c.output.simulatedKey = KeyOf(c.input)
          /\ d.output.simulatedKey = KeyOf(d.input)
      BY <3>1, AnswerIs
    <3>3. encodeProfile(c.input.profile) = encodeProfile(d.input.profile)
            <=> c.step % PrimeValues = d.step % PrimeValues
      BY <3>1, EncodedAlike, StartProfilesAssumption
    <3> QED
      BY <3>1, <3>2, <3>3, KeysAlike
  <2> QED
    BY <2>2 DEF KeysFollowCalls
<1> QED
  BY <1>1, InitIInv, NextIInv, PTL DEF Spec

-----------------------------------------------------------------------------
(* The primes of the indexes grow.  That there is one above n and up to 2n *)
(* is Bertrand's postulate, a theorem about numbers that is not proved     *)
(* here and on which the model's getPrimeAtIndex relies.                   *)
Bertrand == \A n \in Nat \ {0} : \E p \in n + 1 .. 2 * n : isPrime(p)

LEMMA PrimesGrow ==
    ASSUME Bertrand
    PROVE  /\ getPrimeAtIndex \in [0 .. PrimeValues - 1 -> Nat \ {0}]
           /\ \A i \in 1 .. PrimeValues - 1 : getPrimeAtIndex[i] > getPrimeAtIndex[i - 1]
<1> DEFINE T == Nat \ {0}
           N == PrimeValues - 1
           Primes(last) == {n \in last + 1 .. 2 * last : isPrime(n)}
           After(last) == Min(Primes(last))
           step == [i \in 1 .. N |-> [last \in T |-> After(last)]]
           Loop(f) == [index \in 0 .. N |-> IF index = 0 THEN 2 ELSE After(f[index - 1])]
<1>1. N \in Nat
  BY ValuesAssumption
<1>2. ASSUME NEW last \in T
      PROVE  After(last) \in T /\ After(last) > last
  <2> DEFINE P == Primes(last)
  <2>1. P \in SUBSET Nat /\ P # {} /\ \A n \in P : n > last
    BY DEF Bertrand
  <2> HIDE DEF P
  <2>2. \E x \in P : \A y \in P : x <= y
    BY <2>1, LeastExists
  <2>3. Min(P) \in P
    BY <2>2 DEF Min
  <2> QED
    BY <2>1, <2>3 DEF P
<1>3. /\ step \in [1 .. N -> [T -> T]]
      /\ \A i \in 1 .. N, last \in T : step[i][last] = After(last)
  <2> HIDE DEF After
  <2> QED
    BY <1>2
<1>4. PICK f \in [0 .. N -> T] : f[0] = 2 /\ \A i \in 1 .. N : f[i] = step[i][f[i - 1]]
  <2>1. 2 \in T /\ step \in [1 .. N -> [T -> T]]
    BY <1>3
  <2> HIDE DEF step, N, T
  <2>2. PICK s, U, e, M : s = step /\ U = T /\ e = 2 /\ M = N
    OBVIOUS
  <2>3. s \in [1 .. M -> [U -> U]] /\ e \in U /\ M \in Nat
    BY <1>1, <2>1, <2>2
  <2>4. \E f \in [0 .. M -> U] : IsLoop(f, e, s, M)
    BY <2>3, LoopExists
  <2> QED
    BY <2>2, <2>4 DEF IsLoop
<1>5. f = Loop(f)
  <2> HIDE DEF step, After, N
  <2>1. ASSUME NEW i \in 0 .. N
        PROVE  f[i] = IF i = 0 THEN 2 ELSE After(f[i - 1])
    <3>1. CASE i = 0
      BY <1>4, <3>1
    <3>2. CASE i # 0
      <4>1. i \in 1 .. N /\ i - 1 \in 0 .. N
        BY <1>1, <3>2
      <4> QED
        BY <1>3, <1>4, <3>2, <4>1
    <3> QED
      BY <3>1, <3>2
  <2> QED
    BY <2>1
<1>6. getPrimeAtIndex = Loop(getPrimeAtIndex)
  <2>1. getPrimeAtIndex = CHOOSE g : g = Loop(g)
    BY DEF getPrimeAtIndex
  <2> HIDE DEF Loop
  <2> QED
    BY <1>5, <2>1
<1> HIDE DEF step, After, N, T
<1>7. \A i \in 0 .. N : f[i] = getPrimeAtIndex[i]
  <2>1. PICK g : g = getPrimeAtIndex
    OBVIOUS
  <2>2. g = Loop(g)
    BY <1>6, <2>1
  <2>3. f[0] = g[0]
    BY <1>1, <1>4, <2>2
  <2>4. ASSUME NEW i \in 1 .. N, f[i - 1] = g[i - 1]
        PROVE  f[i] = g[i]
    <3>1. i \in 0 .. N /\ i # 0
      OBVIOUS
    <3>2. f[i] = After(f[i - 1])
      BY <1>5, <3>1
    <3>3. g[i] = After(g[i - 1])
      BY <2>2, <3>1
    <3> QED
      BY <2>4, <3>2, <3>3
  <2> HIDE DEF N
  <2>5. \A i \in 0 .. N : f[i] = g[i]
    <3>1. PICK M \in Nat : M = N
      BY <1>1
    <3>2. StayAlike(f, g, M)
      BY <2>4, <3>1 DEF StayAlike
    <3> QED
      BY <2>3, <3>1, <3>2, SameLoop DEF Alike
  <2> QED
    BY <2>1, <2>5
<1>8. getPrimeAtIndex = f
  BY <1>5, <1>6, <1>7
<1>9. \A i \in 1 .. N : f[i] > f[i - 1]
  <2> TAKE i \in 1 .. N
  <2>1. f[i - 1] \in T /\ f[i] = step[i][f[i - 1]]
    BY <1>1, <1>4
  <2> QED
    BY <1>2, <1>3, <2>1
<1> QED
  BY <1>8, <1>9 DEF N, T

(* Why a greater prime does not take a permission back.                    *)
LEMMA GreaterPermits ==
    ASSUME NEW num \in Nat, NEW den \in Nat, num <= den, NEW p \in Nat, NEW q \in Nat,
           p <= q, num * (p + 1) <= p * den
    PROVE  num * (q + 1) <= q * den
<1>1. PICK d \in Nat : q = p + d
  <2>1. q - p \in Nat /\ q = p + (q - p)
    OBVIOUS
  <2> QED
    BY <2>1
<1>2. num * d <= den * d
  <2>1. PICK e \in Nat : den = num + e
    <3>1. den - num \in Nat /\ den = num + (den - num)
      OBVIOUS
    <3> QED
      BY <3>1
  <2>2. den * d = num * d + e * d
    BY <2>1
  <2>3. e * d >= 0
    OBVIOUS
  <2>4. num * d \in Int /\ e * d \in Int
    OBVIOUS
  <2> QED
    BY <2>2, <2>3, <2>4
<1>3. num * (q + 1) = num * (p + 1) + num * d /\ q * den = p * den + den * d
  BY <1>1
<1> DEFINE a == num * (p + 1)
           b == p * den
           v == num * d
           w == den * d
<1>4. a \in Int /\ b \in Int /\ v \in Int /\ w \in Int
  OBVIOUS
<1>5. a <= b /\ v <= w /\ num * (q + 1) = a + v /\ q * den = b + w
  BY <1>2, <1>3
<1> HIDE DEF a, b, v, w
<1>6. a + v <= b + w
  BY <1>4, <1>5
<1> QED
  BY <1>5, <1>6

PInv == IInv /\ permitted \subseteq Scores /\ PermissionLasts

LEMMA NextPInv ==
    ASSUME Bertrand, PInv, [Next]_vars
    PROVE  PInv'
<1>1. IInv'
  BY NextIInv DEF PInv
<1>2. CASE UNCHANGED <<profile, permitted>>
  BY <1>1, <1>2 DEF PInv, PermissionLasts
<1>3. ASSUME NEW score \in Scores, Feedback(score)
      PROVE  PInv'
  <2>1. CASE ~Permits(profile, score)
    <3>1. UNCHANGED <<profile, permitted>>
      BY <1>3, <2>1 DEF Feedback, computeFeedback
    <3> QED
      BY <1>2, <3>1
  <2>2. CASE Permits(profile, score)
    <3> DEFINE i == profile.prime_index
               j == profile'.prime_index
    <3>1. /\ profile' = NextProfile(profile)
          /\ permitted' = IF j < i THEN {} ELSE permitted \cup {score}
      BY <1>3, <2>2 DEF Feedback, computeFeedback
    <3>2. CASE j < i
      BY <1>1, <3>1, <3>2 DEF PInv, PermissionLasts
    <3>3. CASE ~(j < i)
      <4>1. permitted' = permitted \cup {score}
        BY <3>1, <3>3
      <4>2. i \in 0 .. PrimeValues - 1 /\ j = (i + 1) % PrimeValues
        BY <3>1 DEF NextProfile, PInv, IInv, Profile
      <4>3. j = i \/ (j = i + 1 /\ j \in 1 .. PrimeValues - 1)
        <5> HIDE DEF i, j
        <5>1. CASE i + 1 = PrimeValues
          BY <3>3, <4>2, <5>1, ValuesAssumption
        <5>2. CASE i + 1 < PrimeValues
          BY <4>2, <5>2, ValuesAssumption
        <5> QED
          BY <4>2, <5>1, <5>2, ValuesAssumption
      <4>4. /\ getPrimeAtIndex[i] \in Nat /\ getPrimeAtIndex[j] \in Nat
            /\ getPrimeAtIndex[i] <= getPrimeAtIndex[j]
        <5> HIDE DEF i, j
        <5>1. getPrimeAtIndex[i] \in Nat
          BY <4>2, PrimesGrow
        <5>2. CASE j = i
          BY <5>1, <5>2
        <5>3. CASE j = i + 1 /\ j \in 1 .. PrimeValues - 1
          <6>1. getPrimeAtIndex[j] > getPrimeAtIndex[j - 1] /\ j - 1 = i
            BY <4>2, <5>3, PrimesGrow
          <6>2. getPrimeAtIndex[j] \in Nat
            BY <5>3, PrimesGrow, ValuesAssumption
          <6> QED
            BY <5>1, <6>1, <6>2
        <5> QED
          BY <4>3, <5>2, <5>3
      <4>5. ASSUME NEW s \in Scores, Permits(profile, s)
            PROVE  Permits(profile', s)
        <5> DEFINE p == getPrimeAtIndex[i]
                   q == getPrimeAtIndex[j]
        <5>1. /\ s.num \in Nat /\ s.den \in Nat /\ s.num > 0 /\ s.num <= s.den
              /\ s.num * (p + 1) <= p * s.den
          BY <4>5, ScoresAssumption DEF Permits, WithinBound
        <5> HIDE DEF p, q
        <5>2. p \in Nat /\ q \in Nat /\ p <= q
          BY <4>4 DEF p, q
        <5>3. s.num * (q + 1) <= q * s.den
          <6>1. PICK num \in Nat, den \in Nat : num = s.num /\ den = s.den
            BY <5>1
          <6> QED
            BY <5>1, <5>2, <6>1, GreaterPermits
        <5> QED
          BY <5>1, <5>3 DEF Permits, WithinBound, q
      <4> QED
        BY <1>1, <2>2, <4>1, <4>5 DEF PInv, PermissionLasts
    <3> QED
      BY <3>2, <3>3
  <2> QED
    BY <2>1, <2>2
<1>4. CASE \E score \in Scores : Feedback(score)
  BY <1>3, <1>4
<1>5. CASE Next /\ ~\E score \in Scores : Feedback(score)
  <2>1. UNCHANGED <<profile, permitted>>
    BY <1>5 DEF Next, GetMockKey, RequestKey, AnswerFailure, AnswerKey
  <2> QED
    BY <1>2, <2>1
<1> QED
  BY <1>2, <1>4, <1>5 DEF vars

(* A score that the gate has let pass passes until the index wraps, if the *)
(* primes do not run out below twice the last one.                         *)
THEOREM PermissionStays ==
    ASSUME Bertrand
    PROVE  Spec => []PermissionLasts
<1>1. Init => PInv
  BY InitIInv DEF Init, PInv, PermissionLasts
<1>2. PInv /\ [Next]_vars => PInv'
  BY NextPInv
<1>3. PInv => PermissionLasts
  BY DEF PInv
<1> QED
  BY <1>1, <1>2, <1>3, PTL DEF Spec
=============================================================================
