----------------------------- MODULE QkdSession -----------------------------
(***************************************************************************)
(* A caller of the QKD backends, which steps its profile by computeFeedback*)
(* while requests of HardwareQKDBackend are under way.  The key server may *)
(* answer in any order, with any key and the same one twice, with an error *)
(* or with no keys, or never: getKey has no timeout.                       *)
(*                                                                         *)
(* Every call is given an input object of its own, as the tests do; getKey *)
(* reads it again after the answer has come.                               *)
(***************************************************************************)
EXTENDS QkdPipeline, Sequences

CONSTANTS
    Contexts, Secrets, Scores,   \* the caller's contexts, keys and scores
    StartProfiles,               \* the profiles a caller may start from
    MaxCalls, MaxSteps           \* bounds: the calls and the transitions

ASSUME StartProfilesAssumption == StartProfiles \subseteq Profile
ASSUME ScoresAssumption == Scores \subseteq [num : Int, den : Nat \ {0}]
ASSUME QkdBoundsAssumption == MaxCalls \in Nat /\ MaxSteps \in Nat

VARIABLES
    profile,     \* the caller's current profile
    steps,       \* the transitions so far
    permitted,   \* the scores permitted since the prime index last wrapped
    inFlight,    \* the calls that wait for the key server
    settled      \* the calls that have returned or thrown, in order

vars == <<profile, steps, permitted, inFlight, settled>>

Failed == [error |-> "Hardware QKD fetch failed"]

Init ==
    /\ profile \in StartProfiles
    /\ steps = 0 /\ permitted = {}
    /\ inFlight = {} /\ settled = << >>

Calls == Len(settled) + Cardinality(inFlight)

InputOf(role, context, secret) ==
    [role |-> role, context |-> context, profile |-> profile, sharedSecret |-> secret]

Settle(step, input, output) ==
    settled' = Append(settled, [step |-> step, input |-> input, output |-> output])

Feedback(score) ==
    LET result == computeFeedback(profile, score)
    IN  /\ result.transitioned => steps < MaxSteps
        /\ profile' = result.nextProfile
        /\ steps' = steps + (IF result.transitioned THEN 1 ELSE 0)
        /\ permitted' =
               IF ~result.transitioned THEN permitted
               ELSE IF profile'.prime_index < profile.prime_index THEN {}
               ELSE permitted \cup {score}
        /\ UNCHANGED <<inFlight, settled>>

(* MockQKDBackend runs the pipeline on the caller's own secret.            *)
GetMockKey(role, context, secret) ==
    LET input == InputOf(role, context, secret)
    IN  /\ Calls < MaxCalls
        /\ Settle(steps, input, simulateQKD(input, "SIMULATED_QKD"))
        /\ UNCHANGED <<profile, steps, permitted, inFlight>>

(* HardwareQKDBackend posts its request and waits.                         *)
RequestKey(role, context, secret) ==
    /\ Calls < MaxCalls
    /\ inFlight' = inFlight \cup
           {[id |-> Calls, step |-> steps, input |-> InputOf(role, context, secret)]}
    /\ UNCHANGED <<profile, steps, permitted, settled>>

(* Mutant of InputAtAnswer: the profile is the present one.                *)
InputOfPresent(call) == [call.input EXCEPT !.profile = profile]

InputAtAnswer(call) == call.input

(* The first of the keys takes the place of the caller's secret.           *)
AnswerKey(call, secret) ==
    LET input == [InputAtAnswer(call) EXCEPT !.sharedSecret = secret]
    IN  /\ inFlight' = inFlight \ {call}
        /\ Settle(call.step, input, simulateQKD(input, "HARDWARE_QKD_ETSI_014"))
        /\ UNCHANGED <<profile, steps, permitted>>

(* No connection, a status that is not ok, or no keys: the call throws.    *)
AnswerFailure(call) ==
    /\ inFlight' = inFlight \ {call}
    /\ Settle(call.step, call.input, Failed)
    /\ UNCHANGED <<profile, steps, permitted>>

Next ==
    \/ \E score \in Scores : Feedback(score)
    \/ \E role \in {"A", "B"}, context \in Contexts, secret \in Secrets :
          GetMockKey(role, context, secret) \/ RequestKey(role, context, secret)
    \/ \E call \in inFlight :
          AnswerFailure(call) \/ \E secret \in Secrets : AnswerKey(call, secret)

Spec == Init /\ [][Next]_vars

-----------------------------------------------------------------------------
Returned == {settled[i] : i \in {j \in DOMAIN settled : "simulatedKey" \in DOMAIN settled[j].output}}

(* The nonce is the beginning of the secret, so it repeats whenever a      *)
(* secret does.  Two encryptions under one key and one nonce are then one  *)
(* and the same: plaintext and associated data do not differ.              *)
NonceReuseHarmless ==
    \A c, d \in Returned :
        LET s == c.output.sealed
            t == d.output.sealed
        IN  s.key = t.key /\ s.nonce = t.nonce => s = t

(* Two calls return the same key just if they were made with the same role *)
(* and context, were given the same secret, and were made at the same step *)
(* of the profile or a full cycle of prime_index apart, however late the   *)
(* answers came.                                                           *)
KeysFollowCalls ==
    \A c, d \in Returned :
        c.output.simulatedKey = d.output.simulatedKey <=>
            /\ c.input.role = d.input.role /\ c.input.context = d.input.context
            /\ c.input.sharedSecret = d.input.sharedSecret
            /\ c.step % PrimeValues = d.step % PrimeValues

(* The gate only ever opens: a score it has let pass at one prime index    *)
(* passes at every later one, until the index wraps.                       *)
PermissionLasts == \A score \in permitted : Permits(profile, score)
=============================================================================
