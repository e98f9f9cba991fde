----------------------------- MODULE QkdPipeline -----------------------------
(***************************************************************************)
(* simulateQKD, which composes the transcript, the key derivation, the     *)
(* commitment and the AEAD under a multiplicity profile, and               *)
(* computeFeedback, which steps the profile.                               *)
(*                                                                         *)
(* Hashes, HKDF and AES-GCM are free constructors.  A secret is a record   *)
(* of its first twelve bytes, which serve as a nonce, and the rest.        *)
(***************************************************************************)
EXTENDS Integers, FiniteSetsExt

CONSTANTS
    StateValues,   \* the values of stateIndex, 2^16
    PrimeValues    \* the values of prime_index, 2^32

(* The widths of the two fields make one a divisor of the other.           *)
ASSUME ValuesAssumption ==
    /\ StateValues \in Nat \ {0} /\ PrimeValues \in Nat \ {0}
    /\ PrimeValues % StateValues = 0

Profile == [type : 0 .. 255, version : 0 .. 255,
            stateIndex : 0 .. StateValues - 1, prime_index : 0 .. PrimeValues - 1]

isPrime(n) == n >= 2 /\ \A i \in 2 .. n : i * i <= n => n % i # 0

(* The primes in order, the one of index 0 is 2; the next one is below     *)
(* twice the last.                                                         *)
getPrimeAtIndex[index \in 0 .. PrimeValues - 1] ==
    IF index = 0 THEN 2
    ELSE LET last == getPrimeAtIndex[index - 1]
         IN  Min({n \in last + 1 .. 2 * last : isPrime(n)})

(* Four fields of fixed width.                                             *)
encodeProfile(profile) ==
    <<profile.type, profile.version, profile.stateIndex, profile.prime_index>>

-----------------------------------------------------------------------------
(* One message with one nonce; initialPrimeIndex is the profile's own.     *)
computeTranscript(message, nonce, profile) ==
    [contextHash |-> <<message, nonce, profile.version, encodeProfile(profile)>>,
     finalPrimeIndex |-> profile.prime_index]

(* Mutant of getInfo: the key is not bound to the transcript.              *)
getInfoWithoutTranscript(direction, transcriptHash, profile) ==
    <<direction, encodeProfile(profile), getPrimeAtIndex[profile.prime_index]>>

getInfo(direction, transcriptHash, profile) ==
    <<direction, transcriptHash, encodeProfile(profile),
      getPrimeAtIndex[profile.prime_index]>>

deriveKey(direction, transcriptHash, profile, ikm) ==
    <<ikm, getInfo(direction, transcriptHash, profile)>>

computeCommitment(message, randomness, profile) ==
    <<getPrimeAtIndex[profile.prime_index], message, randomness>>

encryptAEAD(key, nonce, plaintext, aad, profile) ==
    [key |-> key, nonce |-> nonce, plaintext |-> plaintext,
     aad |-> <<aad, encodeProfile(profile), getPrimeAtIndex[profile.prime_index]>>]

Regressed == [error |-> "Pipeline prime_index regression"]

(* The key that is returned and the encryption that is made on the way.    *)
simulateQKD(input, label) ==
    LET nonce == input.sharedSecret.first
        result == computeTranscript(input.context, nonce, input.profile)
        key == deriveKey(IF input.role = "A" THEN "A2B" ELSE "B2A",
                         result.contextHash, input.profile, input.sharedSecret)
        commitment == computeCommitment(key, result.contextHash, input.profile)
    IN  IF result.finalPrimeIndex < input.profile.prime_index THEN Regressed
        ELSE [simulatedKey |-> key, label |-> label,
              sealed |-> encryptAEAD(key, nonce, commitment,
                                     encodeProfile(input.profile), input.profile)]

-----------------------------------------------------------------------------
(* Mutant of WithinBound: the bound is the gap between p/(p+1) and 1.      *)
WithinGap(score, prime_index) ==
    score.num * (getPrimeAtIndex[prime_index] + 1) <= score.den

(* A score, a fraction, is at most p/(p+1) for the prime of the index.     *)
WithinBound(score, prime_index) ==
    LET p == getPrimeAtIndex[prime_index]
    IN  score.num * (p + 1) <= p * score.den

(* Above 0, at most 1 and within the bound.                                *)
Permits(profile, score) ==
    /\ score.num > 0 /\ score.num <= score.den
    /\ WithinBound(score, profile.prime_index)

NextProfile(profile) ==
    [profile EXCEPT !.stateIndex = (@ + 1) % StateValues,
                    !.prime_index = (@ + 1) % PrimeValues]

(* A profile whose gate is blocked is returned as it is.                   *)
computeFeedback(profile, score) ==
    IF Permits(profile, score)
    THEN [nextProfile |-> NextProfile(profile), transitioned |-> TRUE]
    ELSE [nextProfile |-> profile, transitioned |-> FALSE]
=============================================================================
