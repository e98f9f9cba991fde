-------------------------- MODULE DirectionalCipher --------------------------
(***************************************************************************)
(* DirectionalAead (DirectionalCipher in Rust): one key, one nonce prefix  *)
(* and one counter, used by one end to encrypt and by the other end, as a  *)
(* second object, to decrypt.                                              *)
(*                                                                         *)
(* HKDF is a free constructor over the one secret both ends share, AES-GCM *)
(* opens a ciphertext under the key, the nonce and the associated data it  *)
(* was sealed with and nothing else.  The nonce prefix is four bytes of a  *)
(* hash, so Truncate may map different inputs to the same prefix.          *)
(***************************************************************************)
EXTENDS Integers

CONSTANTS
    Impl,          \* the implementation: "ts", "py" or "rs"
    LastSeq,       \* the largest 64-bit counter value, 2^64 - 1
    Truncate(_)    \* the first four bytes of a hash

ASSUME ImplAssumption == Impl \in {"ts", "py", "rs"}
ASSUME LastSeqAssumption == LastSeq \in Nat

Directions == {"A2B", "B2A"}

(* Mutants of deriveDirectionalKey: one key for both directions; a key     *)
(* that is not bound to the transcript.                                    *)
KeyOfBothDirections(direction, contextHash) == <<"A2B", contextHash>>
KeyOfNoContext(direction, contextHash) == <<direction, << >> >>

deriveDirectionalKey(direction, contextHash) == <<direction, contextHash>>

deriveNoncePrefix(direction, key, contextHash) ==
    Truncate(<<direction, key, contextHash>>)

buildNonce(prefix, sequence64) == <<prefix, sequence64>>

NewCipher(direction, contextHash) ==
    LET key == deriveDirectionalKey(direction, contextHash)
    IN  [key |-> key,
         prefix |-> deriveNoncePrefix(direction, key, contextHash),
         nextSequence |-> 0]

nonceForNextSequence(cipher) == buildNonce(cipher.prefix, cipher.nextSequence)

-----------------------------------------------------------------------------
(* Mutant of Exhausted: the counter may run to its very end and over it.   *)
NeverExhausted(cipher) == FALSE

(* encrypt throws instead of using the last counter value.                 *)
Exhausted(cipher) == cipher.nextSequence >= LastSeq

encrypt(cipher, plaintext) ==
    [key |-> cipher.key, nonce |-> nonceForNextSequence(cipher),
     plaintext |-> plaintext]

(* Mutant of Advance: the nonce of the next call is the same.              *)
StandStill(cipher) == cipher

Advance(cipher) == [cipher EXCEPT !.nextSequence = @ + 1]

(* Mutant of Authentic: a ciphertext opens under the nonce it came with.   *)
AuthenticUnderItsNonce(cipher, ciphertext, intact) ==
    intact /\ ciphertext.key = cipher.key

(* AES-GCM under the expected nonce; intact is whether the ciphertext, the *)
(* tag and the associated data are those of the encryption.                *)
Authentic(cipher, ciphertext, intact) ==
    /\ intact
    /\ ciphertext.key = cipher.key
    /\ ciphertext.nonce = nonceForNextSequence(cipher)

(* What decrypt returns or throws.  The nonce is optional: withNonce is    *)
(* whether the caller passes the one that came with the ciphertext.  Only  *)
(* buildNonce limits the counter.                                          *)
decryptTs(cipher, ciphertext, withNonce, intact) ==
    CASE cipher.nextSequence > LastSeq -> "RangeError"
      [] cipher.nextSequence <= LastSeq
         /\ withNonce
         /\ ciphertext.nonce # nonceForNextSequence(cipher) -> "AeadReplayError"
      [] OTHER -> IF Authentic(cipher, ciphertext, intact)
                  THEN "plaintext" ELSE "AuthenticationError"

(* Python has the same order of checks.                                    *)
decryptPy(cipher, ciphertext, withNonce, intact) ==
    decryptTs(cipher, ciphertext, withNonce, intact)

(* Rust takes no nonce and refuses at the last counter value.              *)
decryptRs(cipher, ciphertext, intact) ==
    IF cipher.nextSequence = LastSeq THEN "InvalidInput"
    ELSE IF Authentic(cipher, ciphertext, intact) THEN "plaintext"
    ELSE "AuthenticationFailed"

decrypt(cipher, ciphertext, withNonce, intact) ==
    CASE Impl = "ts" -> decryptTs(cipher, ciphertext, withNonce, intact)
      [] Impl = "py" -> decryptPy(cipher, ciphertext, withNonce, intact)
      [] Impl = "rs" -> decryptRs(cipher, ciphertext, intact)
=============================================================================
