---------------------------- MODULE BridgeStrings ----------------------------
(***************************************************************************)
(* The strings the Python bridge hashes and the commitments it makes.      *)
(*                                                                         *)
(* A string is a sequence of parts: a text, the hexadecimal digest of a    *)
(* string, or a value printed as JSON.  SHA-256 and the printing are free  *)
(* constructors; concatenation is not, so what the code joins without a    *)
(* separator stays joined.  No digest starts with the text "0x".           *)
(***************************************************************************)
EXTENDS Integers, SequencesExt

IsString(string) ==
    Len(string) \in Nat /\ string = [i \in 1 .. Len(string) |-> string[i]]

(* The items of a list with that value in that field, in their order.      *)
Having(list, field, value) ==
    LET kept[n \in 0 .. Len(list)] ==
          IF n = 0 THEN << >>
          ELSE IF list[n][field] = value THEN Append(kept[n - 1], list[n])
          ELSE kept[n - 1]
    IN  kept[Len(list)]

Text(text) == << <<text>> >>
Json(value) == << <<"json", value>> >>
sha256_hex(string) == << <<"sha256", string>> >>

startsWithHex(string) == string # << >> /\ string[1] = <<"0x">>

normalize_hex(value) ==
    IF startsWithHex(value) THEN value ELSE Text("0x") \o value

fallback_commitment(message, randomness) ==
    normalize_hex(sha256_hex(message \o Text(":commit:") \o randomness))

verifyCommitment(commitment, leaf, salt) ==
    commitment = fallback_commitment(leaf, salt)

-----------------------------------------------------------------------------
(* Identities.                                                             *)

deriveIdentityCommitment(input) == fallback_commitment(input, Text("identity:v1"))

(* An input that starts with 0x is taken for an identity's commitment, any *)
(* other for the identity itself.                                          *)
base_commitment(value) ==
    IF startsWithHex(value) THEN value ELSE deriveIdentityCommitment(value)

(* Mutant of deriveIdentityAuditHash: it has no tag of its own.            *)
auditHashWithoutTag(input) == deriveIdentityCommitment(base_commitment(input))

deriveIdentityAuditHash(input) ==
    fallback_commitment(base_commitment(input), Text("audit:v1"))

redactIdentity(input) ==
    Text("redacted:") \o fallback_commitment(input, Text("redact:v1"))
=============================================================================
