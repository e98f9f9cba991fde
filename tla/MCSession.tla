----------------------------- MODULE MCSession -----------------------------
(***************************************************************************)
(* SecureSession for TLC.  All nonce prefixes are equal: of what four      *)
(* bytes of a hash can do, the case that separates the least.              *)
(***************************************************************************)
EXTENDS SecureSession

EqualPrefixes(hash) == "prefix"
=============================================================================
