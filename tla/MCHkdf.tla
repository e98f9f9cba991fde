------------------------------- MODULE MCHkdf -------------------------------
(***************************************************************************)
(* HkdfExpand for TLC: every length up to one beyond the largest.          *)
(***************************************************************************)
EXTENDS HkdfExpand

EveryLength == -1 .. HashLength * MaxCounter + 1
=============================================================================
