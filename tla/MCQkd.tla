-------------------------------- MODULE MCQkd --------------------------------
(***************************************************************************)
(* QkdSession for TLC.                                                     *)
(***************************************************************************)
EXTENDS QkdSession

(* Two secrets with the same first twelve bytes, hence the same nonce.     *)
TwoSecrets == {[first |-> 1, rest |-> 1], [first |-> 1, rest |-> 2]}

(* 0, scores below, between and above the bounds of 2, 3 and 5, and one    *)
(* above 1.                                                                *)
SomeScores ==
    {[num |-> 0, den |-> 1], [num |-> 1, den |-> 4], [num |-> 7, den |-> 10],
     [num |-> 4, den |-> 5], [num |-> 3, den |-> 2]}

(* The default profile, and one whose prime index is about to wrap.        *)
DefaultOrLast ==
    {[type |-> 0, version |-> 1, stateIndex |-> 0, prime_index |-> 0],
     [type |-> 0, version |-> 1, stateIndex |-> 0, prime_index |-> PrimeValues - 1]}
=============================================================================
