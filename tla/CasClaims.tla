----------------------------- MODULE CasClaims -----------------------------
(***************************************************************************)
(* What verify_witness says of itself and does not do: "True if witness is *)
(* valid and (if batch_root provided) member of batch".                    *)
(***************************************************************************)
EXTENDS CasRegistry

TwoData == {[certified |-> TRUE, timestamp |-> "t1"],
            [certified |-> FALSE, timestamp |-> "t2"]}

(* A member of a batch stays one when another member is registered again   *)
(* outside the batch.  The root changes with that witness, the proofs of   *)
(* the others do not.                                                      *)
OthersStillVerify ==
    \A b \in DOMAIN merkle_batches : Len(MembersOf(b)) >= 2 =>
        \A i \in 1 .. Len(MembersOf(b)) :
            placedIn[MembersOf(b)[i]] = b =>
                verify_witness(MembersOf(b)[i], get_batch_root(b))
=============================================================================
