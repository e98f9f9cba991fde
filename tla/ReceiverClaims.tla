--------------------------- MODULE ReceiverClaims ---------------------------
(***************************************************************************)
(* What the documents say of a session and the receiver does not do.       *)
(***************************************************************************)
EXTENDS Receiver

(* "On validation failure: abort the session": once one sender's sequence  *)
(* check has failed, the session's receiver returns no further frame of    *)
(* any sender.  SenderSequenceRegistry aborts the one lane only.           *)
AbortEndsSession ==
    [][(\E s \in Senders : LaneOf(s).aborted) =>
          receivers' # receivers \/ delivered' = delivered]_vars

(* "Increment expected counter on accept": no sequence number is accepted  *)
(* twice in the same lane.  The Rust counter stays at the largest value.   *)
NoSequenceNumberTwice ==
    \A s \in Senders : \A i, j \in 1 .. Len(delivered[s]) :
        i # j => delivered[s][i].sequence # delivered[s][j].sequence
=============================================================================
