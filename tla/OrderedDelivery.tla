--------------------------- MODULE OrderedDelivery ---------------------------
(***************************************************************************)
(* What a receiver promises to each of its senders, with no sequence       *)
(* number, tag or wire in sight: the frames of a sender are delivered in   *)
(* the order they were sent, none twice and none skipped, until the        *)
(* sender's lane is aborted; an aborted lane delivers nothing more.  The   *)
(* lanes of different senders do not affect one another.  Whoever can put  *)
(* frames on a sender's link can slip unsigned frames, and no signed one,  *)
(* into its lane, or have the lane aborted.  A receiver may be replaced by *)
(* a new one, which starts over with every lane.                           *)
(***************************************************************************)
EXTENDS Naturals, Sequences

CONSTANTS Senders, Frames, Unsigned

VARIABLES
    sent,        \* sent[s]: every frame s has sent, in order
    delivered,   \* delivered[s]: the frames of s handed to the application
    aborted,     \* aborted[s]: whether the lane of s is dead
    spoofed      \* the senders for whom something unsigned was slipped in

vars == <<sent, delivered, aborted, spoofed>>

Init ==
    /\ sent = [s \in Senders |-> << >>]
    /\ delivered = [s \in Senders |-> << >>]
    /\ aborted = [s \in Senders |-> FALSE]
    /\ spoofed = {}

Send(s, f) ==
    /\ sent' = [sent EXCEPT ![s] = Append(@, f)]
    /\ UNCHANGED <<delivered, aborted, spoofed>>

(* The next frame of the sender; the places of frames that were slipped in *)
(* are taken.                                                              *)
Deliver(s) ==
    /\ ~aborted[s]
    /\ Len(delivered[s]) < Len(sent[s])
    /\ delivered' = [delivered EXCEPT ![s] = Append(@, sent[s][Len(@) + 1])]
    /\ UNCHANGED <<sent, aborted, spoofed>>

Abort(s) ==
    /\ aborted' = [aborted EXCEPT ![s] = TRUE]
    /\ UNCHANGED <<sent, delivered, spoofed>>

SlipIn(s) ==
    /\ spoofed' = spoofed \cup {s}
    /\ \/ /\ ~aborted[s]
          /\ \E f \in Unsigned :
               delivered' = [delivered EXCEPT ![s] = Append(@, f)]
          /\ UNCHANGED aborted
       \/ /\ aborted' = [aborted EXCEPT ![s] = TRUE]
          /\ UNCHANGED delivered
    /\ UNCHANGED sent

StartOver ==
    /\ delivered' = [s \in Senders |-> << >>]
    /\ aborted' = [s \in Senders |-> FALSE]
    /\ spoofed' = {}
    /\ UNCHANGED sent

Next ==
    \/ \E s \in Senders :
         (\E f \in Frames : Send(s, f)) \/ Deliver(s) \/ Abort(s) \/ SlipIn(s)
    \/ StartOver

Spec == Init /\ [][Next]_vars
=============================================================================
