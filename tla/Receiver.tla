------------------------------ MODULE Receiver ------------------------------
(***************************************************************************)
(* ProtocolReceiver: decode a frame, authenticate it, check its sequence   *)
(* number in the lane of its sender, hand it to the application.           *)
(*                                                                         *)
(* The senders are callers of signFrame and encodeFrame that number their  *)
(* frames from 0; the links between them and the receiver are the          *)
(* environment.  The frames of a link reach the receiver in order, unless  *)
(* the link is in ReplayLinks, where a frame may also overtake, come back  *)
(* after it was received, or never come; on the links in NoisyLinks bytes  *)
(* that no sender sent arrive as well: truncated or padded frames, and     *)
(* frames of a sender in which anything was changed, the type and the tag  *)
(* included.  The caller passes the identity of the link as the sender     *)
(* argument of receive, and that identity is never the empty string the    *)
(* registry refuses.                                                       *)
(*                                                                         *)
(* HMAC-SHA256 is a free constructor under the one key of the receiver:    *)
(* two tags are equal exactly when the inputs are, and damage never makes  *)
(* the tag of anything.  A bootstrap frame carries no tag, so damage may   *)
(* make any bootstrap frame of the frames a sender sent.                   *)
(***************************************************************************)
EXTENDS StrictSequence, Sequences

CONSTANTS
    Senders,       \* the identities receive is called with
    Payloads,      \* the payloads the senders send
    Garbled,       \* bytes nobody sends: a payload, or a tag of nothing
    Malformed,     \* any byte string decodeFrame throws on
    NoSender,      \* the sender of no call
    NoTag,         \* the absent authenticationTag of a bootstrap frame
    ReplayLinks,   \* the links that reorder, repeat or lose frames
    NoisyLinks,    \* the links on which damaged frames arrive
    Keys,          \* the choices of authenticationKey !== undefined
    MaxReceivers   \* bound: how many receivers are constructed

ASSUME LinksAssumption ==
    /\ ReplayLinks \subseteq Senders
    /\ NoisyLinks \subseteq Senders
    /\ Keys \subseteq BOOLEAN
    /\ MaxReceivers \in Nat

VARIABLES
    sent,        \* sent[s]: the frames s has encoded, in order
    taken,       \* taken[s]: how many of them its link has handed over
    keyed,       \* whether the receiver was constructed with a key
    lanes,       \* the registry's map from senders to sequence states
    delivered,   \* delivered[s]: the frames this receiver returned for s
    receivers,   \* how many receivers were constructed
    result,      \* what the last call of receive returned or threw
    spoofed      \* the senders of whom this receiver was handed a damaged
                 \* frame without a tag (history, read by the properties)

vars == <<sent, taken, keyed, lanes, delivered, receivers, result, spoofed>>

-----------------------------------------------------------------------------
(* Frames.  The tag covers the header and the payload, so every field.     *)

BOOTSTRAP == "BOOTSTRAP_MESSAGE"
CLASSICAL == "CLASSICAL_MESSAGE"

AllPayloads == Payloads \cup {Garbled}
Mac(sequence, payload) == <<sequence, payload>>
Tags == (SequenceNumber \X AllPayloads) \cup {Garbled}

SignFrame(sequence, payload) ==
    [type |-> CLASSICAL, sequence |-> sequence, payload |-> payload,
     tag |-> Mac(sequence, payload)]

EncodeBootstrap(sequence, payload) ==
    [type |-> BOOTSTRAP, sequence |-> sequence, payload |-> payload,
     tag |-> NoTag]

ClassicalFrames == [type : {CLASSICAL}, sequence : SequenceNumber,
                    payload : AllPayloads, tag : Tags]
BootstrapFrames == [type : {BOOTSTRAP}, sequence : SequenceNumber,
                    payload : AllPayloads, tag : {NoTag}]
Frames == ClassicalFrames \cup BootstrapFrames

ASSUME MalformedAssumption == Malformed \notin Frames

(* What damage makes of a frame: any other frame, where a tag stays what   *)
(* it was or is the tag of nothing.                                        *)
Damaged(frame) ==
    {wire \in Frames \ {frame} :
        wire.type = CLASSICAL => wire.tag \in {frame.tag, Garbled}}

ASSUME GarbledAssumption ==
    /\ Garbled \notin Payloads \cup (SequenceNumber \X AllPayloads)
    /\ NoTag \notin Tags

(* Mutant of VerifyFrameAuthentication: the tag leaves out the header.     *)
VerifyPayloadOnly(frame) ==
    /\ frame.type = CLASSICAL
    /\ frame.tag # Garbled
    /\ frame.tag[2] = frame.payload

VerifyFrameAuthentication(frame) ==
    /\ frame.type = CLASSICAL
    /\ frame.tag = Mac(frame.sequence, frame.payload)

-----------------------------------------------------------------------------
NoLanes == [s \in {} |-> NewLane]

(* The registry creates the state of a sender when it is first asked for.  *)
LaneOf(s) == IF s \in DOMAIN lanes THEN lanes[s] ELSE NewLane

SetLane(s, lane) ==
    lanes' = [t \in DOMAIN lanes \cup {s} |-> IF t = s THEN lane ELSE lanes[t]]

(* What the caller of receive sees, and for which sender.                  *)
Results == {"none", "Frame", "RangeError", "AuthenticationError",
            "ProtocolAbortError"}

Throws(s, error) ==
    /\ result' = [sender |-> s, kind |-> error]
    /\ UNCHANGED <<lanes, delivered>>

(* Mutant of receive: the sequence state is consulted before the tag.      *)
receiveSequenceFirst(s, wire) ==
    IF wire = Malformed
    THEN Throws(s, "RangeError")
    ELSE LET accepted  == Accepts(LaneOf(s), wire.sequence)
             authentic == wire.type = CLASSICAL => keyed /\ VerifyFrameAuthentication(wire)
         IN  /\ SetLane(s, TryAccept(LaneOf(s), wire.sequence))
             /\ delivered' = [delivered EXCEPT ![s] =
                                IF accepted /\ authentic THEN Append(@, wire) ELSE @]
             /\ result' = [sender |-> s,
                           kind |-> IF ~accepted THEN "ProtocolAbortError"
                                    ELSE IF authentic THEN "Frame"
                                    ELSE "AuthenticationError"]

(* The whole handler.  decodeFrame and the authentication of a classical   *)
(* frame throw before the sequence state is consulted, and so before a     *)
(* lane is created; a frame that passes them is counted or aborts the lane.*)
receive(s, wire) ==
    IF wire = Malformed
    THEN Throws(s, "RangeError")
    ELSE IF wire.type = CLASSICAL /\ ~(keyed /\ VerifyFrameAuthentication(wire))
    THEN Throws(s, "AuthenticationError")
    ELSE /\ SetLane(s, TryAccept(LaneOf(s), wire.sequence))
         /\ \/ /\ Accepts(LaneOf(s), wire.sequence)
               /\ delivered' = [delivered EXCEPT ![s] = Append(@, wire)]
               /\ result' = [sender |-> s, kind |-> "Frame"]
            \/ /\ ~Accepts(LaneOf(s), wire.sequence)
               /\ result' = [sender |-> s, kind |-> "ProtocolAbortError"]
               /\ UNCHANGED delivered

-----------------------------------------------------------------------------
Init ==
    /\ sent = [s \in Senders |-> << >>]
    /\ taken = [s \in Senders |-> 0]
    /\ keyed \in Keys
    /\ lanes = NoLanes
    /\ delivered = [s \in Senders |-> << >>]
    /\ receivers = 1
    /\ result = [sender |-> NoSender, kind |-> "none"]
    /\ spoofed = {}

(* Mutant of SendClassical: encodeFrame does not check the number's range. *)
SendUnchecked(s) ==
    /\ sent' = [sent EXCEPT ![s] =
                  Append(@, SignFrame(Len(@), CHOOSE p \in Payloads : TRUE))]
    /\ UNCHANGED <<taken, keyed, lanes, delivered, receivers, result, spoofed>>

(* A sender numbers its next frame; past SeqMax encodeFrame throws.  No    *)
(* code keeps a sender from sending a bootstrap frame after a signed one.  *)
Send(s, frame) ==
    /\ sent' = [sent EXCEPT ![s] = Append(@, frame)]
    /\ UNCHANGED <<taken, keyed, lanes, delivered, receivers, result, spoofed>>

SendClassical(s) ==
    /\ Len(sent[s]) \in SequenceNumber
    /\ \E p \in Payloads : Send(s, SignFrame(Len(sent[s]), p))

SendBootstrap(s) ==
    /\ Len(sent[s]) \in SequenceNumber
    /\ \E p \in Payloads : Send(s, EncodeBootstrap(Len(sent[s]), p))

(* The next frame of the link arrives.                                     *)
ReceiveNext(s) ==
    /\ taken[s] < Len(sent[s])
    /\ receive(s, sent[s][taken[s] + 1])
    /\ taken' = [taken EXCEPT ![s] = @ + 1]
    /\ UNCHANGED <<sent, keyed, receivers, spoofed>>

(* A frame arrives out of its turn: late, early or once more.              *)
ReceiveOutOfTurn(s) ==
    /\ s \in ReplayLinks
    /\ \E i \in 1 .. Len(sent[s]) : receive(s, sent[s][i])
    /\ UNCHANGED <<sent, taken, keyed, receivers, spoofed>>

(* Something arrives that no sender sent.                                  *)
ReceiveNoise(s) ==
    /\ s \in NoisyLinks
    /\ \/ receive(s, Malformed) /\ UNCHANGED spoofed
       \/ \E i \in 1 .. Len(sent[s]) : \E wire \in Damaged(sent[s][i]) :
            /\ receive(s, wire)
            /\ spoofed' = IF wire.type = BOOTSTRAP THEN spoofed \cup {s}
                                                  ELSE spoofed
    /\ UNCHANGED <<sent, taken, keyed, receivers>>

(* The key is fixed when a receiver is constructed and nothing is kept     *)
(* between two receivers, so a process that restarts, or that has to       *)
(* change the key, starts over with a new one.                             *)
NewReceiver ==
    /\ receivers < MaxReceivers
    /\ keyed' \in Keys
    /\ lanes' = NoLanes
    /\ delivered' = [s \in Senders |-> << >>]
    /\ receivers' = receivers + 1
    /\ spoofed' = {}
    /\ UNCHANGED <<sent, taken, result>>

Next ==
    \/ \E s \in Senders :
         \/ SendClassical(s)
         \/ SendBootstrap(s)
         \/ ReceiveNext(s)
         \/ ReceiveOutOfTurn(s)
         \/ ReceiveNoise(s)
    \/ NewReceiver

Spec == Init /\ [][Next]_vars

(* receive is synchronous, so a frame that its link hands over is dealt    *)
(* with; the links outside ReplayLinks hand over every frame.              *)
FairSpec ==
    Spec /\ \A s \in Senders \ ReplayLinks : WF_vars(ReceiveNext(s))

-----------------------------------------------------------------------------
TypeOK ==
    /\ sent \in [Senders -> Seq(Frames)]
    /\ taken \in [Senders -> Nat]
    /\ keyed \in BOOLEAN
    /\ DOMAIN lanes \subseteq Senders
    /\ lanes \in [DOMAIN lanes -> Lane]
    /\ delivered \in [Senders -> Seq(Frames)]
    /\ receivers \in Nat
    /\ result \in [sender : Senders \cup {NoSender}, kind : Results]
    /\ spoofed \subseteq Senders

(* What receive returned for a sender is what the sender encoded: every    *)
(* frame at its place, none skipped, repeated or altered, whatever the     *)
(* links did and however often a new receiver took over.  The exception is *)
(* a bootstrap frame that damage made: receive checks no tag of it and     *)
(* returns it, but only at the place its number says, and the signed       *)
(* frames around it are still those the sender encoded at their places.    *)
DeliveredAsSent ==
    \A s \in Senders : \A i \in 1 .. Len(delivered[s]) :
        /\ delivered[s][i].sequence = i - 1
        /\ delivered[s][i].type = CLASSICAL \/ s \notin spoofed =>
             i <= Len(sent[s]) /\ delivered[s][i] = sent[s][i]

(* The number a lane expects is the number of frames receive returned for  *)
(* its sender, and a lane whose state was never created has returned none: *)
(* a frame that throws early costs the sender nothing.                     *)
LaneCountsDeliveries ==
    \A s \in Senders : LaneOf(s).expected = Len(delivered[s])

(* Bytes that do not decode and signed frames that do not verify never     *)
(* abort a lane: receive throws, and the sender's next frame is accepted   *)
(* as if nothing had come.  While the first receiver is in charge and      *)
(* holds the key, a lane on an ordered link can abort only after an        *)
(* unsigned frame that damage made was handed to receive.  (The documents  *)
(* would have the session aborted by any of it.)                           *)
NoiseNeverAborts ==
    \A s \in Senders \ ReplayLinks :
        receivers = 1 /\ keyed /\ s \notin spoofed => ~LaneOf(s).aborted

(* Abort is for good: while the receiver lives, an aborted lane stays      *)
(* aborted and receive returns no further frame of its sender.             *)
AbortIsFinal ==
    [][\A s \in Senders :
          LaneOf(s).aborted =>
              \/ receivers' # receivers
              \/ LaneOf(s)'.aborted /\ delivered'[s] = delivered[s]]_vars

(* A sender on an ordered link gets every frame through to a receiver that *)
(* holds the key, whatever the other links do and however many malformed   *)
(* or wrongly signed frames come in between, unless the receiver is        *)
(* replaced or a damaged frame without a tag is taken for the sender's.    *)
EverythingArrives ==
    \A s \in Senders \ ReplayLinks : \A n \in 1 .. SeqMax + 1 :
        (keyed /\ receivers = 1 /\ Len(sent[s]) >= n)
            ~> (Len(delivered[s]) >= n \/ receivers > 1 \/ s \in spoofed)

(* The receiver implements OrderedDelivery: what the application sees of   *)
(* the frames, their numbers and their tags is per-sender ordered delivery *)
(* with abort, into which only unsigned frames can be slipped.             *)
Ordered == INSTANCE OrderedDelivery
             WITH aborted  <- [s \in Senders |-> LaneOf(s).aborted],
                  Unsigned <- BootstrapFrames

ImplementsOrderedDelivery == Ordered!Spec
=============================================================================
