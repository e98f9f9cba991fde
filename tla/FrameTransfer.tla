---------------------------- MODULE FrameTransfer ----------------------------
(***************************************************************************)
(* A frame is encoded, carried and decoded.  On the way the bytes may be   *)
(* cut, run together with other bytes, or changed in one place.            *)
(***************************************************************************)
EXTENDS FrameCodec

CONSTANTS
    Inputs   \* what encodeFrame is called with

(* The types u32 and [u8; 32] of Rust leave nothing out of range.          *)
ASSUME InputsAssumption ==
    /\ Inputs \subseteq [type : Byte, sequence : Int, payload : Seq(Byte),
                        tag : {NoTag} \cup Seq(Byte)]
    /\ Impl = "rs" =>
         \A input \in Inputs :
             /\ input.sequence \in 0 .. MaxSequence
             /\ input.tag # NoTag => Len(input.tag) = AUTHENTICATION_TAG_LENGTH
ASSUME NoTagAssumption == NoTag \notin [1 .. AUTHENTICATION_TAG_LENGTH -> Byte]

VARIABLES
    frame,   \* the argument of encodeFrame
    wire,    \* what it returned, and then what arrived
    damage,  \* what happened on the way
    output   \* what decodeFrame returned, or Refused

vars == <<frame, wire, damage, output>>

Pending == [type |-> -1]

Init ==
    /\ frame \in Inputs
    /\ wire = encodeFrame(frame)
    /\ damage = "none"
    /\ output = Pending

Carry(kind, bytes) ==
    /\ wire # Refused /\ damage = "none" /\ output = Pending
    /\ wire' = bytes
    /\ damage' = kind
    /\ UNCHANGED <<frame, output>>

Cut == \E n \in 0 .. Len(wire) - 1 : Carry("cut", SubSeq(wire, 1, n))

Coalesce ==
    \/ \E b \in Byte : Carry("coalesced", Append(wire, b))
    \/ Carry("coalesced", wire \o wire)

ChangeByte ==
    \E i \in 1 .. Len(wire) : \E b \in Byte \ {wire[i]} :
        Carry("changed", [wire EXCEPT ![i] = b])

Decode ==
    /\ wire # Refused /\ output = Pending
    /\ output' = decodeFrame(wire)
    /\ UNCHANGED <<frame, wire, damage>>

Next == wire # Refused /\ (Cut \/ Coalesce \/ ChangeByte \/ Decode)

Spec == Init /\ [][Next]_vars

-----------------------------------------------------------------------------
Decoded == output # Pending

(* What was encoded is decoded to the very same frame, at every value of   *)
(* the header fields and every payload length.                             *)
RoundTrip == Decoded /\ damage = "none" => output = frame

(* A frame that was cut anywhere, or that other bytes follow, is refused:  *)
(* no frame is the beginning of another, of its own type or of the other.  *)
BoundariesDetected == Decoded /\ damage \in {"cut", "coalesced"} => output = Refused

(* One changed byte is refused or shows in the decoded frame, and never    *)
(* turns a frame that carries a tag into one that needs none.              *)
ChangeShows ==
    Decoded /\ damage = "changed" /\ output # Refused =>
        /\ output # frame
        /\ output.type = frame.type
        /\ Len(output.payload) = Len(frame.payload)

(* What decodeFrame accepts, damaged or not, is the encoding of what it    *)
(* returns: there is one wire form for each frame, and so one HMAC input.  *)
Canonical == Decoded /\ output # Refused => encodeFrame(output) = wire
=============================================================================
