----------------------------- MODULE FrameCodec -----------------------------
(***************************************************************************)
(* The wire format of a frame: a type byte, the sequence number and the    *)
(* payload length in big-endian bytes, the payload, and for a classical    *)
(* message the authentication tag.  The widths and the number of values of *)
(* a byte are constants; the code has 4, 2, 32 and 256.                    *)
(***************************************************************************)
EXTENDS Integers, SequencesExt

CONSTANTS
    Impl,                \* the implementation: "ts", "py" or "rs"
    Base,                \* the number of values of a byte
    SequenceWidth, LengthWidth, AUTHENTICATION_TAG_LENGTH,
    BOOTSTRAP_MESSAGE, CLASSICAL_MESSAGE,
    NoTag,               \* the absent authentication tag
    Refused              \* the outcome of an encoding or decoding that throws

ASSUME WidthsAssumption ==
    /\ SequenceWidth \in Nat \ {0} /\ LengthWidth \in Nat \ {0}
    /\ AUTHENTICATION_TAG_LENGTH \in Nat \ {0}
    /\ Base \in Nat \ {0}
ASSUME MessageTypesAssumption ==
    /\ BOOTSTRAP_MESSAGE \in 0 .. Base - 1
    /\ CLASSICAL_MESSAGE \in 0 .. Base - 1
    /\ BOOTSTRAP_MESSAGE # CLASSICAL_MESSAGE

Byte == 0 .. Base - 1
MessageTypes == {BOOTSTRAP_MESSAGE, CLASSICAL_MESSAGE}
FRAME_HEADER_LENGTH == 1 + SequenceWidth + LengthWidth

(* The lowest byte is what is left of n after all but one are shifted out. *)
BigEndian(n, width) ==
    LET shifted[k \in 0 .. width] == IF k = 0 THEN n ELSE shifted[k - 1] \div Base
    IN  [i \in 1 .. width |-> shifted[width - i] % Base]

(* Mutant of FromBigEndian: the bytes are read in the other order.         *)
FromLittleEndian(bytes) == FoldRight(LAMBDA b, n : n * Base + b, bytes, 0)

FromBigEndian(bytes) ==
    LET value[i \in 0 .. Len(bytes)] ==
            IF i = 0 THEN 0 ELSE value[i - 1] * Base + bytes[i]
    IN  value[Len(bytes)]

(* The largest number of a field has the largest byte at every place.      *)
LargestOf(width) == FromBigEndian([i \in 1 .. width |-> Base - 1])
MaxSequence == LargestOf(SequenceWidth)
MAX_PAYLOAD_LENGTH == LargestOf(LengthWidth)

-----------------------------------------------------------------------------
TagLength(type) ==
    IF type = CLASSICAL_MESSAGE THEN AUTHENTICATION_TAG_LENGTH ELSE 0

(* What encodeFrame throws on otherwise.                                   *)
EncodableTs(frame) ==
    /\ frame.type \in MessageTypes
    /\ frame.sequence \in 0 .. MaxSequence
    /\ Len(frame.payload) <= MAX_PAYLOAD_LENGTH
    /\ IF frame.type = CLASSICAL_MESSAGE
       THEN frame.tag # NoTag /\ Len(frame.tag) = AUTHENTICATION_TAG_LENGTH
       ELSE frame.tag = NoTag

(* The same conditions in another order.                                   *)
EncodablePy(frame) == EncodableTs(frame)

(* The types u32 and [u8; 32] leave two checks fewer.                      *)
EncodableRs(frame) ==
    /\ frame.type \in MessageTypes
    /\ Len(frame.payload) <= MAX_PAYLOAD_LENGTH
    /\ frame.type = CLASSICAL_MESSAGE <=> frame.tag # NoTag

Encodable(frame) ==
    CASE Impl = "ts" -> EncodableTs(frame)
      [] Impl = "py" -> EncodablePy(frame)
      [] Impl = "rs" -> EncodableRs(frame)

encodeHeader(type, sequence, payloadLength) ==
    <<type>> \o BigEndian(sequence, SequenceWidth)
             \o BigEndian(payloadLength, LengthWidth)

encodeFrame(frame) ==
    IF Encodable(frame)
    THEN encodeHeader(frame.type, frame.sequence, Len(frame.payload))
           \o frame.payload
           \o (IF frame.tag = NoTag THEN << >> ELSE frame.tag)
    ELSE Refused

-----------------------------------------------------------------------------
DeclaredLength(wire) ==
    FromBigEndian(SubSeq(wire, 2 + SequenceWidth, FRAME_HEADER_LENGTH))

ExpectedLength(wire) ==
    FRAME_HEADER_LENGTH + DeclaredLength(wire) + TagLength(wire[1])

(* Mutants of Decodable: any type byte will do; bytes that follow the      *)
(* frame are ignored; the tag is whatever the payload leaves over.         *)
DecodableOfAnyType(wire) ==
    /\ Len(wire) >= FRAME_HEADER_LENGTH
    /\ Len(wire) = ExpectedLength(wire)
DecodableIfLongEnough(wire) ==
    /\ Len(wire) >= FRAME_HEADER_LENGTH
    /\ wire[1] \in MessageTypes
    /\ Len(wire) >= ExpectedLength(wire)
DecodableWithAnyTag(wire) ==
    /\ Len(wire) >= FRAME_HEADER_LENGTH
    /\ wire[1] \in MessageTypes
    /\ Len(wire) >= FRAME_HEADER_LENGTH + DeclaredLength(wire)

Decodable(wire) ==
    /\ Len(wire) >= FRAME_HEADER_LENGTH
    /\ wire[1] \in MessageTypes
    /\ Len(wire) = ExpectedLength(wire)

decodeFrame(wire) ==
    IF Decodable(wire)
    THEN LET payloadEnd == FRAME_HEADER_LENGTH + DeclaredLength(wire)
         IN  [type     |-> wire[1],
              sequence |-> FromBigEndian(SubSeq(wire, 2, 1 + SequenceWidth)),
              payload  |-> SubSeq(wire, FRAME_HEADER_LENGTH + 1, payloadEnd),
              tag      |-> IF wire[1] = CLASSICAL_MESSAGE
                           THEN SubSeq(wire, payloadEnd + 1, Len(wire))
                           ELSE NoTag]
    ELSE Refused
=============================================================================
