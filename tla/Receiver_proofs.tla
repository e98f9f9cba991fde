--------------------------- MODULE Receiver_proofs ---------------------------
(***************************************************************************)
(* What the receiver guarantees for every set of senders and payloads, any *)
(* width of the sequence number and any faults of the links.               *)
(***************************************************************************)
EXTENDS Receiver, StrictSequence_proofs

(* The senders number their frames from 0 within the field, and a signed   *)
(* frame carries the tag of its own fields.                                *)
SentWell ==
    \A s \in Senders :
        /\ Len(sent[s]) <= SeqMax + 1
        /\ \A i \in 1 .. Len(sent[s]) :
             /\ sent[s][i].sequence = i - 1
             /\ sent[s][i].type = CLASSICAL =>
                  sent[s][i].tag = Mac(sent[s][i].sequence, sent[s][i].payload)

(* What holds of the saturating counter too, and the inductive invariant   *)
(* of the other two implementations.                                       *)
Typed == TypeOK /\ SentWell
IInv == TypeOK /\ SentWell /\ DeliveredAsSent /\ LaneCountsDeliveries

-----------------------------------------------------------------------------
(* A wire that passes decoding and authentication.                         *)
Passes(wire) ==
    /\ wire # Malformed
    /\ wire.type = CLASSICAL => keyed /\ VerifyFrameAuthentication(wire)

(* The three outcomes of a call.                                           *)
LEMMA ReceiveCases ==
    ASSUME NEW s, NEW wire, receive(s, wire)
    PROVE  \/ ~Passes(wire) /\ UNCHANGED <<lanes, delivered>>
              /\ \E e \in {"RangeError", "AuthenticationError"} :
                   result' = [sender |-> s, kind |-> e]
           \/ /\ Passes(wire) /\ Accepts(LaneOf(s), wire.sequence)
              /\ SetLane(s, TryAccept(LaneOf(s), wire.sequence))
              /\ delivered' = [delivered EXCEPT ![s] = Append(@, wire)]
              /\ result' = [sender |-> s, kind |-> "Frame"]
           \/ /\ Passes(wire) /\ ~Accepts(LaneOf(s), wire.sequence)
              /\ SetLane(s, TryAccept(LaneOf(s), wire.sequence))
              /\ UNCHANGED delivered
              /\ result' = [sender |-> s, kind |-> "ProtocolAbortError"]
BY DEF receive, Passes, Throws

LEMMA LaneOfType ==
    ASSUME TypeOK, NEW s
    PROVE  LaneOf(s) \in Lane
BY SeqMaxAssumption DEF TypeOK, LaneOf, NewLane, Lane

LEMMA SetLaneEffect ==
    ASSUME TypeOK, NEW s \in Senders, NEW l \in Lane, SetLane(s, l)
    PROVE  /\ DOMAIN lanes' \subseteq Senders
           /\ lanes' \in [DOMAIN lanes' -> Lane]
           /\ LaneOf(s)' = l
           /\ \A t \in Senders \ {s} : LaneOf(t)' = LaneOf(t)
BY DEF TypeOK, SetLane, LaneOf

(* A call for one sender touches nothing of another.                       *)
LEMMA OthersUntouched ==
    ASSUME TypeOK, NEW s \in Senders, NEW wire, receive(s, wire)
    PROVE  \A t \in Senders \ {s} :
               LaneOf(t)' = LaneOf(t) /\ delivered'[t] = delivered[t]
<1>1. ASSUME NEW t \in Senders \ {s}
      PROVE  LaneOf(t)' = LaneOf(t)
  BY ReceiveCases DEF SetLane, LaneOf
<1>2. ASSUME NEW t \in Senders \ {s}
      PROVE  delivered'[t] = delivered[t]
  <2>1. \/ delivered' = delivered
        \/ delivered' = [delivered EXCEPT ![s] = Append(delivered[s], wire)]
    BY ReceiveCases
  <2>2. delivered \in [Senders -> Seq(Frames)]
    BY DEF TypeOK
  <2> QED
    BY <2>1, <2>2
<1> QED
  BY <1>1, <1>2

(* What an action that receives hands to receive: a wire that is one of    *)
(* the sender's own frames if it passes, or a bootstrap frame that damage  *)
(* made and on whose account the sender counts as spoofed.                 *)
Genuine(s, wire) ==
    \/ /\ Passes(wire) => \E i \in 1 .. Len(sent[s]) : wire = sent[s][i]
       /\ UNCHANGED spoofed
    \/ wire \in BootstrapFrames /\ spoofed' = spoofed \cup {s}

(* A classical frame that damage made does not verify.                     *)
LEMMA DamagedIsRefused ==
    ASSUME Typed, NEW s \in Senders, NEW i \in 1 .. Len(sent[s]),
           NEW wire \in Damaged(sent[s][i]), wire.type = CLASSICAL
    PROVE  ~VerifyFrameAuthentication(wire)
<1> DEFINE f == sent[s][i]
<1>1. f \in Frames /\ wire \in Frames /\ wire # f
      /\ wire.tag \in {f.tag, Garbled}
  BY DEF Typed, TypeOK, Damaged
<1>2. wire \in ClassicalFrames
  BY <1>1 DEF Frames, BootstrapFrames, BOOTSTRAP, CLASSICAL
<1> SUFFICES ASSUME wire.tag = <<wire.sequence, wire.payload>>
             PROVE  FALSE
  BY DEF VerifyFrameAuthentication, Mac
<1>3. wire.tag \in SequenceNumber \X AllPayloads /\ wire.tag # Garbled
  BY <1>2, GarbledAssumption DEF ClassicalFrames
<1>4. CASE f \in ClassicalFrames
  <2>1. f.tag = <<f.sequence, f.payload>>
    BY <1>4 DEF Typed, SentWell, Mac, ClassicalFrames
  <2>2. wire.sequence = f.sequence /\ wire.payload = f.payload
        /\ wire.tag = f.tag
    BY <1>1, <1>3, <2>1
  <2>3. wire.type = f.type
    BY <1>4 DEF ClassicalFrames
  <2> QED
    BY <1>1, <1>2, <1>4, <2>2, <2>3 DEF ClassicalFrames
<1>5. CASE f \in BootstrapFrames
  BY <1>1, <1>3, <1>5, GarbledAssumption DEF BootstrapFrames, Tags
<1> QED
  BY <1>1, <1>4, <1>5 DEF Frames

(* What noise hands to receive: bytes that do not pass, or a bootstrap     *)
(* frame, on whose account the sender counts as spoofed.                   *)
LEMMA NoiseIsGenuine ==
    ASSUME Typed, NEW s \in Senders, ReceiveNoise(s)
    PROVE  \E wire :
             /\ receive(s, wire)
             /\ \/ ~Passes(wire) /\ UNCHANGED spoofed
                \/ wire \in BootstrapFrames /\ spoofed' = spoofed \cup {s}
<1>1. CASE receive(s, Malformed) /\ UNCHANGED spoofed
  BY <1>1 DEF Passes
<1>2. ASSUME NEW i \in 1 .. Len(sent[s]), NEW wire \in Damaged(sent[s][i]),
             receive(s, wire),
             spoofed' = IF wire.type = BOOTSTRAP THEN spoofed \cup {s}
                                                 ELSE spoofed
      PROVE  /\ receive(s, wire)
             /\ \/ ~Passes(wire) /\ UNCHANGED spoofed
                \/ wire \in BootstrapFrames /\ spoofed' = spoofed \cup {s}
  <2>1. CASE wire.type = CLASSICAL
    BY <1>2, <2>1, DamagedIsRefused DEF Passes, BOOTSTRAP, CLASSICAL
  <2>2. CASE wire.type # CLASSICAL
    <3>1. wire \in BootstrapFrames
      BY <2>2 DEF Damaged, Frames, ClassicalFrames
    <3> QED
      BY <1>2, <3>1 DEF BootstrapFrames
  <2> QED
    BY <2>1, <2>2
<1> QED
  BY <1>1, <1>2 DEF ReceiveNoise

(* Every action that calls receive hands it a genuine wire.                *)
LEMMA ReceivedIsGenuine ==
    ASSUME Typed, NEW s \in Senders,
           ReceiveNext(s) \/ ReceiveOutOfTurn(s) \/ ReceiveNoise(s)
    PROVE  /\ \E wire : receive(s, wire) /\ Genuine(s, wire)
           /\ UNCHANGED <<sent, keyed, receivers>>
<1>1. CASE ReceiveNext(s)
  <2>1. taken[s] + 1 \in 1 .. Len(sent[s])
    BY <1>1 DEF ReceiveNext, Typed, TypeOK
  <2> QED
    BY <1>1, <2>1 DEF ReceiveNext, Genuine
<1>2. CASE ReceiveOutOfTurn(s)
  BY <1>2 DEF ReceiveOutOfTurn, Genuine
<1>3. CASE ReceiveNoise(s)
  BY <1>3, NoiseIsGenuine DEF ReceiveNoise, Genuine
<1> QED
  BY <1>1, <1>2, <1>3

(* A genuine wire that passes is a frame with a number of the field; unless*)
(* it is one of the unsigned frames the sender counts as spoofed for, it is*)
(* the sender's own frame with that number.                                *)
LEMMA GenuineFrames ==
    ASSUME Typed, NEW s \in Senders, NEW wire, Genuine(s, wire), Passes(wire)
    PROVE  /\ wire \in Frames /\ wire.sequence \in SequenceNumber
           /\ wire.sequence \in Int
           /\ \/ wire.sequence + 1 \in 1 .. Len(sent[s])
                 /\ wire = sent[s][wire.sequence + 1]
              \/ wire \in BootstrapFrames /\ wire.type # CLASSICAL
                 /\ s \in spoofed'
<1> USE SeqMaxAssumption
<1>1. CASE \E i \in 1 .. Len(sent[s]) : wire = sent[s][i]
  <2>1. PICK i \in 1 .. Len(sent[s]) : wire = sent[s][i]
    BY <1>1
  <2>2. wire \in Frames /\ wire.sequence = i - 1 /\ Len(sent[s]) <= SeqMax + 1
        /\ Len(sent[s]) \in Nat
    BY <2>1 DEF Typed, TypeOK, SentWell
  <2> QED
    BY <2>1, <2>2 DEF SequenceNumber
<1>2. CASE wire \in BootstrapFrames /\ s \in spoofed'
  BY <1>2 DEF Frames, BootstrapFrames, SequenceNumber, BOOTSTRAP, CLASSICAL
<1> QED
  BY <1>1, <1>2 DEF Genuine

-----------------------------------------------------------------------------
(* One call of receive leaves state of the right types, in every           *)
(* implementation.                                                         *)
LEMMA ReceiveTyped ==
    ASSUME Typed, NEW s \in Senders, NEW wire, receive(s, wire), Genuine(s, wire)
    PROVE  /\ DOMAIN lanes' \subseteq Senders
           /\ lanes' \in [DOMAIN lanes' -> Lane]
           /\ delivered' \in [Senders -> Seq(Frames)]
           /\ result' \in [sender : Senders \cup {NoSender}, kind : Results]
<1> USE SeqMaxAssumption
<1>1. result' \in [sender : Senders \cup {NoSender}, kind : Results]
  BY ReceiveCases DEF Results
<1>2. CASE UNCHANGED <<lanes, delivered>>
  BY <1>1, <1>2 DEF Typed, TypeOK
<1>3. ASSUME Passes(wire), SetLane(s, TryAccept(LaneOf(s), wire.sequence)),
             \/ delivered' = [delivered EXCEPT ![s] = Append(@, wire)]
             \/ UNCHANGED delivered
      PROVE  /\ DOMAIN lanes' \subseteq Senders
             /\ lanes' \in [DOMAIN lanes' -> Lane]
             /\ delivered' \in [Senders -> Seq(Frames)]
  <2>2. wire \in Frames /\ wire.sequence \in Int
    BY <1>3, GenuineFrames
  <2>3. TryAccept(LaneOf(s), wire.sequence) \in Lane
    BY <2>2, LaneOfType, TryAcceptType DEF Typed
  <2>4. DOMAIN lanes' \subseteq Senders /\ lanes' \in [DOMAIN lanes' -> Lane]
    BY <1>3, <2>3, SetLaneEffect DEF Typed
  <2>5. delivered' \in [Senders -> Seq(Frames)]
    <3>1. delivered \in [Senders -> Seq(Frames)]
      BY DEF Typed, TypeOK
    <3>2. Append(delivered[s], wire) \in Seq(Frames)
      BY <2>2, <3>1
    <3> QED
      BY <1>3, <3>1, <3>2
  <2> QED
    BY <2>4, <2>5
<1> QED
  BY <1>1, <1>2, <1>3, ReceiveCases

(* One call of receive preserves the invariant's conjuncts about lanes and *)
(* deliveries.                                                             *)
LEMMA ReceivePreserves ==
    ASSUME Impl # "rs", IInv, NEW s \in Senders, NEW wire, receive(s, wire),
           Genuine(s, wire), UNCHANGED <<sent, keyed, receivers>>
    PROVE  DeliveredAsSent' /\ LaneCountsDeliveries'
<1> USE SeqMaxAssumption
<1>1. CASE UNCHANGED <<lanes, delivered>>
  BY <1>1 DEF IInv, DeliveredAsSent, LaneCountsDeliveries, LaneOf, Genuine
<1>2. ASSUME Passes(wire),
             SetLane(s, TryAccept(LaneOf(s), wire.sequence)),
             ~(Accepts(LaneOf(s), wire.sequence) /\
               delivered' = [delivered EXCEPT ![s] = Append(@, wire)]) =>
                 ~Accepts(LaneOf(s), wire.sequence) /\ UNCHANGED delivered
      PROVE  DeliveredAsSent' /\ LaneCountsDeliveries'
  <2>1. PICK i \in Nat \ {0} : i = wire.sequence + 1
    BY <1>2, GenuineFrames DEF IInv, Typed, SequenceNumber
  <2>2. /\ wire \in Frames /\ wire.sequence = i - 1 /\ wire.sequence \in Int
        /\ \/ i \in 1 .. Len(sent[s]) /\ wire = sent[s][i]
           \/ wire.type # CLASSICAL /\ s \in spoofed'
        /\ spoofed \subseteq spoofed'
    BY <1>2, <2>1, GenuineFrames DEF IInv, Typed, Genuine
  <2>3. LaneOf(s) \in Lane
    BY LaneOfType DEF IInv
  <2> DEFINE l == TryAccept(LaneOf(s), wire.sequence)
  <2>4. /\ l \in Lane
        /\ l.expected = IF Accepts(LaneOf(s), wire.sequence)
                        THEN LaneOf(s).expected + 1 ELSE LaneOf(s).expected
    BY <2>2, <2>3, TryAcceptCases
  <2>5. /\ DOMAIN lanes' \subseteq Senders
        /\ lanes' \in [DOMAIN lanes' -> Lane]
        /\ LaneOf(s)' = l
        /\ \A t \in Senders \ {s} : LaneOf(t)' = LaneOf(t)
    BY <1>2, <2>4, SetLaneEffect DEF IInv
  <2>6. CASE /\ Accepts(LaneOf(s), wire.sequence)
             /\ delivered' = [delivered EXCEPT ![s] = Append(@, wire)]
    <3>1. Len(delivered[s]) = i - 1
      BY <2>2, <2>6 DEF Accepts, IInv, LaneCountsDeliveries
    <3>2. /\ delivered' \in [Senders -> Seq(Frames)]
          /\ delivered'[s] = Append(delivered[s], wire)
          /\ \A t \in Senders \ {s} : delivered'[t] = delivered[t]
      BY <2>2, <2>6 DEF IInv, TypeOK
    <3>3. delivered[s] \in Seq(Frames)
      BY DEF IInv, TypeOK
    <3>4. Len(delivered'[s]) = i /\ delivered'[s][i] = wire
          /\ \A j \in 1 .. i - 1 : delivered'[s][j] = delivered[s][j]
      BY <3>1, <3>2, <3>3
    <3>5. DeliveredAsSent'
      <4>1. ASSUME NEW t \in Senders, NEW j \in 1 .. Len(delivered'[t])
            PROVE  /\ delivered'[t][j].sequence = j - 1
                   /\ delivered'[t][j].type = CLASSICAL \/ t \notin spoofed' =>
                        j <= Len(sent'[t]) /\ delivered'[t][j] = sent'[t][j]
        <5>1. CASE t = s /\ j = i
          BY <2>2, <3>4, <5>1
        <5>2. CASE ~(t = s /\ j = i)
          <6>1. j \in 1 .. Len(delivered[t]) /\ delivered'[t][j] = delivered[t][j]
            <7>1. CASE t = s
              BY <3>1, <3>4, <5>2, <7>1
            <7>2. CASE t # s
              BY <3>2, <7>2
            <7> QED
              BY <7>1, <7>2
          <6>2. DeliveredAsSent
            BY DEF IInv
          <6>3. /\ delivered[t][j].sequence = j - 1
                /\ delivered[t][j].type = CLASSICAL \/ t \notin spoofed =>
                     j <= Len(sent[t]) /\ delivered[t][j] = sent[t][j]
            BY <6>1, <6>2 DEF DeliveredAsSent
          <6>4. sent'[t] = sent[t] /\ (t \notin spoofed' => t \notin spoofed)
            BY <2>2
          <6> QED
            BY <6>1, <6>3, <6>4
        <5> QED
          BY <5>1, <5>2
      <4> QED
        BY <4>1 DEF DeliveredAsSent
    <3>6. LaneCountsDeliveries'
      <4>1. ASSUME NEW t \in Senders
            PROVE  LaneOf(t)'.expected = Len(delivered'[t])
        <5>1. CASE t = s
          BY <2>4, <2>5, <2>6, <3>1, <3>4, <5>1 DEF IInv, LaneCountsDeliveries
        <5>2. CASE t # s
          BY <2>5, <3>2, <5>2 DEF IInv, LaneCountsDeliveries
        <5> QED
          BY <5>1, <5>2
      <4> QED
        BY <4>1 DEF LaneCountsDeliveries, LaneOf
    <3> QED
      BY <2>5, <3>2, <3>5, <3>6
  <2>7. CASE ~Accepts(LaneOf(s), wire.sequence) /\ UNCHANGED delivered
    <3>1. LaneCountsDeliveries'
      <4>1. ASSUME NEW t \in Senders
            PROVE  LaneOf(t)'.expected = Len(delivered'[t])
        BY <2>4, <2>5, <2>7 DEF IInv, LaneCountsDeliveries
      <4> QED
        BY <4>1 DEF LaneCountsDeliveries, LaneOf
    <3> QED
      BY <2>2, <2>7, <3>1 DEF IInv, DeliveredAsSent
  <2> QED
    BY <1>2, <2>6, <2>7
<1>3. \/ UNCHANGED <<lanes, delivered>>
      \/ /\ Passes(wire)
         /\ SetLane(s, TryAccept(LaneOf(s), wire.sequence))
         /\ \/ /\ Accepts(LaneOf(s), wire.sequence)
               /\ delivered' = [delivered EXCEPT ![s] = Append(@, wire)]
            \/ ~Accepts(LaneOf(s), wire.sequence) /\ UNCHANGED delivered
  BY ReceiveCases
<1> QED
  BY <1>1, <1>2, <1>3

LEMMA InitIInv == Init => IInv
<1> SUFFICES ASSUME Init PROVE IInv
  OBVIOUS
<1> USE SeqMaxAssumption DEF Init
<1>1. TypeOK
  BY LinksAssumption DEF TypeOK, NoLanes, Results
<1>2. SentWell /\ DeliveredAsSent
  BY DEF SentWell, DeliveredAsSent
<1>3. LaneCountsDeliveries
  BY DEF LaneCountsDeliveries, LaneOf, NoLanes, NewLane
<1> QED
  BY <1>1, <1>2, <1>3 DEF IInv

(* Sending: a frame that carries its place and, if signed, its own tag.    *)
LEMMA SendPreserves ==
    ASSUME Typed, NEW s \in Senders, NEW f \in Frames, Send(s, f),
           Len(sent[s]) \in SequenceNumber, f.sequence = Len(sent[s]),
           f.type = CLASSICAL => f.tag = Mac(f.sequence, f.payload)
    PROVE  /\ Typed'
           /\ DeliveredAsSent => DeliveredAsSent'
           /\ LaneCountsDeliveries => LaneCountsDeliveries'
<1> USE SeqMaxAssumption
<1>1. /\ sent' \in [Senders -> Seq(Frames)]
      /\ sent'[s] = Append(sent[s], f)
      /\ \A t \in Senders \ {s} : sent'[t] = sent[t]
  BY DEF Send, Typed, TypeOK
<1>2. sent[s] \in Seq(Frames) /\ Len(sent'[s]) = Len(sent[s]) + 1
      /\ sent'[s][Len(sent[s]) + 1] = f
      /\ \A i \in 1 .. Len(sent[s]) : sent'[s][i] = sent[s][i]
  BY <1>1 DEF Typed, TypeOK
<1>3. TypeOK'
  BY <1>1 DEF Send, Typed, TypeOK
<1>4. SentWell'
  <2>1. ASSUME NEW t \in Senders
        PROVE  /\ Len(sent'[t]) <= SeqMax + 1
               /\ \A i \in 1 .. Len(sent'[t]) :
                    /\ sent'[t][i].sequence = i - 1
                    /\ sent'[t][i].type = CLASSICAL =>
                         sent'[t][i].tag
                           = Mac(sent'[t][i].sequence, sent'[t][i].payload)
    <3>1. CASE t = s
      <4>1. Len(sent'[s]) <= SeqMax + 1
        BY <1>2 DEF SequenceNumber
      <4>2. ASSUME NEW i \in 1 .. Len(sent'[s])
            PROVE  /\ sent'[s][i].sequence = i - 1
                   /\ sent'[s][i].type = CLASSICAL =>
                        sent'[s][i].tag
                          = Mac(sent'[s][i].sequence, sent'[s][i].payload)
        <5>1. CASE i = Len(sent[s]) + 1
          BY <1>2, <5>1
        <5>2. CASE i \in 1 .. Len(sent[s])
          BY <1>2, <5>2 DEF Typed, SentWell
        <5> QED
          BY <1>2, <5>1, <5>2
      <4> QED
        BY <3>1, <4>1, <4>2
    <3>2. CASE t # s
      BY <1>1, <3>2 DEF Typed, SentWell
    <3> QED
      BY <3>1, <3>2
  <2> QED
    BY <2>1 DEF SentWell
<1>5. ASSUME DeliveredAsSent PROVE DeliveredAsSent'
  <2>1. ASSUME NEW t \in Senders, NEW j \in 1 .. Len(delivered[t])
        PROVE  /\ delivered[t][j].sequence = j - 1
               /\ delivered[t][j].type = CLASSICAL \/ t \notin spoofed =>
                    j <= Len(sent'[t]) /\ delivered[t][j] = sent'[t][j]
    <3>1. /\ delivered[t][j].sequence = j - 1
          /\ delivered[t][j].type = CLASSICAL \/ t \notin spoofed =>
               j <= Len(sent[t]) /\ delivered[t][j] = sent[t][j]
      BY <1>5 DEF DeliveredAsSent
    <3>2. sent[t] \in Seq(Frames)
      BY DEF Typed, TypeOK
    <3>3. CASE t = s
      BY <1>2, <3>1, <3>2, <3>3
    <3>4. CASE t # s
      BY <1>1, <3>1, <3>4
    <3> QED
      BY <3>3, <3>4
  <2> QED
    BY <2>1 DEF DeliveredAsSent, Send
<1>6. LaneCountsDeliveries => LaneCountsDeliveries'
  BY DEF Send, LaneCountsDeliveries, LaneOf
<1> QED
  BY <1>3, <1>4, <1>5, <1>6 DEF Typed

(* The frames the two sending actions build.                               *)
LEMMA SentFrames ==
    ASSUME NEW n \in SequenceNumber, NEW p \in Payloads
    PROVE  /\ SignFrame(n, p) \in Frames /\ SignFrame(n, p).sequence = n
           /\ SignFrame(n, p).tag
                = Mac(SignFrame(n, p).sequence, SignFrame(n, p).payload)
           /\ EncodeBootstrap(n, p) \in Frames
           /\ EncodeBootstrap(n, p).sequence = n
           /\ EncodeBootstrap(n, p).type # CLASSICAL
BY DEF SignFrame, EncodeBootstrap, Frames, ClassicalFrames, BootstrapFrames,
       AllPayloads, Tags, Mac, CLASSICAL, BOOTSTRAP

LEMMA NewReceiverPreserves ==
    ASSUME Typed, NewReceiver
    PROVE  Typed' /\ DeliveredAsSent' /\ LaneCountsDeliveries'
<1> USE SeqMaxAssumption DEF NewReceiver
<1>1. TypeOK'
  BY LinksAssumption DEF Typed, TypeOK, NoLanes
<1>2. SentWell' /\ DeliveredAsSent'
  BY DEF Typed, TypeOK, SentWell, DeliveredAsSent
<1>3. LaneCountsDeliveries'
  BY DEF LaneCountsDeliveries, LaneOf, NoLanes, NewLane
<1> QED
  BY <1>1, <1>2, <1>3 DEF Typed

LEMMA NextTyped ==
    ASSUME Typed, [Next]_vars
    PROVE  Typed'
<1>1. ASSUME NEW s \in Senders, SendClassical(s) \/ SendBootstrap(s)
      PROVE  Typed'
  BY <1>1, SendPreserves, SentFrames DEF SendClassical, SendBootstrap
<1>2. ASSUME NEW s \in Senders,
             ReceiveNext(s) \/ ReceiveOutOfTurn(s) \/ ReceiveNoise(s)
      PROVE  Typed'
  <2>1. PICK wire : receive(s, wire) /\ Genuine(s, wire)
    BY <1>2, ReceivedIsGenuine
  <2>2. UNCHANGED <<sent, keyed, receivers>>
    BY <1>2, ReceivedIsGenuine
  <2>3. taken' \in [Senders -> Nat]
    <3>1. taken' = taken \/ taken' = [taken EXCEPT ![s] = taken[s] + 1]
      BY <1>2 DEF ReceiveNext, ReceiveOutOfTurn, ReceiveNoise
    <3>2. taken \in [Senders -> Nat]
      BY DEF Typed, TypeOK
    <3> QED
      BY <3>1, <3>2
  <2>4. TypeOK'
    BY <2>1, <2>2, <2>3, ReceiveTyped DEF Typed, TypeOK, Genuine
  <2>5. SentWell'
    BY <2>2 DEF Typed, SentWell
  <2> QED
    BY <2>4, <2>5 DEF Typed
<1>3. CASE NewReceiver
  BY <1>3, NewReceiverPreserves
<1>4. CASE UNCHANGED vars
  BY <1>4 DEF vars, Typed, TypeOK, SentWell
<1> QED
  BY <1>1, <1>2, <1>3, <1>4 DEF Next

LEMMA NextIInv ==
    ASSUME Impl # "rs", IInv, [Next]_vars
    PROVE  IInv'
<1> USE DEF IInv, Typed
<1>1. Typed'
  BY NextTyped
<1>2. ASSUME NEW s \in Senders, SendClassical(s) \/ SendBootstrap(s)
      PROVE  IInv'
  BY <1>2, SendPreserves, SentFrames DEF SendClassical, SendBootstrap
<1>3. ASSUME NEW s \in Senders,
             ReceiveNext(s) \/ ReceiveOutOfTurn(s) \/ ReceiveNoise(s)
      PROVE  IInv'
  <2>1. PICK wire : receive(s, wire) /\ Genuine(s, wire)
    BY <1>3, ReceivedIsGenuine
  <2>2. UNCHANGED <<sent, keyed, receivers>>
    BY <1>3, ReceivedIsGenuine
  <2> QED
    BY <1>1, <2>1, <2>2, ReceivePreserves
<1>4. CASE NewReceiver
  BY <1>4, NewReceiverPreserves
<1>5. CASE UNCHANGED vars
  BY <1>1, <1>5 DEF vars, DeliveredAsSent, LaneCountsDeliveries, LaneOf
<1> QED
  BY <1>2, <1>3, <1>4, <1>5 DEF Next

(* Every implementation keeps its state well typed, Rust with its          *)
(* saturating counter included: no lane ever expects more than SeqMax + 1, *)
(* and receive answers with one of its documented results.                 *)
THEOREM TypesCorrect == Spec => []TypeOK
<1>1. Init => Typed
  BY InitIInv DEF IInv, Typed
<1>2. Typed /\ [Next]_vars => Typed'
  BY NextTyped
<1>3. Typed => TypeOK
  BY DEF Typed
<1> QED
  BY <1>1, <1>2, <1>3, PTL DEF Spec

(* In TypeScript and Python, whatever the links do: the frames receive     *)
(* returned for a sender carry the numbers from 0 on, and they are the     *)
(* first ones the sender encoded, in order, except for bootstrap frames    *)
(* that damage made; no signed frame is ever one of those.                 *)
THEOREM DeliveryCorrect ==
    ASSUME Impl # "rs"
    PROVE  Spec => []DeliveredAsSent
<1>1. Init => IInv
  BY InitIInv
<1>2. IInv /\ [Next]_vars => IInv'
  BY NextIInv
<1>3. IInv => DeliveredAsSent
  BY DEF IInv
<1> QED
  BY <1>1, <1>2, <1>3, PTL DEF Spec

(* In TypeScript and Python each lane expects the number that follows the  *)
(* frames receive returned, and no call that throws moves it.              *)
THEOREM LanesCount ==
    ASSUME Impl # "rs"
    PROVE  Spec => []LaneCountsDeliveries
<1>1. Init => IInv
  BY InitIInv
<1>2. IInv /\ [Next]_vars => IInv'
  BY NextIInv
<1>3. IInv => LaneCountsDeliveries
  BY DEF IInv
<1> QED
  BY <1>1, <1>2, <1>3, PTL DEF Spec

-----------------------------------------------------------------------------
(* In every implementation an aborted lane stays aborted and delivers      *)
(* nothing, whatever the links and the senders do.                         *)
LEMMA AbortedStep ==
    ASSUME TypeOK, [Next]_vars, NEW s \in Senders, LaneOf(s).aborted
    PROVE  \/ receivers' # receivers
           \/ LaneOf(s)'.aborted /\ delivered'[s] = delivered[s]
<1>1. ASSUME NEW t \in Senders, NEW wire, receive(t, wire)
      PROVE  LaneOf(s)'.aborted /\ delivered'[s] = delivered[s]
  <2> DEFINE l == TryAccept(LaneOf(t), wire.sequence)
  <2>1. LaneOf(s) \in Lane /\ LaneOf(t) \in Lane
    BY LaneOfType
  <2>2. CASE UNCHANGED <<lanes, delivered>>
    BY <2>2 DEF LaneOf
  <2>3. CASE SetLane(t, l) /\ t # s
    <3>1. LaneOf(s)' = LaneOf(s)
      BY <2>3 DEF SetLane, LaneOf
    <3>2. delivered'[s] = delivered[s]
      BY <1>1, <2>3, ReceiveCases DEF TypeOK
    <3> QED
      BY <3>1, <3>2
  <2>4. CASE SetLane(t, l) /\ t = s
    <3>1. ~Accepts(LaneOf(s), wire.sequence) /\ l.aborted
      BY <2>1, <2>4, AbortedLaneStays
    <3>2. LaneOf(s)' = l
      BY <2>4 DEF SetLane, LaneOf
    <3>3. UNCHANGED delivered
      BY <1>1, <2>4, <3>1, ReceiveCases
    <3> QED
      BY <3>1, <3>2, <3>3
  <2> QED
    BY <1>1, <2>2, <2>3, <2>4, ReceiveCases
<1>2. ASSUME NEW t \in Senders, SendClassical(t) \/ SendBootstrap(t)
      PROVE  LaneOf(s)'.aborted /\ delivered'[s] = delivered[s]
  BY <1>2 DEF SendClassical, SendBootstrap, Send, LaneOf
<1>3. ASSUME NEW t \in Senders,
             ReceiveNext(t) \/ ReceiveOutOfTurn(t) \/ ReceiveNoise(t)
      PROVE  LaneOf(s)'.aborted /\ delivered'[s] = delivered[s]
  BY <1>1, <1>3 DEF ReceiveNext, ReceiveOutOfTurn, ReceiveNoise
<1>4. CASE NewReceiver
  BY <1>4 DEF NewReceiver, TypeOK
<1>5. CASE UNCHANGED vars
  BY <1>5 DEF vars, LaneOf
<1> QED
  BY <1>2, <1>3, <1>4, <1>5 DEF Next

(* Abort is final in every implementation.                                 *)
THEOREM AbortFinal == Spec => AbortIsFinal
<1>1. Typed /\ [Next]_vars =>
        [\A s \in Senders :
           LaneOf(s).aborted =>
             \/ receivers' # receivers
             \/ LaneOf(s)'.aborted /\ delivered'[s] = delivered[s]]_vars
  BY AbortedStep DEF Typed
<1>2. Init => Typed
  BY InitIInv DEF IInv, Typed
<1>3. Typed /\ [Next]_vars => Typed'
  BY NextTyped
<1> QED
  BY <1>1, <1>2, <1>3, PTL DEF Spec, AbortIsFinal

(* On an ordered link every frame the link handed over was delivered, as   *)
(* long as the first receiver is in charge and holds the key and no damage *)
(* has made a bootstrap frame.                                             *)
Ahead ==
    /\ receivers >= 1
    /\ \A s \in Senders \ ReplayLinks :
         (receivers = 1 /\ keyed /\ s \notin spoofed) =>
             ~LaneOf(s).aborted /\ taken[s] = Len(delivered[s])

LEMMA NextAhead ==
    ASSUME Impl # "rs", IInv, Ahead, [Next]_vars
    PROVE  Ahead'
<1>1. ASSUME NEW t \in Senders, SendClassical(t) \/ SendBootstrap(t)
      PROVE  Ahead'
  BY <1>1 DEF SendClassical, SendBootstrap, Send, Ahead, LaneOf
<1>2. ASSUME NEW t \in Senders, ReceiveNext(t)
      PROVE  Ahead'
  <2> DEFINE wire == sent[t][taken[t] + 1]
             l == TryAccept(LaneOf(t), wire.sequence)
  <2>1. receive(t, wire) /\ UNCHANGED <<sent, keyed, receivers, spoofed>>
    BY <1>2 DEF ReceiveNext
  <2>2. taken[t] + 1 \in 1 .. Len(sent[t]) /\ taken[t] \in Nat
    BY <1>2 DEF ReceiveNext, IInv, TypeOK
  <2>3. /\ wire \in Frames /\ wire.sequence = taken[t]
        /\ wire.type = CLASSICAL => VerifyFrameAuthentication(wire)
    BY <2>2 DEF IInv, TypeOK, SentWell, VerifyFrameAuthentication
  <2>4. taken'[t] = taken[t] + 1
        /\ \A s \in Senders \ {t} : taken'[s] = taken[s]
    BY <1>2 DEF ReceiveNext, IInv, TypeOK
  <2>5. ASSUME NEW s \in Senders \ ReplayLinks, receivers = 1, keyed,
               s \notin spoofed
        PROVE  ~LaneOf(s)'.aborted /\ taken'[s] = Len(delivered'[s])
    <3>1. CASE s # t
      <4>1. LaneOf(s)' = LaneOf(s) /\ delivered'[s] = delivered[s]
        BY <2>1, <3>1, OthersUntouched DEF IInv
      <4> QED
        BY <2>4, <2>5, <3>1, <4>1 DEF Ahead
    <3>2. CASE s = t
      <4>1. /\ LaneOf(t) \in Lane /\ ~LaneOf(t).aborted
            /\ LaneOf(t).expected = taken[t] /\ taken[t] = Len(delivered[t])
        BY <2>5, <3>2, LaneOfType DEF Ahead, IInv, LaneCountsDeliveries
      <4>2. taken[t] \in SequenceNumber
        BY <2>2, SeqMaxAssumption DEF IInv, SentWell, SequenceNumber
      <4>3. Accepts(LaneOf(t), wire.sequence)
        BY <2>3, <4>1, <4>2 DEF Accepts
      <4>4. Passes(wire)
        BY <2>3, <2>5, MalformedAssumption DEF Passes
      <4>5. /\ LaneOf(t)' = l
            /\ delivered'[t] = Append(delivered[t], wire)
        <5>1. /\ SetLane(t, l)
              /\ delivered' = [delivered EXCEPT ![t] = Append(@, wire)]
          BY <2>1, <4>3, <4>4, ReceiveCases
        <5>2. delivered \in [Senders -> Seq(Frames)]
          BY DEF IInv, TypeOK
        <5> QED
          BY <5>1, <5>2 DEF SetLane, LaneOf
      <4>6. ~l.aborted
        <5>1. wire.sequence \in Int
          BY <2>2, <2>3
        <5> QED
          BY <5>1, <4>1, <4>3, TryAcceptCases
      <4>7. Len(delivered'[t]) = Len(delivered[t]) + 1
        BY <4>5 DEF IInv, TypeOK
      <4> QED
        BY <2>4, <3>2, <4>1, <4>5, <4>6, <4>7
    <3> QED
      BY <3>1, <3>2
  <2> QED
    BY <2>1, <2>5 DEF Ahead, LaneOf
<1>3. ASSUME NEW t \in Senders, ReceiveOutOfTurn(t)
      PROVE  Ahead'
  <2>1. /\ t \in ReplayLinks /\ UNCHANGED <<taken, keyed, receivers, spoofed>>
        /\ \E wire : receive(t, wire)
    BY <1>3 DEF ReceiveOutOfTurn
  <2>2. ASSUME NEW s \in Senders \ ReplayLinks
        PROVE  LaneOf(s)' = LaneOf(s) /\ delivered'[s] = delivered[s]
    <3>1. s \in Senders \ {t} /\ \E wire : receive(t, wire)
      BY <2>1
    <3> QED
      BY <3>1, OthersUntouched DEF IInv
  <2> QED
    BY <2>1, <2>2 DEF Ahead, LaneOf
<1>4. ASSUME NEW t \in Senders, ReceiveNoise(t)
      PROVE  Ahead'
  <2>1. UNCHANGED <<taken, keyed, receivers>>
    BY <1>4 DEF ReceiveNoise
  <2>2. PICK wire : /\ receive(t, wire)
                    /\ \/ ~Passes(wire) /\ UNCHANGED spoofed
                       \/ spoofed' = spoofed \cup {t}
    BY <1>4, NoiseIsGenuine DEF IInv, Typed
  <2>3. ASSUME NEW s \in Senders \ ReplayLinks, s \notin spoofed'
        PROVE  s \notin spoofed
               /\ LaneOf(s)' = LaneOf(s) /\ delivered'[s] = delivered[s]
    <3>1. CASE s = t
      <4>1. UNCHANGED <<lanes, delivered>>
        BY <2>2, <2>3, <3>1, ReceiveCases
      <4> QED
        BY <2>2, <2>3, <4>1 DEF LaneOf
    <3>2. CASE s # t
      BY <2>2, <2>3, <3>2, OthersUntouched DEF IInv
    <3> QED
      BY <3>1, <3>2
  <2> QED
    BY <2>1, <2>3 DEF Ahead, LaneOf
<1>5. CASE NewReceiver
  BY <1>5 DEF NewReceiver, Ahead, IInv, TypeOK
<1>6. CASE UNCHANGED vars
  BY <1>6 DEF vars, Ahead, LaneOf
<1> QED
  BY <1>1, <1>2, <1>3, <1>4, <1>5, <1>6 DEF Next

(* In TypeScript and Python no amount of malformed bytes and of frames that*)
(* do not verify aborts a lane whose link keeps the order; only an unsigned*)
(* frame that damage made can.                                             *)
THEOREM NoiseHarmless ==
    ASSUME Impl # "rs"
    PROVE  Spec => []NoiseNeverAborts
<1>1. Init => IInv /\ Ahead
  BY InitIInv DEF Init, Ahead, LaneOf, NoLanes, NewLane
<1>2. IInv /\ Ahead /\ [Next]_vars => IInv' /\ Ahead'
  BY NextIInv, NextAhead
<1>3. Ahead => NoiseNeverAborts
  BY DEF Ahead, NoiseNeverAborts
<1> QED
  BY <1>1, <1>2, <1>3, PTL DEF Spec

-----------------------------------------------------------------------------
(* Refinement: the initial states and every step.                          *)
LEMMA InitOrdered == Init => Ordered!Init
BY DEF Init, Ordered!Init, LaneOf, NoLanes, NewLane

LEMMA ReceiveOrdered ==
    ASSUME Impl # "rs", IInv, NEW s \in Senders, NEW wire, receive(s, wire),
           Genuine(s, wire), UNCHANGED sent
    PROVE  \/ Ordered!Deliver(s) \/ Ordered!Abort(s) \/ Ordered!SlipIn(s)
           \/ UNCHANGED Ordered!vars
<1> DEFINE l == TryAccept(LaneOf(s), wire.sequence)
           was == [t \in Senders |-> LaneOf(t).aborted]
           slipped == wire \in BootstrapFrames /\ spoofed' = spoofed \cup {s}
<1>1. CASE ~Passes(wire) /\ UNCHANGED <<lanes, delivered>>
  <2>1. UNCHANGED spoofed
    BY <1>1, MalformedAssumption DEF Genuine, Passes, Frames, BootstrapFrames,
                                     BOOTSTRAP, CLASSICAL
  <2> QED
    BY <1>1, <2>1 DEF Ordered!vars, LaneOf
<1>2. ASSUME Passes(wire), SetLane(s, l)
      PROVE  /\ LaneOf(s) \in Lane /\ wire.sequence \in SequenceNumber
             /\ \/ UNCHANGED spoofed /\ wire.sequence + 1 \in 1 .. Len(sent[s])
                   /\ wire = sent[s][wire.sequence + 1]
                \/ slipped
             /\ LaneOf(s)'.aborted <=> ~Accepts(LaneOf(s), wire.sequence)
             /\ \A t \in Senders \ {s} : LaneOf(t)' = LaneOf(t)
  <2>1. wire.sequence \in SequenceNumber /\ wire.sequence \in Int
    BY <1>2, GenuineFrames DEF IInv, Typed
  <2>2. \/ UNCHANGED spoofed /\ wire.sequence + 1 \in 1 .. Len(sent[s])
           /\ wire = sent[s][wire.sequence + 1]
        \/ slipped
    <3>1. CASE /\ \E i \in 1 .. Len(sent[s]) : wire = sent[s][i]
               /\ UNCHANGED spoofed
      <4>1. PICK i \in 1 .. Len(sent[s]) : wire = sent[s][i]
        BY <3>1
      <4>2. wire.sequence = i - 1
        BY <4>1 DEF IInv, SentWell
      <4> QED
        BY <3>1, <4>1, <4>2
    <3> QED
      BY <1>2, <3>1 DEF Genuine
  <2>3. LaneOf(s) \in Lane
    BY LaneOfType DEF IInv
  <2>4. LaneOf(s)' = l /\ \A t \in Senders \ {s} : LaneOf(t)' = LaneOf(t)
    BY <1>2 DEF SetLane, LaneOf
  <2> QED
    BY <2>1, <2>2, <2>3, <2>4, TryAcceptCases
<1>3. CASE /\ Passes(wire) /\ Accepts(LaneOf(s), wire.sequence)
           /\ SetLane(s, l)
           /\ delivered' = [delivered EXCEPT ![s] = Append(@, wire)]
  <2>2. /\ ~LaneOf(s).aborted /\ ~LaneOf(s)'.aborted
        /\ Len(delivered[s]) = wire.sequence /\ wire.sequence \in Nat
    BY <1>2, <1>3 DEF Accepts, IInv, LaneCountsDeliveries, SequenceNumber
  <2>3. was' = was
    <3>1. LaneOf(s)'.aborted = LaneOf(s).aborted
      <4>1. LaneOf(s)' = l /\ l \in Lane /\ LaneOf(s) \in Lane
        <5>1. wire.sequence \in Int
          BY <2>2
        <5> QED
          BY <1>2, <1>3, <5>1, TryAcceptCases DEF SetLane, LaneOf
      <4> QED
        BY <2>2, <4>1 DEF Lane
    <3> QED
      BY <1>2, <1>3, <3>1
  <2>4. CASE /\ UNCHANGED spoofed /\ wire.sequence + 1 \in 1 .. Len(sent[s])
             /\ wire = sent[s][wire.sequence + 1]
    <3>1. delivered'
            = [delivered EXCEPT ![s] = Append(@, sent[s][Len(@) + 1])]
      BY <1>3, <2>2, <2>4
    <3>2. Len(delivered[s]) < Len(sent[s])
      BY <2>2, <2>4
    <3> QED
      BY <2>2, <2>3, <2>4, <3>1, <3>2 DEF Ordered!Deliver
  <2>5. CASE slipped
    <3>1. \E f \in BootstrapFrames :
             delivered' = [delivered EXCEPT ![s] = Append(@, f)]
      BY <1>3, <2>5
    <3>2. ~was[s]
      BY <2>2
    <3> QED
      BY <2>3, <2>5, <3>1, <3>2 DEF Ordered!SlipIn
  <2> QED
    BY <1>2, <1>3, <2>4, <2>5
<1>4. CASE /\ Passes(wire) /\ ~Accepts(LaneOf(s), wire.sequence)
           /\ SetLane(s, l) /\ UNCHANGED delivered
  <2>1. was' = [was EXCEPT ![s] = TRUE]
    BY <1>2, <1>4
  <2>2. CASE UNCHANGED spoofed
    BY <1>4, <2>1, <2>2 DEF Ordered!Abort
  <2>3. CASE slipped
    BY <1>4, <2>1, <2>3 DEF Ordered!SlipIn
  <2> QED
    BY <1>2, <1>4, <2>2, <2>3
<1> QED
  BY <1>1, <1>3, <1>4, ReceiveCases

LEMMA NextOrdered ==
    ASSUME Impl # "rs", IInv, [Next]_vars
    PROVE  [Ordered!Next]_Ordered!vars
<1>1. ASSUME NEW s \in Senders, SendClassical(s) \/ SendBootstrap(s)
      PROVE  Ordered!Next
  <2>1. PICK f \in Frames : Send(s, f)
    BY <1>1, SentFrames DEF SendClassical, SendBootstrap
  <2>2. Ordered!Send(s, f)
    BY <2>1 DEF Send, Ordered!Send, LaneOf
  <2> QED
    BY <2>2 DEF Ordered!Next
<1>2. ASSUME NEW s \in Senders,
             ReceiveNext(s) \/ ReceiveOutOfTurn(s) \/ ReceiveNoise(s)
      PROVE  Ordered!Next \/ UNCHANGED Ordered!vars
  <2>1. PICK wire : receive(s, wire) /\ Genuine(s, wire)
    BY <1>2, ReceivedIsGenuine DEF IInv, Typed
  <2>2. UNCHANGED sent
    BY <1>2, ReceivedIsGenuine DEF IInv, Typed
  <2> QED
    BY <2>1, <2>2, ReceiveOrdered DEF Ordered!Next
<1>3. CASE NewReceiver
  BY <1>3 DEF NewReceiver, Ordered!Next, Ordered!StartOver, LaneOf, NoLanes,
              NewLane
<1>4. CASE UNCHANGED vars
  BY <1>4 DEF vars, Ordered!vars, LaneOf
<1> QED
  BY <1>1, <1>2, <1>3, <1>4 DEF Next

(* In TypeScript and Python the receiver is an ordered, at-most-once       *)
(* channel per sender, for every set of senders and every behaviour of the *)
(* links.                                                                  *)
THEOREM ReceiverImplementsOrderedDelivery ==
    ASSUME Impl # "rs"
    PROVE  Spec => ImplementsOrderedDelivery
<1>1. Init => IInv /\ Ordered!Init
  BY InitIInv, InitOrdered
<1>2. IInv /\ [Next]_vars => IInv' /\ [Ordered!Next]_Ordered!vars
  BY NextIInv, NextOrdered
<1> QED
  BY <1>1, <1>2, PTL DEF Spec, ImplementsOrderedDelivery, Ordered!Spec
=============================================================================
