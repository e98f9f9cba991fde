------------------------ MODULE SecureSession_proofs ------------------------
(***************************************************************************)
(* What two ends of a session guarantee for every set of messages,         *)
(* plaintexts and versions, any width of the counters, any truncation of   *)
(* the nonce prefixes and any faults of the link, in every implementation. *)
(***************************************************************************)
EXTENDS SecureSession, TLAPS

(* The inputs of the hashes in a chain are its genesis and its messages.   *)
Sid == T!sessionId(NonceOf["A"], NonceOf["B"])
Inputs == {T!Genesis(v, Sid, r)[1] : v \in Versions, r \in T!Roles} \cup Messages
Heads == [T!Roles -> Seq(Inputs)]
Contexts == Seq(Inputs) \X Seq(Inputs)

(* A chain object whose stored context hash, where there is one, is that   *)
(* of its heads.                                                           *)
IsChain(c) ==
    /\ c.heads \in Heads
    /\ c = IF Impl = "ts"
           THEN [sid |-> Sid, heads |-> c.heads, context |-> T!combineContext(c.heads)]
           ELSE [sid |-> Sid, heads |-> c.heads]

KeysOfSession == Directions \X Contexts
NoncePrefixes == {deriveNoncePrefix(d, k, c) : d \in Directions, k \in KeysOfSession, c \in Contexts}
Items == [by : Ends, number : Nat,
          ciphertext : [key : KeysOfSession, nonce : NoncePrefixes \X Nat,
                        plaintext : Plaintexts]]

(* The cipher of a direction and a context, after its first n nonces.      *)
CipherAt(direction, context, n) ==
    [NewCipher(direction, context) EXCEPT !.nextSequence = n]

-----------------------------------------------------------------------------
(* The inductive invariant.                                                *)
ChainsWell == DOMAIN chain = Ends /\ \A e \in Ends : IsChain(chain[e])

(* A context is that of the heads at some earlier moment.                  *)
ContextsWell ==
    /\ contexts \in [Ends -> Seq(Contexts)]
    /\ \A e \in Ends : Len(contexts[e]) <= MaxChannels
    /\ \A e \in Ends : \A n \in 1 .. Len(contexts[e]) :
         /\ IsPrefix(contexts[e][n][1], chain[e].heads["A"])
         /\ IsPrefix(contexts[e][n][2], chain[e].heads["B"])

(* The i-th ciphertext of a channel was sealed with the channel's key      *)
(* under its i-th nonce, and the counter never runs over.                  *)
SealedWell ==
    /\ sealed \in [Ends -> Seq(Seq(Items))]
    /\ \A e \in Ends : Len(sealed[e]) = Len(contexts[e])
    /\ \A e \in Ends : \A n \in 1 .. Len(sealed[e]) :
         /\ Len(sealed[e][n]) <= LastSeq
         /\ \A i \in 1 .. Len(sealed[e][n]) :
              LET cipher == CipherAt(Outgoing(e), contexts[e][n], i - 1)
              IN  /\ sealed[e][n][i].ciphertext.key = cipher.key
                  /\ sealed[e][n][i].ciphertext.nonce = nonceForNextSequence(cipher)

(* The i-th thing an end opened is the i-th its peer sealed with a channel *)
(* of the same context.                                                    *)
OpenedWell ==
    /\ opened \in [Ends -> Seq(Items)]
    /\ \A e \in Ends : Len(opened[e]) <= LastSeq
    /\ \A e \in Ends : \A i \in 1 .. Len(opened[e]) :
         /\ contexts[e] # << >>
         /\ \E n \in 1 .. Len(sealed[Peer(e)]) :
              /\ contexts[Peer(e)][n] = Last(contexts[e])
              /\ i <= Len(sealed[Peer(e)][n])
              /\ opened[e][i] = sealed[Peer(e)][n][i]

(* A channel is what its context makes it, and its counters tell what it   *)
(* has sealed and opened.                                                  *)
ChannelsWell ==
    /\ DOMAIN channel = Ends
    /\ \A e \in Ends :
         channel[e] =
           IF contexts[e] = << >> THEN NoChannel
           ELSE [sending   |-> CipherAt(Outgoing(e), Last(contexts[e]), Len(SealedNow(e))),
                 receiving |-> CipherAt(Incoming(e), Last(contexts[e]), Len(opened[e]))]

IInv ==
    /\ ChainsWell /\ ContextsWell /\ SealedWell /\ OpenedWell /\ ChannelsWell
    /\ result \in Outcomes

-----------------------------------------------------------------------------
(* Sequences.                                                              *)
LEMMA PrefixMeans ==
    ASSUME NEW S, NEW s \in Seq(S), NEW t \in Seq(S)
    PROVE  IsPrefix(s, t) <=>
             Len(s) <= Len(t) /\ \A i \in 1 .. Len(s) : s[i] = t[i]
BY DEF IsPrefix

LEMMA AppendFacts ==
    ASSUME NEW S, NEW s \in Seq(S), NEW x \in S
    PROVE  /\ Append(s, x) \in Seq(S)
           /\ Append(s, x) # << >> /\ Last(Append(s, x)) = x
           /\ Len(Append(s, x)) = Len(s) + 1
           /\ Append(s, x)[Len(s) + 1] = x
           /\ \A i \in 1 .. Len(s) : Append(s, x)[i] = s[i]
<1>1. /\ Append(s, x) \in Seq(S) /\ Len(Append(s, x)) = Len(s) + 1
      /\ Append(s, x)[Len(s) + 1] = x
      /\ \A i \in 1 .. Len(s) : Append(s, x)[i] = s[i]
  OBVIOUS
<1>2. Len(Append(s, x)) # 0 /\ Len(<< >>) = 0
  BY <1>1
<1>3. Append(s, x) # << >>
  BY <1>2
<1> QED
  BY <1>1, <1>3 DEF Last

LEMMA PrefixOfLonger ==
    ASSUME NEW S, NEW s \in Seq(S), NEW t \in Seq(S), NEW x \in S, IsPrefix(s, t)
    PROVE  IsPrefix(s, Append(t, x))
<1>1. /\ Append(t, x) \in Seq(S) /\ Len(Append(t, x)) = Len(t) + 1
      /\ \A i \in 1 .. Len(t) : Append(t, x)[i] = t[i]
  OBVIOUS
<1>2. Len(s) <= Len(t) /\ \A i \in 1 .. Len(s) : s[i] = t[i]
  BY PrefixMeans
<1>3. /\ Len(s) <= Len(Append(t, x))
      /\ \A i \in 1 .. Len(s) : s[i] = Append(t, x)[i]
  BY <1>1, <1>2
<1>4. Append(t, x) \in Seq(S)
  BY <1>1
<1> QED
  BY <1>3, <1>4, PrefixMeans

-----------------------------------------------------------------------------
(* Chains and ciphers.                                                     *)
LEMMA AppendToChain ==
    ASSUME NEW c, IsChain(c), NEW role \in T!Roles, NEW m \in Messages
    PROVE  /\ IsChain(T!append(c, role, m))
           /\ T!append(c, role, m).heads = [c.heads EXCEPT ![role] = Append(@, m)]
<1> DEFINE h == [c.heads EXCEPT ![role] = Append(@, m)]
<1>1. m \in Inputs
  BY DEF Inputs
<1>2. c.heads[role] \in Seq(Inputs)
  BY DEF IsChain, Heads
<1>3. h \in Heads
  <2>1. Append(c.heads[role], m) \in Seq(Inputs)
    BY <1>1, <1>2
  <2> QED
    BY <2>1 DEF IsChain, Heads
<1>4. CASE Impl = "ts"
  <2>1. PICK g : c = [sid |-> Sid, heads |-> g, context |-> T!combineContext(g)]
    BY <1>4 DEF IsChain
  <2>2. T!append(c, role, m) = [c EXCEPT !.heads = h, !.context = T!combineContext(h)]
    BY <1>4 DEF T!append, T!appendTs, T!Extend
  <2>3. T!append(c, role, m) = [sid |-> Sid, heads |-> h, context |-> T!combineContext(h)]
    BY <2>1, <2>2
  <2> QED
    BY <1>3, <1>4, <2>3 DEF IsChain
<1>5. CASE Impl # "ts"
  <2>1. PICK g : c = [sid |-> Sid, heads |-> g]
    BY <1>5 DEF IsChain
  <2>2. T!append(c, role, m) = [c EXCEPT !.heads = h]
    BY <1>5 DEF T!append, T!appendPy, T!Extend
  <2>3. T!append(c, role, m) = [sid |-> Sid, heads |-> h]
    BY <2>1, <2>2
  <2> QED
    BY <1>3, <1>5, <2>3 DEF IsChain
<1> QED
  BY <1>4, <1>5

LEMMA SnapshotContext ==
    ASSUME NEW c, IsChain(c)
    PROVE  T!snapshot(c).contextHash = <<c.heads["A"], c.heads["B"]>>
BY DEF IsChain, T!snapshot, T!snapshotTs, T!snapshotPy, T!combineContext

LEMMA CipherAdvances ==
    ASSUME NEW d, NEW c, NEW n \in Nat
    PROVE  Advance(CipherAt(d, c, n)) = CipherAt(d, c, n + 1)
BY DEF CipherAt, NewCipher, Advance

LEMMA CipherCounts ==
    ASSUME NEW d, NEW c, NEW n
    PROVE  CipherAt(d, c, n).nextSequence = n
BY DEF CipherAt, NewCipher

(* The key tells the direction and the context, the nonce the count.       *)
LEMMA KeyIdentifies ==
    ASSUME NEW d, NEW c, NEW k \in Nat, NEW d2, NEW c2, NEW j \in Nat,
           CipherAt(d, c, k).key = CipherAt(d2, c2, j).key
    PROVE  d = d2 /\ c = c2
BY DEF CipherAt, NewCipher, deriveDirectionalKey

LEMMA NonceIdentifies ==
    ASSUME NEW d, NEW c, NEW k \in Nat, NEW d2, NEW c2, NEW j \in Nat,
           nonceForNextSequence(CipherAt(d, c, k))
             = nonceForNextSequence(CipherAt(d2, c2, j))
    PROVE  k = j
BY DEF CipherAt, NewCipher, nonceForNextSequence, buildNonce

LEMMA NewCipherIsAtStart ==
    ASSUME NEW d, NEW c
    PROVE  NewCipher(d, c) = CipherAt(d, c, 0)
BY DEF CipherAt, NewCipher

(* decrypt answers with the plaintext only if the ciphertext is authentic. *)
LEMMA DecryptCases ==
    ASSUME NEW cipher, NEW ciphertext, NEW withNonce, NEW intact
    PROVE  /\ decrypt(cipher, ciphertext, withNonce, intact) \in Outcomes
           /\ decrypt(cipher, ciphertext, withNonce, intact) = "plaintext"
                => Authentic(cipher, ciphertext, intact)
BY ImplAssumption DEF decrypt, decryptTs, decryptPy, decryptRs, Outcomes

LEMMA EndsAreTwo ==
    ASSUME NEW e \in Ends
    PROVE  /\ Peer(e) \in Ends /\ Peer(e) # e /\ Peer(Peer(e)) = e
           /\ Outgoing(e) \in Directions /\ Incoming(e) = Outgoing(Peer(e))
           /\ \A f \in Ends : Outgoing(f) = Outgoing(e) => f = e
           /\ \A f \in Ends : Incoming(f) = Outgoing(e) => f = Peer(e)
BY DEF Ends, T!Roles, Peer, Outgoing, Incoming, Directions

-----------------------------------------------------------------------------
LEMMA InitIInv == Init => IInv
<1> SUFFICES ASSUME Init PROVE IInv
  OBVIOUS
<1> USE DEF Init
<1>1. ChainsWell
  <2>1. ASSUME NEW e \in Ends
        PROVE  IsChain(chain[e])
    <3>1. PICK v \in Versions : chain[e] = T!NewChain(NonceOf["A"], NonceOf["B"], v)
      OBVIOUS
    <3> DEFINE h == [r \in T!Roles |-> T!Genesis(v, Sid, r)]
    <3>2. h \in Heads
      <4>1. ASSUME NEW r \in T!Roles
            PROVE  T!Genesis(v, Sid, r) \in Seq(Inputs)
        <5>1. PICK g : T!Genesis(v, Sid, r) = <<g>>
          BY DEF T!Genesis
        <5>2. g \in Inputs
          BY <5>1 DEF Inputs
        <5> QED
          BY <5>1, <5>2
      <4> QED
        BY <4>1 DEF Heads
    <3>3. chain[e] = IF Impl = "ts"
                     THEN [sid |-> Sid, heads |-> h, context |-> T!combineContext(h)]
                     ELSE [sid |-> Sid, heads |-> h]
      BY <3>1 DEF T!NewChain, T!NewChainTs, T!NewChainPy, Sid
    <3> HIDE DEF h
    <3> QED
      BY <3>2, <3>3 DEF IsChain
  <2> QED
    BY <2>1 DEF ChainsWell
<1>2. ContextsWell /\ SealedWell /\ OpenedWell /\ ChannelsWell
  BY BoundsAssumption, LastSeqAssumption
  DEF ContextsWell, SealedWell, OpenedWell, ChannelsWell
<1> QED
  BY <1>1, <1>2 DEF IInv, Outcomes

(* An append lengthens a chain, of which the contexts stay prefixes.       *)
LEMMA AppendPreserves ==
    ASSUME IInv, NEW e \in Ends, NEW role \in T!Roles, AppendMessage(e, role)
    PROVE  IInv'
<1>1. PICK m \in Messages : chain' = [chain EXCEPT ![e] = T!append(chain[e], role, m)]
  BY DEF AppendMessage
<1>2. UNCHANGED <<channel, contexts, sealed, opened, result>>
  BY DEF AppendMessage
<1>3. DOMAIN chain = Ends /\ IsChain(chain[e])
  BY DEF IInv, ChainsWell
<1>4. /\ IsChain(chain'[e])
      /\ chain'[e].heads = [chain[e].heads EXCEPT ![role] = Append(@, m)]
      /\ \A f \in Ends \ {e} : chain'[f] = chain[f]
  BY <1>1, <1>3, AppendToChain
<1>5. ChainsWell'
  BY <1>1, <1>3, <1>4 DEF IInv, ChainsWell
<1>6. ContextsWell'
  <2>1. ASSUME NEW f \in Ends, NEW n \in 1 .. Len(contexts[f])
        PROVE  /\ IsPrefix(contexts[f][n][1], chain'[f].heads["A"])
               /\ IsPrefix(contexts[f][n][2], chain'[f].heads["B"])
    <3>1. /\ IsPrefix(contexts[f][n][1], chain[f].heads["A"])
          /\ IsPrefix(contexts[f][n][2], chain[f].heads["B"])
      BY DEF IInv, ContextsWell
    <3>2. CASE f # e
      BY <1>4, <3>1, <3>2
    <3>3. CASE f = e
      <4>1. contexts[e][n] \in Contexts
        BY <3>3 DEF IInv, ContextsWell
      <4>2. contexts[e][n][1] \in Seq(Inputs) /\ contexts[e][n][2] \in Seq(Inputs)
        BY <4>1 DEF Contexts
      <4>3. chain[e].heads \in [T!Roles -> Seq(Inputs)] /\ m \in Inputs
        BY <1>3 DEF IsChain, Heads, Inputs
      <4>4. "A" \in T!Roles /\ "B" \in T!Roles
        BY DEF T!Roles
      <4>5. /\ chain[e].heads["A"] \in Seq(Inputs)
            /\ chain[e].heads["B"] \in Seq(Inputs)
        BY <4>3, <4>4
      <4>6. /\ IsPrefix(contexts[e][n][1], Append(chain[e].heads["A"], m))
            /\ IsPrefix(contexts[e][n][2], Append(chain[e].heads["B"], m))
        BY <3>1, <3>3, <4>2, <4>3, <4>5, PrefixOfLonger
      <4>7. /\ chain'[e].heads["A"] \in {chain[e].heads["A"], Append(chain[e].heads["A"], m)}
            /\ chain'[e].heads["B"] \in {chain[e].heads["B"], Append(chain[e].heads["B"], m)}
        BY <1>4, <4>3, <4>4
      <4> QED
        BY <3>1, <3>3, <4>6, <4>7
    <3> QED
      BY <3>2, <3>3
  <2> QED
    BY <1>2, <2>1 DEF IInv, ContextsWell
<1>7. SealedWell'
  BY <1>2 DEF IInv, SealedWell
<1>8. OpenedWell'
  BY <1>2 DEF IInv, OpenedWell
<1>9. ChannelsWell'
  BY <1>2 DEF IInv, ChannelsWell, SealedNow
<1> QED
  BY <1>2, <1>5, <1>6, <1>7, <1>8, <1>9 DEF IInv

(* A new channel takes the present heads for its context, and its two      *)
(* ciphers start at their first nonces.                                    *)
LEMMA OpenPreserves ==
    ASSUME IInv, NEW e \in Ends, OpenChannel(e)
    PROVE  IInv'
<1> DEFINE context == <<chain[e].heads["A"], chain[e].heads["B"]>>
<1>1. /\ T!snapshot(chain[e]).contextHash = context
      /\ context \in Contexts
  <2>1. IsChain(chain[e])
    BY DEF IInv, ChainsWell
  <2>2. "A" \in T!Roles /\ "B" \in T!Roles
    BY DEF T!Roles
  <2> QED
    BY <2>1, <2>2, SnapshotContext DEF IsChain, Heads, Contexts
<1>2. /\ contexts' = [contexts EXCEPT ![e] = Append(@, context)]
      /\ channel' = [channel EXCEPT ![e] =
                       [sending   |-> NewCipher(Outgoing(e), context),
                        receiving |-> NewCipher(Incoming(e), context)]]
      /\ sealed' = [sealed EXCEPT ![e] = Append(@, << >>)]
      /\ opened' = [opened EXCEPT ![e] = << >>]
      /\ UNCHANGED <<chain, result>>
      /\ Len(contexts[e]) < MaxChannels
  BY <1>1 DEF OpenChannel
<1> HIDE DEF context
<1>3. /\ contexts \in [Ends -> Seq(Contexts)]
      /\ sealed \in [Ends -> Seq(Seq(Items))]
      /\ opened \in [Ends -> Seq(Items)]
      /\ Len(sealed[e]) = Len(contexts[e])
  BY DEF IInv, ContextsWell, SealedWell, OpenedWell
<1>4. /\ contexts' \in [Ends -> Seq(Contexts)]
      /\ contexts'[e] # << >> /\ Last(contexts'[e]) = context
      /\ Len(contexts'[e]) = Len(contexts[e]) + 1
      /\ contexts'[e][Len(contexts[e]) + 1] = context
      /\ \A n \in 1 .. Len(contexts[e]) : contexts'[e][n] = contexts[e][n]
      /\ \A f \in Ends \ {e} : contexts'[f] = contexts[f]
  BY <1>1, <1>2, <1>3, SMTT(40) DEF Last
<1>5. /\ sealed' \in [Ends -> Seq(Seq(Items))]
      /\ sealed'[e] # << >> /\ Last(sealed'[e]) = << >>
      /\ Len(sealed'[e]) = Len(sealed[e]) + 1
      /\ sealed'[e][Len(sealed[e]) + 1] = << >>
      /\ \A n \in 1 .. Len(sealed[e]) : sealed'[e][n] = sealed[e][n]
      /\ \A f \in Ends \ {e} : sealed'[f] = sealed[f]
  <2> DEFINE q == Append(sealed[e], << >>)
  <2> DEFINE S == Seq(Items)
  <2>1. sealed[e] \in Seq(S) /\ << >> \in S
    BY <1>3
  <2> HIDE DEF S
  <2>2. /\ q \in Seq(S) /\ Len(q) = Len(sealed[e]) + 1
        /\ q[Len(sealed[e]) + 1] = << >>
        /\ \A n \in 1 .. Len(sealed[e]) : q[n] = sealed[e][n]
        /\ q # << >> /\ Last(q) = << >>
    BY <2>1, AppendFacts
  <2>3. sealed'[e] = q /\ \A f \in Ends \ {e} : sealed'[f] = sealed[f]
    BY <1>2, <1>3
  <2>4. sealed' \in [Ends -> Seq(Seq(Items))]
    <3>1. q \in Seq(Seq(Items))
      BY <2>2 DEF S
    <3> QED
      BY <1>2, <1>3, <3>1
  <2> HIDE DEF q
  <2> QED
    BY <2>2, <2>3, <2>4
<1>6. ChainsWell'
  BY <1>2 DEF IInv, ChainsWell
<1>7. ContextsWell'
  <2>1. ASSUME NEW f \in Ends, NEW n \in 1 .. Len(contexts'[f])
        PROVE  /\ IsPrefix(contexts'[f][n][1], chain[f].heads["A"])
               /\ IsPrefix(contexts'[f][n][2], chain[f].heads["B"])
    <3>1. CASE f = e /\ n = Len(contexts[e]) + 1
      BY <1>4, <3>1 DEF context, IsPrefix
    <3>2. CASE f = e /\ n \in 1 .. Len(contexts[e])
      BY <1>4, <3>2 DEF IInv, ContextsWell
    <3>3. CASE f # e
      BY <1>4, <3>3 DEF IInv, ContextsWell
    <3> QED
      BY <1>3, <1>4, <3>1, <3>2, <3>3
  <2>2. \A f \in Ends : Len(contexts'[f]) <= MaxChannels
    BY <1>2, <1>3, <1>4, BoundsAssumption DEF IInv, ContextsWell
  <2> QED
    BY <1>2, <1>4, <2>1, <2>2 DEF ContextsWell
<1>8. SealedWell'
  <2>1. ASSUME NEW f \in Ends, NEW n \in 1 .. Len(sealed'[f])
        PROVE  /\ Len(sealed'[f][n]) <= LastSeq
               /\ \A i \in 1 .. Len(sealed'[f][n]) :
                    LET cipher == CipherAt(Outgoing(f), contexts'[f][n], i - 1)
                    IN  /\ sealed'[f][n][i].ciphertext.key = cipher.key
                        /\ sealed'[f][n][i].ciphertext.nonce = nonceForNextSequence(cipher)
    <3>1. CASE f = e /\ n = Len(sealed[e]) + 1
      BY <1>5, <3>1, LastSeqAssumption
    <3>2. CASE f = e /\ n \in 1 .. Len(sealed[e])
      <4>1. sealed'[f][n] = sealed[f][n] /\ contexts'[f][n] = contexts[f][n]
        <5>1. n \in 1 .. Len(sealed[e]) /\ n \in 1 .. Len(contexts[e])
          BY <1>3, <3>2
        <5> QED
          BY <1>4, <1>5, <3>2, <5>1
      <4>2. n \in 1 .. Len(sealed[f])
        BY <3>2
      <4> QED
        BY <4>1, <4>2, ZenonT(40) DEF IInv, SealedWell
    <3>3. CASE f # e
      <4>1. sealed'[f] = sealed[f] /\ contexts'[f] = contexts[f]
        BY <1>4, <1>5, <3>3
      <4>2. n \in 1 .. Len(sealed[f])
        BY <4>1
      <4> QED
        BY <4>1, <4>2, ZenonT(40) DEF IInv, SealedWell
    <3> QED
      BY <1>3, <1>5, <3>1, <3>2, <3>3
  <2>2. \A f \in Ends : Len(sealed'[f]) = Len(contexts'[f])
    BY <1>3, <1>4, <1>5 DEF IInv, SealedWell
  <2> QED
    BY <1>5, <2>1, <2>2 DEF SealedWell
<1>9. OpenedWell'
  <2>1. ASSUME NEW f \in Ends \ {e}, NEW i \in 1 .. Len(opened[f])
        PROVE  /\ contexts'[f] # << >>
               /\ \E n \in 1 .. Len(sealed'[Peer(f)]) :
                    /\ contexts'[Peer(f)][n] = Last(contexts'[f])
                    /\ i <= Len(sealed'[Peer(f)][n])
                    /\ opened[f][i] = sealed'[Peer(f)][n][i]
    <3>1. Peer(f) = e /\ contexts'[f] = contexts[f]
      BY <1>4, EndsAreTwo DEF Ends, T!Roles, Peer
    <3>2. contexts[f] # << >>
      BY DEF IInv, OpenedWell
    <3>3. PICK n \in 1 .. Len(sealed[e]) :
            /\ contexts[e][n] = Last(contexts[f])
            /\ i <= Len(sealed[e][n])
            /\ opened[f][i] = sealed[e][n][i]
      BY <3>1 DEF IInv, OpenedWell
    <3>4. n \in 1 .. Len(sealed'[e]) /\ sealed'[e][n] = sealed[e][n]
          /\ contexts'[e][n] = contexts[e][n]
      <4>1. n \in 1 .. Len(contexts[e]) /\ Len(sealed[e]) \in Nat
        BY <1>3
      <4> QED
        BY <1>4, <1>5, <4>1
    <3> QED
      BY <3>1, <3>2, <3>3, <3>4
  <2>2. /\ opened' \in [Ends -> Seq(Items)] /\ opened'[e] = << >>
        /\ \A f \in Ends \ {e} : opened'[f] = opened[f]
    BY <1>2, <1>3
  <2>3. ASSUME NEW f \in Ends
        PROVE  Len(opened'[f]) <= LastSeq
    <3>1. CASE f = e
      BY <2>2, <3>1, LastSeqAssumption
    <3>2. CASE f # e
      BY <2>2, <3>2 DEF IInv, OpenedWell
    <3> QED
      BY <3>1, <3>2
  <2>4. ASSUME NEW f \in Ends, NEW i \in 1 .. Len(opened'[f])
        PROVE  /\ contexts'[f] # << >>
               /\ \E n \in 1 .. Len(sealed'[Peer(f)]) :
                    /\ contexts'[Peer(f)][n] = Last(contexts'[f])
                    /\ i <= Len(sealed'[Peer(f)][n])
                    /\ opened'[f][i] = sealed'[Peer(f)][n][i]
    <3>1. f # e /\ opened'[f] = opened[f]
      BY <2>2
    <3>2. f \in Ends \ {e} /\ i \in 1 .. Len(opened[f])
      BY <3>1
    <3> QED
      BY <2>1, <3>1, <3>2
  <2> QED
    BY <2>2, <2>3, <2>4 DEF OpenedWell
<1>10. ChannelsWell'
  <2>1. DOMAIN channel' = Ends /\ opened'[e] = << >>
        /\ \A f \in Ends \ {e} : channel'[f] = channel[f] /\ opened'[f] = opened[f]
    BY <1>2, <1>3 DEF IInv, ChannelsWell
  <2>2. channel'[e] = [sending   |-> CipherAt(Outgoing(e), context, 0),
                       receiving |-> CipherAt(Incoming(e), context, 0)]
    BY <1>2, NewCipherIsAtStart DEF IInv, ChannelsWell
  <2>3. SealedNow(e)' = << >> /\ \A f \in Ends \ {e} : SealedNow(f)' = SealedNow(f)
    BY <1>5 DEF SealedNow
  <2>4. Len(SealedNow(e)') = 0 /\ Len(opened'[e]) = 0
    BY <2>1, <2>3
  <2> QED
    BY <1>4, <2>1, <2>2, <2>3, <2>4, SMTT(40) DEF IInv, ChannelsWell
<1> QED
  BY <1>2, <1>6, <1>7, <1>8, <1>9, <1>10 DEF IInv

(* What the invariant says of the two ciphers of an end that has some.     *)
LEMMA PresentCiphers ==
    ASSUME IInv, NEW e \in Ends, channel[e] # NoChannel
    PROVE  /\ Len(contexts[e]) \in Nat \ {0} /\ contexts[e] # << >>
           /\ Len(sealed[e]) = Len(contexts[e])
           /\ Last(contexts[e]) = contexts[e][Len(contexts[e])]
           /\ Last(contexts[e]) \in Contexts
           /\ SealedNow(e) = sealed[e][Len(contexts[e])]
           /\ SealedNow(e) \in Seq(Items) /\ opened[e] \in Seq(Items)
           /\ channel[e] = [sending   |-> CipherAt(Outgoing(e), Last(contexts[e]),
                                                  Len(SealedNow(e))),
                            receiving |-> CipherAt(Incoming(e), Last(contexts[e]),
                                                   Len(opened[e]))]
<1>1. /\ contexts[e] # << >>
      /\ channel[e] = [sending   |-> CipherAt(Outgoing(e), Last(contexts[e]),
                                             Len(SealedNow(e))),
                       receiving |-> CipherAt(Incoming(e), Last(contexts[e]),
                                              Len(opened[e]))]
  BY DEF IInv, ChannelsWell
<1>2. contexts[e] \in Seq(Contexts) /\ Len(contexts[e]) \in Nat \ {0}
  BY <1>1 DEF IInv, ContextsWell
<1>3. Len(sealed[e]) = Len(contexts[e]) /\ sealed[e] \in Seq(Seq(Items))
  BY DEF IInv, SealedWell
<1>4. Last(contexts[e]) = contexts[e][Len(contexts[e])] /\ Last(contexts[e]) \in Contexts
  BY <1>2 DEF Last
<1>5. sealed[e] # << >> /\ sealed[e][Len(contexts[e])] \in Seq(Items)
  <2>1. Len(<< >>) = 0
    OBVIOUS
  <2> QED
    BY <1>2, <1>3, <2>1
<1>6. SealedNow(e) = sealed[e][Len(contexts[e])]
  BY <1>3, <1>5 DEF SealedNow, Last
<1>7. opened[e] \in Seq(Items)
  BY DEF IInv, OpenedWell
<1> QED
  BY <1>1, <1>2, <1>3, <1>4, <1>5, <1>6, <1>7

(* Encrypting uses the nonce that is next and no other.                    *)
LEMMA EncryptPreserves ==
    ASSUME IInv, NEW e \in Ends, Encrypt(e)
    PROVE  IInv'
<1> DEFINE L == Len(contexts[e])
           k == Len(SealedNow(e))
           c == CipherAt(Outgoing(e), contexts[e][L], k)
           Item(p) == [by |-> e, number |-> L, ciphertext |-> encrypt(c, p)]
<1>1. /\ L \in Nat \ {0} /\ contexts[e] # << >> /\ Len(sealed[e]) = L
      /\ Last(contexts[e]) = contexts[e][L] /\ contexts[e][L] \in Contexts
      /\ SealedNow(e) = sealed[e][L] /\ SealedNow(e) \in Seq(Items) /\ k \in Nat
      /\ channel[e] = [sending |-> c,
                       receiving |-> CipherAt(Incoming(e), contexts[e][L], Len(opened[e]))]
  <2>1. channel[e] # NoChannel
    BY DEF Encrypt
  <2>2. /\ L \in Nat \ {0} /\ contexts[e] # << >> /\ Len(sealed[e]) = L
        /\ Last(contexts[e]) = contexts[e][L] /\ contexts[e][L] \in Contexts
        /\ SealedNow(e) = sealed[e][L] /\ SealedNow(e) \in Seq(Items)
    BY <2>1, PresentCiphers
  <2>3. channel[e] = [sending   |-> CipherAt(Outgoing(e), Last(contexts[e]), k),
                      receiving |-> CipherAt(Incoming(e), Last(contexts[e]),
                                             Len(opened[e]))]
    BY <2>1, PresentCiphers
  <2> QED
    BY <2>2, <2>3
<1>2. PICK p \in Plaintexts :
        sealed' = [sealed EXCEPT ![e][L] = Append(@, Item(p))]
  <2>1. channel[e].sending = c
    BY <1>1
  <2> QED
    BY <2>1 DEF Encrypt
<1>3. /\ c.key = <<Outgoing(e), contexts[e][L]>> /\ c.nextSequence = k
      /\ nonceForNextSequence(c)
           = <<deriveNoncePrefix(Outgoing(e), <<Outgoing(e), contexts[e][L]>>,
                                contexts[e][L]), k>>
      /\ Advance(c) = CipherAt(Outgoing(e), contexts[e][L], k + 1)
  <2> DEFINE d == Outgoing(e)
             x == contexts[e][L]
  <2> HIDE DEF d, x, k
  <2>1. k \in Nat
    BY <1>1
  <2>2. LET a == CipherAt(d, x, k)
        IN  /\ a.key = <<d, x>> /\ a.nextSequence = k
            /\ nonceForNextSequence(a) = <<deriveNoncePrefix(d, <<d, x>>, x), k>>
            /\ Advance(a) = CipherAt(d, x, k + 1)
    BY <2>1 DEF CipherAt, NewCipher, deriveDirectionalKey, nonceForNextSequence,
                buildNonce, Advance
  <2> QED
    BY <2>2 DEF d, x
<1>4. k < LastSeq
  BY <1>1, <1>3, LastSeqAssumption DEF Encrypt, Exhausted
<1>5. /\ Item(p) \in Items
      /\ Item(p).ciphertext.key = c.key
      /\ Item(p).ciphertext.nonce = nonceForNextSequence(c)
  <2>1. Outgoing(e) \in Directions
    BY EndsAreTwo
  <2>2. c.key \in KeysOfSession
    BY <1>1, <1>3, <2>1 DEF KeysOfSession
  <2>3. nonceForNextSequence(c) \in NoncePrefixes \X Nat
    <3>1. deriveNoncePrefix(Outgoing(e), <<Outgoing(e), contexts[e][L]>>, contexts[e][L])
            \in NoncePrefixes
      BY <1>1, <1>3, <2>1, <2>2 DEF NoncePrefixes
    <3> QED
      BY <1>1, <1>3, <3>1
  <2> HIDE DEF c
  <2> QED
    BY <1>1, <2>2, <2>3 DEF Items, encrypt
<1> HIDE DEF c, Item
<1>6. UNCHANGED <<chain, contexts, opened, result>>
  BY DEF Encrypt
<1>7. sealed \in [Ends -> Seq(Seq(Items))]
  BY DEF IInv, SealedWell
<1>8. /\ sealed' \in [Ends -> Seq(Seq(Items))]
      /\ \A f \in Ends : Len(sealed'[f]) = Len(sealed[f])
      /\ sealed'[e][L] = Append(sealed[e][L], Item(p))
      /\ \A n \in 1 .. Len(sealed[e]) : n # L => sealed'[e][n] = sealed[e][n]
      /\ \A f \in Ends \ {e} : sealed'[f] = sealed[f]
  <2> DEFINE x == Append(sealed[e][L], Item(p))
             S == Seq(Items)
  <2>1. sealed[e] \in Seq(S) /\ x \in S /\ L \in 1 .. Len(sealed[e])
    BY <1>1, <1>5, <1>7
  <2>2. sealed' = [sealed EXCEPT ![e] = [sealed[e] EXCEPT ![L] = x]]
    BY <1>2, <1>7
  <2>3. sealed \in [Ends -> Seq(S)]
    BY <1>7
  <2> HIDE DEF x, S
  <2>4. [sealed[e] EXCEPT ![L] = x] \in Seq(S)
    BY <2>1
  <2>5. /\ sealed' \in [Ends -> Seq(S)]
        /\ sealed'[e] = [sealed[e] EXCEPT ![L] = x]
        /\ \A f \in Ends \ {e} : sealed'[f] = sealed[f]
    BY <2>2, <2>3, <2>4
  <2>6. /\ Len(sealed'[e]) = Len(sealed[e]) /\ sealed'[e][L] = x
        /\ \A n \in 1 .. Len(sealed[e]) : n # L => sealed'[e][n] = sealed[e][n]
    BY <2>1, <2>5
  <2> QED
    BY <2>5, <2>6 DEF S, x
<1>9. /\ Len(sealed'[e][L]) = k + 1 /\ sealed'[e][L][k + 1] = Item(p)
      /\ \A i \in 1 .. k : sealed'[e][L][i] = sealed[e][L][i]
  BY <1>1, <1>5, <1>8, AppendFacts, SMTT(40)
<1>10. ChainsWell' /\ ContextsWell'
  BY <1>6 DEF IInv, ChainsWell, ContextsWell
<1>11. SealedWell'
  <2>1. ASSUME NEW f \in Ends, NEW n \in 1 .. Len(sealed[f])
        PROVE  /\ Len(sealed'[f][n]) <= LastSeq
               /\ \A i \in 1 .. Len(sealed'[f][n]) :
                    LET cipher == CipherAt(Outgoing(f), contexts[f][n], i - 1)
                    IN  /\ sealed'[f][n][i].ciphertext.key = cipher.key
                        /\ sealed'[f][n][i].ciphertext.nonce = nonceForNextSequence(cipher)
    <3>1. CASE f = e /\ n = L
      <4>1. Len(sealed'[e][L]) <= LastSeq
        BY <1>1, <1>4, <1>9, LastSeqAssumption
      <4>2. ASSUME NEW i \in 1 .. k + 1
            PROVE  LET cipher == CipherAt(Outgoing(e), contexts[e][L], i - 1)
                   IN  /\ sealed'[e][L][i].ciphertext.key = cipher.key
                       /\ sealed'[e][L][i].ciphertext.nonce = nonceForNextSequence(cipher)
        <5>1. CASE i = k + 1
          <6>1. i - 1 = k
            BY <1>1, <5>1
          <6> QED
            BY <1>5, <1>9, <5>1, <6>1 DEF c
        <5>2. CASE i \in 1 .. k
          <6>1. L \in 1 .. Len(sealed[e]) /\ i \in 1 .. Len(sealed[e][L])
            BY <1>1, <5>2
          <6> QED
            BY <1>9, <5>2, <6>1 DEF IInv, SealedWell
        <5>3. i = k + 1 \/ i \in 1 .. k
          BY <1>1
        <5> QED
          BY <5>1, <5>2, <5>3
      <4> QED
        BY <1>9, <3>1, <4>1, <4>2
    <3>2. CASE ~(f = e /\ n = L)
      <4>1. sealed'[f][n] = sealed[f][n]
        BY <1>8, <3>2
      <4> QED
        BY <4>1 DEF IInv, SealedWell
    <3> QED
      BY <3>1, <3>2
  <2> QED
    <3>1. \A f \in Ends : Len(sealed'[f]) = Len(contexts[f])
      BY <1>8 DEF IInv, SealedWell
    <3>2. \A f \in Ends : 1 .. Len(sealed'[f]) = 1 .. Len(sealed[f])
      BY <1>8
    <3> QED
      BY <1>6, <1>8, <2>1, <3>1, <3>2, ZenonT(40) DEF SealedWell
<1>12. OpenedWell'
  <2>1. ASSUME NEW f \in Ends, NEW i \in 1 .. Len(opened[f])
        PROVE  /\ contexts[f] # << >>
               /\ \E n \in 1 .. Len(sealed'[Peer(f)]) :
                    /\ contexts[Peer(f)][n] = Last(contexts[f])
                    /\ i <= Len(sealed'[Peer(f)][n])
                    /\ opened[f][i] = sealed'[Peer(f)][n][i]
    <3>1. PICK n \in 1 .. Len(sealed[Peer(f)]) :
            /\ contexts[Peer(f)][n] = Last(contexts[f])
            /\ i <= Len(sealed[Peer(f)][n])
            /\ opened[f][i] = sealed[Peer(f)][n][i]
      BY DEF IInv, OpenedWell
    <3>2. Peer(f) \in Ends /\ i \in Nat \ {0}
      BY EndsAreTwo
    <3>3. i <= Len(sealed'[Peer(f)][n]) /\ sealed'[Peer(f)][n][i] = sealed[Peer(f)][n][i]
      <4>1. CASE Peer(f) = e /\ n = L
        BY <1>1, <1>9, <3>1, <3>2, <4>1, SMTT(40)
      <4>2. CASE ~(Peer(f) = e /\ n = L)
        <5>1. sealed'[Peer(f)][n] = sealed[Peer(f)][n]
          BY <1>8, <3>2, <4>2
        <5> QED
          BY <3>1, <5>1
      <4> QED
        BY <4>1, <4>2
    <3>4. contexts[f] # << >>
      BY DEF IInv, OpenedWell
    <3> QED
      BY <1>8, <3>1, <3>2, <3>3, <3>4
  <2> QED
    BY <1>6, <2>1 DEF IInv, OpenedWell
<1>13. ChannelsWell'
  <2>1. channel' = [channel EXCEPT ![e].sending = Advance(@)] /\ DOMAIN channel = Ends
    BY DEF Encrypt, IInv, ChannelsWell
  <2>2. channel'[e] = [sending |-> Advance(c),
                       receiving |-> CipherAt(Incoming(e), contexts[e][L], Len(opened[e]))]
    BY <1>1, <2>1
  <2>3. DOMAIN channel' = Ends /\ \A f \in Ends \ {e} : channel'[f] = channel[f]
    BY <2>1
  <2>4. Len(SealedNow(e)') = k + 1 /\ \A f \in Ends \ {e} : SealedNow(f)' = SealedNow(f)
    <3>1. sealed'[e] # << >> /\ Len(sealed'[e]) = L
      <4>1. Len(<< >>) = 0
        OBVIOUS
      <4> QED
        BY <1>1, <1>8, <4>1
    <3>2. SealedNow(e)' = sealed'[e][L]
      BY <3>1 DEF SealedNow, Last
    <3> QED
      BY <1>8, <1>9, <3>2 DEF SealedNow
  <2>5. ASSUME NEW f \in Ends
        PROVE  channel'[f] =
                 IF contexts[f] = << >> THEN NoChannel
                 ELSE [sending   |-> CipherAt(Outgoing(f), Last(contexts[f]),
                                              Len(SealedNow(f)')),
                       receiving |-> CipherAt(Incoming(f), Last(contexts[f]),
                                              Len(opened[f]))]
    <3>1. CASE f = e
      BY <1>1, <1>3, <2>2, <2>4, <3>1
    <3>2. CASE f # e
      BY <2>3, <2>4, <3>2 DEF IInv, ChannelsWell
    <3> QED
      BY <3>1, <3>2
  <2> QED
    BY <1>6, <2>3, <2>5 DEF ChannelsWell
<1> QED
  BY <1>6, <1>10, <1>11, <1>12, <1>13 DEF IInv

(* Of all ciphertexts the link may bring, decrypt opens only the next one  *)
(* that the peer sealed with a channel of the same context.                *)
LEMMA OpensTheNext ==
    ASSUME IInv, NEW e \in Ends, NEW from \in Ends, NEW n \in 1 .. Len(sealed[from]),
           NEW i \in 1 .. Len(sealed[from][n]), channel[e] # NoChannel,
           NEW intact, Authentic(channel[e].receiving, sealed[from][n][i].ciphertext, intact)
    PROVE  /\ from = Peer(e) /\ i = Len(opened[e]) + 1
           /\ contexts[from][n] = Last(contexts[e])
           /\ sealed[from][n][i] \in Items /\ i <= LastSeq
<1> DEFINE x == sealed[from][n][i].ciphertext
           d == Incoming(e)
           c == Last(contexts[e])
           d2 == Outgoing(from)
           c2 == contexts[from][n]
           k == Len(opened[e])
           j == i - 1
<1>1. channel[e].receiving = CipherAt(d, c, k)
  <2>1. channel[e] = [sending   |-> CipherAt(Outgoing(e), c, Len(SealedNow(e))),
                      receiving |-> CipherAt(d, c, k)]
    BY PresentCiphers
  <2> QED
    BY <2>1
<1>2. k \in Nat /\ j \in Nat
  BY PresentCiphers
<1>3. /\ x.key = CipherAt(d2, c2, j).key
      /\ x.nonce = nonceForNextSequence(CipherAt(d2, c2, j))
  BY DEF IInv, SealedWell
<1>4. sealed[from][n][i] \in Items /\ i <= LastSeq
  <2>1. sealed[from] \in Seq(Seq(Items)) /\ Len(sealed[from][n]) <= LastSeq
    BY DEF IInv, SealedWell
  <2>2. sealed[from][n] \in Seq(Items)
    BY <2>1
  <2> QED
    BY <2>1, <2>2, LastSeqAssumption
<1> HIDE DEF x, d, c, d2, c2, k, j
<1>5. /\ x.key = CipherAt(d, c, k).key
      /\ x.nonce = nonceForNextSequence(CipherAt(d, c, k))
  BY <1>1 DEF Authentic, x
<1>6. d = d2 /\ c = c2 /\ k = j
  <2>1. CipherAt(d, c, k).key = CipherAt(d2, c2, j).key
    BY <1>3, <1>5
  <2>2. nonceForNextSequence(CipherAt(d, c, k))
          = nonceForNextSequence(CipherAt(d2, c2, j))
    BY <1>3, <1>5
  <2>3. d = d2 /\ c = c2
    BY <1>2, <2>1, KeyIdentifies
  <2>4. k = j
    BY <1>2, <2>2, NonceIdentifies
  <2> QED
    BY <2>3, <2>4
<1>7. from = Peer(e)
  BY <1>6, EndsAreTwo DEF d, d2
<1> QED
  BY <1>2, <1>4, <1>6, <1>7 DEF c, c2, k, j

LEMMA ReceivePreserves ==
    ASSUME IInv, NEW e \in Ends, ReceiveAnything(e)
    PROVE  IInv'
<1>1. PICK from \in Ends : \E n \in 1 .. Len(sealed[from]) :
      \E i \in 1 .. Len(sealed[from][n]) : \E withNonce, intact \in BOOLEAN :
          Receive(e, sealed[from][n][i], withNonce, intact)
  BY DEF ReceiveAnything
<1>2a. PICK n \in 1 .. Len(sealed[from]) :
      \E i \in 1 .. Len(sealed[from][n]) : \E withNonce, intact \in BOOLEAN :
          Receive(e, sealed[from][n][i], withNonce, intact)
  BY <1>1
<1>2. PICK i \in 1 .. Len(sealed[from][n]), withNonce \in BOOLEAN, intact \in BOOLEAN :
        Receive(e, sealed[from][n][i], withNonce, intact)
  BY <1>2a
<1> DEFINE item == sealed[from][n][i]
<1>3. /\ UNCHANGED <<chain, contexts, sealed>> /\ result' \in Outcomes
      /\ channel[e] # NoChannel
  BY <1>2, DecryptCases DEF Receive
<1>4. ChainsWell' /\ ContextsWell' /\ SealedWell'
  <2>1. ChainsWell' /\ ContextsWell'
    BY <1>3 DEF IInv, ChainsWell, ContextsWell
  <2>2. SealedWell'
    BY <1>3 DEF IInv, SealedWell
  <2> QED
    BY <2>1, <2>2
<1>5. CASE UNCHANGED <<channel, opened>>
  <2>1. OpenedWell'
    BY <1>3, <1>5 DEF IInv, OpenedWell
  <2>2. ChannelsWell'
    BY <1>3, <1>5 DEF IInv, ChannelsWell, SealedNow
  <2> QED
    BY <1>3, <1>4, <2>1, <2>2 DEF IInv
<1>6. CASE /\ result' = "plaintext"
           /\ channel' = [channel EXCEPT ![e].receiving = Advance(@)]
           /\ opened' = [opened EXCEPT ![e] = Append(@, item)]
  <2>1. Authentic(channel[e].receiving, item.ciphertext, intact)
    BY <1>2, <1>6, DecryptCases DEF Receive
  <2>2. /\ from = Peer(e) /\ i = Len(opened[e]) + 1 /\ i <= LastSeq
        /\ contexts[from][n] = Last(contexts[e]) /\ item \in Items
    BY <1>3, <2>1, OpensTheNext
  <2>3. opened \in [Ends -> Seq(Items)] /\ opened[e] \in Seq(Items)
    BY DEF IInv, OpenedWell
  <2> HIDE DEF item
  <2>4. /\ opened' \in [Ends -> Seq(Items)]
        /\ Len(opened'[e]) = i /\ opened'[e][i] = item
        /\ \A j \in 1 .. Len(opened[e]) : opened'[e][j] = opened[e][j]
        /\ \A f \in Ends \ {e} : opened'[f] = opened[f]
    <3>1. opened'[e] = Append(opened[e], item)
      BY <1>6, <2>3
    <3>2. Append(opened[e], item) \in Seq(Items)
      BY <2>2, <2>3
    <3> QED
      BY <1>6, <2>2, <2>3, <3>1, <3>2
  <2>5. OpenedWell'
    <3>1. ASSUME NEW f \in Ends
          PROVE  Len(opened'[f]) <= LastSeq
      BY <2>2, <2>4 DEF IInv, OpenedWell
    <3>2. ASSUME NEW f \in Ends, NEW j \in 1 .. Len(opened'[f])
          PROVE  /\ contexts[f] # << >>
                 /\ \E m \in 1 .. Len(sealed[Peer(f)]) :
                      /\ contexts[Peer(f)][m] = Last(contexts[f])
                      /\ j <= Len(sealed[Peer(f)][m])
                      /\ opened'[f][j] = sealed[Peer(f)][m][j]
      <4>1. CASE f = e /\ j = i
        <5>1. contexts[e] # << >>
          BY <1>3, PresentCiphers
        <5>2. /\ n \in 1 .. Len(sealed[Peer(e)])
              /\ contexts[Peer(e)][n] = Last(contexts[e])
              /\ i <= Len(sealed[Peer(e)][n])
              /\ opened'[e][i] = sealed[Peer(e)][n][i]
          BY <2>2, <2>4 DEF item
        <5> QED
          BY <4>1, <5>1, <5>2
      <4>2. CASE ~(f = e /\ j = i)
        <5>1. j \in 1 .. Len(opened[f]) /\ opened'[f][j] = opened[f][j]
          <6>1. CASE f = e
            BY <2>2, <2>3, <2>4, <4>2, <6>1
          <6>2. CASE f # e
            BY <2>4, <6>2
          <6> QED
            BY <6>1, <6>2
        <5> QED
          BY <5>1 DEF IInv, OpenedWell
      <4> QED
        BY <4>1, <4>2
    <3> QED
      BY <1>3, <2>4, <3>1, <3>2 DEF OpenedWell
  <2>6. ChannelsWell'
    <3> DEFINE c == Last(contexts[e])
    <3>1. /\ contexts[e] # << >>
          /\ channel[e] = [sending   |-> CipherAt(Outgoing(e), c, Len(SealedNow(e))),
                           receiving |-> CipherAt(Incoming(e), c, Len(opened[e]))]
      BY <1>3, PresentCiphers
    <3>2. DOMAIN channel = Ends
      BY DEF IInv, ChannelsWell
    <3> HIDE DEF c
    <3>3. Advance(CipherAt(Incoming(e), c, Len(opened[e]))) = CipherAt(Incoming(e), c, i)
      <4> DEFINE d == Incoming(e)
                 k == Len(opened[e])
      <4>1. k \in Nat /\ i = k + 1
        BY <2>2, <2>3
      <4> HIDE DEF d, k
      <4>2. Advance(CipherAt(d, c, k)) = CipherAt(d, c, k + 1)
        BY <4>1, CipherAdvances
      <4> QED
        BY <4>1, <4>2 DEF d, k
    <3>4. channel'[e] = [sending   |-> CipherAt(Outgoing(e), c, Len(SealedNow(e))),
                         receiving |-> CipherAt(Incoming(e), c, i)]
      BY <1>6, <3>1, <3>2, <3>3
    <3>5. DOMAIN channel' = Ends /\ \A f \in Ends \ {e} : channel'[f] = channel[f]
      BY <1>6, <3>2
    <3>6. \A f \in Ends : SealedNow(f)' = SealedNow(f)
      BY <1>3 DEF SealedNow
    <3>7. ASSUME NEW f \in Ends
          PROVE  channel'[f] =
                   IF contexts[f] = << >> THEN NoChannel
                   ELSE [sending   |-> CipherAt(Outgoing(f), Last(contexts[f]),
                                                Len(SealedNow(f))),
                         receiving |-> CipherAt(Incoming(f), Last(contexts[f]),
                                                Len(opened'[f]))]
      <4>1. CASE f = e
        BY <2>4, <3>1, <3>4, <4>1 DEF c
      <4>2. CASE f # e
        BY <2>4, <3>5, <4>2 DEF IInv, ChannelsWell
      <4> QED
        BY <4>1, <4>2
    <3> QED
      BY <1>3, <3>5, <3>6, <3>7 DEF ChannelsWell
  <2> QED
    BY <1>3, <1>4, <2>5, <2>6 DEF IInv
<1> QED
  BY <1>2, <1>5, <1>6 DEF Receive

LEMMA NextIInv == IInv /\ [Next]_vars => IInv'
<1> SUFFICES ASSUME IInv, [Next]_vars PROVE IInv'
  OBVIOUS
<1>1. CASE UNCHANGED vars
  <2>1. ChainsWell' /\ ContextsWell' /\ SealedWell'
    BY <1>1, ZenonT(40) DEF vars, IInv, ChainsWell, ContextsWell, SealedWell
  <2>2. OpenedWell'
    BY <1>1 DEF vars, IInv, OpenedWell
  <2>3. ChannelsWell'
    BY <1>1 DEF vars, IInv, ChannelsWell, SealedNow
  <2> QED
    BY <1>1, <2>1, <2>2, <2>3 DEF vars, IInv
<1> QED
  BY <1>1, AppendPreserves, OpenPreserves, EncryptPreserves, ReceivePreserves DEF Next

-----------------------------------------------------------------------------
LEMMA PresentCounters ==
    ASSUME IInv, NEW e \in Ends, channel[e] # NoChannel
    PROVE  /\ channel[e].sending.nextSequence = Len(SealedNow(e))
           /\ channel[e].receiving.nextSequence = Len(opened[e])
<1>1. channel[e] = [sending   |-> CipherAt(Outgoing(e), Last(contexts[e]),
                                           Len(SealedNow(e))),
                    receiving |-> CipherAt(Incoming(e), Last(contexts[e]),
                                           Len(opened[e]))]
  BY PresentCiphers
<1>2. /\ channel[e].sending
            = CipherAt(Outgoing(e), Last(contexts[e]), Len(SealedNow(e)))
      /\ channel[e].receiving
            = CipherAt(Incoming(e), Last(contexts[e]), Len(opened[e]))
  BY <1>1
<1> QED
  BY <1>2, CipherCounts

(* Every end's counters stay within their width, in every implementation,  *)
(* and encrypt and decrypt answer with a documented result.                *)
THEOREM TypesCorrect == Spec => []TypeOK
<1>1. ASSUME IInv PROVE TypeOK
  <2>1. ASSUME NEW e \in Ends, channel[e] # NoChannel
        PROVE  /\ channel[e].sending.nextSequence \in Counter
               /\ channel[e].receiving.nextSequence \in Counter
    <3>1. /\ channel[e].sending.nextSequence = Len(SealedNow(e))
          /\ channel[e].receiving.nextSequence = Len(opened[e])
      BY <1>1, <2>1, PresentCounters
    <3>2. /\ Len(SealedNow(e)) \in Nat /\ Len(opened[e]) \in Nat
          /\ SealedNow(e) = sealed[e][Len(sealed[e])]
          /\ Len(sealed[e]) \in 1 .. Len(sealed[e])
      <4>1. /\ Len(sealed[e]) = Len(contexts[e]) /\ Len(contexts[e]) \in Nat \ {0}
            /\ SealedNow(e) = sealed[e][Len(contexts[e])]
            /\ SealedNow(e) \in Seq(Items) /\ opened[e] \in Seq(Items)
        BY <1>1, <2>1, PresentCiphers
      <4> QED
        BY <4>1
    <3>3. Len(SealedNow(e)) <= LastSeq /\ Len(opened[e]) <= LastSeq
      BY <1>1, <3>2 DEF IInv, SealedWell, OpenedWell
    <3> QED
      BY <3>1, <3>2, <3>3, LastSeqAssumption DEF Counter
  <2>2. \A e \in Ends : Len(contexts[e]) <= MaxChannels
    BY <1>1 DEF IInv, ContextsWell
  <2> QED
    BY <1>1, <2>1, <2>2 DEF TypeOK, IInv
<1> QED
  BY <1>1, InitIInv, NextIInv, PTL DEF Spec

(* The counters of a channel tell what it has sealed and opened, whatever  *)
(* arrived in between.                                                     *)
THEOREM CountersCorrect == Spec => []CountersMatchHistory
<1>1. ASSUME IInv PROVE CountersMatchHistory
  BY <1>1, PresentCounters DEF CountersMatchHistory
<1> QED
  BY <1>1, InitIInv, NextIInv, PTL DEF Spec

(* No key seals two ciphertexts under one nonce, even if all nonce         *)
(* prefixes are equal, unless one end opens two channels with one context. *)
THEOREM NoncesUnique == Spec => []NonceRepeatsOnlyOnReopening
<1>1. ASSUME IInv PROVE NonceRepeatsOnlyOnReopening
  <2> SUFFICES ASSUME NEW e \in Ends, NEW f \in Ends,
                      NEW m \in DOMAIN sealed[e], NEW n \in DOMAIN sealed[f],
                      NEW i \in DOMAIN sealed[e][m], NEW j \in DOMAIN sealed[f][n],
                      <<e, m, i>> # <<f, n, j>>,
                      sealed[e][m][i].ciphertext.key = sealed[f][n][j].ciphertext.key,
                      sealed[e][m][i].ciphertext.nonce = sealed[f][n][j].ciphertext.nonce
               PROVE  e = f /\ m # n /\ contexts[e][m] = contexts[f][n]
    BY DEF NonceRepeatsOnlyOnReopening
  <2>1. /\ m \in 1 .. Len(sealed[e]) /\ n \in 1 .. Len(sealed[f])
        /\ i \in 1 .. Len(sealed[e][m]) /\ j \in 1 .. Len(sealed[f][n])
    BY <1>1 DEF IInv, SealedWell
  <2> DEFINE a == CipherAt(Outgoing(e), contexts[e][m], i - 1)
             b == CipherAt(Outgoing(f), contexts[f][n], j - 1)
  <2>2. a.key = b.key /\ nonceForNextSequence(a) = nonceForNextSequence(b)
    BY <1>1, <2>1, ZenonT(40) DEF IInv, SealedWell
  <2>3. i - 1 \in Nat /\ j - 1 \in Nat
    BY <2>1
  <2>4. Outgoing(e) = Outgoing(f) /\ contexts[e][m] = contexts[f][n]
    BY <2>2, <2>3, KeyIdentifies
  <2>5. i - 1 = j - 1
    BY <2>2, <2>3, NonceIdentifies
  <2>6. e = f
    BY <2>4, EndsAreTwo
  <2>7. i = j
    BY <2>1, <2>5
  <2> QED
    BY <2>4, <2>6, <2>7
<1> QED
  BY <1>1, InitIInv, NextIInv, PTL DEF Spec

(* What an end has opened is what its peer sealed with one channel, from   *)
(* its first ciphertext on, none missing and none twice, as long as the    *)
(* peer does not open two channels with one context.                       *)
THEOREM OpenedInOrder == Spec => []OpenedAsSealed
<1>1. ASSUME IInv, NEW e \in Ends, opened[e] # << >>, IsInjective(contexts[Peer(e)])
      PROVE  \E n \in 1 .. Len(contexts[Peer(e)]) :
                 IsPrefix(opened[e], sealed[Peer(e)][n])
  <2>1. /\ Peer(e) \in Ends /\ opened[e] \in Seq(Items)
        /\ sealed[Peer(e)] \in Seq(Seq(Items))
        /\ contexts[Peer(e)] \in Seq(Contexts)
        /\ Len(sealed[Peer(e)]) = Len(contexts[Peer(e)])
    BY <1>1, EndsAreTwo DEF IInv, OpenedWell, SealedWell, ContextsWell
  <2>2. Len(opened[e]) \in 1 .. Len(opened[e])
    BY <1>1, <2>1
  <2>3. PICK n \in 1 .. Len(sealed[Peer(e)]) :
          /\ contexts[Peer(e)][n] = Last(contexts[e])
          /\ Len(opened[e]) <= Len(sealed[Peer(e)][n])
    BY <1>1, <2>2 DEF IInv, OpenedWell
  <2>4. ASSUME NEW i \in 1 .. Len(opened[e])
        PROVE  opened[e][i] = sealed[Peer(e)][n][i]
    <3>1. PICK m \in 1 .. Len(sealed[Peer(e)]) :
            /\ contexts[Peer(e)][m] = Last(contexts[e])
            /\ opened[e][i] = sealed[Peer(e)][m][i]
      BY <1>1 DEF IInv, OpenedWell
    <3>2. m = n
      BY <1>1, <2>1, <2>3, <3>1 DEF IsInjective
    <3> QED
      BY <3>1, <3>2
  <2>5. sealed[Peer(e)][n] \in Seq(Items)
    BY <2>1
  <2>6. IsPrefix(opened[e], sealed[Peer(e)][n])
    BY <2>1, <2>3, <2>4, <2>5, PrefixMeans
  <2> QED
    BY <2>1, <2>6
<1>2. IInv => OpenedAsSealed
  BY <1>1 DEF OpenedAsSealed
<1> QED
  BY <1>2, InitIInv, NextIInv, PTL DEF Spec

(* An end that opens anything agrees with its peer on the version, the     *)
(* session and every message that went into its key.                       *)
THEOREM OpeningMeansAgreement == Spec => []OpenedMeansAgreed
<1>1. ASSUME IInv, NEW e \in Ends, opened[e] # << >>
      PROVE  /\ IsPrefix(Last(contexts[e])[1], chain[Peer(e)].heads["A"])
             /\ IsPrefix(Last(contexts[e])[2], chain[Peer(e)].heads["B"])
  <2>1. /\ Peer(e) \in Ends /\ opened[e] \in Seq(Items)
        /\ Len(sealed[Peer(e)]) = Len(contexts[Peer(e)])
    BY <1>1, EndsAreTwo DEF IInv, OpenedWell, SealedWell
  <2>2. 1 \in 1 .. Len(opened[e])
    BY <1>1, <2>1
  <2>3. PICK n \in 1 .. Len(contexts[Peer(e)]) :
          contexts[Peer(e)][n] = Last(contexts[e])
    BY <1>1, <2>1, <2>2 DEF IInv, OpenedWell
  <2> QED
    BY <1>1, <2>1, <2>3 DEF IInv, ContextsWell
<1>2. IInv => OpenedMeansAgreed
  BY <1>1 DEF OpenedMeansAgreed
<1> QED
  BY <1>2, InitIInv, NextIInv, PTL DEF Spec
-----------------------------------------------------------------------------
(* With one channel per end, a direction of the session is an ordered,     *)
(* at-most-once channel of plaintexts.                                     *)
Sent(e) == PlaintextsOf(SealedNow(e))
Delivered(e) == PlaintextsOf(opened[Peer(e)])

LEMMA PlaintextsFacts ==
    ASSUME NEW s \in Seq(Items), NEW x \in Items
    PROVE  /\ Len(PlaintextsOf(s)) = Len(s)
           /\ \A i \in 1 .. Len(s) : PlaintextsOf(s)[i] = s[i].ciphertext.plaintext
           /\ PlaintextsOf(Append(s, x))
                = Append(PlaintextsOf(s), x.ciphertext.plaintext)
<1> HIDE DEF Items
<1>1. DOMAIN s = 1 .. Len(s) /\ Len(s) \in Nat
  OBVIOUS
<1>2. PlaintextsOf(s) = [i \in 1 .. Len(s) |-> s[i].ciphertext.plaintext]
  BY <1>1 DEF PlaintextsOf
<1>3. Len(PlaintextsOf(s)) = Len(s)
  BY <1>1, <1>2
<1>4. /\ DOMAIN Append(s, x) = 1 .. Len(s) + 1
      /\ Append(s, x)[Len(s) + 1] = x
      /\ \A i \in 1 .. Len(s) : Append(s, x)[i] = s[i]
  OBVIOUS
<1>5. PlaintextsOf(Append(s, x)) = [i \in 1 .. Len(s) + 1 |->
                                     Append(s, x)[i].ciphertext.plaintext]
  BY <1>4 DEF PlaintextsOf
<1>6. PlaintextsOf(s) \in Seq({s[i].ciphertext.plaintext : i \in 1 .. Len(s)}
                               \cup {x.ciphertext.plaintext})
  BY <1>1, <1>2
<1> QED
  BY <1>1, <1>2, <1>3, <1>4, <1>5, <1>6

LEMMA InitOrdered == Init => Ordered!Init
<1> SUFFICES ASSUME Init PROVE Ordered!Init
  OBVIOUS
<1>1. ASSUME NEW e \in Ends
      PROVE  Sent(e) = << >> /\ Delivered(e) = << >>
  <2>1. SealedNow(e) = << >> /\ opened[Peer(e)] = << >>
    BY EndsAreTwo DEF Init, SealedNow
  <2>2. PlaintextsOf(<< >>) = << >>
    BY DEF PlaintextsOf
  <2> QED
    BY <2>1, <2>2 DEF Sent, Delivered
<1> QED
  BY <1>1 DEF Ordered!Init, Sent, Delivered

(* A step that changes neither what was sealed nor what was opened.        *)
LEMMA NothingMoves ==
    ASSUME \A e \in Ends : SealedNow(e)' = SealedNow(e) /\ opened'[e] = opened[e]
    PROVE  UNCHANGED Ordered!vars
<1>1. ASSUME NEW e \in Ends
      PROVE  Sent(e)' = Sent(e) /\ Delivered(e)' = Delivered(e)
  BY EndsAreTwo DEF Sent, Delivered
<1> QED
  BY <1>1 DEF Ordered!vars, Sent, Delivered

LEMMA OpenMovesNothing ==
    ASSUME MaxChannels <= 1, IInv, NEW e \in Ends, OpenChannel(e)
    PROVE  UNCHANGED Ordered!vars
<1>1. Len(contexts[e]) = 0 /\ Len(sealed[e]) = 0 /\ contexts[e] = << >>
  <2>1. contexts[e] \in Seq(Contexts) /\ Len(sealed[e]) = Len(contexts[e])
    BY DEF IInv, ContextsWell, SealedWell
  <2>2. Len(contexts[e]) < MaxChannels
    BY DEF OpenChannel
  <2> QED
    BY <2>1, <2>2, BoundsAssumption
<1>2. sealed[e] = << >> /\ sealed'[e] = << << >> >>
  <2>1. sealed \in [Ends -> Seq(Seq(Items))]
    BY DEF IInv, SealedWell
  <2>2. sealed[e] = << >>
    BY <1>1, <2>1
  <2>3. sealed' = [sealed EXCEPT ![e] = Append(@, << >>)]
    BY DEF OpenChannel
  <2> QED
    BY <2>1, <2>2, <2>3
<1>3. SealedNow(e) = << >> /\ SealedNow(e)' = << >>
  BY <1>2 DEF SealedNow, Last
<1>4. opened[e] = << >>
  <2>1. opened[e] \in Seq(Items) /\ ~(1 \in 1 .. Len(opened[e]))
    BY <1>1 DEF IInv, OpenedWell
  <2> QED
    BY <2>1
<1>5. opened'[e] = << >> /\ \A f \in Ends \ {e} : opened'[f] = opened[f]
  BY DEF OpenChannel, IInv, OpenedWell
<1>6. \A f \in Ends \ {e} : SealedNow(f)' = SealedNow(f)
  BY DEF OpenChannel, IInv, SealedWell, SealedNow
<1> QED
  BY <1>3, <1>4, <1>5, <1>6, NothingMoves

LEMMA EncryptSends ==
    ASSUME IInv, IInv', NEW e \in Ends, Encrypt(e)
    PROVE  \E p \in Plaintexts : Ordered!Send(e, p)
<1> DEFINE L == Len(contexts[e])
           Item(p) == [by |-> e, number |-> L,
                       ciphertext |-> encrypt(channel[e].sending, p)]
<1>1. PICK p \in Plaintexts :
        sealed' = [sealed EXCEPT ![e][L] = Append(@, Item(p))]
  BY DEF Encrypt
<1>2. Item(p).ciphertext.plaintext = p
  BY DEF encrypt
<1> HIDE DEF Item
<1>3. /\ L \in Nat \ {0} /\ Len(sealed[e]) = L
      /\ SealedNow(e) = sealed[e][L] /\ SealedNow(e) \in Seq(Items)
  BY PresentCiphers DEF Encrypt
<1>4. sealed \in [Ends -> Seq(Seq(Items))] /\ sealed' \in [Ends -> Seq(Seq(Items))]
  BY DEF IInv, SealedWell
<1>5. /\ sealed'[e][L] = Append(SealedNow(e), Item(p)) /\ Len(sealed'[e]) = L
      /\ sealed'[e][L] \in Seq(Items)
  <2> DEFINE S == Seq(Items)
  <2>1. sealed[e] \in Seq(S) /\ sealed'[e] \in Seq(S) /\ e \in DOMAIN sealed
    BY <1>4
  <2>2. sealed'[e] = [sealed[e] EXCEPT ![L] = Append(@, Item(p))]
    BY <1>1, <2>1
  <2> HIDE DEF S
  <2>3. Len(sealed'[e]) = L /\ sealed'[e][L] \in S
    BY <1>3, <2>1, <2>2
  <2>4. sealed'[e][L] = Append(sealed[e][L], Item(p))
    BY <1>3, <2>1, <2>2
  <2> QED
    BY <1>3, <2>3, <2>4 DEF S
<1>6. SealedNow(e)' = Append(SealedNow(e), Item(p))
  <2>1. sealed'[e] # << >>
    BY <1>3, <1>5
  <2> QED
    BY <1>5, <2>1 DEF SealedNow, Last
<1>7. Item(p) \in Items
  <2>1. Append(SealedNow(e), Item(p)) \in Seq(Items)
    BY <1>5
  <2>2. Append(SealedNow(e), Item(p))[Len(SealedNow(e)) + 1] = Item(p)
    BY <1>3
  <2> QED
    BY <1>3, <2>1, <2>2
<1>8. Sent(e)' = Append(Sent(e), p)
  BY <1>2, <1>3, <1>6, <1>7, PlaintextsFacts DEF Sent
<1>9. \A f \in Ends \ {e} : Sent(f)' = Sent(f)
  BY <1>1, <1>4 DEF Sent, SealedNow
<1>10. \A f \in Ends : Delivered(f)' = Delivered(f)
  BY DEF Encrypt, Delivered
<1> QED
  BY <1>8, <1>9, <1>10 DEF Ordered!Send, Sent, Delivered

(* An item that opens is the next one of the peer's only channel.          *)
LEMMA ReceiveDelivers ==
    ASSUME MaxChannels <= 1, IInv, NEW e \in Ends, ReceiveAnything(e)
    PROVE  Ordered!Deliver(Peer(e)) \/ UNCHANGED Ordered!vars
<1>1. PICK from \in Ends : \E n \in 1 .. Len(sealed[from]) :
        \E i \in 1 .. Len(sealed[from][n]) : \E withNonce, intact \in BOOLEAN :
          Receive(e, sealed[from][n][i], withNonce, intact)
  BY DEF ReceiveAnything
<1>2. PICK n \in 1 .. Len(sealed[from]) : \E i \in 1 .. Len(sealed[from][n]) :
        \E withNonce, intact \in BOOLEAN :
          Receive(e, sealed[from][n][i], withNonce, intact)
  BY <1>1
<1>3. PICK i \in 1 .. Len(sealed[from][n]), withNonce \in BOOLEAN, intact \in BOOLEAN :
        Receive(e, sealed[from][n][i], withNonce, intact)
  BY <1>2
<1> DEFINE item == sealed[from][n][i]
<1>4. CASE result' # "plaintext"
  BY <1>3, <1>4, NothingMoves DEF Receive, SealedNow
<1>5. CASE result' = "plaintext"
  <2>1. /\ channel[e] # NoChannel
        /\ Authentic(channel[e].receiving, item.ciphertext, intact)
    BY <1>3, <1>5, DecryptCases DEF Receive
  <2>2. /\ from = Peer(e) /\ i = Len(opened[e]) + 1 /\ item \in Items
    BY <2>1, OpensTheNext
  <2>3. /\ opened \in [Ends -> Seq(Items)] /\ sealed \in [Ends -> Seq(Seq(Items))]
        /\ Len(sealed[from]) = Len(contexts[from])
        /\ Len(contexts[from]) <= MaxChannels
    BY DEF IInv, OpenedWell, SealedWell, ContextsWell
  <2>4. /\ SealedNow(from) = sealed[from][n]
        /\ SealedNow(from) \in Seq(Items)
    <3> DEFINE S == Seq(Items)
    <3>1. sealed[from] \in Seq(S)
      BY <2>3
    <3> HIDE DEF S
    <3>2. n = Len(sealed[from]) /\ sealed[from] # << >> /\ sealed[from][n] \in S
      BY <2>3, <3>1, BoundsAssumption
    <3> QED
      BY <3>2 DEF S, SealedNow, Last
  <2>5. opened' = [opened EXCEPT ![e] = Append(@, item)] /\ UNCHANGED sealed
    BY <1>3, <1>5 DEF Receive
  <2>6. \A f \in Ends : Sent(f)' = Sent(f)
    BY <2>5 DEF Sent, SealedNow
  <2>7. /\ Len(Sent(from)) = Len(SealedNow(from))
        /\ Sent(from)[i] = item.ciphertext.plaintext
    BY <2>2, <2>4, PlaintextsFacts DEF Sent
  <2>8. /\ Delivered(from) = PlaintextsOf(opened[e])
        /\ Delivered(from)' = PlaintextsOf(Append(opened[e], item))
    BY <2>2, <2>3, <2>5, EndsAreTwo DEF Delivered
  <2>9. /\ Len(Delivered(from)) + 1 = i
        /\ Delivered(from)' = Append(Delivered(from), Sent(from)[i])
    <3>1. opened[e] \in Seq(Items)
      BY <2>3
    <3> QED
      BY <2>2, <2>7, <2>8, <3>1, PlaintextsFacts
  <2>10. \A f \in Ends \ {from} : Delivered(f)' = Delivered(f)
    BY <2>2, <2>3, <2>5, EndsAreTwo DEF Delivered
  <2>11. Len(Delivered(from)) < Len(Sent(from))
    BY <2>2, <2>3, <2>4, <2>7, <2>8, <2>9
  <2> QED
    BY <2>2, <2>6, <2>9, <2>10, <2>11 DEF Ordered!Deliver, Sent, Delivered
<1> QED
  BY <1>4, <1>5

(* A session of one channel per end is, in either direction, an ordered,   *)
(* at-most-once channel of plaintexts, whatever the link does to the       *)
(* ciphertexts and whenever the ends open their channels.                  *)
THEOREM SessionImplementsOrderedDelivery ==
    ASSUME MaxChannels <= 1
    PROVE  Spec => ImplementsOrderedDelivery
<1>1. Init => IInv /\ Ordered!Init
  BY InitIInv, InitOrdered
<1>2. IInv /\ [Next]_vars => IInv' /\ [Ordered!Next]_Ordered!vars
  <2> SUFFICES ASSUME IInv, [Next]_vars PROVE IInv' /\ [Ordered!Next]_Ordered!vars
    OBVIOUS
  <2>1. IInv'
    BY NextIInv
  <2>2. CASE UNCHANGED vars
    <3>1. UNCHANGED <<sealed, opened>>
      BY <2>2 DEF vars
    <3> QED
      BY <2>1, <3>1, NothingMoves DEF SealedNow
  <2>3. ASSUME NEW e \in Ends, \E role \in T!Roles : AppendMessage(e, role)
        PROVE  UNCHANGED Ordered!vars
    BY <2>3, NothingMoves DEF AppendMessage, SealedNow
  <2>4. ASSUME NEW e \in Ends, OpenChannel(e)
        PROVE  UNCHANGED Ordered!vars
    BY <2>4, OpenMovesNothing
  <2>5. ASSUME NEW e \in Ends, Encrypt(e)
        PROVE  Ordered!Next
    BY <2>1, <2>5, EncryptSends DEF Ordered!Next
  <2>6. ASSUME NEW e \in Ends, ReceiveAnything(e)
        PROVE  [Ordered!Next]_Ordered!vars
    BY <2>6, ReceiveDelivers, EndsAreTwo DEF Ordered!Next
  <2> QED
    BY <2>1, <2>2, <2>3, <2>4, <2>5, <2>6 DEF Next
<1> QED
  BY <1>1, <1>2, PTL DEF Spec, ImplementsOrderedDelivery, Ordered!Spec
=============================================================================
