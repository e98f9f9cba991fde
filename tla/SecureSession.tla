---------------------------- MODULE SecureSession ----------------------------
(***************************************************************************)
(* Two ends of a session, A and B.  Each keeps a TranscriptChain of what   *)
(* it says and hears, and constructs one DirectionalAead per direction     *)
(* from the context hash it has when it does so; ciphertexts then travel   *)
(* both ways.                                                              *)
(*                                                                         *)
(* The order of these calls is the caller's, there is no session driver in *)
(* the repository: an end may append, open a channel and go on appending   *)
(* at any time, and open again, with a context that has changed or with    *)
(* the same one.  The link may alter a transcript message, may lose,       *)
(* repeat, reorder and corrupt ciphertexts and return them to the end they *)
(* came from.  A link that retransmits is the fairness of FairSpec.        *)
(***************************************************************************)
EXTENDS DirectionalCipher, SequencesExt

CONSTANTS
    Messages,      \* the messages appended to transcripts
    Plaintexts,    \* the plaintexts encrypted
    Versions,      \* the protocol versions an end may start with
    NoChannel,     \* the state of an end before it opens its first channel
    MaxMessages,   \* bound: messages per role and transcript
    MaxChannels    \* bound: channels opened per end

ASSUME BoundsAssumption == MaxMessages \in Nat /\ MaxChannels \in Nat

T == INSTANCE TranscriptChain
Ends == T!Roles

VARIABLES
    chain,     \* chain[e]: the TranscriptChain of e
    channel,   \* channel[e]: the two ciphers e has now
    contexts,  \* contexts[e]: the context hash of every channel e opened
    sealed,    \* sealed[e][n]: what e encrypted with its n-th channel
    opened,    \* opened[e]: what the present channel of e decrypted
    result     \* what the last call of decrypt returned or threw

vars == <<chain, channel, contexts, sealed, opened, result>>

Peer(e) == IF e = "A" THEN "B" ELSE "A"
Outgoing(e) == IF e = "A" THEN "A2B" ELSE "B2A"
Incoming(e) == Outgoing(Peer(e))
NonceOf == [A |-> <<"nonceA">>, B |-> <<"nonceB">>]

-----------------------------------------------------------------------------
Init ==
    /\ chain \in [Ends -> {T!NewChain(NonceOf["A"], NonceOf["B"], v) : v \in Versions}]
    /\ channel = [e \in Ends |-> NoChannel]
    /\ contexts = [e \in Ends |-> << >>]
    /\ sealed = [e \in Ends |-> << >>]
    /\ opened = [e \in Ends |-> << >>]
    /\ result = "none"

(* The end appends a message it sends, or one that it received in the name *)
(* of its peer, which may be any.                                          *)
AppendMessage(e, role) ==
    /\ Len(chain[e].heads[role]) <= MaxMessages
    /\ \E m \in Messages :
         chain' = [chain EXCEPT ![e] = T!append(@, role, m)]
    /\ UNCHANGED <<channel, contexts, sealed, opened, result>>

OpenChannel(e) ==
    LET context == T!snapshot(chain[e]).contextHash
    IN  /\ Len(contexts[e]) < MaxChannels
        /\ channel' = [channel EXCEPT ![e] =
                         [sending   |-> NewCipher(Outgoing(e), context),
                          receiving |-> NewCipher(Incoming(e), context)]]
        /\ contexts' = [contexts EXCEPT ![e] = Append(@, context)]
        /\ sealed' = [sealed EXCEPT ![e] = Append(@, << >>)]
        /\ opened' = [opened EXCEPT ![e] = << >>]
        /\ UNCHANGED <<chain, result>>

Encrypt(e) ==
    /\ channel[e] # NoChannel
    /\ ~Exhausted(channel[e].sending)
    /\ \E p \in Plaintexts :
         sealed' = [sealed EXCEPT ![e][Len(contexts[e])] =
                      Append(@, [by |-> e, number |-> Len(contexts[e]),
                                 ciphertext |-> encrypt(channel[e].sending, p)])]
    /\ channel' = [channel EXCEPT ![e].sending = Advance(@)]
    /\ UNCHANGED <<chain, contexts, opened, result>>

(* Mutant of Receive: the counter is advanced before the tag is checked.   *)
ReceiveAdvancing(e, item, withNonce, intact) ==
    /\ channel[e] # NoChannel
    /\ result' = decrypt(channel[e].receiving, item.ciphertext, withNonce, intact)
    /\ channel[e].receiving.nextSequence < LastSeq
    /\ channel' = [channel EXCEPT ![e].receiving = Advance(@)]
    /\ opened' = [opened EXCEPT ![e] =
                    IF result' = "plaintext" THEN Append(@, item) ELSE @]
    /\ UNCHANGED <<chain, contexts, sealed>>

(* decrypt is called with something that arrived: every outcome but the    *)
(* plaintext leaves the cipher as it was.                                  *)
Receive(e, item, withNonce, intact) ==
    /\ channel[e] # NoChannel
    /\ result' = decrypt(channel[e].receiving, item.ciphertext, withNonce, intact)
    /\ \/ /\ result' = "plaintext"
          /\ channel' = [channel EXCEPT ![e].receiving = Advance(@)]
          /\ opened' = [opened EXCEPT ![e] = Append(@, item)]
       \/ /\ result' # "plaintext"
          /\ UNCHANGED <<channel, opened>>
    /\ UNCHANGED <<chain, contexts, sealed>>

(* Any ciphertext of either end, at any time, any number of times, as it   *)
(* was or damaged.                                                         *)
ReceiveAnything(e) ==
    \E from \in Ends : \E n \in 1 .. Len(sealed[from]) :
    \E i \in 1 .. Len(sealed[from][n]) : \E withNonce, intact \in BOOLEAN :
        Receive(e, sealed[from][n][i], withNonce, intact)

(* What an end has sealed with its present channel.                        *)
SealedNow(e) == IF sealed[e] = << >> THEN << >> ELSE Last(sealed[e])

(* The link retransmits what the end has not opened yet.                   *)
Retransmit(e) ==
    LET i == Len(opened[e]) + 1
    IN  /\ i <= Len(SealedNow(Peer(e)))
        /\ Receive(e, SealedNow(Peer(e))[i], TRUE, TRUE)

Next ==
    \E e \in Ends :
        \/ \E role \in T!Roles : AppendMessage(e, role)
        \/ OpenChannel(e)
        \/ Encrypt(e)
        \/ ReceiveAnything(e)

Spec == Init /\ [][Next]_vars

FairSpec == Spec /\ \A e \in Ends : WF_vars(Retransmit(e))

-----------------------------------------------------------------------------
Counter == 0 .. LastSeq
Outcomes == {"none", "plaintext", "RangeError", "AeadReplayError",
             "AuthenticationError", "InvalidInput", "AuthenticationFailed"}

TypeOK ==
    /\ \A e \in Ends : channel[e] # NoChannel =>
          /\ channel[e].sending.nextSequence \in Counter
          /\ channel[e].receiving.nextSequence \in Counter
    /\ \A e \in Ends : Len(contexts[e]) <= MaxChannels
    /\ result \in Outcomes

(* No key ever seals two ciphertexts under one nonce, at either end, over  *)
(* all channels of a session, although the counters of every channel start *)
(* at 0 and the prefixes of two channels may be equal; unless the caller   *)
(* opens two channels with the same context, and then within those two.    *)
NonceRepeatsOnlyOnReopening ==
    \A e, f \in Ends : \A m \in DOMAIN sealed[e], n \in DOMAIN sealed[f] :
    \A i \in DOMAIN sealed[e][m], j \in DOMAIN sealed[f][n] :
        LET x == sealed[e][m][i].ciphertext
            y == sealed[f][n][j].ciphertext
        IN  <<e, m, i>> # <<f, n, j>> /\ x.key = y.key /\ x.nonce = y.nonce
            => e = f /\ m # n /\ contexts[e][m] = contexts[f][n]

(* What the present channel of an end has opened is an initial segment of  *)
(* what its peer sealed with a single channel: nothing of another channel, *)
(* nothing of its own, nothing skipped, repeated or out of order; as long  *)
(* as the peer does not open two channels with the same context.           *)
OpenedAsSealed ==
    \A e \in Ends : opened[e] # << >> /\ IsInjective(contexts[Peer(e)]) =>
        \E n \in 1 .. Len(contexts[Peer(e)]) :
            IsPrefix(opened[e], sealed[Peer(e)][n])

(* The counters of the present channel tell what was sealed and opened.    *)
CountersMatchHistory ==
    \A e \in Ends : channel[e] # NoChannel =>
        /\ channel[e].receiving.nextSequence = Len(opened[e])
        /\ channel[e].sending.nextSequence = Len(SealedNow(e))

(* An end opens a ciphertext only if its peer's transcript agrees with its *)
(* own in the version, the session and every message of either role that   *)
(* the key is bound to, in whatever order the roles were interleaved and   *)
(* whatever the link altered.                                              *)
OpenedMeansAgreed ==
    \A e \in Ends : opened[e] # << >> =>
        LET context == Last(contexts[e])
        IN  /\ IsPrefix(context[1], chain[Peer(e)].heads["A"])
            /\ IsPrefix(context[2], chain[Peer(e)].heads["B"])

(* Nothing that arrives can make an end miss a ciphertext: with a peer in  *)
(* the same context it opens everything that is retransmitted until it is. *)
InSync(e) == contexts[e] # << >> /\ contexts[e] = contexts[Peer(e)]

EverythingOpens ==
    \A e \in Ends : \A n \in 1 .. LastSeq :
        (InSync(e) /\ Len(SealedNow(Peer(e))) >= n) ~> (Len(opened[e]) >= n)

(* One channel per end: the plaintexts of either direction are delivered   *)
(* in order, nothing is slipped in, and no lane ever aborts.               *)
PlaintextsOf(items) == [i \in DOMAIN items |-> items[i].ciphertext.plaintext]
Ordered == INSTANCE OrderedDelivery
             WITH Senders <- Ends,
                  Frames <- Plaintexts,
                  Unsigned <- {},
                  sent <- [e \in Ends |-> PlaintextsOf(SealedNow(e))],
                  delivered <- [e \in Ends |-> PlaintextsOf(opened[Peer(e)])],
                  aborted <- [e \in Ends |-> FALSE],
                  spoofed <- {}

ImplementsOrderedDelivery == Ordered!Spec
=============================================================================
