\* Two senders; alice's link is noisy, bob's reorders, repeats and loses
\* frames; the receiver may be replaced once, with or without the key.
CONSTANTS
    SeqMax = 1
    Impl = "ts"
    Senders = {alice, bob}
    Payloads = {p1}
    Garbled = Garbled
    Malformed = Malformed
    NoTag = NoTag
    NoSender = NoSender
    ReplayLinks = {bob}
    NoisyLinks = {alice}
    Keys = {TRUE, FALSE}
    MaxReceivers = 2
SPECIFICATION FairSpec
INVARIANTS
    TypeOK
    DeliveredAsSent
    LaneCountsDeliveries
    NoiseNeverAborts
PROPERTIES
    AbortIsFinal
    ImplementsOrderedDelivery
    EverythingArrives
