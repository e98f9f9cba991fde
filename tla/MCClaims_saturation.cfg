\* Rust, with the last sequence number used up and its frame repeated.
CONSTANTS
    SeqMax = 1
    Impl = "rs"
    Senders = {alice}
    Payloads = {p1}
    Garbled = Garbled
    Malformed = Malformed
    NoTag = NoTag
    NoSender = NoSender
    ReplayLinks = {alice}
    NoisyLinks = {}
    Keys = {TRUE}
    MaxReceivers = 1
SPECIFICATION Spec
INVARIANTS
    NoSequenceNumberTwice
CHECK_DEADLOCK FALSE
