\* Bob's lane aborts on a repeated frame; does the session end?
CONSTANTS
    SeqMax = 1
    Impl = "ts"
    Senders = {alice, bob}
    Payloads = {p1}
    Garbled = Garbled
    Malformed = Malformed
    NoTag = NoTag
    NoSender = NoSender
    ReplayLinks = {bob}
    NoisyLinks = {}
    Keys = {TRUE}
    MaxReceivers = 1
SPECIFICATION Spec
PROPERTIES
    AbortEndsSession
CHECK_DEADLOCK FALSE
