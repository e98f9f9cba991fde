\* Two plaintexts per direction use up the counter of the one channel per end.
CONSTANTS
    Impl = "rs"
    LastSeq = 2
    Truncate <- EqualPrefixes
    Messages = {m1}
    Plaintexts = {p1, p2}
    Versions = {1}
    NoChannel = NoChannel
    MaxMessages = 1
    MaxChannels = 1
SPECIFICATION FairSpec
INVARIANTS
    TypeOK
PROPERTIES
    ImplementsOrderedDelivery
    EverythingOpens
