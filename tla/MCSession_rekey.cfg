\* Two channels per end, with a context that has changed or with the same one,
\* at any point of two transcripts, between ends of two versions.
CONSTANTS
    Impl = "ts"
    LastSeq = 1
    Truncate <- EqualPrefixes
    Messages = {m1}
    Plaintexts = {p1}
    Versions = {1, 2}
    NoChannel = NoChannel
    MaxMessages = 1
    MaxChannels = 2
SPECIFICATION Spec
INVARIANTS
    NonceRepeatsOnlyOnReopening
    OpenedAsSealed
    CountersMatchHistory
    OpenedMeansAgreed
