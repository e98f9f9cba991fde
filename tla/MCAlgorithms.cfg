\* Every value of the header fields and payloads up to one byte too long;
\* outputs of up to fifteen blocks of four bytes.
CONSTANTS
    Impl = "ts"
    Base = 3
    SequenceWidth = 2
    LengthWidth = 1
    AUTHENTICATION_TAG_LENGTH = 1
    BOOTSTRAP_MESSAGE = 1
    CLASSICAL_MESSAGE = 2
    NoTag = NoTag
    Refused = Refused
    Inputs <- AnyInputs
    HashLength = 4
    MaxCounter = 15
    Lengths <- EveryLength
SPECIFICATION AlgorithmsSpec
INVARIANTS
    RoundTrip
    BoundariesDetected
    ChangeShows
    Canonical
    OutputIsComplete
PROPERTIES
    AllowedLengthsWork
CHECK_DEADLOCK FALSE
