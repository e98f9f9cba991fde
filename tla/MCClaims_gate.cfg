\* Healthy mirrors, pins that may be stale, one run of the gate.
CONSTANTS
    SeqMax = 2
    Impl = "ts"
    Observations <- AnyNumber
    MaxObserved = 0
    Messages = {m1}
    version = 1
    MaxAppends = 0
    LastSeq = 31
    HashLength = 2
    MaxCounter = 3
    PrefixLength = 1
    Numbers <- SomeNumbers
    MaxSafe = 7
    AsDouble <- Doubles
    AsWritten <- Digits
    Base = 3
    SequenceWidth = 1
    LengthWidth = 1
    AUTHENTICATION_TAG_LENGTH = 1
    BOOTSTRAP_MESSAGE = 1
    CLASSICAL_MESSAGE = 2
    NoTag = NoTag
    Refused = Refused
    Pool <- SomeVectors
    Size = 2
    Builds <- OneBroken
    MaxRuns = 1
SPECIFICATION MirrorsSpec
INVARIANTS
    UpdateGatesNewPins
CHECK_DEADLOCK FALSE
