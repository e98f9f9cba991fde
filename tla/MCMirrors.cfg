\* The whole range of a sequence field used up, numbers outside it offered too;
\* four messages of two roles in every interleaving; manifests of two vectors
\* through two runs of the gate with one of the mirrors broken or none.
CONSTANTS
    SeqMax = 2
    Impl = "ts"
    Observations <- AnyNumber
    MaxObserved = 5
    Messages = {m1, m2}
    version = 1
    MaxAppends = 4
    LastSeq = 31
    HashLength = 2
    MaxCounter = 3
    PrefixLength = 1
    Numbers <- SomeNumbers
    MaxSafe = 7
    AsDouble <- Doubles
    AsWritten <- Digits
    Base = 3
    SequenceWidth = 1
    LengthWidth = 1
    AUTHENTICATION_TAG_LENGTH = 1
    BOOTSTRAP_MESSAGE = 1
    CLASSICAL_MESSAGE = 2
    NoTag = NoTag
    Refused = Refused
    Pool <- SomeVectors
    Size = 2
    Builds <- OneBroken
    MaxRuns = 2
SPECIFICATION MirrorsSpec
INVARIANTS
    AcceptedIsInitialSegment
    TraceMatchesLane
    ImplementationsAgree
    SnapshotMatchesBatch
    VerdictIsTrue
    HealthyMirrorsPass
PROPERTIES
    ImplementsLean
    ImplementsLeanTranscript
CHECK_DEADLOCK FALSE
