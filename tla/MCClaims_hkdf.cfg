\* The longest outputs of the Rust loop.
CONSTANTS
    Impl = "rs"
    HashLength = 4
    MaxCounter = 15
    Lengths <- EveryLength
SPECIFICATION Spec
PROPERTIES
    AllowedLengthsWork
CHECK_DEADLOCK FALSE
