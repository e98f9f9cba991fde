\* Two witnesses in one batch, then one of them again outside of it.
CONSTANTS
    WitnessIds = {w1, w2}
    Data <- TwoData
    Batches = {b1}
    Identities = {}
    CRYPTO_AVAILABLE = FALSE
    MaxRegistrations = 3
    MaxIdentified = 0
SPECIFICATION Spec
INVARIANTS
    OthersStillVerify
CHECK_DEADLOCK FALSE
