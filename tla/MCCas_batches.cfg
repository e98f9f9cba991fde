\* Batches of up to seven leaves, three levels with odd ones among them, against
\* all batches of up to five; three calls of the bridge; four registrations of
\* three witnesses in two batches, with two contents, two of them under an identity.
CONSTANTS
    WitnessIds = {w1, w2, w3}
    Data <- TwoData
    Batches = {b1, b2}
    alice = alice
    Identities <- TwoIdentities
    CRYPTO_AVAILABLE = TRUE
    MaxRegistrations = 4
    MaxIdentified = 2
    Leaves <- TwoLeaves
    MaxLeaves = 7
    MaxCompared = 5
    Texts <- OwnTexts
    Salts <- ThreeSalts
    LeafLists <- SomeLeafLists
    Places <- SomePlaces
    BlsKeys <- TwoKeys
    Aggregated <- UpToThree
    QpaParams <- TwoParams
    Modes <- TwoModes
    ShadowCounts <- SomeShadows
    CouplingLists <- SomeCouplings
    MaxCalls = 3
SPECIFICATION CasSpec
SYMMETRY Interchangeable
INVARIANTS
    SettledBatchVerifies
    VerifiedIsMember
    TrailTellsRegistrations
    EveryLeafVerifies
    ProofBindsLeaf
    RootTellsLeaves
    ResultsTellInputs
    VerificationIsExact
PROPERTIES
    ChangedDataIsNoticed
CHECK_DEADLOCK FALSE
