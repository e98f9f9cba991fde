\* Five transitions, one more than a cycle of the prime index, around two calls.
CONSTANTS
    StateValues = 2
    PrimeValues = 4
    Contexts = {"c1", "c2"}
    Secrets <- TwoSecrets
    Scores <- SomeScores
    StartProfiles <- DefaultOrLast
    MaxCalls = 2
    MaxSteps = 5
SPECIFICATION Spec
INVARIANTS
    NonceReuseHarmless
    KeysFollowCalls
    PermissionLasts
CHECK_DEADLOCK FALSE
