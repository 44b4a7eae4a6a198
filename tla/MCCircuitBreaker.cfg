\* Three workers on one account: late verdicts, lost tallies, stale transitions
\* and one abandoned operation.  Thresholds of 2 are the least that make two
\* verdicts count together; one tick separates "refused" from "probed".  No
\* symmetry, since liveness is checked.
CONSTANTS
    w1 = w1
    w2 = w2
    w3 = w3
    Workers <- ThreeWorkers
    FailureThreshold = 2
    RecoveryTimeout = 1
    HalfOpenMax = 2
    MaxCrashes = 1
    AnswersMayBeLate = TRUE

SPECIFICATION FairSpec

INVARIANTS
    TypeOK
    ThresholdNeverMissed
    TallyNeverMissed

PROPERTIES
    OpenEventuallyProbed
    HealthyProviderCloses
    BrokenProviderOpens
