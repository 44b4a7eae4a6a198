\* Two workers, no lost operation and no late answer of Redis are enough for a
\* late failure to close an OPEN breaker.
CONSTANTS
    w1 = w1
    w2 = w2
    w3 = w3
    Workers <- TwoWorkers
    FailureThreshold = 2
    RecoveryTimeout = 1
    HalfOpenMax = 2
    MaxCrashes = 0
    AnswersMayBeLate = FALSE

SPECIFICATION Spec

PROPERTIES
    ClosesOnlyThroughHalfOpen
