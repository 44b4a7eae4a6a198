\* Two workers, a killed process, one call that raises, and two messages for the
\* delivery: the first send and one retry or replay.  No symmetry, since liveness
\* is checked.
CONSTANTS
    d1 = d1
    w1 = w1
    w2 = w2
    r1 = r1
    r2 = r2
    Deliveries <- OneDelivery
    Workers <- TwoWorkers
    Requests <- OneRequest
    Nil = Nil
    MaxAttempts = 1
    MaxDispatches = 2
    MaxCrashes = 1
    MaxFaults = 1

SPECIFICATION FairSpec

INVARIANTS
    TypeOK
    NothingLostSilently
    OutcomeOnRecord
    SentIsAccepted
    SendsWithinDispatches

PROPERTIES
    SendingSettles
    ImplementsContract
