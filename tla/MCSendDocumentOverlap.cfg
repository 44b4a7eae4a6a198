\* Two requests and two workers on one delivery, three messages: enough for two
\* tasks and two requests to hold stale copies of the row together, and for the
\* retry budget of 1 to be spent twice.
CONSTANTS
    d1 = d1
    w1 = w1
    w2 = w2
    r1 = r1
    r2 = r2
    Deliveries <- OneDelivery
    Workers <- TwoWorkers
    Requests <- TwoRequests
    Nil = Nil
    MaxAttempts = 1
    MaxDispatches = 3
    MaxCrashes = 0
    MaxFaults = 1

SPECIFICATION Spec

INVARIANTS
    NothingLostSilently
    OutcomeOnRecord
    RetryableAfterFullBudget
