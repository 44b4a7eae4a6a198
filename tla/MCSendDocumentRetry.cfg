\* One worker, one request, no process dies and no service fails.
CONSTANTS
    d1 = d1
    w1 = w1
    w2 = w2
    r1 = r1
    r2 = r2
    Deliveries <- OneDelivery
    Workers <- OneWorker
    Requests <- OneRequest
    Nil = Nil
    MaxAttempts = 1
    MaxDispatches = 1
    MaxCrashes = 0
    MaxFaults = 0

SPECIFICATION FairSpec

PROPERTIES
    ScheduledRetryHappens
