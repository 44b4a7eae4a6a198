\* Every type of account, with any of its keys; two deliveries, enough for
\* one to take the id that the other needs, and two tasks each, enough to spend
\* a retry budget of 1.
CONSTANTS
    d1 = d1
    d2 = d2
    Deliveries <- TwoDeliveries
    MaxTasks = 2
    MaxAttempts = 1

SYMMETRY Symmetry

SPECIFICATION Spec

INVARIANTS
    TypeOK
    AnswerDecidesOutcome
    BreakerCountsRetries

PROPERTIES
    StuckSendingHasCause

\* Each delivery has a bounded number of tasks.
CHECK_DEADLOCK FALSE
