\* One webhook for the account and one for an unknown one, two workers of which
\* one is killed once, and one periodic task queued.  No symmetry, since
\* liveness is checked.
CONSTANTS
    h1 = h1
    h2 = h2
    w1 = w1
    w2 = w2
    Webhooks <- TwoWebhooks
    Known <- FirstKnown
    Workers <- TwoWorkers
    MaxTicks = 1
    MaxKills = 1
    Nil = Nil

SPECIFICATION FairSpec

INVARIANTS
    TypeOK
    WebhookKeptUntilSpent
    RunsWithinBudget

PROPERTIES
    QueuesDrain
