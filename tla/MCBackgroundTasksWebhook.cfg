\* README.md: the adapter handles "retries, queuing, webhook validation".  One
\* webhook for the account that is registered, one worker, nothing killed.
CONSTANTS
    h1 = h1
    h2 = h2
    w1 = w1
    w2 = w2
    Webhooks <- FirstKnown
    Known <- FirstKnown
    Workers <- OneWorker
    MaxTicks = 0
    MaxKills = 0
    Nil = Nil

SPECIFICATION FairSpec

PROPERTIES
    AcceptedWebhookRecorded
