\* Three sessions, each running any of the four operations: two runs of the
\* seed script, two sends of one document, two registrations of one name or two
\* batches over the same entries in either order, and a third session of any
\* kind.  No symmetry, since liveness is checked.
CONSTANTS
    s1 = s1
    s2 = s2
    s3 = s3
    d1 = d1
    n1 = n1
    e1 = e1
    e2 = e2
    Sessions <- ThreeSessions
    Documents <- OneDocument
    Names <- OneName
    Entries <- TwoEntries
    Retryable <- FirstRetryable
    Lists <- BothOrders
    None = None

SPECIFICATION FairSpec

INVARIANTS
    TypeOK
    LoginUnambiguous
    BatchAllOrNothing
    OneSendWins
    VictimsCrossed
    NobodyHangs

PROPERTIES
    SessionsEnd

\* Each session runs one operation.
CHECK_DEADLOCK FALSE
