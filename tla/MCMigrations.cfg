\* Two commands at a time, any number in sequence, on a fresh database and on
\* one deployed at revision 0001.  No symmetry, since liveness is checked.
CONSTANTS
    r1 = r1
    r2 = r2
    Runners <- TwoRunners

SPECIFICATION FairSpec

INVARIANTS
    TypeOK
    VersionTellsSchema
    HeadServesStatements
    WaitersHoldNothing

PROPERTIES
    FailureHasCause
    CommandEnds
