SPECIFICATION FairSpec
CONSTANTS
    ServerIds <- SomeServerIds
    Cap = 2
INVARIANTS
    LspInv
    OwnAnswer
PROPERTIES
    FailsForAReason
    CommandEnds
CHECK_DEADLOCK FALSE
