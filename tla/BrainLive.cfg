SPECIFICATION FairSpec
CONSTANTS
    r1 = r1
    r2 = r2
    a1 = a1
    a2 = a2
    j1 = j1
    j2 = j2
    NoOne = NoOne
    NoRecord = NoRecord
    Records = {r1}
    Authors = {a1, a2}
    Janitors = {j1, j2}
    MaxEdits = 1
    Origins <- FreshOnly
    Jobs <- AnyJob
    Faults <- AnyFault
INVARIANTS
    ReportIsTrue
PROPERTIES
    QueuedIsReplayed
CHECK_DEADLOCK FALSE
