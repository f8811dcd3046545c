SPECIFICATION FairSpec
CONSTANTS
    p1 = p1
    p2 = p2
    r1 = r1
    nomic = nomic
    mini = mini
    qwen = qwen
    Procs = {p1, p2}
    Records = {r1}
    Models = {nomic, mini, qwen}
    Dim <- TheDim
    Fallback = 1
    Overrides <- SomeOverride
    Ops <- EveryOp
    Faults <- EveryFault
    Budget = 2
INVARIANTS
    TypeOK
    OneSpace
    ComparesLikeWithLike
PROPERTIES
    DriftIsHarmless
    ReembedSettles
CHECK_DEADLOCK FALSE
