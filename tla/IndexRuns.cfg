SPECIFICATION FairSpec
CONSTANTS
    p1 = p1
    p2 = p2
    a = a
    b = b
    gomod = gomod
    Procs = {p1, p2}
    Hooks = {p1}
    Sources = {a, b}
    Manifest = gomod
    Versions = {1, 2}
    Absent = 0
    Commits = {1, 2, 3}
    NoCommit = 0
    Tree <- TheTree
    Ancestors <- TheAncestors
    Threshold = 2
    Budget = 2
    Jobs <- EveryJob
    Faults <- EveryFault
INVARIANTS
    ReadyIsTrue
    IndexInv
PROPERTIES
    HooksCatchUp
    WatcherCatchesUp
CHECK_DEADLOCK FALSE
