SPECIFICATION AllocSpec
CONSTANTS
    p1 = p1
    p2 = p2
    p3 = p3
    NoOne = NoOne
    Procs = {p1, p2, p3}
    Existing = {2}
    Budget = 4
    Faults <- EveryFault
SYMMETRY Symmetry
INVARIANTS
    CounterCovers
    UniqueNumbers
CHECK_DEADLOCK FALSE
