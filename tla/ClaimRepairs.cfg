SPECIFICATION FairSpec
CONSTANTS
    p1 = p1
    p2 = p2
    o1 = o1
    o2 = o2
    t1 = t1
    t2 = t2
    NoOwner = NoOwner
    NoText = NoText
    Procs = {p1, p2}
    Owners = {o1}
    Texts = {t1}
    Leases <- OneLease
    MaxTime = 2
    Budget = 2
    Ops <- ClaimOps
    Repairs <- EveryRepair
    Faults <- EveryFault
INVARIANTS
    NeverOrphaned
PROPERTIES
    ReconcileSettles
CHECK_DEADLOCK FALSE
