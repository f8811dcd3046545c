SPECIFICATION Spec
CONSTANTS
    p1 = p1
    p2 = p2
    o1 = o1
    o2 = o2
    t1 = t1
    t2 = t2
    NoOwner = NoOwner
    NoText = NoText
    Procs = {p1, p2}
    Owners = {o1, o2}
    Texts = {t1, t2}
    Leases <- TwoLeases
    MaxTime = 3
    Budget = 3
    Ops <- EveryOp
    Repairs <- NoRepair
    Faults <- EveryFault
SYMMETRY Symmetry
INVARIANTS
    ExclusiveClaim
    ClaimIsStored
    ClaimInv
PROPERTIES
    ImplementsLifecycle
CHECK_DEADLOCK FALSE
