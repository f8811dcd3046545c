SPECIFICATION Spec
CONSTANTS
    r1 = r1
    r2 = r2
    a1 = a1
    a2 = a2
    j1 = j1
    j2 = j2
    NoOne = NoOne
    NoRecord = NoRecord
    Records = {r1, r2}
    Authors = {a1, a2}
    Janitors = {j1, j2}
    MaxEdits = 1
    Origins <- AllOrigins
    Jobs <- AnyJob
    Faults <- AnyFault
SYMMETRY Symmetry
INVARIANTS
    VersionChain
    OneEditPerLine
    StoreReflectsLog
    MissingIsTracked
    IInv
PROPERTIES
    HealKeepsPayload
    ImplementsRegister
CHECK_DEADLOCK FALSE
