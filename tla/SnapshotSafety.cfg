SPECIFICATION FairSpec
CONSTANTS
    p1 = p1
    p2 = p2
    k1 = k1
    k2 = k2
    Missing = Missing
    NoManifest = NoManifest
    Procs = {p1, p2}
    Keepers = {p1}
    BrainKind <- TwoKinds
    MaxVersion = 2
    Budget = 3
    Jobs <- EveryJob
    Faults <- EveryFault
INVARIANTS
    SnapshotIsOneExport
    ImportsOnlyExports
PROPERTIES
    RoundTrips
CHECK_DEADLOCK FALSE
