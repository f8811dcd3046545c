SPECIFICATION FairSpec
CONSTANTS
    p1 = p1
    p2 = p2
    p3 = p3
    r1 = r1
    r2 = r2
    direct = direct
    broadcast = broadcast
    Anonymous = Anonymous
    NoOne = NoOne
    NoMessage = NoMessage
    Messages = {direct, broadcast}
    Broadcasts = {broadcast}
    Readers = {r1, r2}
    Procs = {p1, p2}
    MaxTime = 1
    Budget = 4
    Jobs <- EveryJob
    Faults <- EveryFault
INVARIANTS
    MarkedStaysInLog
    StoreBehindLog
PROPERTIES
    RebuildKeepsMarks
    InboxSettles
CHECK_DEADLOCK FALSE
