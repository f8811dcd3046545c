\* An implementer and a reviewer, every fault.
SPECIFICATION FairSpec
CONSTANTS
    Procs <- TwoRuntimes
    Agent <- Agents
    Role <- RoleOf
    NoAgent = NoAgent
    NoRole = NoRole
    worker = worker
    reviewer = reviewer
    a = a
    b = b
    Names = {worker, reviewer}
    Implementing = {worker}
    Skippers <- Unenforced
    Window = 0
    MaxTime = 2
    Budget = 2
    Faults = {"hooks", "inbox", "crash", "age"}
INVARIANTS AuditComplete
PROPERTIES SeparatedClose GatesOpen
CHECK_DEADLOCK FALSE
