\* Every fault at once: what holds even when the guard is killed or signalled and
\* swaps are refused, torn or late.
CONSTANTS
    NumUsers = 2
    k1 = k1
    k2 = k2
    k3 = k3
    p1 = p1
    p2 = p2
    absent = absent
    Absent = absent
    Keys <- MCKeys
    Paths <- MCPaths
    PathOf <- OwnPaths
    Requests <- FewRequests
    InitialFiles <- MCFiles
    Elsewhere <- KeyElsewhere
    ProbeAttempts = 2
    Refusable = {"health", "load", "local", "backup", "manifest", "snapshot", "swap", "revert", "readback", "marker", "disarm", "rm"}
    Losable = {"health", "load", "local", "backup", "manifest", "snapshot", "swap", "revert", "readback", "marker", "disarm", "rm"}
    Faults = {"drop", "crash", "noverdict", "signal", "kill", "stall", "torn", "late"}

SPECIFICATION Spec

INVARIANTS
    WriteAhead
    CommitRestsOnAcceptance
PROPERTY TrapRestoresOriginal
