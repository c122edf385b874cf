\* A guard that is signalled, killed or slow, dropped connections, crashes, lost
\* and refused commands, denied users, silent probes.
CONSTANTS
    NumUsers = 2
    k1 = k1
    k2 = k2
    k3 = k3
    p1 = p1
    p2 = p2
    absent = absent
    Absent = absent
    Keys <- MCKeys
    Paths <- MCPaths
    PathOf <- OwnPaths
    Requests <- EveryRequest
    InitialFiles <- MCFiles
    Elsewhere = {}
    ProbeAttempts = 3
    Refusable = {"health", "load", "local", "backup", "manifest", "snapshot", "revert", "readback", "marker", "disarm", "rm"}
    Losable = {"health", "load", "local", "backup", "manifest", "snapshot", "swap", "revert", "readback", "marker", "disarm", "rm"}
    Faults = {"drop", "crash", "deny", "noverdict", "signal", "kill", "stall"}

SPECIFICATION Spec

INVARIANTS
    TypeOK
    HonestRevert
    RemovalAfterProof
    NoEmptyWindow
