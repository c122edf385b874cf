\* Dropped connections, torn swaps, crashes and lost answers, except that the
\* answer to the commit marker is not lost.
CONSTANTS
    NumUsers = 2
    k1 = k1
    k2 = k2
    k3 = k3
    p1 = p1
    p2 = p2
    absent = absent
    Absent = absent
    Keys <- MCKeys
    Paths <- MCPaths
    PathOf <- OwnPaths
    Requests <- EveryRequest
    InitialFiles <- MCFiles
    Elsewhere = {}
    ProbeAttempts = 2
    Refusable = {"local", "backup", "revert"}
    Losable = {"backup", "manifest", "snapshot", "swap", "revert", "readback", "disarm", "rm"}
    Faults = {"drop", "crash", "torn", "noverdict"}

SPECIFICATION FairSpec

INVARIANTS
    CommittedMeansRequested
    BackstopHolds
    AllOrNothing
PROPERTIES
    Termination
    DeadMan
    ImplementsAtomicChange
