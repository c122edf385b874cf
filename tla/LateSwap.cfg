\* A swap outlives the connection it was sent on.
CONSTANTS
    NumUsers = 2
    k1 = k1
    k2 = k2
    k3 = k3
    p1 = p1
    p2 = p2
    absent = absent
    Absent = absent
    Keys <- MCKeys
    Paths <- MCPaths
    Elsewhere = {}
    ProbeAttempts = 1
    PathOf <- OwnPaths
    Requests <- OnlyRotateOne
    InitialFiles <- OneKeyEach
    Refusable = {}
    Losable = {}
    Faults = {"drop", "late"}

SPECIFICATION FairSpec

PROPERTY DeadMan
