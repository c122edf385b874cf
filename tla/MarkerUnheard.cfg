\* The answers to the commit marker and to a revert are lost.
CONSTANTS
    NumUsers = 2
    k1 = k1
    k2 = k2
    k3 = k3
    p1 = p1
    p2 = p2
    absent = absent
    Absent = absent
    Keys <- MCKeys
    Paths <- MCPaths
    Elsewhere = {}
    ProbeAttempts = 1
    PathOf <- OwnPaths
    Requests <- OnlyRotate
    InitialFiles <- OneKeyEach
    Refusable = {}
    Losable = {"marker", "revert"}
    Faults = {}

SPECIFICATION Spec

INVARIANT BackstopHolds
