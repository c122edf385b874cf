\* The second swap of a file exits with a non-zero status.
CONSTANTS
    NumUsers = 2
    k1 = k1
    k2 = k2
    k3 = k3
    p1 = p1
    p2 = p2
    absent = absent
    Absent = absent
    Keys <- MCKeys
    Paths <- MCPaths
    Elsewhere = {}
    ProbeAttempts = 1
    PathOf <- OwnPaths
    Requests <- OnlyRotateOne
    InitialFiles <- OneKeyEach
    Refusable = {"swap"}
    Losable = {}
    Faults = {}

SPECIFICATION Spec

INVARIANT HonestRevert
