\* The revert of the first of two files fails before the second is copied.
CONSTANTS
    NumUsers = 2
    k1 = k1
    k2 = k2
    p1 = p1
    p2 = p2
    absent = absent
    Absent = absent
    Keys <- MCKeys
    Paths <- MCPaths
    PathOf <- OwnPaths
    Elsewhere = {}
    ProbeAttempts = 1
    Requests <- OnlyRotate
    InitialFiles <- OneKeyEach
    Refusable = {"revert"}
    Losable = {"swap"}
    Faults = {}
    Known <- MCPaths
    MaxRestores = 1

SPECIFICATION BreakGlassSpec

INVARIANT BackupsReapply
