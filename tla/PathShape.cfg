\* A path template that apply takes, of a shape that restore does not.
CONSTANTS
    NumUsers = 2
    k1 = k1
    k2 = k2
    p1 = p1
    p2 = p2
    absent = absent
    Absent = absent
    Keys <- MCKeys
    Paths <- MCPaths
    PathOf <- OwnPaths
    Elsewhere = {}
    ProbeAttempts = 1
    Requests <- OnlyRotate
    InitialFiles <- OneKeyEach
    Refusable = {}
    Losable = {}
    Faults = {}
    Known <- OnlyP1
    MaxRestores = 1

SPECIFICATION BreakGlassSpec

INVARIANT ShapesProduced
