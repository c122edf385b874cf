\* Every fault at once, every way a transaction can then end, and up to two
\* restores, of which any command may fail.
CONSTANTS
    NumUsers = 2
    k1 = k1
    k2 = k2
    p1 = p1
    p2 = p2
    absent = absent
    Absent = absent
    Keys <- MCKeys
    Paths <- MCPaths
    PathOf <- OwnPaths
    Elsewhere = {}
    ProbeAttempts = 1
    Requests <- MCRequests
    InitialFiles <- MCFiles
    Refusable = {"local", "swap", "revert"}
    Losable = {"manifest", "swap", "revert", "marker"}
    Faults = {"drop", "crash", "signal", "kill", "torn", "late", "outage", "disk"}
    Known <- MCPaths
    MaxRestores = 2

SPECIFICATION BreakGlassFairSpec

INVARIANTS
    RestoreUndoes
    ChangesDocumented
PROPERTIES
    RestoreWritesOriginals
    BreakGlassWorks
