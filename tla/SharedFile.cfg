\* Two users of one transaction resolve to one file.
CONSTANTS
    NumUsers = 2
    k1 = k1
    k2 = k2
    k3 = k3
    p1 = p1
    p2 = p2
    absent = absent
    Absent = absent
    Keys <- MCKeys
    Paths <- MCPaths
    Elsewhere = {}
    ProbeAttempts = 1
    PathOf <- SharedPath
    Requests <- OnlyGrantAndRevokeOther
    InitialFiles <- TwoKeysEach
    Refusable = {}
    Losable = {}
    Faults = {}

SPECIFICATION Spec

INVARIANT CommittedMeansRequested
