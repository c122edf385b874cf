\* A guard user that cannot search the directory of a file, and nobody who writes it.
CONSTANTS
    old = old
    new = new
    root = root
    toor = toor
    alice = alice
    nobody = nobody
    p1 = p1
    p2 = p2
    Users <- MCUsers
    Keys <- MCKeys
    Paths <- MCPaths
    PathOf <- MCPathOf
    CommandLines <- OneLine
    Unknown = {nobody}
    Hidden = {p2}
    InitialFiles <- BothOld
    MaxWrites = 0

SPECIFICATION Spec

INVARIANT PassedWasSo
