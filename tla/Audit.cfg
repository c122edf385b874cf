\* Six command lines on every content of two files, three rewrites meanwhile.
CONSTANTS
    old = old
    new = new
    root = root
    toor = toor
    alice = alice
    nobody = nobody
    p1 = p1
    p2 = p2
    Users <- MCUsers
    Keys <- MCKeys
    Paths <- MCPaths
    PathOf <- MCPathOf
    CommandLines <- MCLines
    Unknown = {nobody}
    Hidden = {}
    InitialFiles <- EveryFile
    MaxWrites = 3

SPECIFICATION Spec

INVARIANT OneReading
