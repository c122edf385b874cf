\* Two runs with every fault, on a file with one key or two.
CONSTANTS
    old = old
    other = other
    new = new
    Keys <- MCKeys
    Runs = {1, 2}
    Requests <- MCRequests
    InitialFiles <- OneOrTwo
    Faults = {"probe", "swap", "revert", "crash"}

SPECIFICATION Spec

INVARIANTS
    TypeOK
    LastWriterTrue
    StandingKeysStay
