\* Two runs on a host that answers everything.
CONSTANTS
    old = old
    other = other
    new = new
    Keys <- MCKeys
    Runs = {1, 2}
    Requests <- MCRequests
    InitialFiles <- OneOrTwo
    Faults = {}

SPECIFICATION Spec

INVARIANT NoLockout
