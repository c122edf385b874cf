\* A file of 45 keys, and a host that is gone.
CONSTANTS
    old = old
    new = new
    kept = kept
    dss = dss
    Keys <- MCKeys
    NumUsers = 2
    Requests <- ManyKeys
    Policies = {"file"}
    Unusable = {dss}
    ProbeAttempts = 3
    Backoff = 20
    DialTimeout = 15
    AuthFail = 5
    Min = 15
    Lag = 1
    Noise = 1

SPECIFICATION Spec

INVARIANT GoneInMinutes
