\* Five keys for the probe command, and nothing that disturbs it.
CONSTANTS
    old = old
    new = new
    kept = kept
    dss = dss
    Keys <- MCKeys
    NumUsers = 2
    Requests <- AskFive
    Policies = {"file"}
    Unusable = {dss}
    ProbeAttempts = 3
    Backoff = 20
    DialTimeout = 15
    AuthFail = 5
    Min = 15
    Lag = 1
    Noise = 0

SPECIFICATION Spec

INVARIANT EveryProbeTried
