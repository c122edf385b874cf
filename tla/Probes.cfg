\* Four requests and the probe command, every policy of two users, the numbers of the code
\* and of OpenSSH 9.8 in seconds, three disturbances.
CONSTANTS
    old = old
    new = new
    kept = kept
    dss = dss
    Keys <- MCKeys
    NumUsers = 2
    Requests <- MCRequests
    Policies = {"file", "nobody", "elsewhere", "second", "open"}
    Unusable = {dss}
    ProbeAttempts = 3
    Backoff = 20
    DialTimeout = 15
    AuthFail = 5
    Min = 15
    Lag = 1
    Noise = 3

SPECIFICATION FairSpec

INVARIANTS
    TypeOK
    PassedIsProven
    RefusedIsJudged
    OwnPenaltiesPass
PROPERTY ProbesEnd
