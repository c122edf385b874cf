\* Silent, dropped and slow connections at every stage, whether or not the kernel
\* ever gives a silent one up.
CONSTANTS
    Refusable = {"whoami", "mktx", "health"}
    Faults = {"silence", "drop", "slow"}

SPECIFICATION ConnectFairSpec

INVARIANT LossReported
PROPERTIES
    DeathNoticed
    NothingLeft
    ConnectEnds
