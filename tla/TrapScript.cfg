\* The guard script, command by command: two signals, kill -9, links, and a client
\* that goes on.
CONSTANTS
    p1 = p1
    p2 = p2
    Paths <- MCPaths
    MaxSignals = 2
    Kill = TRUE

SPECIFICATION FairSpec

INVARIANT RestoresAll

PROPERTIES
    EvidenceIsLast
    MarkerDisarms
    TornIsRepaired
