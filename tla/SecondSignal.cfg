\* The marker comes after the trap has started, and a second signal after that.
CONSTANTS
    p1 = p1
    p2 = p2
    Paths <- MCPaths
    MaxSignals = 2
    Kill = FALSE

SPECIFICATION Spec

INVARIANT RestoresOnceStarted
