\* The connection falls silent before a session is opened, and nobody gives it up.
CONSTANTS
    Refusable = {}
    Faults = {"silence"}

SPECIFICATION ConnectFairSpec

PROPERTY CommandsBounded
