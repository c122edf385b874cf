\* mkdir fails after mktemp has succeeded.
CONSTANTS
    Refusable = {"mktx"}
    Faults = {}

SPECIFICATION ConnectFairSpec

INVARIANT NoDirectoryLeft
