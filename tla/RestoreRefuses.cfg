\* A root guard restores a user's own file in its own directory.
CONSTANTS
    root = root
    ann = ann
    bob = bob
    nobody = nobody
    Root = root
    Nobody = nobody
    People <- MCPeople
    Modes <- MCModes
    NumFiles = 1
    Guards <- OnlyRoot
    Entries <- OnlyAnn
    FileInfos <- OwnFile
    DirInfos <- OwnDir
    Outages = FALSE

SPECIFICATION Spec

INVARIANT RestoreTakesWhatApplyWrote
