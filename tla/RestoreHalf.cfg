\* The connection of a restore fails between two files.
CONSTANTS
    root = root
    ann = ann
    bob = bob
    nobody = nobody
    Root = root
    Nobody = nobody
    People <- MCPeople
    Modes <- MCModes
    NumFiles = 2
    Guards <- OnlyRoot
    Entries <- AnnAndBob
    FileInfos <- RootFile
    DirInfos <- RootDir
    Outages = TRUE

SPECIFICATION Spec

INVARIANT FailedBeforeWrite
