\* Two files and directories of every kind, guard root or a user.
CONSTANTS
    root = root
    ann = ann
    bob = bob
    nobody = nobody
    Root = root
    Nobody = nobody
    People <- MCPeople
    Modes <- MCModes
    NumFiles = 2
    Guards <- RootOrAnn
    Entries <- Everybody
    FileInfos <- AnyFile
    DirInfos <- AnyDir
    Outages = TRUE

SPECIFICATION Spec

INVARIANTS
    RevertLands
    OwnershipKept
    NoRootWriteInUserDir
