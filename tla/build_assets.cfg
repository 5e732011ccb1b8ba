SPECIFICATION FairSpec
CONSTANTS
    Clients = {c1}
    Inodes = {i1, i2, i3}
    NoInode = NoInode
    MaxRelease = 3
    MaxAttempts = 3
    Torn = Torn
    Environment = {"kill", "full"}
INVARIANTS
    TypeOK
    WholeFiles
    KernelUsable
PROPERTIES
    EveryDownloadEnds
