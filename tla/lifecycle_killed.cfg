SPECIFICATION Spec
CONSTANTS
    Clients = {c1}
    Procs = {p1, p2}
    NoProc = NoProc
    Images = {i1, i2}
    NoImage = NoImage
    MaxRelease = 1
    Rank <- ByRelease
    Commands = {"destroy", "bootstrap"}
    BaseImages = {"rootfs"}
    Environment = {"exit", "kill", "slow"}
SYMMETRY Symmetry
PROPERTIES
    PublishedBootable
    ImplementsService
