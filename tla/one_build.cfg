SPECIFICATION Spec
CONSTANTS
    Clients = {c1, c2}
    Procs = {p1, p2, p3}
    NoProc = NoProc
    Images = {i1, i2, i3}
    NoImage = NoImage
    MaxRelease = 1
    Rank <- ByRelease
    Commands = {"start"}
    BaseImages = {"rootfs"}
    Environment = {}
SYMMETRY Symmetry
INVARIANTS
    OneBuild
