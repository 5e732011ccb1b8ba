SPECIFICATION Spec
CONSTANTS
    Clients = {c1}
    Procs = {p1, p2, p3}
    NoProc = NoProc
    Images = {i1, i2}
    NoImage = NoImage
    MaxRelease = 2
    Rank <- ByRelease
    Commands = {"start", "stop", "destroy", "bootstrap", "upgrade"}
    BaseImages = {"rootfs", "image"}
    Environment = {"exit", "lag"}
SYMMETRY Symmetry
INVARIANTS
    TypeOK
    NoBuildLeftBehind
PROPERTIES
    OffMeansOff
    UpgradeTakesEffect
