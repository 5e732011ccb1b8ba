SPECIFICATION FairSpec
CONSTANTS
    Clients = {c1}
    Procs = {p1, p2, p3}
    NoProc = NoProc
    Images = {i1, i2}
    NoImage = NoImage
    MaxRelease = 1
    Rank <- ByRelease
    Commands = {"start", "stop", "destroy", "bootstrap", "upgrade"}
    BaseImages = {"rootfs"}
    Environment = {"exit", "lag", "slow", "reuse"}
INVARIANTS
    TrackedVM
    KindsApart
    MarkerTruth
PROPERTIES
    PublishedPair
    BootsOwnKernel
    RefusedOnlyDuringBuild
    EveryCommandReturns
