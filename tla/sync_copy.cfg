SPECIFICATION Spec
CONSTANTS
    Clients = {c1, c2}
    Files = {f1}
    Excluded = {}
    HostMade = {h1, h2}
    VmMade = {v1}
    Torn = Torn
    Absent = Absent
    Retentions = {0, 1}
    DefaultRetention = 2
    Day = 1
    HalfRange = 2
    MaxTime = 2
    Commands = {"run", "restore", "destroy"}
    Environment = {}
SYMMETRY Symmetry
INVARIANTS
    TypeOK
PROPERTIES
    OverwritesBackedUp
    BackupsKept
