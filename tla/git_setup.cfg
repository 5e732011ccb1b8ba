SPECIFICATION Spec
CONSTANTS
    Clients = {c1, c2}
    Hosts = {h1, h2}
    b1 = b1
    b2 = b2
    away = away
    Bares = {b1, b2}
    Named <- UnderHome
    MaxCommits = 2
    None = None
    Environment = {}
SYMMETRY Symmetry
INVARIANTS
    TypeOK
PROPERTIES
    SuccessMeansLinked
    GuestWorkKept
