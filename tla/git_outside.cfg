SPECIFICATION Spec
CONSTANTS
    Clients = {c1}
    Hosts = {h1}
    b1 = b1
    b2 = b2
    away = away
    Bares = {b1, away}
    Named <- UnderHome
    MaxCommits = 1
    None = None
    Environment = {}
PROPERTIES
    AnyPathIsLinked
