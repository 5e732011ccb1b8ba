SPECIFICATION Spec
CONSTANTS
    Clients = {c1}
    Items = {a, b}
    NoItem = NoItem
    Hooks = {h, k}
    Settings = {old, new, invalid}
    Valid = {old, new}
    DefaultSettings = old
    Empty = Empty
    Commands = {"add", "remove", "set_ip", "configure", "bootstrap", "start"}
    Environment = {"kill", "full"}
SYMMETRY Symmetry
INVARIANTS
    TypeOK
    ActsOnSaved
PROPERTIES
    ImplementsStore
