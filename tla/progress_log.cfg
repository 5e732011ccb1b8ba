SPECIFICATION FairSpec
CONSTANTS
    Writers = {w1, w2}
    Requests = {r1}
    NoEntry = NoEntry
    NoRequest = NoRequest
    MaxSize = 2
    Ms = 2
    MaxEntries = 4
    MaxTime = 5
INVARIANTS
    TypeOK
    ShownInOrder
PROPERTIES
    EveryEntryShown
