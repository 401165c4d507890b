SPECIFICATION FairSpec
CONSTANTS
    s1 = s1
    s2 = s2
    w2 = w2
    Files = {f1}
    Spaces = {x, y}
    Servers = {s1, s2}
    Home <- TwoServers
    Workers = {w1, w2}
    Autos = {a1}
    MaxRetries = 1
    Events <- SomeEvents
    NoOne = NoOne
    NoSpace = NoSpace
INVARIANTS
    FilesAgree
PROPERTIES
    QueuedSettles
    OutdatedIsFound
CHECK_DEADLOCK FALSE
