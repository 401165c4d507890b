SPECIFICATION FairSpec
CONSTANTS
    Kinds = {"text", "think", "round", "other"}
    MaxEvents = 2
    Slack = 1
    Buffer = 1
    MaxAppends = 3
    MaxUnstored = 1
    MaxConnections = 2
INVARIANTS
    ViewIsRight
    NothingMissed
    WithdrawnStaysAway
PROPERTIES
    WatchingEnds
CHECK_DEADLOCK FALSE
