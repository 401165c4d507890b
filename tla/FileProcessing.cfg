SPECIFICATION FairSpec
CONSTANTS
    Files = {f1}
    Workers = {w1, w2}
    MaxRetries = 1
    Troubles <- SomeTroubles
    NoOne = NoOne
    NoAttempt = NoAttempt
INVARIANTS
    FilesAgree
PROPERTIES
    OutcomeIsFinal
    FilesFinish
    MessagesLeave
CHECK_DEADLOCK FALSE
