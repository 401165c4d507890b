SPECIFICATION FairSpec
CONSTANTS
    Workers = 3
    Places = 4
    Tasks = 6
    Resizes = 3
INVARIANTS
    AccountsAddUp
    NoLostWakeup
PROPERTIES
    TasksAreTaken
    StopEnds
CHECK_DEADLOCK FALSE
