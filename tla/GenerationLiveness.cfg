SPECIFICATION FairSpec
CONSTANTS
    Executions = {e1, e2}
    Servers = {s1}
    LeaseTTL = 2
    Retention = 1
    OwnerTTL = 2
    Stoppable = {s1}
    Cancelling = {}
    Publishing = {}
    None = None
PROPERTIES
    EndedRunsAreFreed
    RequestsEnd
    ClosesEnd
CHECK_DEADLOCK FALSE
