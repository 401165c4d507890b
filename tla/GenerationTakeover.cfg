SPECIFICATION Spec
CONSTANTS
    Executions = {e1, e2}
    Servers = {s1, s2}
    LeaseTTL = 2
    Retention = 1
    OwnerTTL = 5
    Stoppable = {s1}
    Cancelling = {s1}
    Publishing = {e1, e2}
    None = None
SYMMETRY ExecutionSymmetry
INVARIANTS
    StoreOK
    OneExecution
    ClosedIsQuiet
PROPERTIES
    OnlyHolderReleases
CHECK_DEADLOCK FALSE
