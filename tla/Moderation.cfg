SPECIFICATION FairSpec
CONSTANTS
    Inputs = {text}
    Outputs = {answer}
    Servers = {home, peer}
    Home = home
    Failures = 1
    Crashing = TRUE
INVARIANTS
    HitsAreInHand
    PassedIsClean
PROPERTIES
    OnlyUnattendedFailOpen
    HitsAreWithdrawn
    StatesSettle
CHECK_DEADLOCK FALSE
