SPECIFICATION FairSpec
CONSTANTS
    Refs = {r1}
    Sessions = {s1, s2}
    Orders = {}
    MaxSlots = 1
    LeaseTTL = 2
    MaxAttempts = 2
    Periods = {1, 2}
    Credits = {1}
    Prepaid = {0}
    Estimates = {2}
    Charges = {2}
    TopUpCredit = 1
    AdminBalances = {0}
    OpeningBalance = 2
    MaxAdminSets = 1
PROPERTIES
    SessionsEnd
    HoldsAreLetGo
CHECK_DEADLOCK FALSE
