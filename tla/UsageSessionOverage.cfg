SPECIFICATION Spec
CONSTANTS
    Refs = {r1, r2}
    Sessions = {s1, s2}
    Orders = {}
    MaxSlots = 2
    LeaseTTL = 1
    MaxAttempts = 2
    Periods = {1}
    Credits = {2}
    Prepaid = {0}
    Estimates = {1, 2}
    Charges = {1}
    TopUpCredit = 1
    AdminBalances = {}
    OpeningBalance = 2
    MaxAdminSets = 0
SYMMETRY SessionSymmetry
INVARIANTS
    OnlyOverageIsCharged
CHECK_DEADLOCK FALSE
