SPECIFICATION Spec
CONSTANTS
    Refs = {r1, r2}
    Sessions = {s1, s2}
    Orders = {o1}
    MaxSlots = 2
    LeaseTTL = 2
    MaxAttempts = 2
    Periods = {1}
    Credits = {1}
    Prepaid = {0}
    Estimates = {2}
    Charges = {2}
    TopUpCredit = 1
    AdminBalances = {0}
    OpeningBalance = 2
    MaxAdminSets = 0
SYMMETRY SessionSymmetry
INVARIANTS
    SessionTypeOK
    CreditNotOversold
    BooksBalance
    BillsAreRight
    HoldFollowsOutcome
    CallsAreCovered
PROPERTIES
    HoldLifecycle
    GrantsWithinBudget
    ImplementsAccounting
    NoRenewalAfterStop
    ImplementsTables
CHECK_DEADLOCK FALSE
