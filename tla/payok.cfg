SPECIFICATION AllFairSpec
CONSTANTS
    p1 = p1
    p2 = p2
    Home = Home
    Other = Other
    Payout = {p1, p2}
    Wallet = {Home, Other}
    RefundWallet = {Home}
    Amount = 2
    Fee = 1
    Opening = 5
    Lossy = TRUE
    Staff = FALSE
    MaxCrash = 1
    MaxError = 1
    Payin = {p1, p2}
    Paid = 3
INVARIANTS
    TypesOK
    EntriesMatchStatus
    ToldTheTruth
    StaffReturnNothingPaid
    CreditedOnce
PROPERTIES
    ImplementsPayoutOrder
    PendingResolves
    ImplementsPayinOrder
    OutcomeApplied
CHECK_DEADLOCK FALSE
