SPECIFICATION Spec
CONSTANTS
    Home = "home"
    Payout = {"p1"}
    Wallet = {"home", "other"}
    RefundWallet = {"home"}
    Amount = 2
    Fee = 1
    Opening = 5
    Lossy = TRUE
    Staff = FALSE
    MaxCrash = 0
    MaxError = 0
INVARIANTS
    PaidNeverReturned
CHECK_DEADLOCK FALSE
