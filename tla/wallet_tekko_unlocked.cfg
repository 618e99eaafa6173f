SPECIFICATION Spec
CONSTANTS
    None = None
    Session = {"s1", "s2"}
    Platform = 0
    Customer = {1}
    Merchant = {2, 3}
    Amount = {1}
    Fee = {0, 1}
    Opening = {1}
    Flow = {"tekkoSettle", "payout"}
    MaxTransactions = 2
INVARIANTS
    BalanceMatchesLedger
CHECK_DEADLOCK FALSE
