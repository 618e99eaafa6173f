SPECIFICATION AllSpec
CONSTANTS
    s1 = s1
    s2 = s2
    s3 = s3
    None = None
    Session = {s1, s2, s3}
    Platform = 0
    Customer = {1, 3}
    Merchant = {2}
    Amount = {2}
    Fee = {1}
    Opening = {3}
    Flow <- LockedFlow
    MaxTransactions = 3
INVARIANTS
    TypeOK
    BalanceMatchesLedger
    NoOverdraft
    NoWaitCycle
    SerialMatchesLedger
PROPERTIES
    ImplementsLedger
CHECK_DEADLOCK FALSE
