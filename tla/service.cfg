SPECIFICATION AllSpec
CONSTANTS
    i1 = i1
    i2 = i2
    c1 = c1
    c2 = c2
    u3 = u3
    None = None
    Request = {i1, i2}
    Staff = {c1, c2, u3}
    Amount = 2
    Opening = 3
    Instance = {i1, i2}
    Call = {c1, c2}
    Retries = 1
    Threshold = 2
    Cooldown = 2
    MaxTime = 2
    MaxLost = 1
    Market = {"nigeria"}
    TekkoMarket = {"nigeria"}
    KycRequired = TRUE
    SetsEntitlement = {"none", "approved", "suspended"}
    SetsKyb = {"none", "verified"}
    MaxWallets = 2
    MaxCrashes = 1
    Run = {"r1", "r2"}
    Merchant = {"m1", "m2"}
    Fee = 2
    Float = 4
    MaxMonth = 1
    MaxFaults = 1
SYMMETRY Symmetry
INVARIANTS
    TypesOK
    MakerChecker
    PeersHonour
    ApprovedHasWallets
    BilledOnce
CHECK_DEADLOCK FALSE
