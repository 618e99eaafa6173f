SPECIFICATION AllFairSpec
CONSTANTS
    Amount = 3
    Fee = 1
    RailFee = {0, 2}
    Opening = 6
    Spending = 2
    Delivery = {"d1", "d2"}
    MaxError = 1
    Rail = {"crossramp", "h2h", "cpg", "eur"}
    Handler = {"h1", "h2"}
    Legacy = FALSE
    MaxManual = 1
    Callback = {"c1", "c2"}
    Fiat = 3
    Quote = 4
    Product = {"collect", "pyusd", "va"}
    Late = FALSE
    MaxStumbles = 1
    Caller = {"c1", "c2"}
    MaxSubmits = 1
    MaxBlocks = 1
INVARIANTS
    TypesOK
    EntriesMatchStatus
    PayoutsFollowReports
    CreditedOnce
    VerifiedByTekko
PROPERTIES
    TekkoIsFollowed
CHECK_DEADLOCK FALSE
