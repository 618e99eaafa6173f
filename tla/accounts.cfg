SPECIFICATION AllSpec
CONSTANTS
    i1 = i1
    i2 = i2
    c1 = c1
    c2 = c2
    Instance = {i1, i2}
    Call = {c1, c2}
    Session = {"s"}
    StepUp = {"u"}
    Ttl = 1
    KeptTtl = 2
    MaxTime = 2
    Realm = {"portal", "provider"}
    MaxVersion = 1
    Key = {"k1", "k2"}
    MissTtl = 1
    MaxLoad = 1
    Used = {"/v1/payins", "/portal/me/payouts"}
    KeyScope = {"*"}
    Amount = {1}
    Mode = "block"
    Ceiling = 1
    DailyLimit = 1
    PerRecipient = 3
    PayinsPerHour = 1
    Cooling = TRUE
    MaxMade = 3
    MaxChanges = 1
SYMMETRY Symmetry
INVARIANTS
    TypesOK
    VerdictsAreRecent
    SessionsKnowThePassword
    OvershootIsBounded
    SuspensionHolds
CHECK_DEADLOCK FALSE
