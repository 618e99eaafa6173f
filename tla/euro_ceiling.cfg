SPECIFICATION Spec
CONSTANTS
    Call = {"c1"}
    Used = {"/portal/me/eur/payout-instances"}
    KeyScope = {"*"}
    Amount = {1}
    Mode = "block"
    Ceiling = 1
    DailyLimit = 0
    PerRecipient = 0
    PayinsPerHour = 0
    Cooling = FALSE
    MaxMade = 2
    MaxChanges = 0
INVARIANTS
    EuroCeilingHolds
CHECK_DEADLOCK FALSE
