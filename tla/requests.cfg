SPECIFICATION AllFairSpec
CONSTANTS
    Request = {"r1", "r2", "r3", "r4"}
    Body = {"b1", "b2"}
    None = "none"
    MaxCrash = 1
    MaxError = 1
    Call = {"c1", "c2", "c3"}
    MaxFailed = 5
    LockTime = 2
    Event = {"e1", "e2"}
    Mail = {"n1", "n2"}
    Down = {"e1"}
    BatchSize = 2
    RetryLimit = 1
    MaxReplays = 1
    MaxFaults = 1
INVARIANTS
    TypesOK
    FreshOnce
    ReplayIsFaithful
    ShownIsTold
PROPERTIES
    SlotSettles
    LockEnds
CHECK_DEADLOCK FALSE
