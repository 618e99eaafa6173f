SPECIFICATION FairSpec
CONSTANTS
    q1 = q1
    u1 = u1
    u2 = u2
    u3 = u3
    u4 = u4
    q2 = q2
    None = None
    Proposal = {q1}
    User = {u1, u2, u3, u4}
    MaxCrash = 2
    MaxError = 2
INVARIANTS
    TypeOK
    PaidOnceIfApproved
PROPERTIES
    ApprovedSettles
CHECK_DEADLOCK FALSE
