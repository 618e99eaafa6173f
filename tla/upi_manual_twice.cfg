SPECIFICATION Spec
CONSTANTS
    Rail = {"crossramp", "h2h"}
    Handler = {"h1"}
    Legacy = TRUE
    MaxManual = 2
INVARIANTS
    CreditedOnce
CHECK_DEADLOCK FALSE
