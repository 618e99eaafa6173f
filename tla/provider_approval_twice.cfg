SPECIFICATION Spec
CONSTANTS
    None = "none"
    Request = {"q1", "q2"}
    Staff = {"u1", "u2", "u3"}
    Amount = 2
    Opening = 3
PROPERTIES
    ExecutedFromPending
CHECK_DEADLOCK FALSE
