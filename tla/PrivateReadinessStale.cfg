SPECIFICATION ServiceSpec
CONSTANTS
    Calls = {c1}
    Askers = {a1}
    Limit = 1
INVARIANTS
    FailureOutlivesProbe
CHECK_DEADLOCK FALSE
