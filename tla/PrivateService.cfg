SPECIFICATION MCFairSpec
CONSTANTS
    Calls = {c1, c2, c3}
    c1 = c1
    c2 = c2
    c3 = c3
    Askers = {a1, a2}
    Limit = 2
INVARIANTS
    ReadinessTypeOK
    GenerationsAreOwned
PROPERTIES
    OwnershipIsRespected
    CallsSettle
    ReadyAnswerIsSafe
    EveryAskIsAnswered
CHECK_DEADLOCK FALSE
