SPECIFICATION FairSpec
CONSTANTS
    w1 = w1
    w2 = w2
    x = x
    k1 = k1
    k2 = k2
    None = None
    Wakes = {w1, w2, x}
    Unusable = {x}
    Workers = {k1, k2}
    Account = k1
    MaxRetries = 2
    MaxFaults = 2
    MaxMoves = 2
CONSTRAINT OneScenario
CHECK_DEADLOCK FALSE
INVARIANTS
    ArmedUntilApplied
    ConsumedHasContinuation
    RecoveryIsExcused
PROPERTIES
    EndedNotLaunched
    SettledIsFinal
    DueWakeSettles
