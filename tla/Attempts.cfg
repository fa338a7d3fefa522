SPECIFICATION LiveSpec
CONSTANTS
    Subtasks = {"s"}
    Accesses <- Both
    Backends = {"native", "docker"}
    MaxAttempts = 2
    MaxRepairs = 1
    MaxCrashes = 1
CONSTRAINT OneScenario
INVARIANTS OneLiveItem CompletionIsOwned
PROPERTIES SucceedsQuiescent CancelledIsFinal KeepsLedger CancellingSettles
CHECK_DEADLOCK FALSE
