SPECIFICATION Spec
CONSTANTS
    Subtasks = {"s"}
    Accesses <- Both
    Backends = {"native"}
    MaxAttempts = 1
    MaxRepairs = 1
    MaxCrashes = 1
INVARIANT WriterKeepsOwner
CHECK_DEADLOCK FALSE
