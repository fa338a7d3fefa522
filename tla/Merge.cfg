CONSTANTS
    Jobs = {1, 2}
    Paths = {1, 2}
    Edits = {11, 12}
    Changes <- MCChanges
    None = None
    MaxCrashes = 1
    MaxFaults = 1
SPECIFICATION FairSpec
CONSTRAINT Scenario
CHECK_DEADLOCK FALSE
INVARIANTS TypeOK EditsStay DeliveredIsThere
PROPERTIES EditsRecoverable CrashesRecover QueueMoves
