CONSTANTS
    e1 = e1
    o1 = o1
    e2 = e2
    o2 = o2
    e3 = e3
    e4 = e4
    o4 = o4
    w1 = w1
    w2 = w2
    None = None
    Events <- MCEvents
    Workflows = {w1, w2}
    External = {e1, e2, e3, e4}
    Takes <- MCTakes
    Applies <- MCTakes
    Emits <- MCEmits
    Delayed = {o1}
    Kind <- MCKind
    Atomic = {e3}
    Productive = {e1, e4}
    MaxDecisions = 2
    MaxRetries = 2
SPECIFICATION FairSpec
CONSTRAINT OneScenario
INVARIANTS DecidedOnce AppliedHasEffect ObservationCommitted SingleApplier
PROPERTIES AppliedIsFinal NoRowStaysInFlight 
