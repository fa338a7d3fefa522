CONSTANTS
    e1 = e1
    o1 = o1
    e2 = e2
    o2 = o2
    e3 = e3
    e4 = e4
    o4 = o4
    w1 = w1
    w2 = w2
    None = None
    Events <- Probe
    Workflows = {w1, w2}
    External = {e1}
    Takes <- ProbeTakes
    Applies <- ProbeTakes
    Emits <- ProbeEmits
    Delayed = {o1}
    Kind <- ProbeKind
    Atomic = {}
    Productive = {e1}
    MaxDecisions = 2
    MaxRetries = 2
SPECIFICATION Spec
INVARIANT LiveApplyKeepsRow
