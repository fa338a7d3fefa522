CONSTANTS
    a1 = a1
    a2 = a2
    b1 = b1
    c1 = c1
    d1 = d1
    e1 = e1
    f1 = f1
    g1 = g1
    h1 = h1
    sA = sA
    sB = sB
    sC = sC
    sD = sD
    sE = sE
    sF = sF
    sG = sG
    sH = sH
    t1 = t1
    t2 = t2
    t3 = t3
    t4 = t4
    t5 = t5
    cA = cA
    cB = cB
    cC = cC
    cD = cD
    cE = cE
    root = root
    root2 = root2
    root3 = root3
    grant = grant
    Overlap <- Same
    TaskOf <- MCTaskOf
    ConvOf <- MCConvOf
    Tasks = {t1, t2, t3, t4, t5}
    Conversations = {cA, cB, cC, cD, cE}
    Attempts = {a1, a2, b1, c1, d1, e1, f1, g1, h1}
    Subtasks = {sA, sB, sC, sD, sE, sF, sG, sH}
    SubtaskOf <- MCSubtaskOf
    Access <- MCAccess
    Claims <- MCClaims
    Fenced = {a1, a2, b1, c1, d1, f1, g1, h1}
    Cancellable = {sA, sB, sC}
    Unsealable = {a1, d1}
    Stalls = {a1, a2, b1, c1, d1, e1}
    MaxCrashes = 2
SPECIFICATION MCSpec
CONSTRAINT OneGroup
CHECK_DEADLOCK FALSE
INVARIANTS LeaseExclusion ExclusiveExecution WaitHasReason
PROPERTIES WaitResolves WriterServed
