CONSTANTS
    a1 = a1
    a2 = a2
    b1 = b1
    c1 = c1
    d1 = d1
    e1 = e1
    f1 = f1
    g1 = g1
    h1 = h1
    sA = sA
    sB = sB
    sC = sC
    sD = sD
    sE = sE
    sF = sF
    sG = sG
    sH = sH
    t1 = t1
    t2 = t2
    t3 = t3
    t4 = t4
    t5 = t5
    cA = cA
    cB = cB
    cC = cC
    cD = cD
    cE = cE
    root = root
    root2 = root2
    root3 = root3
    grant = grant
    Overlap <- Same
    TaskOf <- OneTask
    ConvOf <- OneConv
    Tasks = {t1}
    Conversations = {cA}
    Attempts = {a1, b1}
    Subtasks = {sA, sB}
    SubtaskOf <- PairSubtaskOf
    Access <- AllWrite
    Claims <- WriteRoot
    Fenced = {a1, b1}
    Cancellable = {}
    Unsealable = {a1}
    Stalls = {}
    MaxCrashes = 0
SPECIFICATION FairSpec
CHECK_DEADLOCK FALSE
PROPERTY ExpiredWaitResolves
