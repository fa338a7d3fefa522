CONSTANTS
    t1 = t1
    t2 = t2
    r2 = r2
    u1 = u1
    u2 = u2
    c1 = c1
    c2 = c2
    c3 = c3
    w1 = w1
    w2 = w2
    None = None
    Tasks = {t1, t2, r2}
    Conversations = {c1}
    Workspaces = {w1}
    ConvOf <- ConvMap
    WsOf <- TwoWorkspaces
    Priority <- EqualPriority
    Remaining = {r2}
    WorkspaceLimit = 1
    AccountLimit = 2
    QueueLimit = 1
    MaxAgain = 3
    MaxFailures = 1
    MaxCrashes = 1
SPECIFICATION FairSpec
CONSTRAINT OnceOrAgain
PROPERTIES QueuedIsServed EndedFreesSlot
