SPECIFICATION FairSpec
CONSTANTS
    k1 = k1
    k2 = k2
    i1 = i1
    s1 = s1
    x1 = x1
    x2 = x2
    m1 = m1
    c1 = c1
    f1 = f1
    e1 = e1
    None = None
    Workers = {k1, k2}
    Ids = {i1}
    IdOf <- SameId
    Handles <- EveryItem
    Works = {c1, f1}
    Sources = {s1}
    Effects = {e1}
    Plans = {"p1", "p2"}
    Actions = 2
    Kind <- KindOf
    SourceOf <- OneSource
    EmbedOf <- FirstEffect
    MaxAttempts = 2
    LeaseTime = 1
    RetryDelay = 1
INVARIANTS
    PlanOnce
    AppliedWhole
CHECK_DEADLOCK FALSE
