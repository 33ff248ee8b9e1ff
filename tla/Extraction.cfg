SPECIFICATION FairSpec
CONSTANTS
    k1 = k1
    k2 = k2
    i1 = i1
    s1 = s1
    x1 = x1
    x2 = x2
    m1 = m1
    c1 = c1
    f1 = f1
    e1 = e1
    None = None
    Workers = {k1, k2}
    Ids = {i1}
    IdOf <- SameId
    Handles <- TwoRevisions
    Works = {x1, x2, m1}
    Sources = {s1}
    Effects = {e1}
    Plans = {}
    Actions = 1
    Kind <- KindOf
    SourceOf <- OneSource
    EmbedOf <- FirstEffect
    MaxAttempts = 2
    LeaseTime = 2
    RetryDelay = 1
INVARIANTS
    OneHolder
    RejectionReaches
PROPERTIES
    EveryItemSettles
CHECK_DEADLOCK FALSE
