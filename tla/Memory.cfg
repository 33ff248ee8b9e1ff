SPECIFICATION Spec
CONSTANTS
    r1 = r1
    c1 = c1
    c2 = c2
    x = x
    y = y
    None = None
    e1 = e1
    e2 = e2
    s1 = s1
    s2 = s2
    Untrusted = {}
    SourceOf <- OwnSource
    MaxCited = 1
    Runs = {r1}
    Callers = {c1, c2}
    RunOf <- OneRun
    Reviewers = {c1}
    Sources = {s1, s2}
    Evidence = {e1, e2}
    Memories = {m1, m2}
    Contents = {x, y}
    Sent <- Divided
SYMMETRY Interchangeable
INVARIANTS
    ChainConsistent
    LineageHasHead
    DerivedShareEvidence
PROPERTIES
    RejectedForGood
CHECK_DEADLOCK FALSE
