SPECIFICATION Spec
CONSTANTS
    a1 = a1
    a2 = a2
    x = x
    y = y
    e1 = e1
    s1 = s1
    t1 = t1
    t2 = t2
    Prerequisites <- Chain
    None = None
    Agents = {a1, a2}
    Reviewers = {a1}
    Tasks = {t1, t2}
    Leases = {l1, l2}
    LeaseTime = 1
    Triggers = {g1, g2}
    Sources = {s1}
    Untrusted = {}
    Evidence = {e1}
    SourceOf <- OneSource
    MaxMemories = 2
    Contents = {x, y}
    Sent <- Usual
    MaxActivations = 2
    MaxNamed = 1
    MaxCommands = 5
    MaxTime = 1
    MaxVersion = 3
SYMMETRY Interchangeable
INVARIANTS
    OutcomeBacked
    ContextTracked
PROPERTIES
    KernelKeepsBoard
CHECK_DEADLOCK FALSE
