SPECIFICATION Spec
CONSTANTS
    r1 = r1
    r2 = r2
    a1 = a1
    a2 = a2
    t1 = t1
    t2 = t2
    t3 = t3
    t4 = t4
    l1 = l1
    l2 = l2
    l3 = l3
    None = None
    Runs = {r1, r2}
    Agents = {a1, a2}
    Tasks = {t1, t2, t3, t4}
    Leases = {l1, l2}
    RunOf <- TwoRuns
    Able <- AllAble
    AvailableAt <- Planned
    LeaseSeconds = {1}
    MaxTime = 1
    MaxLag = 0
    MaxTaskVersion = 2
    MaxLeaseVersion = 1
    MaxJoins = 1
SYMMETRY InterchangeableLeases
INVARIANTS
    CompletionAgreement
    SomeTaskUnblocked
PROPERTIES
    RunIsolation
    BoardKept
CHECK_DEADLOCK FALSE
