SPECIFICATION Spec
CONSTANTS
    r1 = r1
    r2 = r2
    a1 = a1
    a2 = a2
    t1 = t1
    t2 = t2
    t3 = t3
    t4 = t4
    l1 = l1
    l2 = l2
    l3 = l3
    None = None
    Runs = {r1}
    Agents = {a1, a2}
    Tasks = {t1}
    Leases = {l1, l2, l3}
    RunOf <- OneRun
    Able <- AllAble
    AvailableAt <- Available
    LeaseSeconds = {1, 2}
    MaxTime = 3
    MaxLag = 1
    MaxTaskVersion = 5
    MaxLeaseVersion = 2
    MaxJoins = 1
SYMMETRY Interchangeable
INVARIANTS
    LeaseAgreement
    SessionOrder
    VersionAccounting
PROPERTIES
    PromiseKept
CHECK_DEADLOCK FALSE
