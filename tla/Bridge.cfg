SPECIFICATION FairBridgeSpec
CONSTANTS
    r1 = r1
    a1 = a1
    a2 = a2
    t1 = t1
    l1 = l1
    l2 = l2
    c1 = c1
    c2 = c2
    k1 = k1
    k2 = k2
    None = None
    Runs = {r1}
    Agents = {a1, a2}
    Tasks = {t1}
    Leases = {l1, l2}
    RunOf <- OneRun
    Able <- AllAble
    AvailableAt <- AtOnce
    LeaseSeconds = {2}
    MaxTime = 2
    MaxLag = 1
    MaxTaskVersion = 0
    MaxLeaseVersion = 0
    MaxJoins = 0
    Me = a1
    Callers = {c1, c2}
    Keys = {k1, k2}
    MaxCalls = 3
    MaxRenewals = 1
    MaxFaults = 1
INVARIANTS
    NeverAhead
    OneUnconfirmed
PROPERTIES
    RefusedOnlyWhenLost
    CallsReturn
CHECK_DEADLOCK FALSE
