SPECIFICATION FairSpec
CONSTANTS
    c1 = c1
    c2 = c2
    c3 = c3
    None = None
    Calls = {c1, c2, c3}
    Digest <- TwoCommands
    MaxAttempts = 2
    Lookups = 2
    DupLookups = 1
INVARIANTS
    ErrorsAreFinal
PROPERTIES
    EveryCallEnds
    KeepsPromise
CHECK_DEADLOCK FALSE
