SPECIFICATION FairSpec
CONSTANTS
    q1 = q1
    q2 = q2
    None = None
    Recalls = {q1, q2}
    Memories = {1, 2, 3, 4}
    Raw <- RawScores
    Coverage <- TextCoverage
    Tokens <- Sizes
    Links <- TwoLinks
    Floor = 30
    TokenBudget = 3
    SeedLimit = 2
    ReadDepth = 1
    RerankWindow = 2
    MaxFetch = 4
    Stored = {{1, 2, 3}, {2, 3, 4}}
    Deployments <- Servers
    MaxChanges = 1
    Remembered = 1
    MaxFaults = 1
INVARIANTS
    AnswersOneCut
    LossTold
    FailuresStayPut
    OneLostPerStray
PROPERTIES
    RecallReturns
CHECK_DEADLOCK FALSE
