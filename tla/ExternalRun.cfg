SPECIFICATION FairSpec
CONSTANTS
    Questions <- MCQuestions
    Sources <- MCSources
    QARoutes <- MCQARoutes
    MaxAttempts = 2
    Concurrency = 2
    HttpAttempts = 2
    Reserve = 5
    Actual = 1
    Cap = 11
    None = None
    Runners = {"E6", "E6b", "E6c", "E6cV2"}
    Pilot = 1
    Commands = {"all", "pack", "audit", "preqa", "diagnose", "qa", "report"}
    MaxCrashes = 1
    MaxFaults = 2
INVARIANTS
    OneClientCall
    SpendWithinCap
    QABehindGate
    ReportBacked
PROPERTIES
    Recovers
CHECK_DEADLOCK FALSE
