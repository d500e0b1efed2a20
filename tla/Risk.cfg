SPECIFICATION LiveSpec
CONSTANTS
    None = None
    h1 = h1
    h2 = h2
    a1 = a1
    cve1 = cve1
    Adv = {a1}
    Cve = {cve1}
    OsvRecord <- MCOsvRecord
    Configured = None
    Languages = {"PyPI"}
    FeedQueueMax = 2
    Host = {h1, h2}
    MaxVersion = 2
    Manager <- MCManager
    OsVersion <- MCOsVersion
    QueueMax = 1
    Saturate <- MCSaturate
    SaturateAt = 1200
    ApiTask = {"api"}
    Misconfigs <- MCMisconfigs
    Conditions <- MCConditions
    Overrides <- MCOverrides
    FaultyScorers = {"vulnerabilities"}
    Seed <- MCSeed
    FeedCalls = 3
    MatchCalls = 2
    RiskCalls = 2
    Faults = 1
INVARIANTS
    LevelNearScore
PROPERTIES
    RowNeverGoesBack
    RiskCatchesUp
    WorkIsServed
CHECK_DEADLOCK FALSE
