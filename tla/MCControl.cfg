SPECIFICATION Spec
CONSTANTS
    MaxTokens = 5
    MaxStages = 3
    Jobs <- SomeJobs
    Interruptions = {"cancelled", "expired", "shutdown"}
    Channels = {"steam", "wechat"}
    Environments = {"test", "prod"}
    MaxTargets = 2
    MaxQueued = 3
    MaxMoves = 2
    r1 = r1
    r2 = r2
    r3 = r3
    r4 = r4
    r5 = r5
    r6 = r6
    r7 = r7
    r8 = r8
    r9 = r9
    Requests = {r1, r2}
    Source <- ManualSource
    IntakeProjects = {1}
    MaxRows = 3
    MaxCommits = 0
    MaxEdits = 0
    MaxRestarts = 1
    IntakeRetries = 1
    s1 = s1
    s2 = s2
    g1 = g1
    g2 = g2
    h1 = h1
    Servers = {s1, s2}
    Binaries = {12, 15}
    OldLedgers = {0, 1, 2, 6, 10, 12, 14, 15}
    MaxCrashes = 2
    Cleaners = {g1, g2}
    Retain = 1
    RetryLimit = 1
    MaxBuilds = 3
    MaxTriggers = 3
    MaxPins = 0
    MaxRetentionCrashes = 1
    Writers = {h1}
    MaxProjects = 2
    MaxProjectWrites = 2
    MaxReorders = 2
CHECK_DEADLOCK FALSE

    
    
PROPERTIES
    QueueRunsAsArranged
    
    MigrationsConverge
    PruningIsInvisible
    OrderIsKept
