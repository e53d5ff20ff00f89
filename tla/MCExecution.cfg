SPECIFICATION Spec
CONSTANTS
    w1 = w1
    b1 = b1
    b2 = b2
    c1 = c1
    c2 = c2
    NoWorker = NoWorker
    Workers = {w1}
    RemoteBuilds = {b1}
    Labels <- LinuxWorker
    Requirements = {"linux"}
    MaxConcurrentBuilds = 1
    Artifacts = 1
    RemoteFaults = {"partition", "workerCrash", "crash", "shutdown", "stop"}
    MaxOutput = 2
    Clients = {c1, c2}
    Rooms = {"ra", "rb"}
    Queue = 1
    MaxLines = 4
    BatchLines = 2
    MaxDelay = 2
    RetainedLines = 3
CHECK_DEADLOCK FALSE
INVARIANTS
    LeasesAreCounted
PROPERTIES
    CommandsEndCleanly
    RemoteBuildsSettle
    LogReachesDatabase
    
