SPECIFICATION Spec
CONSTANTS
    c1 = c1
    c2 = c2
    c3 = c3
    Versions = {2, 3}
    Bundles = {"good", "invalid", "broken"}
    Faulty = {"launch", "verify", "pause", "activate", "start", "health"}
    MaxUpdates = 2
    MaxFaults = 2
    MaxCuts = 1
    PartCount = 3
    Listings <- SomeListings
    Manifests <- SomeManifests
    Commands = {c1, c2, c3}
    Processes = {1, 2, 3}
    MaxKills = 1
    Inodes = {1, 2}
    InitialLines = 1
    ReadLimit = 2
    PartialLimit = 2
    MaxWritten = 4
    MaxFileChanges = 2
    Deployments = {1, 2}
    StopOnCancel = TRUE
    MaxServiceCrashes = 1
CHECK_DEADLOCK FALSE
INVARIANTS
    DownloadIsTheArchive
    
    
PROPERTIES
    
    LogIsFollowed
