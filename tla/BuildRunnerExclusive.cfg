SPECIFICATION StoppedSpec
CONSTANTS
    b1 = b1
    b2 = b2
    app = app
    NoBuild = NoBuild
    NoProject = NoProject
    Builds <- TwoBuilds
    Projects <- OneProject
    ProjectOf <- AllApp
    Downstream <- NoDownstream
    Slots = 2
    RetryLimit = 0
    DisableConcurrent = TRUE
    AbortPrevious = FALSE
    Disturbances <- Nothing
CHECK_DEADLOCK FALSE
INVARIANT
    NoConcurrentBuilds
