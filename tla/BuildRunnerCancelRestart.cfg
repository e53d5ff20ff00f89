SPECIFICATION StoppedSpec
CONSTANTS
    b1 = b1
    b2 = b2
    app = app
    NoBuild = NoBuild
    NoProject = NoProject
    Builds <- TwoBuilds
    Projects <- OneProject
    ProjectOf <- AllApp
    Downstream <- NoDownstream
    Slots = 1
    RetryLimit = 1
    DisableConcurrent = FALSE
    AbortPrevious = FALSE
    Disturbances <- CancelAndCrash
CHECK_DEADLOCK FALSE
PROPERTIES
    RestartSparesCancelled
