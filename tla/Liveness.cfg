SPECIFICATION LiveSpec
CONSTANTS
    b1 = b1
    b2 = b2
    app = app
    NoBuild = NoBuild
    NoProject = NoProject
    Builds <- TwoBuilds
    Projects <- OneProject
    ProjectOf <- AllApp
    Downstream <- ItsOwn
    Slots = 2
    RetryLimit = 0
    DisableConcurrent = TRUE
    AbortPrevious = FALSE
    Disturbances = {"shutdown"}
CHECK_DEADLOCK FALSE
INVARIANT
    NoRunningItemLeft
PROPERTIES
    PendingIsServed
    SuccessFiresTrigger
    StopSettles
