SPECIFICATION Spec
CONSTANTS
    b1 = b1
    b2 = b2
    app = app
    NoBuild = NoBuild
    NoProject = NoProject
    Builds <- TwoBuilds
    Projects <- OneProject
    ProjectOf <- AllApp
    Downstream <- NoDownstream
    Slots = 2
    RetryLimit = 1
    DisableConcurrent = TRUE
    AbortPrevious = TRUE
    Disturbances <- NoTimeouts
SYMMETRY MCSymmetry
CHECK_DEADLOCK FALSE
INVARIANTS
    RunningIsOwned
    RetriedStaysFailed
PROPERTIES
    SettledIsFinal
    ImplementsLifecycle
