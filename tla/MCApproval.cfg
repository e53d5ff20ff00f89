SPECIFICATION Spec
CONSTANTS
    b1 = b1
    b2 = b2
    app = app
    ann = ann
    bob = bob
    NoBuild = NoBuild
    NoProject = NoProject
    Builds <- OneBuild
    Projects <- OneProject
    ProjectOf <- AllApp
    Downstream <- NoDownstream
    Slots = 1
    RetryLimit = 0
    DisableConcurrent = FALSE
    AbortPrevious = FALSE
    Disturbances <- Nothing
    Gated <- OneProject
    Resolvers <- TwoResolvers
    RecordMayFail = TRUE
CHECK_DEADLOCK FALSE
INVARIANT
    StartupNeedsApproval
PROPERTY
    ApprovalsEnd
