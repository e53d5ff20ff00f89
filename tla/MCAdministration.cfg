SPECIFICATION Spec
CONSTANTS
    c1 = c1
    c2 = c2
    e1 = e1
    e2 = e2
    b1 = b1
    b2 = b2
    s1 = s1
    s2 = s2
    Clients = {c1, c2}
    UserNames = {"ann"}
    Roles = {"admin", "viewer"}
    MaxVersion = 2
    MaxAccounts = 3
    MaxSessions = 2
    MaxTokens = 0
    MaxStarts = 1
    Sends = {s1, s2}
    StatusOf <- Statuses
    ChannelEditors = {}
    Browsers = {b1, b2}
    MaxChannels = 2
    MaxChannelEdits = 0
    MaxCrashes = 1
    Bytes = {"a", "b", "lead", "cont", "space"}
    Values <- SecretValues
    MinLength = 2
    MaxText = 6
    MaxChunk = 3
    a1 = a1
    w1 = w1
    VarOrder <- NamesInOrder
    SavedNames = {"A", "B", "R"}
    Texts <- EnteredTexts
    Process <- OfProcess
    Declared <- OfPipeline
    Parameters <- OfBuild
    Release <- OfRelease
    Workspace <- WorkspacePath
    MaxSaves = 2
    Admins = {a1}
    Numbers = {1, 2}
    DefaultNumber = 2
    Builds = {b1}
    MaxSettingWrites = 2
    MaxDay = 3
    MaxSettingRestarts = 1
    Editors = {e1, e2}
    Secrets = {"s"}
    HostOrder <- Hosts
    Lookups <- LookedUp
    TemplateConfigs <- OfTemplates
    ProjectConfigs <- OfProjects
    MaxCredentials = 2
    MaxTemplates = 1
    MaxEdits = 3
    MaxPolls = 1
    MaxRuns = 1
    NameOrder <- PluginsInOrder
    PluginVersions = {1, 2}
    StepTypes <- DeclaredSteps
    PluginFaults = {"toggle"}
    WorkerBuilds = {w1}
    MaxPluginCalls = 5
    MaxPluginStarts = 1
    MaxHeads = 2
CHECK_DEADLOCK FALSE
INVARIANTS
    
    VariablesAreResolved
    
PROPERTIES
    AccessIsCurrent
    
    
    
