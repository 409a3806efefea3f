SPECIFICATION AgentsSpec
CONSTANTS
    MaxPhases = 2
    MaxItems = 2
    MaxNoProgress = 1
    FindingKeys = {"f1"}
    MaxCommits = 6
    Launched = {"coordinator"}
    PlanSizes = {1}
    Outcomes = {"planned", "done", "complete", "approve", "request_changes", "blocked"}
    Commands = {"pause", "resume", "stop", "acknowledge", "retry"}
    Faults = {"kill", "interrupt", "send", "prompt", "pane", "worktree", "reporter"}
    MaxOps = 1
    MaxFaults = 1
    MaxStarts = 2
    Pids = {1, 2}
    KindOf <- MCKindOf
    MaxDepth = 2
    MaxFound = 2
    Ttl = 2
    ScanTakes = 1
    LastTime = 4
    MaxHooked = 2
    MaxStored = 2
    HookGrace = 0
    PruneGrace = 0
    LastHookTime = 1
    StampsAtOnce = TRUE
    Debounce = 1
    ScanGap = 1
    DownTime = 3
    MaxChanges = 2
    MaxDaemons = 2
    LastActivity = 5
    Viewers = {1, 2}
    Relays = {{1, 2}, {1}}
    OldViewers = {2}
    Lines = {"a"}
    Window = 2
    MaxScreens = 3
    MaxSent = 1
    MaxTroubles = 1
    Providers = {"claude", "codex"}
    LimitLasts = {1, 2}
    Recheck = 1
    MaxQuotaOps = 2
    MaxQuotaKills = 1
    MaxLimits = 2
    LastQuotaTime = 3
    Browsers = {"b", "c"}
    Hubbed = {"b"}
    Kinds = {"send", "run", "key", "other"}
    MaxInputs = 2
    MaxFailures = 1
    Pieces = {"", "0", "1", "7", "w", "$1", "%1", "/p"}
    SessionNames <- MCSessionNames
    WindowNames <- MCWindowNames
    CommandNames <- MCCommandNames
    Paths <- MCPaths
    Endpoints = {"e", "f"}
    Pushes = {"p", "q"}
    MaxSubscribes = 3
    MaxDeaths = 1
    RuleSets <- MCRuleSets
    Questions <- MCQuestions
    ReadsWithin = 1
    LookTakes = 1
    MaxAsked = 3
    MaxHands = 1
    LastWatched = 5
INVARIANTS
    DoneIsBacked
    ReportedAgentRan
    
    ActivityIsTrue
    
    RowsAreRead
    NoSubscriptionLost
    AcceptedIsAllowed
PROPERTIES
    ShowsTheScreen
    ResumedOnce
CHECK_DEADLOCK FALSE
