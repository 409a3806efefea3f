SPECIFICATION Spec
CONSTANTS
    Items <- MCItems
    MaxActions = 3
    MaxRuntime = 2
    IdleAfter = 1
    AssumeIdle = FALSE
    OpenTimes = {1, 2}
    QuotaOn = TRUE
    FailClosed = TRUE
    QuotaEvery = 2
    StopOnPrompt = TRUE
    Operators = {o1, o2}
    MaxCommands = 2
    MaxTime = 2
    MaxScreens = 1
    MayBeKilled = TRUE
    Starters = {s1, s2, s3}
    Restarts = {s3}
    LoopRuns = {r1, r2}
    MayCrash = TRUE
    NoOne = NoOne
    DayLength = 4
    WeekLength = 3
    OffsetBefore = 1
    OffsetAfter = 1
    Change = 0
    MaxWindows = 2
    Horizon = 15
    PromptWindow = 8
    ChoiceWindow = 10
    NearBottom = 3
    RecentLines = 6
    MaxAttachments = 2
    OldLines <- MCOld
    Menus <- MCMenus
    MaxMoves = 1
INVARIANTS
    NextOpenIsEarliest
    NoStrayInput
    NoUnexcusedDuplicate
    ReportIsTrue
PROPERTIES
    NoCatchUpBurst
    PausedMeansQuiet
    StopEndsLoop
CHECK_DEADLOCK FALSE
