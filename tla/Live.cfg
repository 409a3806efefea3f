SPECIFICATION LiveSpec
CONSTANTS
    MaxMsgs = 4
    MaxNow = 1
    Commands <- AllCommands
    AskTimeout = 1
    Allowance = 0
    ReplyWait = 1
    Kills = {}
    KillMidWrite = FALSE
    RecheckIsTimely = TRUE
    Pipelines <- Workflows
    Actors = {"a", "b"}
    Revisions = {"r"}
    LaunchedActors = {"b"}
    StoppedAfter = {"b"}
    OperatorCommands = {"resolve"}
    Faults = {"kill"}
    MaxOps = 1
    MaxFaults = 1
    MaxRuns = 2
    MaxEdits = 0
CONSTRAINT FewTroubles
PROPERTIES CommandsReturn WaitingAskerIsAnswered WorkflowSettles
CHECK_DEADLOCK FALSE
