SPECIFICATION LiveSafeSpec
CONSTANTS
    MaxMsgs = 4
    MaxNow = 1
    Commands <- AllCommands
    AskTimeout = 1
    Allowance = 0
    ReplyWait = 1
    Kills = {"asker", "answerer"}
    KillMidWrite = FALSE
    RecheckIsTimely = TRUE
    Pipelines <- Workflows
    Actors = {"a", "b"}
    Revisions = {"r"}
    LaunchedActors = {"b"}
    StoppedAfter = {"b"}
    OperatorCommands = {"retry", "resume", "resolve", "pause", "stop"}
    Faults = {"kill", "interrupt", "lease", "prompt", "pane", "paste", "send", "command", "reporter"}
    MaxOps = 2
    MaxFaults = 2
    MaxRuns = 2
    MaxEdits = 1
CONSTRAINT FewTroubles
INVARIANTS TypeOK TimeoutMeansNoAcceptedReply MessagesArriveOnce NotStranded
PROPERTIES TurnsAreExclusive ProducerKeepsItsChain
CHECK_DEADLOCK FALSE
