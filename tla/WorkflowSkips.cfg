SPECIFICATION StageSpec
CONSTANTS
    Pipelines <- Skips
    Actors = {"a"}
    Revisions = {"r"}
    LaunchedActors = {}
    StoppedAfter = {}
    OperatorCommands = {}
    Faults = {}
    MaxOps = 0
    MaxFaults = 0
    MaxRuns = 1
    MaxEdits = 1
PROPERTY SkippedForCause
CHECK_DEADLOCK FALSE
