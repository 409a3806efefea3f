SPECIFICATION FairSpec
CONSTANTS
    MaxPhases = 1
    MaxItems = 1
    MaxNoProgress = 1
    FindingKeys = {"f1"}
    MaxCommits = 4
    Launched = {"reviewer"}
    PlanSizes = {1}
    Outcomes = {"planned", "done", "complete", "approve", "blocked"}
    Commands = {"pause", "resume", "stop", "acknowledge", "retry"}
    Faults = {"kill", "interrupt", "send", "prompt", "reporter"}
    MaxOps = 2
    MaxFaults = 1
    MaxStarts = 2
PROPERTIES TurnsAreWanted StopEndsRunner AcceptedReportIsApplied
CHECK_DEADLOCK FALSE
