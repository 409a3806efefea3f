SPECIFICATION Spec
CONSTANTS
    MaxPhases = 1
    MaxItems = 1
    MaxNoProgress = 1
    FindingKeys = {"f1"}
    MaxCommits = 2
    Launched = {}
    PlanSizes = {1}
    Outcomes = {"planned", "complete"}
    Commands = {"retry"}
    Faults = {}
    MaxOps = 1
    MaxFaults = 0
    MaxStarts = 1
INVARIANT RetryTypesAgain
CHECK_DEADLOCK FALSE
