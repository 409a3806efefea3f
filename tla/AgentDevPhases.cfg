SPECIFICATION Spec
CONSTANTS
    MaxPhases = 1
    MaxItems = 1
    MaxNoProgress = 1
    FindingKeys = {"f1"}
    MaxCommits = 2
    Launched = {}
    PlanSizes = {1}
    Outcomes = {"planned", "complete"}
    Commands = {}
    Faults = {"kill"}
    MaxOps = 0
    MaxFaults = 1
    MaxStarts = 2
PROPERTIES PhasesSurvive
CHECK_DEADLOCK FALSE
