SPECIFICATION Spec
CONSTANTS
    Commands = {d1, d2}
    OptionSets <- MCOptionSets
    ReadySettle = 2
    SubmitRetries = 1
    MaxLost = 2
    MaxHuman = 1
    Names = {"a", "b"}
    SessionCommands = {"k"}
    MaxClosed = 1
    MaxStarts = 4
    Saved = {"a", "b"}
    Retention = 2
    MaxSaves = 4
    MaxTrouble = 2
    Hosts = {h, i}
    IdleAfter = 1
    ScanEvery = 1
    FetchTakes = 1
INVARIANTS
    NothingInterrupted
    
    SeenIsRecoverable
    RestoreIsSafe
    FallsIdle
CONSTRAINT OneTrouble
SYMMETRY Same
CHECK_DEADLOCK FALSE
