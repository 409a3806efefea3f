SPECIFICATION Spec
CONSTANTS
    MaxMsgs = 4
    MaxNow = 0
    Commands <- OneAsk
    AskTimeout = 1
    Allowance = 0
    ReplyWait = 1
    Kills = {}
    KillMidWrite = FALSE
    RecheckIsTimely = TRUE
INVARIANTS ClosedMeansNoAcceptedReply
CHECK_DEADLOCK FALSE
