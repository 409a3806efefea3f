SPECIFICATION ServicesSpec
CONSTANTS
    Own = {"o"}
    Remote = {"r"}
    MaxConnects = 1
    MaxErrors = 1
    Ids = {"x", "y"}
    Clients = {"c", "d"}
    WaitOptions <- MCWaits
    PollEvery = 2
    WaitTimeout = 5
    MaxOutput = 1
INVARIANTS
    PushedOnce
    ReportsWhatHeld
PROPERTIES
    
    BrowserCatchesUp
    CommandsEnd
    EveryWaitEnds
CHECK_DEADLOCK FALSE
