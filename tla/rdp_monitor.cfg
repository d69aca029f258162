CONSTANTS
    Agent = {svc, fg}
    Service = svc
    Window = 2
    MaxRecord = 3
    MaxLost = 1
    MaxCrashes = 1

SPECIFICATION FairSpec

INVARIANTS
    TypeOK
    CursorWasLogged

PROPERTIES
    AscendingPerRun
    LatestAcceptLogged
