CONSTANTS
    Agent = {svc}
    Service = svc
    Window = 3
    MaxRecord = 3
    MaxLost = 0
    MaxCrashes = 0

SPECIFICATION Spec

INVARIANT EveryAcceptLogged
