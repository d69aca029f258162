CONSTANTS
    Row <- OneEach
    Limit = 1
    Piped <- NoRow
    MaxLate = 0
    MaxLost = 1
    MaxCrashes = 1

SPECIFICATION FairSpec

INVARIANT TypeOK

PROPERTIES
    CursorAdvances
    ImplementsAuditTrail
    SessionsGetReported
    WatchedEndsGetReported
