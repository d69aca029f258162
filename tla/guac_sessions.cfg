CONSTANTS
    Row <- ThreeSessions
    Limit = 2
    Piped <- SecondSession
    MaxLate = 1
    MaxLost = 0
    MaxCrashes = 2

SPECIFICATION PaceSpec

INVARIANTS
    PassedRowsRecorded
    OpenSessionsWatched
    EndsFollowStarts
    AtMostOncePerRun
    EndsAreReal
    NoneMissedInPace
