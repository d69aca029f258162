CONSTANTS
    Writer = {svc, fg}
    MaxLines = 3
    Asked = {0, 2, 3}
    DefaultLimit = 1
    MaxLimit = 2
    MaxEvents = 9
    MaxFaults = 1

SPECIFICATION Spec

INVARIANTS
    RecentEventsKept
    SizeBounded

PROPERTY RecentIsTail
