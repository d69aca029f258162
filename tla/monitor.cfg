CONSTANTS
    Handler = {h1}
    Reliable = {"rdp"}
    MaxItems <- TwoLogons

SPECIFICATION HangSpec

INVARIANTS
    ErrorIsLastOutcome
    SavedNotRepeated
    SavedWasHanded

PROPERTIES
    StatusAnswered
    ReliableReports
