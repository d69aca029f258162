CONSTANTS
    Flow = {f1, f2}
    Tokens = {"t1", "t2"}
    First = "t1"
    MaxVersion = 2
    MaxChanges = 1
    MaxLoads = 1

SPECIFICATION FairSpec

PROPERTIES
    SettlesOnTruth
    OldTokenLeaves
    LoginLeadsIn
