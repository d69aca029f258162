CONSTANTS
    Command = {c1}
    Tokens = {k1, k2, k3}

SPECIFICATION FairSpec

INVARIANTS
    TypeOK
    TokenStaysInFile
    ConfigWhole
    ServiceUnderControl

PROPERTY StartResolves
