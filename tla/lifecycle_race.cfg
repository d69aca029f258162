CONSTANTS
    Command = {c1}
    Tokens = {k1, k2, k3}

SPECIFICATION Spec

INVARIANT TokenIsInFile
