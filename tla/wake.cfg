CONSTANTS
    Texts <- SomeTexts
    Broadcasts = {"", "unreadable", "0.0.0.0", "::", "ff02::1",
                  "192.168.1.255", "::ffff:192.168.1.255"}
    Interfaces <- SomeInterfaces

SPECIFICATION Spec

INVARIANTS
    WakesTargetOnly
    AnswerIsTrue

CHECK_DEADLOCK FALSE
