CONSTANTS
    Client = {c1, c2}
    Base <- OneService
    Tunnel = "cloudflared"
    TunnelFile = TRUE
    EnvToken = FALSE
    LogonTask = logon_task
    MaxEdits = 1
    MaxFaults = 1

SPECIFICATION FairSpec

INVARIANTS
    OkMeansUp
    OkMeansStopped

PROPERTIES
    ComesBack
    OthersAnswered
