SPECIFICATION FairSpec
CONSTANTS
    Calls = {c1}
    Keys = {}
    Socks = {s1, s2}
    None = None
    AutoReconnect = TRUE
    AuthToken = TRUE
    RequestTimeout = TRUE
    MaxReconnectAttempts = 0
    OverlappingConnects = FALSE
    Verdicts = {"ok"}
    MalformedPush = FALSE
    AttemptCap = 1
    MaxPush = 0
PROPERTY AuthFailureDisconnects
