SPECIFICATION FairSpec
CONSTANTS
    Calls = {c1, c2}
    Keys = {}
    Socks = {s1, s2}
    None = None
    AutoReconnect = TRUE
    AuthToken = FALSE
    RequestTimeout = TRUE
    MaxReconnectAttempts = 0
    OverlappingConnects = FALSE
    Verdicts = {"ok", "bad"}
    MalformedPush = FALSE
    AttemptCap = 1
    MaxPush = 0
PROPERTY CallsSettle
