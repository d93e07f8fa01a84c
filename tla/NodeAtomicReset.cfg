SPECIFICATION Spec
CONSTANTS
    Calls = {c1}
    Keys = {}
    Socks = {s1}
    None = None
    AutoReconnect = TRUE
    AuthToken = FALSE
    RequestTimeout = FALSE
    MaxReconnectAttempts = 1
    OverlappingConnects = FALSE
    Verdicts = {"ok"}
    MalformedPush = FALSE
    AttemptCap = 1
    MaxPush = 0
INVARIANT OutcomeNotHidden
