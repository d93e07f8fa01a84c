SPECIFICATION Spec
CONSTANTS
    Calls = {c1, c2}
    Keys = {k1}
    Socks = {s1, s2}
    None = None
    AutoReconnect = TRUE
    AuthToken = FALSE
    RequestTimeout = TRUE
    MaxReconnectAttempts = 1
    OverlappingConnects = TRUE
    Verdicts = {"ok"}
    MalformedPush = TRUE
    AttemptCap = 1
    MaxPush = 1
SYMMETRY Symmetry
INVARIANTS AtMostOnce RefusedNeverExecuted FramesInPlace ClosedForGood
PROPERTY SettledOnce
