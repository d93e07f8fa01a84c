SPECIFICATION Spec
CONSTANTS
    Calls = {c1, c2, c3}
    Keys = {k1, k2}
    Socks = {s1, s2}
    None = None
    AutoReconnect = TRUE
    AuthToken = FALSE
    RequestTimeout = FALSE
    MaxReconnectAttempts = 0
    OverlappingConnects = FALSE
    Verdicts = {"ok"}
    MalformedPush = FALSE
    AttemptCap = 1
    MaxPush = 1
SYMMETRY Symmetry
INVARIANTS CallbacksSubscribed NoStrandedQueue
