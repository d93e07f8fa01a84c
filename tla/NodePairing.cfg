SPECIFICATION Spec
CONSTANTS
    Calls = {c1, c2, c3}
    Keys = {}
    Socks = {s1, s2}
    None = None
    AutoReconnect = TRUE
    AuthToken = TRUE
    RequestTimeout = TRUE
    MaxReconnectAttempts = 1
    OverlappingConnects = FALSE
    Verdicts = {"ok", "err", "bad"}
    MalformedPush = FALSE
    AttemptCap = 1
    MaxPush = 0
SYMMETRY Symmetry
INVARIANTS TypeOK OwnReply OneConnection AuthFirst
PROPERTY ImplementsCallService
