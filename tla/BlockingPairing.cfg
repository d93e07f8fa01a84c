SPECIFICATION Spec
CONSTANTS
    SDKs = {"python", "java", "go", "rust"}
    Calls = {g1, g2, w1}
    ReadCalls = {g1, g2}
    InvalidCalls = {}
    Socks = {s1, s2}
    None = None
    AutoReconnect = TRUE
    AuthToken = TRUE
    TimeoutsAt = {"first", "event"}
    Verdicts = {"ok", "err", "bad"}
    Cancellation = FALSE
    Backpressure = FALSE
    MaxPush = 0
SYMMETRY Symmetry
INVARIANTS TypeOK OwnReply InStep AuthFirst OutcomeNotHidden
PROPERTY ImplementsCallService
