SPECIFICATION FairSpec
CONSTANTS
    SDKs = {"python", "java", "go", "rust"}
    Calls = {g1, w1, w2}
    ReadCalls = {g1}
    InvalidCalls = {w2}
    Socks = {s1, s2}
    None = None
    AutoReconnect = TRUE
    AuthToken = TRUE
    TimeoutsAt = {"first", "second", "auth", "event"}
    Verdicts = {"ok"}
    Cancellation = TRUE
    Backpressure = TRUE
    MaxPush = 1
INVARIANTS BoundedExecutions PlainFailureNotExecuted
PROPERTY LockReleased
