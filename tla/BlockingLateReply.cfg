SPECIFICATION Spec
CONSTANTS
    SDKs = {"python"}
    Calls = {g1, g2}
    ReadCalls = {g1, g2}
    InvalidCalls = {}
    Socks = {s1, s2}
    None = None
    AutoReconnect = TRUE
    AuthToken = FALSE
    TimeoutsAt = {"first", "second"}
    Verdicts = {"ok"}
    Cancellation = FALSE
    Backpressure = FALSE
    MaxPush = 0
INVARIANT OwnReply
