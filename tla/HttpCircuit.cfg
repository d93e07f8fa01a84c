SPECIFICATION FairSpec
CONSTANTS
    GetCalls = {g1}
    DeleteCalls = {d1}
    PutCalls = {}
    PostCalls = {p1}
    InvalidCalls = {g1}
    None = None
    RetryEnabled = TRUE
    RetryMethods = {"GET", "DELETE"}
    MaxRetries = 2
    BreakerEnabled = TRUE
    Threshold = 2
    HalfOpenMax = 2
    Renewal = TRUE
INVARIANTS TypeOK FailuresCounted
PROPERTIES ImplementsCallService CircuitHeals
