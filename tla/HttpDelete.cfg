SPECIFICATION Spec
CONSTANTS
    GetCalls = {}
    DeleteCalls = {d1}
    PutCalls = {}
    PostCalls = {}
    InvalidCalls = {}
    None = None
    RetryEnabled = TRUE
    RetryMethods = {"GET", "DELETE"}
    MaxRetries = 2
    BreakerEnabled = FALSE
    Threshold = 5
    HalfOpenMax = 2
    Renewal = FALSE
INVARIANT DeleteReportsRemoval
