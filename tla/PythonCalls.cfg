SPECIFICATION Spec
CONSTANTS
    None = None
    WordBits = 15
    MaxShift = 21
    Calls <- MCCalls
    Responses <- MCResponses
    Statuses = {400, 404, 429, 500, 501, 503, 504}
    Token <- MCToken
    MaxFrame = 67
    ChunkSizes = {3, 1000}
    Faults = {"auth", "reply", "event"}
    WatchingCalls <- MCWatchingCalls
    WatchingFrames <- MCWatchingFrames
    TornCalls = {}
    MaxPending = 2
INVARIANTS
    TypeOK
    RequestFaithful
    ResultFaithful
    ReadsOneFrame
    FrameBoundary
    StrictReachesServer
