SPECIFICATION SafeQueueSpec
CONSTANTS
    Calls = {c1}
    Requests = {c1}
    Workers = {w1}
    Sync = FALSE
    BufferSize = 1
    MaxRetries = 0
    Threshold = 1
    Cooldown = 1
    MaxTime = 1
    AuthEnabled = FALSE
    Traffic <- PlainTraffic
INVARIANTS
    NoPanic
CHECK_DEADLOCK FALSE
