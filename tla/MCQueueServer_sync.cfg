SPECIFICATION SafeQueueSpec
CONSTANTS
    Calls = {c1, c2, c3, c4}
    Requests = {c1, c2, c3, c4}
    Workers = {}
    Sync = TRUE
    BufferSize = 1
    MaxRetries = 0
    Threshold = 2
    Cooldown = 1
    MaxTime = 3
    AuthEnabled = TRUE
    Traffic <- PlainTraffic
SYMMETRY Symmetry
INVARIANTS
    CounterNeverStuck
    GracefulShutdown
PROPERTIES
    CircuitClosesForCause
CHECK_DEADLOCK FALSE
