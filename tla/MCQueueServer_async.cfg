SPECIFICATION QueueSpec
CONSTANTS
    Calls = {c1, c2}
    Requests = {c1, c2}
    Workers = {w1, w2}
    Sync = FALSE
    BufferSize = 1
    MaxRetries = 1
    Threshold = 1
    Cooldown = 1
    MaxTime = 1
    AuthEnabled = TRUE
    Traffic <- PlainTraffic
INVARIANTS
    QueueTypeOK
    AcceptedIsHeld
    RefusedIsUnpublished
    ClosedMeansSettled
    GracefulShutdown
    NoInternalError
PROPERTIES
    AcceptedIsDelivered
    RequestsAreAnswered
    ExitsAfterSigterm
CHECK_DEADLOCK FALSE
