SPECIFICATION LiveSpec
CONSTANTS
    r1 = r1
    r2 = r2
    p1 = p1
    p2 = p2
    Flusher = flusher
    Readers = {r1, r2}
    Partitions = {p1, p2}
    Owner <- TwoOwners
    LogEnd = 2
    Malformed <- OneMalformed
    FlushSize = 2
    DLQFaults = TRUE
    MaxRestarts = 0
INVARIANTS
    BatchWithinFlushSize
    ActiveCountsHandlers
PROPERTIES
    ShutdownCompletes
    FetchedIsSettled
CHECK_DEADLOCK FALSE
