SPECIFICATION Spec
CONSTANTS
    r1 = r1
    r2 = r2
    p1 = p1
    p2 = p2
    Flusher = flusher
    Readers = {r1}
    Partitions = {p1}
    Owner <- OneOwner
    LogEnd = 3
    Malformed <- NoneMalformed
    FlushSize = 1
    DLQFaults = FALSE
    MaxRestarts = 0
INVARIANTS
    FailedStaysUncommitted
CHECK_DEADLOCK FALSE
