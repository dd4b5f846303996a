SPECIFICATION Spec
CONSTANTS
    r1 = r1
    r2 = r2
    p1 = p1
    p2 = p2
    Flusher = flusher
    Readers = {r1}
    Partitions = {p1}
    Owner <- OneOwner
    LogEnd = 4
    Malformed <- OneMalformed
    FlushSize = 2
    DLQFaults = TRUE
    MaxRestarts = 1
INVARIANTS
    TypeOK
    CommitBehindUnflushed
    CommitOnlyPersisted
    CommittedAccountedFor
    NothingForgotten
    StoredOncePerProcess
PROPERTIES
    ImplementsDelivery
CHECK_DEADLOCK FALSE
