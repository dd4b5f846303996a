SPECIFICATION DirectSpec
CONSTANTS s1 = s1 s2 = s2 h1 = h1 h2 = h2 Free = Free
CONSTANTS
    Savers = {s1, s2}
    Requests = {s1, s2}
    Hours = {h1, h2}
    BatchOf <- CrossingBatches
    AuthEnabled = TRUE
    Traffic <- SampleTraffic
    MaxRestarts = 1
    MaxBatch = 2
INVARIANTS GroupsContiguous FileHoldsPrefix AcceptedIsWritten TornWriteIsLast FormatsAgree
PROPERTIES RequestsAreAnswered
CHECK_DEADLOCK FALSE
