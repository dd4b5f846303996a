SPECIFICATION Spec
CONSTANTS
    Readers = {r1, r2}
    Writers = {w1, w2}
    Probes = {p1}
    Brokers = 2
    MaxDuration = 31
    MinBackoff = 5
    MaxBackoff = 18
    LogInterval = 2
    MaxTime = 4
    MaxFaults = 4
INVARIANT WaitFollowsStreak
PROPERTIES WriterLogsSpaced HealthRecovers
