SPECIFICATION LiveSpec
CONSTANTS
    p1 = p1
    p2 = p2
    s1 = s1
    s2 = s2
    shard = shard
    legacy = legacy
    stray = stray
    Replicas = {p1, p2}
    Local = p2
    Hours = {1, 2}
    Savers = {s1, s2}
    ReplicaOf <- TwoCalls
    BatchOf <- TwoBatches
    Found = {shard, legacy, stray}
    FoundKey <- BeforeKeys
    FoundHours <- BeforeHours
    Skew = 0
    MaxTime = 2
    MaxFaults = 1
INVARIANTS TypeOK SavedIsStored SummaryOfItsHour
PROPERTIES ObjectsImmutable StaleIsRefreshed
