SPECIFICATION Spec
CONSTANTS
    s1 = s1
    s2 = s2
    Free = Free
    Savers = {s1, s2}
    Hours = {1, 2}
    BatchOf <- LateRecords
    MaxTime = 2
    MaxFaults = 0
INVARIANT SkipIsJustified
