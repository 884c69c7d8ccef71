SPECIFICATION FairSpec
CONSTANTS
    Threads = {t1, t2}
    Reads = {1, 2, 3, 5}
    Writes = {1, 2, 3}
    MaxOp = 2
    TimeLimit = 2
    Nobody = nobody
INVARIANTS
    OnlySlowDiskPanics
    OnlyLongWritesOverlap
    Complete
PROPERTIES
    RequestReturns
CHECK_DEADLOCK FALSE
