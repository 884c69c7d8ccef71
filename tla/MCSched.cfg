SPECIFICATION Spec
CONSTANTS
    Procs = {p1, p2}
    KThreads = {main}
    Idle = idle
    Locks = {l1}
    Nobody = nobody
    Priority <- MCPriority
    MaxDepth = 2
    MaxSleep = 1
    SleepIF = {TRUE, FALSE}
INVARIANTS
    TypeOK
    NoPanic
    ReadyListExact
    MutualExclusion
    NoLostWakeup
PROPERTIES
    ImplementsRecursiveLock
