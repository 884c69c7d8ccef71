SPECIFICATION FairSpec
CONSTANTS
    Procs = {p1}
    KThreads = {main}
    Idle = idle
    Locks = {l1}
    Nobody = nobody
    Priority <- MCPriority
    MaxDepth = 1
    MaxSleep = 2
    SleepIF = {TRUE}
PROPERTIES
    ReadyGetsCpu
    WaiterIsWoken
    SleepEnds
