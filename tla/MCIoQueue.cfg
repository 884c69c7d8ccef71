SPECIFICATION FairSpec
CONSTANTS
    StdinReaders = {k1}
    PipeReaders = {r1, r2}
    PipeWriters = {w1}
    PipeStdin = {}
    Keys = {a, b}
    Chars = {a, b}
    Nobody = nobody
    bufsize = 4
    MaxCount = 3
INVARIANTS
    SleepsOnlyWhenStuck
PROPERTIES
    ImplementsFifo
    BlockedCallResumes
