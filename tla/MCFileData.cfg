SPECIFICATION Spec
CONSTANTS
    w1 = w1
    w2 = w2
    r1 = r1
    Procs = {w1, w2, r1}
    FileOf <- Owner
    ModeOf <- Modes
    Files = {1, 2}
    Cut <- Whole
    BLOCK_SIZE = 2
    ND = 2
    NI = 3
    NBlocks = 15
    BitsPerSec = 64
    Word = 256
    Writes <- Counts
    Reads <- Gets
    Offsets <- Seeks
    MaxLives <- Lives
    MaxSize <- Bounds
    MaxCrashes = 1
    HeapFull = FALSE
INVARIANTS
    NoPanic
    BlocksExact
    ReadReturnsWritten
PROPERTIES
    ImplementsAppendFile
CHECK_DEADLOCK FALSE
CONSTRAINT OneThingAtATime
