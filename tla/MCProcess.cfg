SPECIFICATION Spec
CONSTANTS
    ByteBits = 4
    Bytes = 6
    BitmapPages = 3
    FreedPages = 2
    MaxPid = 6
    ExitCodes = {0}
    MaxForks = 3
    MaxName = 19
INVARIANTS
    NoPanic
    PidsUnique
    ParentAlive
    NoMissedExit
    PagesDisjoint
    ScanIsFirstFit
