SPECIFICATION Spec
CONSTANTS
    Names = {"a", "b", "c"}
    DirArgs <- OnDirs
    FileArgs <- OnFiles
    NInodes = 5
    NoWidth = 8
    NBlocks = 8
    EPS = 3
    ND = 2
    NI = 2
    Boot <- Zeros
    OpendirMax = 4
    MaxFiles = 4
    Careless = {}
INVARIANTS
    NoPanic
    TreeSound
    MountSeesSame
    ListingComplete
    PathsAgree
CHECK_DEADLOCK FALSE
VIEW WithoutFreeBlocks
CONSTRAINT OneThingOpen
