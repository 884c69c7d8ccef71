SPECIFICATION Spec
CONSTANTS
    Procs = {p1, p2}
    First = p1
    Names = {n1, n2, n3}
    Modes = {"r", "w"}
    Inos = {1, 2, 3}
    Objs = {1, 2, 3}
    Slots = {1, 2}
    Fds = {1, 2}
    Entries = {1, 2}
    Forking = "pipes"
    FullPipe = FALSE
    PipeRace = FALSE
    MaxPos = 4
INVARIANTS
    FdsValid
    CountsExact
    PipeRingLive
PROPERTIES
    EntryKept
SYMMETRY NameSymmetry
CHECK_DEADLOCK FALSE
