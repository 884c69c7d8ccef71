SPECIFICATION Spec
CONSTANTS
    Procs = {p1, p2, p3}
    First = p1
    NPages = 1
    UserFrames = {1, 2, 3}
    KernelFrames = {4, 5, 6, 7}
    Values = {0, 1}
    Sizes = {1}
    SharedWrites = FALSE
INVARIANTS
    Isolation
    RefExact
