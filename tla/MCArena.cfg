SPECIFICATION HeapSpec
CONSTANTS
    Procs = {p1, p2}
    Parent = p1
    HeapSize = 3
    Per <- MCPer
    Larges = {2}
    Inherited = FALSE
INVARIANTS
    HeldNotFree
    HeldMapped
