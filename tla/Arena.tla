-------------------------------- MODULE Arena --------------------------------
(***************************************************************************)
(* sys_malloc and sys_free (kernel/memory.c) for user processes: pages cut *)
(* into blocks of one size (arenas), a free list per size in each PCB      *)
(* (u_block_desc), large blocks of whole pages, and what fork makes of the *)
(* heap (userprog/fork.c).                                                 *)
(*                                                                         *)
(* A block is named by its address, <<page, index>>.  Both calls hold the  *)
(* pool's lock and run with interrupts off: each is one step.  A fork      *)
(* makes parent and child share the frames of the heap, and sys_malloc and *)
(* sys_free write to a shared frame without a copy (module Cow): what one  *)
(* of the two writes into an arena's header the other one sees.  A process *)
(* forks once, and user code does not write to the shared pages.  The      *)
(* names Heap... let one module of proofs extend Process and this one.     *)
(***************************************************************************)
EXTENDS Integers, FiniteSets, KList

CONSTANTS
    Procs,      \* processes
    Parent,     \* the process that exists at the start
    HeapSize,   \* pages of the heap
    Per,        \* blocks_per_arena, a function on the size classes
    Larges,     \* pages of a large block
    Inherited   \* does the child free blocks it inherited?

Classes == DOMAIN Per
HeapPages == 1..HeapSize

ASSUME ArenaAssumption ==
    /\ Parent \in Procs /\ HeapSize \in Nat /\ Inherited \in BOOLEAN
    /\ IsFiniteSet(Procs) /\ Cardinality(Procs) = 2
    /\ Classes \subseteq Nat \ {0}     \* class 0 stands for no descriptor
    /\ \A c \in Classes : Per[c] \in Nat \ {0}
    /\ Larges \subseteq Nat \ {0, 1}

VARIABLES
    free,       \* u_block_desc[c].free_list of every process
    arena,      \* process -> page -> the header of the arena that starts there
    mapped,     \* pages a process has in its address space
    held,       \* blocks malloc returned to a process and it has not freed
    shared,     \* pages at which parent and child map the same frame
    old,        \* blocks that were held at the fork
    alive,      \* processes that exist
    failed      \* an ASSERT failed

heap_vars == <<free, arena, mapped, held, shared, old, alive, failed>>

NoArena == [large |-> FALSE, desc |-> Parent, class |-> 0, cnt |-> 0]

\* arena2block for every index
Cut(g, c) == [i \in 1..Per[c] |-> <<g, i>>]

\* Mutant: only the first page of the run is tested.
Fits_FirstPage(p, n) == {s \in 1..HeapSize + 1 - n : s \notin mapped[p]}

\* vaddr_get(PF_USER, n): starts of runs of n free pages
Fits(p, n) == {s \in 1..HeapSize + 1 - n : s..s + n - 1 \cap mapped[p] = {}}
Lowest(S) == CHOOSE i \in S : \A j \in S : i <= j

-----------------------------------------------------------------------------
\* A write of header h by process p into page g
SetHeader(p, g, h) ==
    arena' = [r \in Procs |-> IF r = p \/ g \in shared
                              THEN [arena[r] EXCEPT ![g] = h] ELSE arena[r]]

\* Mutant: the block stays in the list.
Malloc_NoPop(p, c) ==
    LET new == free[p][c] = << >>
        q   == IF new THEN Cut(Lowest(Fits(p, 1)), c) ELSE free[p][c]
        b   == Head(q) IN
    /\ ~failed /\ p \in alive /\ new => Fits(p, 1) # {}
    /\ free' = [free EXCEPT ![p][c] = q]
    /\ SetHeader(p, b[1], [large |-> FALSE, desc |-> p, class |-> c, cnt |-> Per[c] - 1])
    /\ mapped' = [mapped EXCEPT ![p] = @ \cup {b[1]}]
    /\ held' = [held EXCEPT ![p] = @ \cup {b}]
    /\ UNCHANGED <<shared, old, alive, failed>>

\* A block of class c; if the list is empty a page becomes an arena.
Malloc(p, c) ==
    LET new == free[p][c] = << >>
        q   == IF new THEN Cut(Lowest(Fits(p, 1)), c) ELSE free[p][c]
        b   == Head(q)
        a   == arena[p][b[1]] IN
    /\ ~failed /\ p \in alive
    /\ new => Fits(p, 1) # {}
    /\ free' = [free EXCEPT ![p][c] = Tail(q)]
    /\ SetHeader(p, b[1],
          IF new THEN [large |-> FALSE, desc |-> p, class |-> c, cnt |-> Per[c] - 1]
                 ELSE [a EXCEPT !.cnt = @ - 1])
    /\ mapped' = [mapped EXCEPT ![p] = @ \cup {b[1]}]
    /\ held' = [held EXCEPT ![p] = @ \cup {b}]
    /\ UNCHANGED <<shared, old, alive, failed>>

\* A block of n whole pages, header included
MallocLarge(p, n) ==
    LET s == Lowest(Fits(p, n)) IN
    /\ ~failed /\ p \in alive /\ Fits(p, n) # {}
    /\ SetHeader(p, s, [large |-> TRUE, desc |-> p, class |-> 0, cnt |-> n])
    /\ mapped' = [mapped EXCEPT ![p] = @ \cup s..s + n - 1]
    /\ held' = [held EXCEPT ![p] = @ \cup {<<s, 0>>}]
    /\ UNCHANGED <<free, shared, old, alive, failed>>

\* mfree_page(PF_USER, g, n)
Unmap(p, g, n) ==
    /\ mapped' = [mapped EXCEPT ![p] = @ \ (g..g + n - 1)]
    /\ shared' = shared \ (g..g + n - 1)

\* The blocks process p may pass to free
Frees(p) == IF p = Parent \/ Inherited THEN held[p] ELSE held[p] \ old

FreeLarge(p, b) ==
    /\ ~failed /\ p \in alive /\ arena[p][b[1]].large
    /\ Unmap(p, b[1], arena[p][b[1]].cnt)
    /\ arena' = [arena EXCEPT ![p][b[1]] = NoArena]
    /\ held' = [held EXCEPT ![p] = @ \ {b}]
    /\ old' = IF p = Parent THEN old ELSE old \ {b}
    /\ UNCHANGED <<free, alive, failed>>

\* list_remove of every block of page g, in the order of their addresses
Unlist(q, g, c) ==
    LET rest[n \in 0..Per[c]] ==
            IF n = 0 THEN q ELSE list_remove(<<g, n>>, rest[n - 1])
    IN  rest[Per[c]]

\* The block goes to the list of the PCB the header names; an arena whose
\* blocks are all free is taken apart and its page freed.
Free(p, b) ==
    LET a == arena[p][b[1]]
        q == Append(free[a.desc][a.class], b)
        header == [a EXCEPT !.cnt = @ + 1] IN
    /\ ~failed /\ p \in alive /\ ~a.large
    /\ held' = [held EXCEPT ![p] = @ \ {b}]
    /\ IF header.cnt = Per[a.class]
       THEN /\ failed' = \E i \in 1..Per[a.class] : ~InList(<<b[1], i>>, q)
            /\ free' = [free EXCEPT ![a.desc][a.class] =
                           IF failed' THEN q ELSE Unlist(q, b[1], a.class)]
            /\ arena' = [r \in Procs |->
                  IF r = p THEN [arena[r] EXCEPT ![b[1]] = NoArena]
                  ELSE IF b[1] \in shared THEN [arena[r] EXCEPT ![b[1]] = header]
                  ELSE arena[r]]
            /\ Unmap(p, b[1], 1)
       ELSE /\ free' = [free EXCEPT ![a.desc][a.class] = q]
            /\ SetHeader(p, b[1], header)
            /\ UNCHANGED <<mapped, shared, failed>>
    /\ old' = IF p = Parent THEN old ELSE old \ {b}
    /\ UNCHANGED alive

\* sys_fork: the child gets the pages, and empty lists (block_desc_init)
Fork(c) ==
    /\ ~failed /\ c \notin alive
    /\ mapped' = [mapped EXCEPT ![c] = mapped[Parent]]
    /\ held' = [held EXCEPT ![c] = held[Parent]]
    /\ arena' = [arena EXCEPT ![c] = arena[Parent]]
    /\ shared' = mapped[Parent]
    /\ old' = held[Parent]
    /\ alive' = alive \cup {c}
    /\ UNCHANGED <<free, failed>>

-----------------------------------------------------------------------------
HeapInit ==
    /\ free = [p \in Procs |-> [c \in Classes |-> << >>]]
    /\ arena = [p \in Procs |-> [g \in HeapPages |-> NoArena]]
    /\ mapped = [p \in Procs |-> {}]
    /\ held = [p \in Procs |-> {}]
    /\ shared = {} /\ old = {}
    /\ alive = {Parent}
    /\ failed = FALSE

HeapNext ==
    \E p \in Procs :
        \/ \E c \in Classes : Malloc(p, c)
        \/ \E n \in Larges : MallocLarge(p, n)
        \/ \E b \in Frees(p) : Free(p, b) \/ FreeLarge(p, b)
        \/ Fork(p)

HeapSpec == HeapInit /\ [][HeapNext]_heap_vars

-----------------------------------------------------------------------------
(* Properties *)

\* No block is handed out twice: what a process holds is not in a free list it
\* allocates from (sys_malloc pops, sys_free appends).
HeldNotFree ==
    \A p \in alive : \A c \in Classes :
        NoRepeat(free[p][c]) /\ \A b \in held[p] : ~InList(b, free[p][c])

\* What a process holds lies in pages it still has, and two held blocks do not
\* overlap, a large one and the arenas behind it included: an arena's page is
\* freed with its last block only.
HeldMapped ==
    \A p \in alive : \A b \in held[p] :
        LET last == IF b[2] = 0 THEN b[1] + arena[p][b[1]].cnt - 1 ELSE b[1] IN
        /\ b[1]..last \subseteq mapped[p]
        /\ \A d \in held[p] \ {b} : d[1] \notin b[1] + 1..last
                                    /\ (d[1] = b[1] => b[2] # 0)

\* free_cnt is the number of the arena's blocks in the list, and the ASSERT of
\* sys_free that takes an arena apart holds: no block is lost.
FreeCountExact ==
    /\ ~failed
    /\ \A p \in alive : \A g \in mapped[p] :
          LET a == arena[p][g] IN
          a.class # 0 /\ a.desc = p =>
              a.cnt = Cardinality({i \in 1..Per[a.class] :
                                      InList(<<g, i>>, free[p][a.class])})
=============================================================================
