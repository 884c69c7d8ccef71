--------------------------------- MODULE Cow ---------------------------------
(***************************************************************************)
(* Copy-on-write user memory: the page tables that fork shares             *)
(* (userprog/fork.c, full_childProcess_pageTable), the write-protection    *)
(* fault (do_wp_page), the reference counts mem[], and the allocation and  *)
(* freeing of user pages (kernel/memory.c).                                *)
(*                                                                         *)
(* Every call here runs with interrupts off and is one step.  CR0.WP is    *)
(* never set, so a write by the kernel into a user page (sys_read, wait,   *)
(* malloc, the loader of exec) does not fault.                             *)
(***************************************************************************)
EXTENDS Integers, FiniteSets

CONSTANTS
    Procs,          \* processes
    First,          \* the process that exists at the start
    NPages,         \* user pages of an address space
    UserFrames,     \* frames of user_pool, a set of naturals
    KernelFrames,   \* free frames of kernel_pool, a set of naturals
    Values,         \* contents of a page
    Sizes,          \* pages sys_malloc takes at once: 1 for an arena, else >= 2
    SharedWrites    \* do system calls also write into pages that are shared?

Pages  == 1..NPages
Frames == UserFrames \cup KernelFrames
None   == 0
NoPte  == [frame |-> None, rw |-> FALSE]

ASSUME CowAssumption ==
    /\ First \in Procs /\ IsFiniteSet(Procs) /\ NPages \in Nat
    /\ IsFiniteSet(Frames) /\ Frames \subseteq Nat \ {0}
    /\ UserFrames \cap KernelFrames = {}
    /\ 0 \in Values
    /\ Sizes \subseteq Nat \ {0} /\ SharedWrites \in BOOLEAN

VARIABLES
    pt,         \* page tables: process -> page -> [frame, rw]
    mem,        \* mem[]: how many page table entries map a frame
    used,       \* the bitmaps of the two pools
    data,       \* contents of the frames
    blocks,     \* process -> blocks [s, n] its heap handed out
    alive,      \* processes that exist
    panic,      \* an ASSERT failed
    image       \* what each process last wrote, page by page (history)

vars == <<pt, mem, used, data, blocks, alive, panic, image>>

Lowest(S) == CHOOSE i \in S : \A j \in S : i <= j
Mapped(p) == {v \in Pages : pt[p][v] # NoPte}
Span(b)   == b.s..b.s + b.n - 1

-----------------------------------------------------------------------------
\* palloc, n times: the lowest free frames F of a pool (an exhausted pool,
\* where bitmap_scan asserts, is MapFull of module Bitmap)
Takes(F, pool, n) ==
    /\ F \subseteq pool \ used /\ Cardinality(F) = n
    /\ \A f \in F, g \in (pool \ used) \ F : f < g

\* malloc_page(PF_USER, n) for a large block: the lowest run of n free pages
Malloc(p, n) ==
    LET fits == {s \in 1..NPages + 1 - n : Span([s |-> s, n |-> n]) \cap Mapped(p) = {}}
        b    == [s |-> Lowest(fits), n |-> n] IN
    /\ ~panic /\ p \in alive /\ fits # {}
    /\ \E F \in SUBSET UserFrames :
          /\ Takes(F, UserFrames, n)
          /\ \E g \in [Span(b) -> F] :
                /\ \A v, w \in Span(b) : v < w => g[v] < g[w]
                /\ pt' = [pt EXCEPT ![p] = [v \in Pages |->
                      IF v \in Span(b) THEN [frame |-> g[v], rw |-> TRUE] ELSE @[v]]]
          /\ used' = used \cup F
          /\ mem' = [f \in Frames |-> IF f \in F THEN 1 ELSE mem[f]]
          /\ data' = [f \in Frames |-> IF f \in F THEN 0 ELSE data[f]]
    /\ blocks' = [blocks EXCEPT ![p] = @ \cup {b}]
    /\ image' = [image EXCEPT ![p] = [v \in Pages |-> IF v \in Span(b) THEN 0 ELSE @[v]]]
    /\ UNCHANGED <<alive, panic>>

\* Mutant: a shared frame is given back, too.
Release_Shared(p, V) ==
    LET F == {pt[p][v].frame : v \in V} IN
    /\ mem' = [f \in Frames |-> IF f \in F THEN mem[f] - 1 ELSE mem[f]]
    /\ used' = used \ F

\* free_a_phy_page on the frames that process p maps at the pages V
Release(p, V) ==
    LET F == {pt[p][v].frame : v \in V}
        last == {f \in F : mem[f] = 1} IN
    /\ mem' = [f \in Frames |-> IF f \in F THEN mem[f] - 1 ELSE mem[f]]
    /\ used' = used \ last

\* mfree_page of a large block: the pool of the first frame decides, and an
\* ASSERT checks that the others belong to the same pool.
Free(p, b) ==
    LET user == pt[p][b.s].frame \in UserFrames IN
    /\ ~panic /\ p \in alive /\ b \in blocks[p]
    /\ panic' = \E v \in Span(b) : \/ mem[pt[p][v].frame] = 0
                                   \/ (pt[p][v].frame \in UserFrames) # user
    /\ Release(p, Span(b))
    /\ pt' = [pt EXCEPT ![p] = [v \in Pages |-> IF v \in Span(b) THEN NoPte ELSE @[v]]]
    /\ blocks' = [blocks EXCEPT ![p] = @ \ {b}]
    /\ image' = [image EXCEPT ![p] = [v \in Pages |-> IF v \in Span(b) THEN 0 ELSE @[v]]]
    /\ UNCHANGED <<data, alive>>

-----------------------------------------------------------------------------
\* do_wp_page copies the page into a new frame of kernel_pool; another one,
\* taken first, is the buffer of the copy and is given back.
Copy(p, v, new, x) ==
    LET old == pt[p][v].frame IN
    /\ pt' = [pt EXCEPT ![p][v] = [frame |-> new, rw |-> TRUE]]
    /\ mem' = [mem EXCEPT ![new] = 1, ![old] = @ - 1]
    /\ used' = used \cup {new}
    /\ data' = [data EXCEPT ![new] = x]

\* Mutant: a frame with two users counts as exclusive.
Write_TwoUsers(p, v, x) ==
    /\ ~panic /\ p \in alive /\ v \in Mapped(p) /\ mem[pt[p][v].frame] <= 2
    /\ image' = [image EXCEPT ![p][v] = x]
    /\ pt' = [pt EXCEPT ![p][v].rw = TRUE]
    /\ data' = [data EXCEPT ![pt[p][v].frame] = x]
    /\ UNCHANGED <<mem, used, blocks, alive, panic>>

\* A write by user code, with the page fault it may cause
Write(p, v, x) ==
    /\ ~panic /\ p \in alive /\ v \in Mapped(p) /\ x # data[pt[p][v].frame]
    /\ image' = [image EXCEPT ![p][v] = x]
    /\ LET f == pt[p][v].frame IN
       \/ /\ pt[p][v].rw \/ mem[f] = 1
          /\ pt' = [pt EXCEPT ![p][v].rw = TRUE]
          /\ data' = [data EXCEPT ![f] = x]
          /\ UNCHANGED <<mem, used>>
       \/ /\ ~pt[p][v].rw /\ mem[f] # 1
          /\ \E buffer, new \in KernelFrames :
                /\ Takes({buffer, new}, KernelFrames, 2) /\ buffer < new
                /\ Copy(p, v, new, x)
    /\ UNCHANGED <<blocks, alive, panic>>

\* A write by a system call: no protection applies.
KernelWrite(p, v, x) ==
    /\ ~panic /\ p \in alive /\ v \in Mapped(p)
    /\ mem[pt[p][v].frame] = 1 \/ SharedWrites
    /\ data' = [data EXCEPT ![pt[p][v].frame] = x]
    /\ image' = [image EXCEPT ![p][v] = x]
    /\ UNCHANGED <<pt, mem, used, blocks, alive, panic>>

-----------------------------------------------------------------------------
\* copy_page_tables: full_childProcess_pageTable on every page of the parent
Fork(p, c) ==
    /\ ~panic /\ p \in alive /\ c \notin alive
    /\ LET ro == [v \in Pages |-> [pt[p][v] EXCEPT !.rw = FALSE]] IN
       pt' = [pt EXCEPT ![p] = ro, ![c] = ro]
    /\ mem' = [f \in Frames |-> mem[f] + Cardinality({v \in Pages : pt[p][v].frame = f})]
    /\ blocks' = [blocks EXCEPT ![c] = blocks[p]]
    /\ image' = [image EXCEPT ![c] = image[p]]
    /\ alive' = alive \cup {c}
    /\ UNCHANGED <<used, data, panic>>

\* release_prog_resource of sys_exit
Exit(p) ==
    /\ ~panic /\ p \in alive /\ p # First
    /\ Release(p, Mapped(p))
    /\ pt' = [pt EXCEPT ![p] = [v \in Pages |-> NoPte]]
    /\ blocks' = [blocks EXCEPT ![p] = {}]
    /\ alive' = alive \ {p}
    /\ panic' = \E v \in Mapped(p) : mem[pt[p][v].frame] = 0
    /\ image' = [image EXCEPT ![p] = [v \in Pages |-> 0]]
    /\ UNCHANGED data

-----------------------------------------------------------------------------
Init ==
    /\ pt = [p \in Procs |-> [v \in Pages |-> NoPte]]
    /\ mem = [f \in Frames |-> 0]
    /\ used = {}
    /\ data = [f \in Frames |-> 0]
    /\ blocks = [p \in Procs |-> {}]
    /\ alive = {First}
    /\ panic = FALSE
    /\ image = [p \in Procs |-> [v \in Pages |-> 0]]

Next ==
    \E p \in Procs :
        \/ \E n \in Sizes : Malloc(p, n)
        \/ \E b \in blocks[p] : Free(p, b)
        \/ \E v \in Pages, x \in Values : Write(p, v, x) \/ KernelWrite(p, v, x)
        \/ \E c \in Procs : Fork(p, c)
        \/ Exit(p)

Spec == Init /\ [][Next]_vars

-----------------------------------------------------------------------------
(* Properties *)

\* Every variable holds a value of the C type it stands for (page tables,
\* mem[], the pool bitmaps).
TypeOK ==
    /\ pt \in [Procs -> [Pages -> [frame : Frames \cup {None}, rw : BOOLEAN]]]
    /\ mem \in [Frames -> Nat]
    /\ used \subseteq Frames
    /\ data \in [Frames -> Values]
    /\ blocks \in [Procs -> SUBSET [s : Pages, n : Nat \ {0}]]
    /\ alive \subseteq Procs
    /\ panic \in BOOLEAN
    /\ image \in [Procs -> [Pages -> Values]]

\* Address spaces are independent: a process finds in each of its pages what it
\* wrote there last, whatever was forked, written, freed or reused meanwhile.
Isolation ==
    \A p \in alive : \A v \in Mapped(p) : data[pt[p][v].frame] = image[p][v]

\* mem[] counts the page table entries of a frame, and a frame is marked in its
\* pool exactly while some entry maps it: no frame leaks, none is reused early
\* (palloc, free_a_phy_page, full_childProcess_pageTable, do_wp_page).
RefExact ==
    \A f \in Frames :
        /\ mem[f] = Cardinality({x \in Procs \X Pages : pt[x[1]][x[2]].frame = f})
        /\ f \in used <=> mem[f] > 0

\* A frame that somebody may write without a fault is mapped once.
WritableNotShared ==
    \A p \in Procs : \A v \in Pages : pt[p][v].rw => mem[pt[p][v].frame] = 1

\* No ASSERT of mfree_page or free_a_phy_page fails: a block that malloc handed
\* out can be freed.
NoPanic == ~panic
=============================================================================
