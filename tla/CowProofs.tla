------------------------------ MODULE CowProofs ------------------------------
(***************************************************************************)
(* Proofs about Cow for every number of processes, pages and frames.       *)
(***************************************************************************)
EXTENDS Cow, FiniteSetTheorems, KernelFacts

-----------------------------------------------------------------------------
(* The inductive invariant. *)

\* The page table entries of table T that map frame f
Refs(T, f) == {x \in Procs \X Pages : T[x[1]][x[2]].frame = f}

\* An entry without a frame is the cleared entry.
EntriesWhole ==
    \A p \in Procs, v \in Pages : pt[p][v].frame = None => pt[p][v] = NoPte

\* A process maps a frame at one page at most.
OwnFrames ==
    \A p \in Procs : \A v, w \in Mapped(p) :
        pt[p][v].frame = pt[p][w].frame => v = w

\* The heap's blocks lie in mapped pages and do not overlap.
BlocksMapped ==
    /\ \A p \in Procs : \A b \in blocks[p] : Span(b) \subseteq Mapped(p)
    /\ \A p \in Procs : \A b, c \in blocks[p] : b # c => Span(b) \cap Span(c) = {}

\* A process that does not exist maps nothing.
DeadMapNothing ==
    \A p \in Procs \ alive : Mapped(p) = {} /\ blocks[p] = {}

Tables == /\ EntriesWhole
          /\ OwnFrames
          /\ BlocksMapped
          /\ DeadMapNothing

Inv == /\ TypeOK
       /\ Tables
       /\ RefExact
       /\ WritableNotShared

-----------------------------------------------------------------------------
(* What the invariant says about one frame. *)

\* Page table entries are counted over a finite set.
LEMMA RefsFinite ==
    ASSUME NEW T, NEW f PROVE IsFiniteSet(Refs(T, f))
<1>1. IsFiniteSet(Pages) /\ IsFiniteSet(Procs)
  BY FS_Interval, CowAssumption DEF Pages
<1>2. IsFiniteSet(Procs \X Pages)
  BY <1>1, FS_Product
<1>3. Refs(T, f) \in SUBSET (Procs \X Pages)
  BY DEF Refs
<1> QED BY <1>2, <1>3, FS_Subset

\* A mapped frame is counted and marked, and a count of one means that nobody
\* else maps it.
LEMMA MappedFrame ==
    ASSUME TypeOK, EntriesWhole, RefExact,
           NEW p \in Procs, NEW v \in Mapped(p)
    PROVE  /\ v \in Pages
           /\ pt[p][v].frame \in Frames
           /\ pt[p][v].frame \in used
           /\ mem[pt[p][v].frame] \in Nat \ {0}
           /\ <<p, v>> \in Refs(pt, pt[p][v].frame)
           /\ mem[pt[p][v].frame] = 1 =>
                \A q \in Procs, w \in Pages :
                    pt[q][w].frame = pt[p][v].frame => q = p /\ w = v
<1> DEFINE f == pt[p][v].frame
<1>1. v \in Pages /\ f \in Frames
  <2>1. v \in Pages /\ pt[p][v] # NoPte
    BY DEF Mapped
  <2>2. f # None /\ f \in Frames \cup {None}
    BY <2>1 DEF EntriesWhole, TypeOK
  <2> QED BY <2>1, <2>2
<1>2. <<p, v>> \in Refs(pt, f)
  BY <1>1 DEF Refs
<1>3. mem[f] = Cardinality(Refs(pt, f)) /\ (f \in used <=> mem[f] > 0) /\ mem[f] \in Nat
  BY <1>1 DEF RefExact, Refs, TypeOK
<1>4. mem[f] # 0
  BY <1>2, <1>3, RefsFinite, FS_EmptySet
<1>5. ASSUME mem[f] = 1, NEW q \in Procs, NEW w \in Pages, pt[q][w].frame = f
      PROVE  q = p /\ w = v
  <2>1. PICK x : Refs(pt, f) = {x}
    BY <1>5, <1>3, RefsFinite, FS_Singleton
  <2>2. <<q, w>> \in Refs(pt, f)
    BY <1>5 DEF Refs
  <2> QED BY <2>1, <2>2, <1>2
<1> QED BY <1>1, <1>2, <1>3, <1>4, <1>5

\* A frame that is free in its pool is mapped nowhere.
LEMMA FreeFrame ==
    ASSUME TypeOK, RefExact, NEW f \in Frames, f \notin used
    PROVE  mem[f] = 0 /\ Refs(pt, f) = {}
<1>1. mem[f] = Cardinality(Refs(pt, f)) /\ mem[f] \in Nat /\ ~(mem[f] > 0)
  BY DEF RefExact, Refs, TypeOK
<1> QED BY <1>1, RefsFinite, FS_EmptySet

\* None is no frame.
LEMMA NoneNoFrame == None \notin Frames
BY CowAssumption DEF None

-----------------------------------------------------------------------------
(* free_a_phy_page: releasing the frames of pages V of process p. *)

\* Clearing the entries of V and releasing their frames keeps the counts, the
\* pool bitmaps and the protection right.
LEMMA ReleaseFacts ==
    ASSUME Inv, NEW p \in Procs, NEW V, V \subseteq Mapped(p), Release(p, V),
           pt' \in [Procs -> [Pages -> [frame : Frames \cup {None}, rw : BOOLEAN]]],
           \A q \in Procs, w \in Pages :
               pt'[q][w] = IF q = p /\ w \in V THEN NoPte ELSE pt[q][w]
    PROVE  /\ mem' \in [Frames -> Nat] /\ used' \subseteq Frames
           /\ EntriesWhole' /\ OwnFrames' /\ RefExact' /\ WritableNotShared'
           /\ \A v \in V : mem[pt[p][v].frame] # 0
<1> USE DEF Inv, Tables
<1> DEFINE F == {pt[p][v].frame : v \in V}
<1>1. /\ mem' = [f \in Frames |-> IF f \in F THEN mem[f] - 1 ELSE mem[f]]
      /\ used' = used \ {f \in F : mem[f] = 1}
  BY DEF Release
<1>2. \A v \in V : v \in Mapped(p) /\ v \in Pages
  BY DEF Mapped
<1>3. ASSUME NEW f \in F
      PROVE  \E v \in V : /\ pt[p][v].frame = f
                          /\ f \in Frames /\ f \in used /\ mem[f] \in Nat \ {0}
                          /\ <<p, v>> \in Refs(pt, f)
                          /\ Refs(pt', f) = Refs(pt, f) \ {<<p, v>>}
  <2>1. PICK v \in V : pt[p][v].frame = f
    OBVIOUS
  <2>2. f \in Frames /\ f \in used /\ mem[f] \in Nat \ {0} /\ <<p, v>> \in Refs(pt, f)
    BY <2>1, <1>2, MappedFrame
  <2>3. f # None
    BY <2>2, NoneNoFrame
  <2>4. ASSUME NEW q \in Procs, NEW w \in Pages
        PROVE  pt'[q][w].frame = f <=> pt[q][w].frame = f /\ <<q, w>> # <<p, v>>
    <3>1. CASE q = p /\ w \in V
      <4>1. pt'[q][w].frame = None
        BY <3>1 DEF NoPte
      <4>2. pt[q][w].frame = f => w = v
        BY <3>1, <2>1, <1>2 DEF OwnFrames
      <4> QED BY <4>1, <4>2, <2>3, <3>1
    <3>2. CASE ~(q = p /\ w \in V)
      BY <3>2, <2>1
    <3> QED BY <3>1, <3>2
  <2>5. Refs(pt', f) = Refs(pt, f) \ {<<p, v>>}
    BY <2>4 DEF Refs
  <2> QED BY <2>1, <2>2, <2>5
<1>4. ASSUME NEW f \in Frames, f \notin F
      PROVE  Refs(pt', f) = Refs(pt, f)
  <2>1. ASSUME NEW q \in Procs, NEW w \in Pages
        PROVE  pt'[q][w].frame = f <=> pt[q][w].frame = f
    <3>1. CASE q = p /\ w \in V
      BY <3>1, <1>4, NoneNoFrame DEF NoPte
    <3>2. CASE ~(q = p /\ w \in V)
      BY <3>2
    <3> QED BY <3>1, <3>2
  <2> QED BY <2>1 DEF Refs
<1> HIDE DEF F
<1>5. mem' \in [Frames -> Nat] /\ used' \subseteq Frames
  <2>1. \A f \in Frames : mem[f] \in Nat /\ (f \in F => mem[f] # 0)
    BY <1>3 DEF TypeOK
  <2>2. mem' \in [Frames -> Nat]
    <3>1. \A f \in Frames : (IF f \in F THEN mem[f] - 1 ELSE mem[f]) \in Nat
      BY <2>1
    <3> QED BY <3>1, <1>1
  <2>3. used' \subseteq Frames
    BY <1>1 DEF TypeOK
  <2> QED BY <2>2, <2>3
<1>6. RefExact'
  <2> SUFFICES ASSUME NEW f \in Frames
               PROVE  /\ mem'[f] = Cardinality(Refs(pt', f))
                      /\ f \in used' <=> mem'[f] > 0
    BY DEF RefExact, Refs
  <2>1. mem[f] = Cardinality(Refs(pt, f)) /\ (f \in used <=> mem[f] > 0) /\ mem[f] \in Nat
    BY DEF RefExact, Refs, TypeOK
  <2>2. CASE f \in F
    <3>1. mem'[f] = mem[f] - 1 /\ mem[f] # 0
      BY <2>2, <1>1, <1>3
    <3>2. PICK v \in V : <<p, v>> \in Refs(pt, f) /\ Refs(pt', f) = Refs(pt, f) \ {<<p, v>>}
      BY <2>2, <1>3
    <3>3. Cardinality(Refs(pt', f)) = Cardinality(Refs(pt, f)) - 1
      BY <3>2, RefsFinite, FS_RemoveElement
    <3> QED BY <2>1, <2>2, <3>1, <3>3, <1>1
  <2>3. CASE f \notin F
    BY <2>1, <2>3, <1>1, <1>4
  <2> QED BY <2>2, <2>3
<1>7. EntriesWhole'
  BY DEF EntriesWhole
<1>8. OwnFrames'
  <2> SUFFICES ASSUME NEW q \in Procs, NEW v \in Mapped(q)', NEW w \in Mapped(q)',
                      pt'[q][v].frame = pt'[q][w].frame
               PROVE  v = w
    BY DEF OwnFrames
  <2>1. v \in Pages /\ w \in Pages /\ pt'[q][v] # NoPte /\ pt'[q][w] # NoPte
    BY DEF Mapped
  <2>2. pt'[q][v] = pt[q][v] /\ pt'[q][w] = pt[q][w]
    BY <2>1
  <2> QED BY <2>1, <2>2 DEF OwnFrames, Mapped
<1>9. WritableNotShared'
  <2> SUFFICES ASSUME NEW q \in Procs, NEW w \in Pages, pt'[q][w].rw
               PROVE  mem'[pt'[q][w].frame] = 1
    BY DEF WritableNotShared
  <2>1. ~(q = p /\ w \in V)
    BY DEF NoPte
  <2>2. pt'[q][w] = pt[q][w]
    BY <2>1
  <2>3. mem[pt[q][w].frame] = 1 /\ w \in Mapped(q)
    BY <2>2 DEF WritableNotShared, Mapped, NoPte
  <2>4. pt[q][w].frame \in Frames
    BY <2>3, MappedFrame
  <2>5. pt[q][w].frame \notin F
    <3> SUFFICES ASSUME pt[q][w].frame \in F PROVE FALSE
      OBVIOUS
    <3>1. PICK v \in V : pt[p][v].frame = pt[q][w].frame
      BY <1>3
    <3>2. \A q2 \in Procs, w2 \in Pages :
             pt[q2][w2].frame = pt[q][w].frame => q2 = q /\ w2 = w
      BY <2>3, MappedFrame
    <3>3. p = q /\ v = w
      BY <3>1, <3>2, <1>2
    <3> QED BY <3>3, <2>1
  <2> QED BY <2>2, <2>3, <2>4, <2>5, <1>1
<1>10. \A v \in V : mem[pt[p][v].frame] # 0
  BY <1>2, MappedFrame
<1> QED BY <1>5, <1>6, <1>7, <1>8, <1>9, <1>10

-----------------------------------------------------------------------------
(* The steps.  Each keeps the invariant, and Isolation with it. *)

\* Lowest finds the lowest page of a nonempty set.
LEMMA LowestFacts ==
    ASSUME NEW S, S \subseteq Nat, S # {}
    PROVE  Lowest(S) \in S
<1>1. \E x \in S : \A y \in S : x <= y
  BY LeastNat
<1> QED BY <1>1 DEF Lowest

\* sys_malloc maps fresh frames at pages that were free.
LEMMA MallocStep ==
    ASSUME Inv, NEW p \in Procs, NEW n \in Sizes, Malloc(p, n)
    PROVE  Inv' /\ (Isolation => Isolation')
<1> USE DEF Inv, Tables
<1> DEFINE fits == {s \in 1..NPages + 1 - n : Span([s |-> s, n |-> n]) \cap Mapped(p) = {}}
           b == [s |-> Lowest(fits), n |-> n]
           Sp == Span(b)
<1>n. n \in Nat \ {0} /\ NPages \in Nat
  BY CowAssumption
<1>1. PICK F \in SUBSET UserFrames :
        /\ Takes(F, UserFrames, n)
        /\ \E g \in [Sp -> F] :
              /\ \A v, w \in Sp : v < w => g[v] < g[w]
              /\ pt' = [pt EXCEPT ![p] = [v \in Pages |->
                    IF v \in Sp THEN [frame |-> g[v], rw |-> TRUE] ELSE pt[p][v]]]
        /\ used' = used \cup F
        /\ mem' = [f \in Frames |-> IF f \in F THEN 1 ELSE mem[f]]
        /\ data' = [f \in Frames |-> IF f \in F THEN 0 ELSE data[f]]
  BY DEF Malloc
<1>2. PICK g \in [Sp -> F] :
        /\ \A v, w \in Sp : v < w => g[v] < g[w]
        /\ pt' = [pt EXCEPT ![p] = [v \in Pages |->
              IF v \in Sp THEN [frame |-> g[v], rw |-> TRUE] ELSE pt[p][v]]]
  BY <1>1
<1>3. /\ p \in alive /\ fits # {}
      /\ blocks' = [blocks EXCEPT ![p] = blocks[p] \cup {b}]
      /\ image' = [image EXCEPT ![p] = [v \in Pages |-> IF v \in Sp THEN 0 ELSE image[p][v]]]
      /\ alive' = alive /\ panic' = panic
  BY DEF Malloc
<1>4. /\ Sp = b.s..b.s + n - 1 /\ b.s \in Pages /\ b.n = n /\ b.s + n - 1 <= NPages
      /\ Sp \subseteq Pages /\ Sp \cap Mapped(p) = {}
      /\ IsFiniteSet(Sp) /\ Cardinality(Sp) = n
  <2>1. fits \subseteq Nat
    BY <1>n
  <2>2. b.s \in fits
    <3> HIDE DEF fits
    <3> QED BY <2>1, <1>3, LowestFacts
  <2>3. b.s \in 1..NPages + 1 - n /\ Span([s |-> b.s, n |-> n]) \cap Mapped(p) = {}
    BY <2>2
  <2>4. Sp = b.s..b.s + n - 1 /\ b.n = n
    BY DEF Span
  <2> HIDE DEF b
  <2>5. b.s \in Pages /\ b.s + n - 1 <= NPages /\ b.s \in Nat
    BY <2>3, <1>n DEF Pages
  <2>6. Sp \subseteq Pages
    BY <2>3, <2>4, <1>n DEF Pages
  <2>7. IsFiniteSet(b.s..b.s + n - 1) /\ Cardinality(b.s..b.s + n - 1) = n
    <3> DEFINE lo == b.s
               hi == b.s + n - 1
    <3>1. lo \in Int /\ hi \in Int /\ ~(lo > hi) /\ hi - lo + 1 = n
      BY <2>5, <1>n
    <3> HIDE DEF lo, hi
    <3>2. IsFiniteSet(lo..hi) /\ Cardinality(lo..hi) = n
      BY <3>1, FS_Interval
    <3> QED BY <3>2 DEF lo, hi
  <2>8. Sp \cap Mapped(p) = {}
    BY <2>3 DEF b, Span
  <2> QED BY <2>4, <2>5, <2>6, <2>7, <2>8
<1> HIDE DEF fits, b, Sp
<1>5. /\ F \subseteq Frames /\ Cardinality(F) = n /\ IsFiniteSet(F)
      /\ \A f \in F : f \notin used /\ f \in Nat
  <2>1. F \subseteq Frames /\ F \in SUBSET Frames
    BY DEF Frames
  <2>2. IsFiniteSet(F)
    BY <2>1, FS_Subset, CowAssumption
  <2> QED BY <1>1, <2>1, <2>2, CowAssumption DEF Takes
<1>6. /\ \A v, w \in Sp : g[v] = g[w] => v = w
      /\ \A f \in F : \E v \in Sp : g[v] = f
  <2>1. ASSUME NEW v \in Sp, NEW w \in Sp, g[v] = g[w] PROVE v = w
    <3>1. v \in Nat /\ w \in Nat /\ g[v] \in Nat /\ g[w] \in Nat
      BY <1>4, <1>5 DEF Pages
    <3> QED BY <3>1, <2>1, <1>2
  <2>2. g \in Injection(Sp, F)
    BY <2>1 DEF Injection, IsInjective
  <2>3. g \in Surjection(Sp, F)
    BY <2>2, <1>4, <1>5, FS_Injection
  <2> QED BY <2>1, <2>3 DEF Surjection
<1>7. /\ pt' \in [Procs -> [Pages -> [frame : Frames \cup {None}, rw : BOOLEAN]]]
      /\ \A q \in Procs, w \in Pages :
            pt'[q][w] = IF q = p /\ w \in Sp THEN [frame |-> g[w], rw |-> TRUE] ELSE pt[q][w]
  <2>1. \A w \in Sp : g[w] \in Frames
    BY <1>5
  <2> QED BY <2>1, <1>2 DEF TypeOK
<1>f. \A w \in Sp : /\ w \in Pages /\ w \notin Mapped(p)
                     /\ pt'[p][w].frame = g[w] /\ pt'[p][w].rw = TRUE
                     /\ g[w] \in F /\ g[w] \in Frames
  <2> TAKE w \in Sp
  <2>1. w \in Pages /\ w \notin Mapped(p) /\ g[w] \in F /\ g[w] \in Frames
    BY <1>4, <1>5
  <2>2. pt'[p][w] = [frame |-> g[w], rw |-> TRUE]
    BY <2>1, <1>7
  <2> QED BY <2>1, <2>2
<1>u. \A q \in Procs, w \in Pages : ~(q = p /\ w \in Sp) => pt'[q][w] = pt[q][w]
  BY <1>7
<1>8. \A q \in Procs : \A w \in Mapped(q) :
         /\ w \in Pages /\ ~(q = p /\ w \in Sp) /\ pt'[q][w] = pt[q][w]
         /\ pt[q][w].frame \in Frames \ F
  BY <1>4, <1>5, <1>7, MappedFrame
<1>9. /\ Mapped(p)' = Mapped(p) \cup Sp
      /\ \A q \in Procs \ {p} : Mapped(q)' = Mapped(q)
  <2>1. \A w \in Sp : pt'[p][w] # NoPte
    <3> TAKE w \in Sp
    <3>1. pt'[p][w].rw = TRUE
      BY <1>f
    <3> QED BY <3>1 DEF NoPte
  <2> QED BY <2>1, <1>4, <1>7 DEF Mapped
<1>10. TypeOK'
  <2>1. mem' \in [Frames -> Nat] /\ data' \in [Frames -> Values]
    BY <1>1, CowAssumption DEF TypeOK
  <2>2. used' \subseteq Frames /\ alive' \subseteq Procs /\ panic' \in BOOLEAN
    BY <1>1, <1>3, <1>5 DEF TypeOK
  <2>3. blocks' \in [Procs -> SUBSET [s : Pages, n : Nat \ {0}]]
    <3>1. b \in [s : Pages, n : Nat \ {0}]
      BY <1>4, <1>n DEF b
    <3> QED BY <3>1, <1>3 DEF TypeOK
  <2>4. image' \in [Procs -> [Pages -> Values]]
    BY <1>3, CowAssumption DEF TypeOK
  <2> QED BY <2>1, <2>2, <2>3, <2>4, <1>7 DEF TypeOK
<1>11. EntriesWhole'
  <2> SUFFICES ASSUME NEW q \in Procs, NEW w \in Pages, pt'[q][w].frame = None
               PROVE  pt'[q][w] = NoPte
    BY DEF EntriesWhole
  <2>1. ~(q = p /\ w \in Sp)
    BY <1>f, NoneNoFrame
  <2> QED BY <2>1, <1>7 DEF EntriesWhole
<1>12. OwnFrames'
  <2> SUFFICES ASSUME NEW q \in Procs, NEW v \in Mapped(q)', NEW w \in Mapped(q)',
                      pt'[q][v].frame = pt'[q][w].frame
               PROVE  v = w
    BY DEF OwnFrames
  <2>1. CASE v \in Mapped(q) /\ w \in Mapped(q)
    BY <2>1, <1>8 DEF OwnFrames
  <2>2. CASE q = p /\ v \in Sp /\ w \in Sp
    <3>1. g[v] = g[w]
      BY <2>2, <1>f
    <3> QED BY <3>1, <2>2, <1>6
  <2>3. CASE q = p /\ v \in Sp /\ w \in Mapped(q)
    <3>1. pt'[p][v].frame \in F /\ pt'[p][w].frame \notin F
      BY <2>3, <1>8, <1>f
    <3> QED BY <3>1, <2>3
  <2>4. CASE q = p /\ w \in Sp /\ v \in Mapped(q)
    <3>1. pt'[p][w].frame \in F /\ pt'[p][v].frame \notin F
      BY <2>4, <1>8, <1>f
    <3> QED BY <3>1, <2>4
  <2> QED BY <2>1, <2>2, <2>3, <2>4, <1>9
<1>13. BlocksMapped'
  <2>1. \A q \in Procs \ {p} : blocks'[q] = blocks[q]
    BY <1>3 DEF TypeOK
  <2>2. blocks'[p] = blocks[p] \cup {b}
    BY <1>3 DEF TypeOK
  <2>3. ASSUME NEW c \in blocks[p] PROVE Span(c) \cap Span(b) = {}
    BY <1>4 DEF BlocksMapped, Sp
  <2>4. \A q \in Procs : \A c \in blocks'[q] : Span(c) \subseteq Mapped(q)'
    BY <2>1, <2>2, <1>9 DEF BlocksMapped, Sp
  <2>5. \A q \in Procs : \A c, d \in blocks'[q] : c # d => Span(c) \cap Span(d) = {}
    BY <2>1, <2>2, <2>3 DEF BlocksMapped
  <2> QED BY <2>4, <2>5 DEF BlocksMapped, Span
<1>14. DeadMapNothing'
  BY <1>3, <1>9 DEF DeadMapNothing, TypeOK
<1>15. RefExact'
  <2> SUFFICES ASSUME NEW f \in Frames
               PROVE  /\ mem'[f] = Cardinality(Refs(pt', f))
                      /\ f \in used' <=> mem'[f] > 0
    BY DEF RefExact, Refs
  <2>1. CASE f \in F
    <3>1. Refs(pt, f) = {}
      BY <2>1, <1>5, FreeFrame
    <3>2. PICK v \in Sp : g[v] = f
      BY <2>1, <1>6
    <3>3. \A q \in Procs, w \in Pages : pt[q][w].frame # f
      <4> SUFFICES ASSUME NEW q \in Procs, NEW w \in Pages, pt[q][w].frame = f PROVE FALSE
        OBVIOUS
      <4>1. <<q, w>> \in Refs(pt, f)
        BY DEF Refs
      <4> QED BY <4>1, <3>1
    <3>4. \A q \in Procs, w \in Pages : pt'[q][w].frame = f <=> q = p /\ w = v
      <4> TAKE q \in Procs, w \in Pages
      <4>1. CASE q = p /\ w \in Sp
        <5>1. pt'[q][w].frame = g[w]
          BY <4>1, <1>f
        <5> QED BY <5>1, <4>1, <3>2, <1>6
      <4>2. CASE ~(q = p /\ w \in Sp)
        BY <4>2, <3>2, <3>3, <1>u
      <4> QED BY <4>1, <4>2
    <3>5. Refs(pt', f) = {<<p, v>>}
      <4>1. p \in Procs /\ v \in Pages
        BY <3>2, <1>4
      <4>2. \A x : x \in Refs(pt', f) <=>
                   x \in Procs \X Pages /\ pt'[x[1]][x[2]].frame = f
        BY DEF Refs
      <4>3. \A x \in Procs \X Pages : pt'[x[1]][x[2]].frame = f <=> x = <<p, v>>
        BY <3>4
      <4> QED BY <4>1, <4>2, <4>3
    <3>6. Cardinality(Refs(pt', f)) = 1
      BY <3>5, FS_Singleton
    <3>7. mem'[f] = 1 /\ f \in used'
      BY <2>1, <1>1
    <3> QED BY <3>6, <3>7
  <2>2. CASE f \notin F
    <3>1. \A q \in Procs, w \in Pages : pt'[q][w].frame = f <=> pt[q][w].frame = f
      <4> TAKE q \in Procs, w \in Pages
      <4>1. CASE q = p /\ w \in Sp
        <5>1. pt[q][w] = NoPte
          BY <4>1, <1>4 DEF Mapped
        <5>2. pt'[q][w].frame \in F
          BY <4>1, <1>f
        <5>3. pt[q][w].frame = None
          BY <5>1 DEF NoPte
        <5> QED BY <5>2, <5>3, <2>2, NoneNoFrame
      <4>2. CASE ~(q = p /\ w \in Sp)
        BY <4>2, <1>7
      <4> QED BY <4>1, <4>2
    <3>2. Refs(pt', f) = Refs(pt, f)
      BY <3>1 DEF Refs
    <3> QED BY <3>2, <2>2, <1>1 DEF RefExact, Refs
  <2> QED BY <2>1, <2>2
<1>16. WritableNotShared'
  <2> SUFFICES ASSUME NEW q \in Procs, NEW w \in Pages, pt'[q][w].rw
               PROVE  mem'[pt'[q][w].frame] = 1
    BY DEF WritableNotShared
  <2>1. CASE q = p /\ w \in Sp
    BY <2>1, <1>1, <1>5, <1>7
  <2>2. CASE ~(q = p /\ w \in Sp)
    <3>1. pt'[q][w] = pt[q][w]
      BY <2>2, <1>7
    <3>2. w \in Mapped(q)
      BY <3>1 DEF Mapped, NoPte
    <3>3. pt[q][w].frame \in Frames \ F
      BY <3>2, <1>8
    <3> QED BY <3>1, <3>3, <1>1 DEF WritableNotShared
  <2> QED BY <2>1, <2>2
<1>17. ASSUME Isolation PROVE Isolation'
  <2> SUFFICES ASSUME NEW q \in alive, NEW w \in Mapped(q)'
               PROVE  data'[pt'[q][w].frame] = image'[q][w]
    BY <1>3 DEF Isolation
  <2>0. q \in Procs
    BY DEF TypeOK
  <2>1. CASE q = p /\ w \in Sp
    <3>1. pt'[q][w].frame \in F
      BY <2>1, <1>f
    <3>2. image'[q][w] = 0
      BY <2>1, <1>3, <1>4 DEF TypeOK
    <3> QED BY <3>1, <3>2, <1>1, <1>5
  <2>2. CASE w \in Mapped(q) /\ ~(q = p /\ w \in Sp)
    <3>1. image'[q][w] = image[q][w]
      BY <2>0, <2>2, <1>3, <1>8 DEF TypeOK
    <3>2. data'[pt'[q][w].frame] = data[pt[q][w].frame]
      BY <2>0, <2>2, <1>8, <1>1
    <3> QED BY <3>1, <3>2, <2>2, <1>17 DEF Isolation
  <2> QED BY <2>0, <2>1, <2>2, <1>9, <1>8
<1> QED BY <1>10, <1>11, <1>12, <1>13, <1>14, <1>15, <1>16, <1>17

\* mfree_page gives the frames of a block back and unmaps its pages.
LEMMA FreeStep ==
    ASSUME Inv, NEW p \in Procs, NEW b \in blocks[p], Free(p, b)
    PROVE  Inv' /\ (Isolation => Isolation')
<1> USE DEF Inv, Tables
<1> DEFINE V == Span(b)
<1>1. /\ V \subseteq Mapped(p) /\ V \subseteq Pages /\ p \in alive
  BY DEF BlocksMapped, Mapped, Free
<1>2. /\ Release(p, V)
      /\ pt' = [pt EXCEPT ![p] = [v \in Pages |-> IF v \in V THEN NoPte ELSE pt[p][v]]]
      /\ blocks' = [blocks EXCEPT ![p] = blocks[p] \ {b}]
      /\ image' = [image EXCEPT ![p] = [v \in Pages |-> IF v \in V THEN 0 ELSE image[p][v]]]
      /\ data' = data /\ alive' = alive /\ panic' \in BOOLEAN
  BY DEF Free
<1> HIDE DEF V
<1>3. /\ pt' \in [Procs -> [Pages -> [frame : Frames \cup {None}, rw : BOOLEAN]]]
      /\ \A q \in Procs, w \in Pages :
            pt'[q][w] = IF q = p /\ w \in V THEN NoPte ELSE pt[q][w]
  <2>1. NoPte \in [frame : Frames \cup {None}, rw : BOOLEAN]
    BY DEF NoPte
  <2> QED BY <2>1, <1>2 DEF TypeOK
<1>4. /\ mem' \in [Frames -> Nat] /\ used' \subseteq Frames
      /\ EntriesWhole' /\ OwnFrames' /\ RefExact' /\ WritableNotShared'
  BY <1>1, <1>2, <1>3, ReleaseFacts
<1>5. /\ Mapped(p)' = Mapped(p) \ V
      /\ \A q \in Procs \ {p} : Mapped(q)' = Mapped(q)
  BY <1>1, <1>3 DEF Mapped
<1>6. TypeOK'
  <2>1. blocks' \in [Procs -> SUBSET [s : Pages, n : Nat \ {0}]]
    BY <1>2 DEF TypeOK
  <2>2. image' \in [Procs -> [Pages -> Values]]
    BY <1>2, CowAssumption DEF TypeOK
  <2>3. data' \in [Frames -> Values] /\ alive' \subseteq Procs
    BY <1>2 DEF TypeOK
  <2> QED BY <2>1, <2>2, <2>3, <1>2, <1>3, <1>4 DEF TypeOK
<1>7. BlocksMapped'
  <2>1. \A q \in Procs \ {p} : blocks'[q] = blocks[q]
    BY <1>2 DEF TypeOK
  <2>2. blocks'[p] = blocks[p] \ {b}
    BY <1>2 DEF TypeOK
  <2>3. \A c \in blocks'[p] : Span(c) \subseteq Mapped(p) \ V
    BY <2>2 DEF BlocksMapped, V
  <2>4. \A q \in Procs : \A c \in blocks'[q] : Span(c) \subseteq Mapped(q)'
    BY <2>1, <2>3, <1>5 DEF BlocksMapped
  <2>5. \A q \in Procs : \A c, d \in blocks'[q] : c # d => Span(c) \cap Span(d) = {}
    BY <2>1, <2>2 DEF BlocksMapped
  <2> QED BY <2>4, <2>5 DEF BlocksMapped, Span
<1>8. DeadMapNothing'
  BY <1>1, <1>2, <1>5 DEF DeadMapNothing, TypeOK
<1>9. ASSUME Isolation PROVE Isolation'
  <2> SUFFICES ASSUME NEW q \in alive, NEW w \in Mapped(q)'
               PROVE  data'[pt'[q][w].frame] = image'[q][w]
    BY <1>2 DEF Isolation
  <2>1. q \in Procs /\ w \in Mapped(q) /\ w \in Pages /\ ~(q = p /\ w \in V)
    BY <1>5 DEF TypeOK, Mapped
  <2>2. pt'[q][w] = pt[q][w] /\ image'[q][w] = image[q][w]
    BY <2>1, <1>2, <1>3 DEF TypeOK
  <2> QED BY <2>1, <2>2, <1>2, <1>9 DEF Isolation
<1> QED BY <1>4, <1>6, <1>7, <1>8, <1>9

\* sys_exit gives all frames of the process back.
LEMMA ExitStep ==
    ASSUME Inv, NEW p \in Procs, Exit(p)
    PROVE  Inv' /\ (Isolation => Isolation') /\ panic' = FALSE
<1> USE DEF Inv, Tables
<1>1. /\ Release(p, Mapped(p))
      /\ pt' = [pt EXCEPT ![p] = [v \in Pages |-> NoPte]]
      /\ blocks' = [blocks EXCEPT ![p] = {}]
      /\ image' = [image EXCEPT ![p] = [v \in Pages |-> 0]]
      /\ panic' = \E v \in Mapped(p) : mem[pt[p][v].frame] = 0
      /\ data' = data /\ alive' = alive \ {p}
  BY DEF Exit
<1>2. /\ pt' \in [Procs -> [Pages -> [frame : Frames \cup {None}, rw : BOOLEAN]]]
      /\ \A q \in Procs, w \in Pages :
            pt'[q][w] = IF q = p /\ w \in Mapped(p) THEN NoPte ELSE pt[q][w]
  <2>1. NoPte \in [frame : Frames \cup {None}, rw : BOOLEAN]
    BY DEF NoPte
  <2>2. pt' \in [Procs -> [Pages -> [frame : Frames \cup {None}, rw : BOOLEAN]]]
    BY <2>1, <1>1 DEF TypeOK
  <2>3. \A w \in Pages : w \in Mapped(p) \/ pt[p][w] = NoPte
    BY DEF Mapped
  <2>4. \A q \in Procs, w \in Pages :
            pt'[q][w] = IF q = p THEN NoPte ELSE pt[q][w]
    BY <1>1 DEF TypeOK
  <2> QED BY <2>2, <2>3, <2>4
<1>3. /\ mem' \in [Frames -> Nat] /\ used' \subseteq Frames
      /\ EntriesWhole' /\ OwnFrames' /\ RefExact' /\ WritableNotShared'
      /\ \A v \in Mapped(p) : mem[pt[p][v].frame] # 0
  BY <1>1, <1>2, ReleaseFacts
<1>4. /\ Mapped(p)' = {}
      /\ \A q \in Procs \ {p} : Mapped(q)' = Mapped(q)
  BY <1>2 DEF Mapped
<1>5. panic' = FALSE
  BY <1>1, <1>3
<1>6. TypeOK'
  <2>1. blocks' \in [Procs -> SUBSET [s : Pages, n : Nat \ {0}]]
    BY <1>1 DEF TypeOK
  <2>2. image' \in [Procs -> [Pages -> Values]]
    BY <1>1, CowAssumption DEF TypeOK
  <2>3. data' \in [Frames -> Values] /\ alive' \subseteq Procs
    BY <1>1 DEF TypeOK
  <2> QED BY <2>1, <2>2, <2>3, <1>5, <1>2, <1>3 DEF TypeOK
<1>7. BlocksMapped'
  <2>1. /\ \A q \in Procs \ {p} : blocks'[q] = blocks[q]
        /\ blocks'[p] = {}
    BY <1>1 DEF TypeOK
  <2>2. \A q \in Procs : \A c \in blocks'[q] : Span(c) \subseteq Mapped(q)'
    BY <2>1, <1>4 DEF BlocksMapped
  <2>3. \A q \in Procs : \A c, d \in blocks'[q] : c # d => Span(c) \cap Span(d) = {}
    BY <2>1 DEF BlocksMapped
  <2> QED BY <2>2, <2>3 DEF BlocksMapped, Span
<1>8. DeadMapNothing'
  BY <1>1, <1>4 DEF DeadMapNothing, TypeOK
<1>9. ASSUME Isolation PROVE Isolation'
  <2> SUFFICES ASSUME NEW q \in alive', NEW w \in Mapped(q)'
               PROVE  data'[pt'[q][w].frame] = image'[q][w]
    BY DEF Isolation
  <2>1. q \in Procs /\ q \in alive /\ q # p /\ w \in Mapped(q) /\ w \in Pages
    BY <1>1, <1>4 DEF TypeOK, Mapped
  <2>2. pt'[q][w] = pt[q][w] /\ image'[q][w] = image[q][w]
    BY <2>1, <1>1 DEF TypeOK
  <2> QED BY <2>1, <2>2, <1>1, <1>9 DEF Isolation
<1> QED BY <1>3, <1>5, <1>6, <1>7, <1>8, <1>9

\* A step that leaves the frames and blocks of every process alone keeps the
\* parts of the invariant that are about them.
LEMMA SameFrames ==
    ASSUME Inv, UNCHANGED <<blocks, alive>>,
           \A q \in Procs, w \in Pages :
               /\ pt'[q][w].frame = pt[q][w].frame
               /\ pt'[q][w] = NoPte <=> pt[q][w] = NoPte
    PROVE  Tables' /\ (UNCHANGED <<mem, used>> => RefExact')
<1> USE DEF Inv, Tables
<1>1. \A q \in Procs : Mapped(q)' = Mapped(q)
  BY DEF Mapped
<1>2. EntriesWhole'
  BY DEF EntriesWhole
<1>3. OwnFrames'
  <2> SUFFICES ASSUME NEW q \in Procs, NEW v \in Mapped(q), NEW w \in Mapped(q),
                      pt'[q][v].frame = pt'[q][w].frame
               PROVE  v = w
    BY <1>1 DEF OwnFrames
  <2>1. pt[q][v].frame = pt[q][w].frame
    BY DEF Mapped
  <2> QED BY <2>1 DEF OwnFrames
<1>4. BlocksMapped'
  BY <1>1 DEF BlocksMapped, Span
<1>5. DeadMapNothing'
  BY <1>1 DEF DeadMapNothing
<1>6. ASSUME UNCHANGED <<mem, used>> PROVE RefExact'
  <2>1. \A f \in Frames : Refs(pt', f) = Refs(pt, f)
    BY DEF Refs
  <2> QED BY <2>1, <1>6 DEF RefExact, Refs
<1> QED BY <1>2, <1>3, <1>4, <1>5, <1>6

\* A write into a frame that only this page maps is seen by nobody else.
LEMMA SoleWriter ==
    ASSUME Inv, Isolation, NEW p \in Procs, NEW v \in Mapped(p), NEW x \in Values,
           mem[pt[p][v].frame] = 1,
           data' = [data EXCEPT ![pt[p][v].frame] = x],
           image' = [image EXCEPT ![p][v] = x],
           alive' = alive,
           \A q \in Procs, w \in Pages :
               /\ pt'[q][w].frame = pt[q][w].frame
               /\ pt'[q][w] = NoPte <=> pt[q][w] = NoPte
    PROVE  Isolation'
<1> USE DEF Inv, Tables
<1> SUFFICES ASSUME NEW q \in alive, NEW w \in Mapped(q)
             PROVE  data'[pt'[q][w].frame] = image'[q][w]
  BY DEF Isolation, Mapped, TypeOK
<1>1. q \in Procs /\ w \in Pages /\ v \in Pages
  BY DEF TypeOK, Mapped
<1>2. /\ pt[p][v].frame \in Frames /\ pt[q][w].frame \in Frames
      /\ pt[q][w].frame = pt[p][v].frame => q = p /\ w = v
  <2>1. pt[q][w].frame \in Frames
    BY <1>1, MappedFrame
  <2>2. /\ pt[p][v].frame \in Frames
        /\ \A q2 \in Procs, w2 \in Pages :
              pt[q2][w2].frame = pt[p][v].frame => q2 = p /\ w2 = v
    BY MappedFrame
  <2> QED BY <2>1, <2>2, <1>1
<1>3. pt'[q][w].frame = pt[q][w].frame
  BY <1>1
<1>4. CASE q = p /\ w = v
  BY <1>1, <1>2, <1>3, <1>4 DEF TypeOK
<1>5. CASE ~(q = p /\ w = v)
  <2>1. data'[pt'[q][w].frame] = data[pt[q][w].frame]
    BY <1>2, <1>3, <1>5 DEF TypeOK
  <2>2. image'[q][w] = image[q][w]
    BY <1>1, <1>5 DEF TypeOK
  <2> QED BY <2>1, <2>2 DEF Isolation
<1> QED BY <1>4, <1>5

\* do_wp_page gives the writer a frame of its own and leaves the other users
\* theirs.
LEMMA CopyStep ==
    ASSUME Inv, NEW p \in Procs, NEW v \in Mapped(p), NEW x \in Values,
           mem[pt[p][v].frame] # 1,
           NEW new \in KernelFrames, new \notin used, Copy(p, v, new, x),
           image' = [image EXCEPT ![p][v] = x],
           UNCHANGED <<blocks, alive, panic>>
    PROVE  Inv' /\ (Isolation => Isolation')
<1> USE DEF Inv, Tables
<1> DEFINE old == pt[p][v].frame
<1>1. /\ pt' = [pt EXCEPT ![p][v] = [frame |-> new, rw |-> TRUE]]
      /\ mem' = [mem EXCEPT ![new] = 1, ![old] = @ - 1]
      /\ used' = used \cup {new}
      /\ data' = [data EXCEPT ![new] = x]
  BY DEF Copy
<1>2. /\ v \in Pages /\ old \in Frames /\ old \in used /\ old # new
      /\ mem[old] \in Nat /\ mem[old] > 1 /\ <<p, v>> \in Refs(pt, old)
  BY MappedFrame
<1>3. new \in Frames /\ Refs(pt, new) = {} /\ new # None
  BY FreeFrame, NoneNoFrame DEF Frames
<1> HIDE DEF old
<1>4. /\ pt' \in [Procs -> [Pages -> [frame : Frames \cup {None}, rw : BOOLEAN]]]
      /\ \A q \in Procs, w \in Pages : ~(q = p /\ w = v) => pt'[q][w] = pt[q][w]
      /\ pt'[p][v].frame = new /\ pt'[p][v] # NoPte
  <2>1. pt'[p][v] = [frame |-> new, rw |-> TRUE]
    BY <1>1, <1>2 DEF TypeOK
  <2>2. pt'[p][v].frame = new /\ pt'[p][v] # NoPte
    BY <2>1 DEF NoPte
  <2>3. [frame |-> new, rw |-> TRUE] \in [frame : Frames \cup {None}, rw : BOOLEAN]
    BY <1>3
  <2>4. \A q \in Procs, w \in Pages : ~(q = p /\ w = v) => pt'[q][w] = pt[q][w]
    BY <1>1, <1>2 DEF TypeOK
  <2>5. pt' \in [Procs -> [Pages -> [frame : Frames \cup {None}, rw : BOOLEAN]]]
    BY <2>3, <1>1, <1>2 DEF TypeOK
  <2> QED BY <2>2, <2>4, <2>5
<1>5. \A q \in Procs : Mapped(q)' = Mapped(q)
  BY <1>4 DEF Mapped
<1>6. /\ mem'[new] = 1 /\ mem'[old] = mem[old] - 1
      /\ \A f \in Frames \ {new, old} : mem'[f] = mem[f]
  BY <1>1, <1>2, <1>3 DEF TypeOK
<1>7. TypeOK'
  <2>1. mem' \in [Frames -> Nat]
    <3>1. mem[old] - 1 \in Nat
      BY <1>2
    <3> QED BY <3>1, <1>1 DEF TypeOK
  <2>2. used' \subseteq Frames /\ data' \in [Frames -> Values]
    BY <1>1, <1>3 DEF TypeOK
  <2>3. image' \in [Procs -> [Pages -> Values]]
    BY <1>2 DEF TypeOK
  <2> QED BY <2>1, <2>2, <2>3, <1>4 DEF TypeOK
<1>8. \A q \in Procs, w \in Pages : pt[q][w].frame # new
  <2> SUFFICES ASSUME NEW q \in Procs, NEW w \in Pages, pt[q][w].frame = new
               PROVE  FALSE
    OBVIOUS
  <2>1. <<q, w>> \in Refs(pt, new)
    BY DEF Refs
  <2> QED BY <2>1, <1>3
<1>9. EntriesWhole'
  BY <1>3, <1>4 DEF EntriesWhole
<1>10. OwnFrames'
  <2> SUFFICES ASSUME NEW q \in Procs, NEW u \in Mapped(q), NEW w \in Mapped(q),
                      pt'[q][u].frame = pt'[q][w].frame
               PROVE  u = w
    BY <1>5 DEF OwnFrames
  <2>1. u \in Pages /\ w \in Pages
    BY DEF Mapped
  <2>2. CASE q = p /\ u = v
    BY <2>1, <2>2, <1>4, <1>8
  <2>3. CASE q = p /\ w = v
    BY <2>1, <2>3, <1>4, <1>8
  <2>4. CASE ~(q = p /\ u = v) /\ ~(q = p /\ w = v)
    BY <2>1, <2>4, <1>4 DEF OwnFrames
  <2> QED BY <2>2, <2>3, <2>4
<1>11. BlocksMapped' /\ DeadMapNothing'
  BY <1>5 DEF BlocksMapped, DeadMapNothing, Span
<1>12. RefExact'
  <2> SUFFICES ASSUME NEW f \in Frames
               PROVE  /\ mem'[f] = Cardinality(Refs(pt', f))
                      /\ f \in used' <=> mem'[f] > 0
    BY DEF RefExact, Refs
  <2>1. mem[f] = Cardinality(Refs(pt, f)) /\ (f \in used <=> mem[f] > 0) /\ mem[f] \in Nat
    BY DEF RefExact, Refs, TypeOK
  <2>2. CASE f = new
    <3>1. \A q \in Procs, w \in Pages : pt'[q][w].frame = f <=> q = p /\ w = v
      <4> TAKE q \in Procs, w \in Pages
      <4>1. CASE q = p /\ w = v
        BY <4>1, <2>2, <1>4
      <4>2. CASE ~(q = p /\ w = v)
        BY <4>2, <2>2, <1>4, <1>8
      <4> QED BY <4>1, <4>2
    <3>2. Refs(pt', f) = {<<p, v>>}
      BY <3>1, <1>2 DEF Refs
    <3>3. Cardinality(Refs(pt', f)) = 1
      BY <3>2, FS_Singleton
    <3>4. mem'[f] = 1 /\ f \in used'
      BY <2>2, <1>1, <1>6
    <3> QED BY <3>3, <3>4
  <2>3. CASE f = old
    <3>1. \A q \in Procs, w \in Pages :
             pt'[q][w].frame = f <=> pt[q][w].frame = f /\ ~(q = p /\ w = v)
      BY <2>3, <1>2, <1>4
    <3>2. Refs(pt', f) = Refs(pt, f) \ {<<p, v>>}
      BY <3>1 DEF Refs
    <3>3. Cardinality(Refs(pt', f)) = Cardinality(Refs(pt, f)) - 1
      BY <3>2, <2>3, <1>2, RefsFinite, FS_RemoveElement
    <3>4. mem'[f] = mem[f] - 1 /\ mem[f] > 1 /\ f \in used'
      BY <2>3, <1>1, <1>2, <1>6
    <3> QED BY <3>3, <3>4, <2>1
  <2>4. CASE f \notin {new, old}
    <3>1. \A q \in Procs, w \in Pages : pt'[q][w].frame = f <=> pt[q][w].frame = f
      BY <2>4, <1>4 DEF old
    <3>2. Refs(pt', f) = Refs(pt, f)
      BY <3>1 DEF Refs
    <3> QED BY <3>2, <2>1, <2>4, <1>1, <1>6
  <2> QED BY <2>2, <2>3, <2>4
<1>13. WritableNotShared'
  <2> SUFFICES ASSUME NEW q \in Procs, NEW w \in Pages, pt'[q][w].rw
               PROVE  mem'[pt'[q][w].frame] = 1
    BY DEF WritableNotShared
  <2>1. CASE q = p /\ w = v
    BY <2>1, <1>4, <1>6
  <2>2. CASE ~(q = p /\ w = v)
    <3>1. pt'[q][w] = pt[q][w]
      BY <2>2, <1>4
    <3>2. w \in Mapped(q) /\ mem[pt[q][w].frame] = 1
      BY <3>1 DEF Mapped, NoPte, WritableNotShared
    <3>3. pt[q][w].frame \in Frames \ {new, old}
      <4>1. pt[q][w].frame \in Frames
        BY <3>2, MappedFrame
      <4>2. pt[q][w].frame # old
        BY <3>2, <1>2
      <4> QED BY <4>1, <4>2, <1>8
    <3> QED BY <3>1, <3>2, <3>3, <1>6
  <2> QED BY <2>1, <2>2
<1>14. ASSUME Isolation PROVE Isolation'
  <2> SUFFICES ASSUME NEW q \in alive, NEW w \in Mapped(q)
               PROVE  data'[pt'[q][w].frame] = image'[q][w]
    BY <1>5 DEF Isolation, TypeOK
  <2>1. q \in Procs /\ w \in Pages
    BY DEF TypeOK, Mapped
  <2>2. CASE q = p /\ w = v
    BY <2>1, <2>2, <1>1, <1>3, <1>4 DEF TypeOK
  <2>3. CASE ~(q = p /\ w = v)
    <3>1. pt[q][w].frame \in Frames \ {new}
      BY <2>1, <1>8, MappedFrame
    <3>2. data'[pt'[q][w].frame] = data[pt[q][w].frame]
      BY <2>1, <2>3, <3>1, <1>1, <1>4 DEF TypeOK
    <3>3. image'[q][w] = image[q][w]
      BY <2>1, <2>3, <1>2 DEF TypeOK
    <3> QED BY <3>2, <3>3, <1>14 DEF Isolation
  <2> QED BY <2>2, <2>3
<1> QED BY <1>7, <1>9, <1>10, <1>11, <1>12, <1>13, <1>14

\* A write by user code, in place or after the fault.
LEMMA WriteStep ==
    ASSUME Inv, NEW p \in Procs, NEW v \in Pages, NEW x \in Values, Write(p, v, x)
    PROVE  Inv' /\ (Isolation => Isolation')
<1> USE DEF Inv, Tables
<1> DEFINE f == pt[p][v].frame
<1>1. /\ v \in Mapped(p)
      /\ image' = [image EXCEPT ![p][v] = x]
      /\ UNCHANGED <<blocks, alive, panic>>
  BY DEF Write
<1>2. CASE /\ pt[p][v].rw \/ mem[f] = 1
           /\ pt' = [pt EXCEPT ![p][v].rw = TRUE]
           /\ data' = [data EXCEPT ![f] = x]
           /\ UNCHANGED <<mem, used>>
  <2>1. mem[f] = 1 /\ f \in Frames /\ pt[p][v] # NoPte
    BY <1>1, <1>2, MappedFrame DEF WritableNotShared, Mapped
  <2>2. /\ pt' \in [Procs -> [Pages -> [frame : Frames \cup {None}, rw : BOOLEAN]]]
        /\ \A q \in Procs, w \in Pages : ~(q = p /\ w = v) => pt'[q][w] = pt[q][w]
        /\ pt'[p][v].frame = f /\ pt'[p][v].rw = TRUE
    <3>1. pt'[p][v] = [pt[p][v] EXCEPT !.rw = TRUE]
      BY <1>2 DEF TypeOK
    <3>2. pt[p][v] \in [frame : Frames \cup {None}, rw : BOOLEAN]
      BY DEF TypeOK
    <3>3. pt'[p][v].frame = f /\ pt'[p][v].rw = TRUE
      BY <3>1, <3>2
    <3>4. pt' \in [Procs -> [Pages -> [frame : Frames \cup {None}, rw : BOOLEAN]]]
      <4>1. [pt[p][v] EXCEPT !.rw = TRUE] \in [frame : Frames \cup {None}, rw : BOOLEAN]
        BY <3>2
      <4>2. pt' = [pt EXCEPT ![p] = [pt[p] EXCEPT ![v] = [pt[p][v] EXCEPT !.rw = TRUE]]]
        BY <1>2
      <4>3. [pt[p] EXCEPT ![v] = [pt[p][v] EXCEPT !.rw = TRUE]]
               \in [Pages -> [frame : Frames \cup {None}, rw : BOOLEAN]]
        BY <4>1 DEF TypeOK
      <4> QED BY <4>2, <4>3 DEF TypeOK
    <3>5. \A q \in Procs, w \in Pages : ~(q = p /\ w = v) => pt'[q][w] = pt[q][w]
      BY <1>2 DEF TypeOK
    <3> QED BY <3>3, <3>4, <3>5
  <2>3. \A q \in Procs, w \in Pages :
               /\ pt'[q][w].frame = pt[q][w].frame
               /\ pt'[q][w] = NoPte <=> pt[q][w] = NoPte
    BY <2>1, <2>2 DEF NoPte
  <2>4. Tables' /\ RefExact'
    BY <2>3, <1>1, <1>2, SameFrames
  <2>5. TypeOK'
    <3>1. data' \in [Frames -> Values]
      BY <1>2 DEF TypeOK
    <3>2. image' \in [Procs -> [Pages -> Values]]
      BY <1>1 DEF TypeOK
    <3> QED BY <3>1, <3>2, <2>2, <1>1, <1>2 DEF TypeOK
  <2>6. WritableNotShared'
    BY <2>1, <2>2, <1>2 DEF WritableNotShared
  <2>7. Isolation => Isolation'
    BY <2>1, <2>3, <1>1, <1>2, SoleWriter
  <2> QED BY <2>4, <2>5, <2>6, <2>7
<1>3. CASE /\ ~pt[p][v].rw /\ mem[f] # 1
           /\ \E buffer, new \in KernelFrames :
                /\ Takes({buffer, new}, KernelFrames, 2) /\ buffer < new
                /\ Copy(p, v, new, x)
  <2>1. PICK buffer \in KernelFrames, new \in KernelFrames :
                /\ Takes({buffer, new}, KernelFrames, 2) /\ buffer < new
                /\ Copy(p, v, new, x)
    BY <1>3
  <2>2. new \notin used
    BY <2>1 DEF Takes
  <2> QED BY <2>1, <2>2, <1>1, <1>3, CopyStep
<1> QED BY <1>2, <1>3 DEF Write

\* A write by a system call, which no protection stops.
LEMMA KernelWriteStep ==
    ASSUME Inv, NEW p \in Procs, NEW v \in Pages, NEW x \in Values,
           KernelWrite(p, v, x)
    PROVE  Inv' /\ (~SharedWrites /\ Isolation => Isolation')
<1> USE DEF Inv, Tables
<1>1. /\ v \in Mapped(p) /\ (mem[pt[p][v].frame] = 1 \/ SharedWrites)
      /\ data' = [data EXCEPT ![pt[p][v].frame] = x]
      /\ image' = [image EXCEPT ![p][v] = x]
      /\ UNCHANGED <<pt, mem, used, blocks, alive, panic>>
  BY DEF KernelWrite
<1>2. TypeOK'
  <2>1. data' \in [Frames -> Values] /\ image' \in [Procs -> [Pages -> Values]]
    BY <1>1 DEF TypeOK
  <2> QED BY <2>1, <1>1 DEF TypeOK
<1>3. Tables' /\ RefExact'
  BY <1>1, SameFrames
<1>4. WritableNotShared'
  BY <1>1 DEF WritableNotShared
<1>5. ~SharedWrites /\ Isolation => Isolation'
  BY <1>1, SoleWriter
<1> QED BY <1>2, <1>3, <1>4, <1>5

\* copy_page_tables: parent and child share every frame, and neither may write
\* it without a fault.
LEMMA ForkStep ==
    ASSUME Inv, NEW p \in Procs, NEW c \in Procs, Fork(p, c)
    PROVE  Inv' /\ (Isolation => Isolation')
<1> USE DEF Inv, Tables
<1> DEFINE ro == [v \in Pages |-> [pt[p][v] EXCEPT !.rw = FALSE]]
<1>1. /\ p \in alive /\ c \notin alive /\ p # c
      /\ pt' = [pt EXCEPT ![p] = ro, ![c] = ro]
      /\ mem' = [f \in Frames |-> mem[f] + Cardinality({v \in Pages : pt[p][v].frame = f})]
      /\ blocks' = [blocks EXCEPT ![c] = blocks[p]]
      /\ image' = [image EXCEPT ![c] = image[p]]
      /\ alive' = alive \cup {c}
      /\ used' = used /\ data' = data /\ panic' = panic
  BY DEF Fork
<1>2. /\ ro \in [Pages -> [frame : Frames \cup {None}, rw : BOOLEAN]]
      /\ \A v \in Pages : /\ ro[v].frame = pt[p][v].frame /\ ro[v].rw = FALSE
                          /\ ro[v] = NoPte <=> pt[p][v] = NoPte
  <2>1. \A v \in Pages : pt[p][v] \in [frame : Frames \cup {None}, rw : BOOLEAN]
    BY DEF TypeOK
  <2>2. ro \in [Pages -> [frame : Frames \cup {None}, rw : BOOLEAN]]
    BY <2>1
  <2>3. ASSUME NEW v \in Pages
        PROVE  /\ ro[v].frame = pt[p][v].frame /\ ro[v].rw = FALSE
               /\ ro[v] = NoPte <=> pt[p][v] = NoPte
    <3>1. ro[v].frame = pt[p][v].frame /\ ro[v].rw = FALSE
      BY <2>1
    <3>2. pt[p][v].frame = None <=> pt[p][v] = NoPte
      <4>1. pt[p][v].frame = None => pt[p][v] = NoPte
        BY DEF EntriesWhole
      <4>2. NoPte.frame = None
        BY DEF NoPte
      <4> QED BY <4>1, <4>2
    <3>3. ro[v] = NoPte <=> ro[v].frame = None
      BY <2>2, <3>1 DEF NoPte
    <3> QED BY <3>1, <3>2, <3>3
  <2> QED BY <2>2, <2>3
<1> HIDE DEF ro
<1>3. /\ pt' \in [Procs -> [Pages -> [frame : Frames \cup {None}, rw : BOOLEAN]]]
      /\ pt'[p] = ro /\ pt'[c] = ro
      /\ \A q \in Procs \ {p, c} : pt'[q] = pt[q]
  BY <1>1, <1>2 DEF TypeOK
<1>4. /\ \A q \in Procs \ {c} : \A v \in Pages :
            /\ pt'[q][v].frame = pt[q][v].frame
            /\ pt'[q][v] = NoPte <=> pt[q][v] = NoPte
      /\ \A v \in Pages : /\ pt'[c][v].frame = pt[p][v].frame
                          /\ pt'[c][v] = NoPte <=> pt[p][v] = NoPte
                          /\ pt[c][v] = NoPte /\ pt[c][v].frame = None
  <2>1. ASSUME NEW v \in Pages PROVE pt[c][v] = NoPte /\ pt[c][v].frame = None
    <3>1. Mapped(c) = {}
      BY <1>1 DEF DeadMapNothing
    <3>2. pt[c][v] = NoPte
      BY <3>1 DEF Mapped
    <3>3. NoPte.frame = None
      BY DEF NoPte
    <3> QED BY <3>2, <3>3
  <2> QED BY <1>2, <1>3, <2>1
<1>5. /\ \A q \in Procs \ {c} : Mapped(q)' = Mapped(q)
      /\ Mapped(c)' = Mapped(p)
  BY <1>4 DEF Mapped
<1>6. ASSUME NEW f \in Frames
      PROVE  \/ /\ \E v \in Mapped(p) : pt[p][v].frame = f
                /\ mem'[f] = mem[f] + 1 /\ f \in used
                /\ Cardinality(Refs(pt', f)) = Cardinality(Refs(pt, f)) + 1
             \/ /\ mem'[f] = mem[f] /\ Refs(pt', f) = Refs(pt, f)
                /\ ~ \E v \in Pages : pt[p][v].frame = f
  <2>1. mem'[f] = mem[f] + Cardinality({v \in Pages : pt[p][v].frame = f}) /\ mem[f] \in Nat
    BY <1>1 DEF TypeOK
  <2>2. f # None
    BY NoneNoFrame
  <2>3. CASE \E v \in Pages : pt[p][v].frame = f
    <3>1. PICK v \in Pages : pt[p][v].frame = f
      BY <2>3
    <3>2. v \in Mapped(p)
      BY <3>1, <2>2 DEF Mapped, NoPte
    <3>3. \A w \in Pages : pt[p][w].frame = f <=> w = v
      BY <3>1, <3>2, <2>2 DEF OwnFrames, Mapped, NoPte
    <3>4. {w \in Pages : pt[p][w].frame = f} = {v}
      BY <3>3
    <3>5. mem'[f] = mem[f] + 1
      BY <2>1, <3>4, FS_Singleton
    <3>6. <<c, v>> \notin Refs(pt, f)
      BY <1>4, <2>2 DEF Refs
    <3>7. ASSUME NEW q \in Procs, NEW w \in Pages
          PROVE  pt'[q][w].frame = f <=> pt[q][w].frame = f \/ (q = c /\ w = v)
      <4>1. CASE q = c
        BY <4>1, <3>3, <1>4, <2>2
      <4>2. CASE q # c
        BY <4>2, <1>4
      <4> QED BY <4>1, <4>2
    <3>8. Refs(pt', f) = Refs(pt, f) \cup {<<c, v>>}
      BY <3>7 DEF Refs
    <3>9. Cardinality(Refs(pt', f)) = Cardinality(Refs(pt, f)) + 1
      BY <3>6, <3>8, RefsFinite, FS_AddElement
    <3>10. f \in used
      BY <3>1, <3>2, MappedFrame
    <3> QED BY <3>1, <3>2, <3>5, <3>9, <3>10
  <2>4. CASE ~ \E v \in Pages : pt[p][v].frame = f
    <3>1. {v \in Pages : pt[p][v].frame = f} = {}
      BY <2>4
    <3>2. mem'[f] = mem[f]
      <4>1. Cardinality({v \in Pages : pt[p][v].frame = f}) = 0
        BY <3>1, FS_EmptySet
      <4> QED BY <2>1, <4>1
    <3>3. ASSUME NEW q \in Procs, NEW w \in Pages
          PROVE  pt'[q][w].frame = f <=> pt[q][w].frame = f
      BY <2>2, <2>4, <1>4
    <3>4. Refs(pt', f) = Refs(pt, f)
      BY <3>3 DEF Refs
    <3> QED BY <2>4, <3>2, <3>4
  <2> QED BY <2>3, <2>4
<1>7. \A f \in Frames : mem'[f] \in Nat
  BY <1>6 DEF TypeOK
<1>8. TypeOK'
  <2>1. mem' \in [Frames -> Nat]
    BY <1>1, <1>7
  <2>2. blocks' \in [Procs -> SUBSET [s : Pages, n : Nat \ {0}]]
    BY <1>1 DEF TypeOK
  <2>3. image' \in [Procs -> [Pages -> Values]]
    BY <1>1 DEF TypeOK
  <2>4. /\ data' \in [Frames -> Values] /\ used' \subseteq Frames
        /\ alive' \subseteq Procs /\ panic' \in BOOLEAN
    BY <1>1 DEF TypeOK
  <2> QED BY <2>1, <2>2, <2>3, <2>4, <1>3 DEF TypeOK
<1>9. EntriesWhole'
  <2> SUFFICES ASSUME NEW q \in Procs, NEW w \in Pages, pt'[q][w].frame = None
               PROVE  pt'[q][w] = NoPte
    BY DEF EntriesWhole
  <2>1. CASE q = c
    BY <2>1, <1>4 DEF EntriesWhole
  <2>2. CASE q # c
    BY <2>2, <1>4 DEF EntriesWhole
  <2> QED BY <2>1, <2>2
<1>10. OwnFrames'
  <2> SUFFICES ASSUME NEW q \in Procs, NEW v \in Mapped(q)', NEW w \in Mapped(q)',
                      pt'[q][v].frame = pt'[q][w].frame
               PROVE  v = w
    BY DEF OwnFrames
  <2>0. v \in Pages /\ w \in Pages
    BY DEF Mapped
  <2>1. CASE q = c
    BY <2>0, <2>1, <1>4, <1>5 DEF OwnFrames
  <2>2. CASE q # c
    BY <2>0, <2>2, <1>4, <1>5 DEF OwnFrames
  <2> QED BY <2>1, <2>2
<1>11. BlocksMapped'
  <2>1. /\ \A q \in Procs \ {c} : blocks'[q] = blocks[q]
        /\ blocks'[c] = blocks[p]
    BY <1>1 DEF TypeOK
  <2>2. \A q \in Procs : \A b \in blocks'[q] : Span(b) \subseteq Mapped(q)'
    BY <2>1, <1>5 DEF BlocksMapped
  <2>3. \A q \in Procs : \A b, d \in blocks'[q] : b # d => Span(b) \cap Span(d) = {}
    BY <2>1 DEF BlocksMapped
  <2> QED BY <2>2, <2>3 DEF BlocksMapped, Span
<1>12. DeadMapNothing'
  BY <1>1, <1>5 DEF DeadMapNothing, TypeOK
<1>13. RefExact'
  <2> SUFFICES ASSUME NEW f \in Frames
               PROVE  /\ mem'[f] = Cardinality(Refs(pt', f))
                      /\ f \in used' <=> mem'[f] > 0
    BY DEF RefExact, Refs
  <2>1. mem[f] = Cardinality(Refs(pt, f)) /\ (f \in used <=> mem[f] > 0) /\ mem[f] \in Nat
    BY DEF RefExact, Refs, TypeOK
  <2>2. CASE /\ mem'[f] = mem[f] + 1 /\ f \in used
             /\ Cardinality(Refs(pt', f)) = Cardinality(Refs(pt, f)) + 1
    BY <2>1, <2>2, <1>1
  <2>3. CASE mem'[f] = mem[f] /\ Refs(pt', f) = Refs(pt, f)
    BY <2>1, <2>3, <1>1
  <2> QED BY <2>2, <2>3, <1>6
<1>14. WritableNotShared'
  <2> SUFFICES ASSUME NEW q \in Procs, NEW w \in Pages, pt'[q][w].rw
               PROVE  mem'[pt'[q][w].frame] = 1
    BY DEF WritableNotShared
  <2>1. q \notin {p, c}
    BY <1>2, <1>3
  <2>2. pt'[q][w] = pt[q][w]
    BY <2>1, <1>3
  <2>3. w \in Mapped(q) /\ mem[pt[q][w].frame] = 1
    BY <2>2 DEF Mapped, NoPte, WritableNotShared
  <2>4. /\ pt[q][w].frame \in Frames
        /\ \A v \in Pages : pt[p][v].frame # pt[q][w].frame
    BY <2>1, <2>3, MappedFrame
  <2>5. mem'[pt[q][w].frame] = mem[pt[q][w].frame]
    BY <2>4, <1>6 DEF Mapped
  <2> QED BY <2>2, <2>3, <2>5
<1>15. ASSUME Isolation PROVE Isolation'
  <2> SUFFICES ASSUME NEW q \in alive', NEW w \in Mapped(q)'
               PROVE  data'[pt'[q][w].frame] = image'[q][w]
    BY DEF Isolation
  <2>0. q \in Procs /\ w \in Pages
    BY <1>8 DEF TypeOK, Mapped
  <2>1. CASE q = c
    <3>1. w \in Mapped(p) /\ pt'[q][w].frame = pt[p][w].frame /\ image'[q] = image[p]
      BY <2>0, <2>1, <1>1, <1>4, <1>5 DEF TypeOK
    <3> QED BY <3>1, <1>1, <1>15 DEF Isolation
  <2>2. CASE q # c
    <3>1. q \in alive /\ w \in Mapped(q) /\ pt'[q][w].frame = pt[q][w].frame /\ image'[q] = image[q]
      BY <2>0, <2>2, <1>1, <1>4, <1>5 DEF TypeOK
    <3> QED BY <3>1, <1>1, <1>15 DEF Isolation
  <2> QED BY <2>1, <2>2
<1> QED BY <1>8, <1>9, <1>10, <1>11, <1>12, <1>13, <1>14, <1>15

-----------------------------------------------------------------------------
(* The theorems. *)

\* The invariant holds when the first process starts.
LEMMA InitInv == Init => Inv /\ Isolation
<1> SUFFICES ASSUME Init PROVE Inv /\ Isolation
  OBVIOUS
<1>1. \A p \in Procs, v \in Pages : pt[p][v] = NoPte /\ pt[p][v].frame = None
  BY DEF Init, NoPte
<1>2. \A p \in Procs : Mapped(p) = {}
  BY <1>1 DEF Mapped
<1>3. TypeOK
  <2>1. NoPte \in [frame : Frames \cup {None}, rw : BOOLEAN]
    BY DEF NoPte
  <2> QED BY <2>1, CowAssumption DEF Init, TypeOK
<1>4. Tables
  <2>1. \A p \in Procs : blocks[p] = {}
    BY DEF Init
  <2> QED BY <1>1, <1>2, <2>1
          DEF Tables, EntriesWhole, OwnFrames, BlocksMapped, DeadMapNothing
<1>5. RefExact
  <2> SUFFICES ASSUME NEW f \in Frames
               PROVE  mem[f] = Cardinality(Refs(pt, f)) /\ (f \in used <=> mem[f] > 0)
    BY DEF RefExact, Refs
  <2>1. Refs(pt, f) = {}
    BY <1>1, NoneNoFrame DEF Refs
  <2>2. mem[f] = 0 /\ used = {}
    BY DEF Init
  <2> QED BY <2>1, <2>2, FS_EmptySet
<1>6. WritableNotShared
  BY <1>1 DEF WritableNotShared, NoPte
<1>7. Isolation
  BY <1>2, <1>3 DEF Isolation, TypeOK
<1> QED BY <1>3, <1>4, <1>5, <1>6, <1>7 DEF Inv

\* Every step keeps the invariant.
LEMMA NextInv ==
    Inv /\ [Next]_vars => Inv' /\ (~SharedWrites /\ Isolation => Isolation')
<1> SUFFICES ASSUME Inv, [Next]_vars
             PROVE  Inv' /\ (~SharedWrites /\ Isolation => Isolation')
  OBVIOUS
<1>1. ASSUME NEW p \in Procs, NEW n \in Sizes, Malloc(p, n)
      PROVE  Inv' /\ (Isolation => Isolation')
  BY <1>1, MallocStep
<1>2. ASSUME NEW p \in Procs, NEW b \in blocks[p], Free(p, b)
      PROVE  Inv' /\ (Isolation => Isolation')
  BY <1>2, FreeStep
<1>3. ASSUME NEW p \in Procs, NEW v \in Pages, NEW x \in Values, Write(p, v, x)
      PROVE  Inv' /\ (Isolation => Isolation')
  BY <1>3, WriteStep
<1>4. ASSUME NEW p \in Procs, NEW v \in Pages, NEW x \in Values, KernelWrite(p, v, x)
      PROVE  Inv' /\ (~SharedWrites /\ Isolation => Isolation')
  BY <1>4, KernelWriteStep
<1>5. ASSUME NEW p \in Procs, NEW c \in Procs, Fork(p, c)
      PROVE  Inv' /\ (Isolation => Isolation')
  BY <1>5, ForkStep
<1>6. ASSUME NEW p \in Procs, Exit(p)
      PROVE  Inv' /\ (Isolation => Isolation')
  BY <1>6, ExitStep
<1>7. CASE UNCHANGED vars
  <2>1. UNCHANGED <<pt, mem, used, data, blocks, alive, panic, image>>
    BY <1>7 DEF vars
  <2>2. TypeOK' /\ WritableNotShared'
    BY <2>1 DEF Inv, TypeOK, WritableNotShared
  <2>3. Tables' /\ RefExact'
    BY <2>1, SameFrames
  <2>4. Isolation => Isolation'
    BY <2>1 DEF Isolation, Mapped
  <2> QED BY <2>2, <2>3, <2>4 DEF Inv
<1> QED BY <1>1, <1>2, <1>3, <1>4, <1>5, <1>6, <1>7 DEF Next

\* The inductive invariant holds in every reachable state.
THEOREM Invariance == Spec => []Inv
<1>1. Init => Inv
  BY InitInv
<1>2. Inv /\ [Next]_vars => Inv'
  BY NextInv
<1> QED BY <1>1, <1>2, PTL DEF Spec

\* Page tables, mem[], the pool bitmaps and the heap's blocks always hold values
\* of their types.
THEOREM TypeCorrect == Spec => []TypeOK
BY Invariance, PTL DEF Inv

\* mem[] counts exactly the page table entries that map a frame, and the pool
\* bitmap marks exactly the frames that are mapped, for any number of
\* processes, pages and frames.
THEOREM CountsExact == Spec => []RefExact
BY Invariance, PTL DEF Inv

\* A page that can be written without a fault shares its frame with nobody.
THEOREM NeverWritableAndShared == Spec => []WritableNotShared
BY Invariance, PTL DEF Inv

\* As long as no system call writes into a shared page, a process finds in
\* every page what it last wrote there.
THEOREM ProcessesIsolated ==
    ASSUME SharedWrites = FALSE PROVE Spec => []Isolation
<1>1. Init => Inv /\ Isolation
  BY InitInv
<1>2. Inv /\ Isolation /\ [Next]_vars => Inv' /\ Isolation'
  BY NextInv
<1> QED BY <1>1, <1>2, PTL DEF Spec

\* Of the ASSERTs of free_a_phy_page and mfree_page only one can fail, in the
\* free of a large block whose pages have come to lie in both pools; sys_exit
\* never fails.
THEOREM OnlyMixedBlocksPanic ==
    Spec => [][panic' # panic =>
                 \E p \in alive : \E b \in blocks[p] : \E v \in Span(b) :
                    /\ Free(p, b)
                    /\ (pt[p][v].frame \in UserFrames) # (pt[p][b.s].frame \in UserFrames)]_vars
<1> DEFINE Mixed ==
      \E p \in alive : \E b \in blocks[p] : \E v \in Span(b) :
         /\ Free(p, b)
         /\ (pt[p][v].frame \in UserFrames) # (pt[p][b.s].frame \in UserFrames)
<1>1. Inv /\ [Next]_vars => [panic' # panic => Mixed]_vars
  <2> SUFFICES ASSUME Inv, Next, panic' # panic PROVE Mixed
    OBVIOUS
  <2>1. ASSUME NEW p \in Procs, NEW b \in blocks[p], Free(p, b)
        PROVE  Mixed
    <3>1. /\ panic = FALSE /\ p \in alive
          /\ \E v \in Span(b) : \/ mem[pt[p][v].frame] = 0
                                \/ (pt[p][v].frame \in UserFrames)
                                     # (pt[p][b.s].frame \in UserFrames)
      BY <2>1 DEF Free, Inv, TypeOK
    <3>2. PICK v \in Span(b) : \/ mem[pt[p][v].frame] = 0
                               \/ (pt[p][v].frame \in UserFrames)
                                     # (pt[p][b.s].frame \in UserFrames)
      BY <3>1
    <3>3. v \in Mapped(p)
      BY DEF Inv, Tables, BlocksMapped
    <3>4. mem[pt[p][v].frame] # 0
      BY <3>3, MappedFrame DEF Inv, Tables
    <3> QED BY <2>1, <3>1, <3>2, <3>4
  <2>2. ASSUME NEW p \in Procs, NEW n \in Sizes, Malloc(p, n) PROVE FALSE
    BY <2>2 DEF Malloc
  <2>3. ASSUME NEW p \in Procs, NEW v \in Pages, NEW x \in Values,
               Write(p, v, x) \/ KernelWrite(p, v, x)
        PROVE  FALSE
    BY <2>3 DEF Write, KernelWrite
  <2>4. ASSUME NEW p \in Procs, NEW c \in Procs, Fork(p, c) PROVE FALSE
    BY <2>4 DEF Fork
  <2>5. ASSUME NEW p \in Procs, Exit(p) PROVE FALSE
    <3>1. panic' = FALSE
      BY <2>5, ExitStep
    <3>2. panic = FALSE
      BY <2>5 DEF Exit, Inv, TypeOK
    <3> QED BY <3>1, <3>2
  <2> HIDE DEF Mixed
  <2> QED BY <2>1, <2>2, <2>3, <2>4, <2>5 DEF Next
<1> QED BY <1>1, Invariance, PTL DEF Spec
=============================================================================
