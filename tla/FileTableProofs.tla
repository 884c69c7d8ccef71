--------------------------- MODULE FileTableProofs ---------------------------
(***************************************************************************)
(* Open files, as MCFile checks them, for any numbers of processes,        *)
(* descriptors, file_table entries, inodes and directory entries:          *)
(* descriptors stay valid, open counts are exact, a file has one inode in  *)
(* memory, an open file is not deleted and the ring of a pipe lives as     *)
(* long as a descriptor, whatever close, exit, pipe and fork come while    *)
(* another call waits for the disk.                                        *)
(***************************************************************************)
EXTENDS FileTable, KernelFacts, FiniteSetTheorems

\* No pipe() while file_open waits for the disk, no fork with a regular file
\* open: the code does not survive either (README, "Disagreements").
Unraced == PipeRace = FALSE /\ Forking # "files"

-----------------------------------------------------------------------------
(* The inductive invariant *)

InCall(p) == at[p].pc \notin {"user", "exit"}
Making(p) == at[p].pc \in {"creating", "adding", "syncing"}
Named(i)  == \E e \in Entries : dir[e].ino = i
NotOpen(i) == \A o \in Objs : InList(o, open) => heap[o].ino # i

\* Who refers to an in-memory inode, and to a file_table entry
Users(o) == {s \in Slots : slot[s].inode = o}
Deleters(o) == {p \in Procs : at[p].pc = "deleting" /\ at[p].obj = o}
Refs(s) == {x \in alive \X Fds : fd[x[1]][x[2]] = s}

Dirent == [name : Names \cup {None}, ino : Inos \cup {None}]
Inode  == [ino : Inos \cup {None}, cnt : Nat, deny : BOOLEAN]
File   == [inode : Objs \cup {None, Ring}, flag : {"r", "w", "pipe"}, pos : 0..MaxPos]
Call   == [pc : {"user", "exit", "searched", "reading", "creating", "adding", "syncing",
                 "unlinking", "removing", "releasing", "deleting"},
           op : {"none", "open", "create", "unlink"},
           name : Names \cup {None}, mode : {"r", "w"},
           ino : Inos \cup {None}, slot : Slots \cup {None}, obj : Objs \cup {None},
           buf : [Entries -> Dirent]]

Types ==
    /\ dir \in [Entries -> Dirent] /\ imap \subseteq Inos
    /\ heap \in [Objs -> Inode]
    /\ open \in Seq(Objs) /\ NoRepeat(open)
    /\ slot \in [Slots -> File]
    /\ fd \in [Procs -> [Fds -> Slots \cup {None}]]
    /\ alive \subseteq Procs
    /\ at \in [Procs -> Call]
    /\ panic \in BOOLEAN

OneCall == \A p, q \in Procs : InCall(p) /\ InCall(q) => p = q

\* The local variables of a call describe the tables.
CallOK(p) ==
    LET a == at[p] IN
    /\ a.pc \notin {"reading", "creating", "adding", "syncing", "deleting"} => a.obj = None
    /\ a.pc = "searched" /\ a.ino # None => Named(a.ino)
    /\ a.pc = "reading" =>
         /\ a.obj # None /\ heap[a.obj] = NoInode /\ ~InList(a.obj, open)
         /\ a.ino # None /\ NotOpen(a.ino)
         /\ a.op = "open" => a.slot # None /\ slot[a.slot].inode = None /\ Named(a.ino)
         /\ a.op # "open" => ~InUse(a.ino) /\ ~Named(a.ino)
    /\ Making(p) =>
         /\ a.ino \in imap /\ a.slot # None /\ a.obj # None
         /\ heap[a.obj] = [ino |-> a.ino, cnt |-> 0, deny |-> FALSE]
         /\ ~InList(a.obj, open) /\ NotOpen(a.ino)
         /\ Users(a.obj) = {a.slot} /\ slot[a.slot].flag # "pipe" /\ Refs(a.slot) = {}
         /\ \A s \in Slots \ {a.slot} : slot[s].inode \in Objs =>
                                           heap[slot[s].inode].ino # a.ino
         /\ Named(a.ino) <=> a.pc = "syncing"
         /\ a.pc = "adding" => a.buf = dir
    /\ a.pc \in {"unlinking", "removing", "releasing"} =>
         /\ a.op = "unlink" /\ a.ino # None /\ ~InUse(a.ino)
         /\ a.pc = "removing" => a.buf = dir
         /\ a.pc = "releasing" => ~Named(a.ino)
    /\ a.pc = "deleting" => InList(a.obj, open) /\ Users(a.obj) = {}

\* An in-memory inode is in open_inodes with an exact count, or free, or that
\* of a file being created.
InodeOK(o) ==
    /\ InList(o, open) => /\ heap[o].ino # None /\ heap[o].cnt > 0
                          /\ heap[o].cnt = Cardinality(Users(o)) + Cardinality(Deleters(o))
    /\ ~InList(o, open) => \/ heap[o] = NoInode
                           \/ \E p \in Procs : Making(p) /\ at[p].obj = o

\* A file_table entry is free, of a pipe with enough uses, or of an inode
\* whose file exists.
SlotOK(s) ==
    /\ slot[s].flag = "pipe" =>
         /\ slot[s].inode \in {None, Ring}
         /\ slot[s].pos = 0 <=> slot[s].inode = None
         /\ slot[s].pos >= Cardinality(Refs(s))
    /\ slot[s].flag # "pipe" => slot[s].inode # Ring
    /\ slot[s].inode \in Objs =>
         /\ heap[slot[s].inode].ino \in imap
         /\ \/ InList(slot[s].inode, open) /\ Named(heap[slot[s].inode].ino)
            \/ \E p \in Procs : Making(p) /\ at[p].slot = s /\ at[p].obj = slot[s].inode

\* A descriptor of a file has its file_table entry for itself.
FdOK(p, f) ==
    fd[p][f] # None /\ slot[fd[p][f]].flag # "pipe" =>
        /\ InList(slot[fd[p][f]].inode, open)
        /\ \A q \in alive, g \in Fds : fd[q][g] = fd[p][f] => q = p /\ g = f

OneEach ==
    \A o, u \in Objs :
        InList(o, open) /\ InList(u, open) /\ heap[o].ino = heap[u].ino => o = u

Inv ==
    /\ Types /\ OneCall /\ OneEach
    /\ \A p \in Procs : CallOK(p)
    /\ \A e \in Entries : dir[e].ino # None => dir[e].ino \in imap
    /\ \A o \in Objs : InodeOK(o)
    /\ \A s \in Slots : SlotOK(s)
    /\ \A p \in alive, f \in Fds : FdOK(p, f)

-----------------------------------------------------------------------------
(* What the searches of the model return. *)

\* NULL, the ring of a pipe and the numbers of the tables differ.
LEMMA Apart ==
    /\ None = 0 /\ Ring = -1 /\ None # Ring
    /\ None \notin Objs /\ None \notin Slots /\ None \notin Fds /\ None \notin Inos
    /\ None \notin Entries /\ Ring \notin Objs
    /\ Objs \subseteq Nat /\ Slots \subseteq Nat /\ Fds \subseteq Nat
    /\ Inos \subseteq Nat /\ Entries \subseteq Nat
BY TableAssumption DEF None, Ring

\* A search from the first index finds something if there is something.
LEMMA LowestFacts ==
    ASSUME NEW S, S \subseteq Nat
    PROVE  /\ S = {} => Lowest(S) = None
           /\ S # {} => Lowest(S) \in S
<1>1. ASSUME S # {} PROVE Lowest(S) \in S
  <2>1. \E x \in S : \A y \in S : x <= y
    BY <1>1, LeastNat
  <2>2. Lowest(S) = CHOOSE i \in S : \A j \in S : i <= j
    BY <1>1 DEF Lowest
  <2> QED BY <2>1, <2>2
<1> QED BY <1>1 DEF Lowest

\* inode_open finds the inode in open_inodes if it is there.
LEMMA InOpenFacts ==
    ASSUME open \in Seq(Objs), NEW i
    PROVE  /\ InOpen(i) = None => NotOpen(i)
           /\ InOpen(i) # None => /\ InOpen(i) \in Objs /\ InList(InOpen(i), open)
                                  /\ heap[InOpen(i)].ino = i
<1> DEFINE S == {j \in 1..Len(open) : heap[open[j]].ino = i}
<1>1. S \subseteq Nat /\ Len(open) \in Nat /\ DOMAIN open = 1..Len(open)
      /\ 0 \notin S /\ \A j \in S : open[j] \in Objs
  OBVIOUS
<1>2. InOpen(i) = IF Lowest(S) = None THEN None ELSE open[Lowest(S)]
  BY DEF InOpen
<1>3. CASE S = {}
  <2>1. InOpen(i) = None
    BY <1>1, <1>2, <1>3, LowestFacts
  <2>2. NotOpen(i)
    BY <1>1, <1>3 DEF NotOpen, InList
  <2> QED BY <2>1, <2>2
<1>4. CASE S # {}
  <2>1. Lowest(S) \in S
    BY <1>1, <1>4, LowestFacts
  <2>2. Lowest(S) # None
    BY <2>1, <1>1 DEF None
  <2>3. InOpen(i) = open[Lowest(S)] /\ Lowest(S) \in DOMAIN open
    BY <2>1, <2>2, <1>1, <1>2
  <2>4. InOpen(i) \in Objs /\ heap[InOpen(i)].ino = i /\ InList(InOpen(i), open)
    BY <2>1, <2>3, <1>1 DEF InList
  <2> QED BY <2>4, Apart
<1> QED BY <1>3, <1>4

\* The first free entry of file_table, if there is one.
LEMMA FreeSlotFacts ==
    /\ get_free_slot_in_global \in Slots \cup {None}
    /\ get_free_slot_in_global # None => slot[get_free_slot_in_global].inode = None
<1> DEFINE S == {s \in Slots : slot[s].inode = None}
<1>1. S \subseteq Nat /\ get_free_slot_in_global = Lowest(S)
  BY Apart DEF get_free_slot_in_global
<1> QED BY <1>1, LowestFacts

\* The sets whose sizes the counts are compared with are finite.
LEMMA Finite ==
    /\ \A o : IsFiniteSet(Users(o)) /\ Cardinality(Users(o)) \in Nat
    /\ \A o : IsFiniteSet(Deleters(o)) /\ Cardinality(Deleters(o)) \in Nat
    /\ alive \subseteq Procs =>
          \A s : IsFiniteSet(Refs(s)) /\ Cardinality(Refs(s)) \in Nat
<1>1. IsFiniteSet(Slots) /\ IsFiniteSet(Procs) /\ IsFiniteSet(Fds)
  BY TableAssumption
<1>2. ASSUME NEW o PROVE IsFiniteSet(Users(o)) /\ IsFiniteSet(Deleters(o))
  <2>1. Users(o) \in SUBSET Slots /\ Deleters(o) \in SUBSET Procs
    BY DEF Users, Deleters
  <2> QED BY <1>1, <2>1, FS_Subset
<1>3. ASSUME alive \subseteq Procs, NEW s PROVE IsFiniteSet(Refs(s))
  <2>1. IsFiniteSet(Procs \X Fds)
    BY <1>1, FS_Product
  <2>2. Refs(s) \in SUBSET (Procs \X Fds)
    BY <1>3 DEF Refs
  <2> QED BY <2>1, <2>2, FS_Subset
<1> QED BY <1>2, <1>3, FS_CardinalityType

-----------------------------------------------------------------------------
(* What the invariant says in one state. *)

\* While a process is in a call nobody else is.
LEMMA Alone ==
    ASSUME Inv, NEW p \in Procs, InCall(p)
    PROVE  \A q \in Procs \ {p} : ~InCall(q)
BY DEF Inv, OneCall

\* Outside a call there are no local variables to describe anything.
LEMMA IdleCall ==
    ASSUME NEW q \in Procs, CallOK(q), ~InCall(q), at'[q] = at[q]
    PROVE  CallOK(q)' /\ ~InCall(q)'
<1>1. at[q].pc \in {"user", "exit"} /\ at[q].obj = None
  BY DEF InCall, CallOK
<1> QED BY <1>1 DEF InCall, CallOK, Making

\* No descriptor leads to a free file_table entry.
LEMMA FreeSlotUnused ==
    ASSUME Inv, NEW s \in Slots, slot[s].inode = None
    PROVE  Refs(s) = {}
<1>1. SlotOK(s) /\ Types /\ slot[s] \in File
  BY DEF Inv, Types
<1>2. CASE slot[s].flag = "pipe"
  <2>1. slot[s].pos = 0 /\ slot[s].pos >= Cardinality(Refs(s))
    BY <1>1, <1>2 DEF SlotOK
  <2>2. IsFiniteSet(Refs(s)) /\ Cardinality(Refs(s)) \in Nat
    BY <1>1, Finite DEF Types
  <2>3. Cardinality(Refs(s)) = 0
    BY <2>1, <2>2
  <2> QED BY <2>2, <2>3, FS_EmptySet
<1>3. CASE slot[s].flag # "pipe"
  <2> SUFFICES ASSUME NEW q \in alive, NEW f \in Fds, fd[q][f] = s PROVE FALSE
    BY DEF Refs
  <2>1. InList(None, open)
    BY <1>3, Apart DEF Inv, FdOK
  <2> QED BY <2>1, <1>1, Apart DEF Types, InList
<1> QED BY <1>2, <1>3

\* An inode in open_inodes is in use: by an entry of file_table, or by the
\* deletion under way.
LEMMA OpenUsed ==
    ASSUME Inv, NEW o, InList(o, open)
    PROVE  /\ o \in Objs /\ heap[o] # NoInode
           /\ Users(o) # {} \/ Deleters(o) # {}
<1>1. o \in Objs /\ InodeOK(o)
  BY DEF Inv, Types, InList
<1>2. heap[o].ino # None
  BY <1>1 DEF InodeOK
<1>3. heap[o] # NoInode
  BY <1>2 DEF NoInode
<1>4. ASSUME Users(o) = {}, Deleters(o) = {} PROVE FALSE
  <2>1. Cardinality(Users(o)) = 0 /\ Cardinality(Deleters(o)) = 0
    BY <1>4, FS_EmptySet
  <2>2. heap[o].cnt > 0 /\ heap[o].cnt = 0 + 0
    BY <1>1, <2>1 DEF InodeOK
  <2> QED BY <2>2
<1> QED BY <1>1, <1>3, <1>4

\* When no file is being created or deleted, an in-memory inode has a user
\* exactly if it is in open_inodes, and is free otherwise.
LEMMA UsedOpen ==
    ASSUME Inv, \A q \in Procs : ~Making(q) /\ at[q].pc # "deleting", NEW o \in Objs
    PROVE  /\ Users(o) # {} <=> InList(o, open)
           /\ ~InList(o, open) => heap[o] = NoInode
           /\ Deleters(o) = {}
<1>1. Deleters(o) = {}
  BY DEF Deleters
<1>2. ~InList(o, open) => heap[o] = NoInode
  BY DEF Inv, InodeOK
<1>3. ASSUME NEW s \in Slots, slot[s].inode = o PROVE InList(o, open)
  BY <1>3 DEF Inv, SlotOK
<1> QED BY <1>1, <1>2, <1>3, OpenUsed DEF Users

\* The heap has a block for the inode that is opened or created next.
LEMMA FreeObjFacts ==
    ASSUME Inv, \A q \in Procs : at[q].obj = None /\ ~Making(q) /\ at[q].pc # "deleting"
    PROVE  /\ FreeObj \in Objs /\ heap[FreeObj] = NoInode
           /\ ~InList(FreeObj, open) /\ Users(FreeObj) = {} /\ Deleters(FreeObj) = {}
<1> DEFINE S == {o \in Objs : heap[o] = NoInode}
           F == [o \in Objs |-> CHOOSE s \in Slots : slot[s].inode = o]
<1>1. FreeObj = Lowest(S)
  <2>1. {o \in Objs : heap[o] = NoInode /\ \A p \in Procs : at[p].obj # o} = S
    BY Apart
  <2> QED BY <2>1 DEF FreeObj
<1>2. S # {}
  <2> SUFFICES ASSUME S = {} PROVE FALSE
    OBVIOUS
  <2>1. ASSUME NEW o \in Objs PROVE F[o] \in Slots /\ slot[F[o]].inode = o
    <3>1. \E s \in Slots : slot[s].inode = o
      BY UsedOpen DEF Users
    <3> QED BY <3>1
  <2>2. F \in [Objs -> Slots]
    BY <2>1
  <2>3. IsFiniteSet(Objs) /\ IsFiniteSet(Slots) /\ Cardinality(Slots) < Cardinality(Objs)
    <3>1. IsFiniteSet(Objs) /\ IsFiniteSet(Slots) /\ Cardinality(Objs) > Cardinality(Slots)
      BY TableAssumption
    <3> QED BY <3>1, FS_CardinalityType
  <2> HIDE DEF F
  <2>4. PICK o \in Objs, u \in Objs : o # u /\ F[o] = F[u]
    BY <2>2, <2>3, FS_PigeonHole
  <2> QED BY <2>1, <2>4
<1>3. S \subseteq Nat
  BY Apart
<1>4. FreeObj \in S
  BY <1>1, <1>2, <1>3, LowestFacts
<1>5. ~InList(FreeObj, open)
  BY <1>4, OpenUsed
<1> QED BY <1>4, <1>5, UsedOpen

-----------------------------------------------------------------------------
(* Steps that change only the local variables of a call. *)

tables == <<dir, imap, heap, open, slot, fd, alive>>

\* Going on to another point of a call keeps the invariant if the new point
\* and its local variables describe the tables.
LEMMA CallStep ==
    ASSUME Inv, NEW p \in Procs, NEW b \in Call,
           at' = [at EXCEPT ![p] = b], UNCHANGED tables, panic' \in BOOLEAN,
           \A q \in Procs \ {p} : ~InCall(q),
           at[p].pc # "deleting", b.pc # "deleting",
           Making(p) <=> b.pc \in {"creating", "adding", "syncing"},
           Making(p) => b.slot = at[p].slot /\ b.obj = at[p].obj,
           CallOK(p)'
    PROVE  Inv'
<1>0. /\ Types /\ at \in [Procs -> Call] /\ at'[p] = b
      /\ \A q \in Procs : q # p => at'[q] = at[q]
      /\ dir' = dir /\ imap' = imap /\ heap' = heap /\ open' = open /\ slot' = slot
      /\ fd' = fd /\ alive' = alive
  BY DEF Inv, Types, tables
<1>1. Types'
  BY <1>0 DEF Types
<1>2. \A q \in Procs : q # p => CallOK(q)' /\ ~InCall(q)'
  BY <1>0, IdleCall DEF Inv
<1>3. OneCall' /\ \A q \in Procs : CallOK(q)'
  BY <1>2 DEF OneCall
<1>4. \A q \in Procs : /\ Making(q)' <=> Making(q)
                       /\ Making(q) => at'[q].slot = at[q].slot /\ at'[q].obj = at[q].obj
                       /\ at'[q].pc = "deleting" <=> at[q].pc = "deleting"
                       /\ at[q].pc = "deleting" => at'[q].obj = at[q].obj
  BY <1>0 DEF Making
<1>5. /\ \A i : Named(i)' <=> Named(i)
      /\ \A o : Users(o)' = Users(o)
      /\ \A s : Refs(s)' = Refs(s)
  BY <1>0 DEF Named, Users, Refs
<1>6. ASSUME NEW o PROVE Deleters(o)' = Deleters(o)
  BY <1>4 DEF Deleters
<1>7. \A o \in Objs : InodeOK(o)'
  BY <1>0, <1>4, <1>5, <1>6 DEF Inv, InodeOK
<1>8. \A s \in Slots : SlotOK(s)'
  BY <1>0, <1>4, <1>5 DEF Inv, SlotOK
<1>9. OneEach' /\ \A q \in alive', f \in Fds : FdOK(q, f)'
  BY <1>0 DEF Inv, OneEach, FdOK
<1>10. \A e \in Entries : dir'[e].ino # None => dir'[e].ino \in imap'
  BY <1>0 DEF Inv
<1> QED BY <1>1, <1>3, <1>7, <1>8, <1>9, <1>10 DEF Inv

\* A call that returns has no local variables left.
LEMMA ReturnStep ==
    ASSUME Inv, NEW p \in Procs, InCall(p), ~Making(p), at[p].pc # "deleting",
           Return(p), UNCHANGED tables, panic' \in BOOLEAN
    PROVE  Inv'
<1>1. User \in Call /\ User.pc = "user" /\ User.obj = None
  BY DEF User, Call, NoEntry, Dirent
<1>2. at' = [at EXCEPT ![p] = User] /\ at'[p] = User
  BY DEF Return, Inv, Types
<1>3. CallOK(p)'
  BY <1>1, <1>2 DEF CallOK, Making
<1> QED BY <1>1, <1>2, <1>3, Alone, CallStep

\* The search of the directory returns the number of an entry of that name.
LEMMA LookupFacts ==
    ASSUME dir \in [Entries -> Dirent], NEW name
    PROVE  /\ Lookup(dir, name) \in Inos \cup {None}
           /\ Lookup(dir, name) # None => Named(Lookup(dir, name))
<1> DEFINE S == {i \in Entries : dir[i].name = name}
<1>1. Lookup(dir, name) = IF Lowest(S) = None THEN None ELSE dir[Lowest(S)].ino
  BY DEF Lookup
<1>2. Lowest(S) = None \/ Lowest(S) \in Entries
  BY Apart, LowestFacts
<1> HIDE DEF S
<1>3. CASE Lowest(S) = None
  BY <1>1, <1>3
<1>4. CASE Lowest(S) # None
  <2>1. Lookup(dir, name) = dir[Lowest(S)].ino /\ Lowest(S) \in Entries
    BY <1>1, <1>2, <1>4
  <2> QED BY <2>1 DEF Named, Dirent
<1> QED BY <1>3, <1>4

\* search_file, at the start of each call.
LEMMA SearchInv ==
    ASSUME Inv, NEW p \in Procs, NEW op \in {"open", "create", "unlink"},
           NEW n \in Names, NEW m \in Modes, Search(p, op, n, m)
    PROVE  Inv'
<1> DEFINE b == [User EXCEPT !.pc = "searched", !.op = op, !.name = n, !.mode = m,
                             !.ino = Lookup(dir, n)]
<1>1. /\ at[p].pc = "user" /\ at' = [at EXCEPT ![p] = b] /\ UNCHANGED tables
      /\ panic' = panic /\ \A q \in Procs : at[q].pc \in {"user", "exit"}
  BY DEF Search, At, ChannelFree, tables, fsVars
<1>2. m \in {"r", "w"} /\ dir \in [Entries -> Dirent] /\ at \in [Procs -> Call] /\ panic \in BOOLEAN
  BY TableAssumption DEF Inv, Types
<1>3. b \in Call /\ b.pc = "searched" /\ b.obj = None /\ b.ino = Lookup(dir, n)
  BY <1>2, LookupFacts DEF User, Call, NoEntry, Dirent
<1> HIDE DEF b
<1>4. at'[p] = b /\ dir' = dir
  BY <1>1, <1>2 DEF tables
<1>5. CallOK(p)'
  BY <1>2, <1>3, <1>4, LookupFacts DEF CallOK, Making, Named
<1> QED BY <1>1, <1>2, <1>3, <1>5, CallStep DEF InCall, Making

\* sys_unlink: a file that nobody has open may be deleted.
LEMMA UnlinkCheckInv ==
    ASSUME Inv, NEW p \in Procs, unlink_check(p)
    PROVE  Inv'
<1>1. /\ at[p].pc = "searched" /\ UNCHANGED tables /\ panic' = panic
      /\ at \in [Procs -> Call] /\ at[p] \in Call /\ CallOK(p) /\ panic \in BOOLEAN
  BY DEF unlink_check, At, tables, fsVars, Inv, Types
<1>2. InCall(p) /\ ~Making(p) /\ at[p].obj = None
  BY <1>1 DEF InCall, Making, CallOK
<1>3. CASE at[p].ino = None \/ InUse(at[p].ino)
  BY <1>1, <1>2, <1>3, ReturnStep DEF unlink_check
<1>4. CASE at[p].ino # None /\ ~InUse(at[p].ino)
  <2> DEFINE b == [at[p] EXCEPT !.pc = "unlinking"]
  <2>1. at' = [at EXCEPT ![p] = b] /\ at'[p] = b
    BY <1>1, <1>4 DEF unlink_check
  <2>2. b \in Call /\ b.pc = "unlinking" /\ b.obj = None /\ b.ino = at[p].ino
        /\ b.op = "unlink"
    BY <1>1, <1>2 DEF Call, unlink_check
  <2> HIDE DEF b
  <2>3. CallOK(p)'
    BY <1>1, <1>4, <2>1, <2>2 DEF CallOK, Making, InUse, tables
  <2> QED BY <1>1, <1>2, <2>1, <2>2, <2>3, Alone, CallStep DEF Making
<1> QED BY <1>3, <1>4

\* The directory's sector is read into the buffer.
LEMMA ReadDirInv ==
    ASSUME Inv, NEW p \in Procs, ReadDir(p)
    PROVE  Inv'
<1> DEFINE b == [at[p] EXCEPT !.pc = IF @ = "creating" THEN "adding" ELSE "removing",
                              !.buf = dir]
<1>1. /\ at[p].pc \in {"creating", "unlinking"} /\ UNCHANGED tables /\ panic' = panic
      /\ at \in [Procs -> Call] /\ at[p] \in Call /\ CallOK(p) /\ panic \in BOOLEAN
      /\ dir \in [Entries -> Dirent]
  BY DEF ReadDir, At, tables, fsVars, Inv, Types
<1>2. at' = [at EXCEPT ![p] = b] /\ at'[p] = b
  BY <1>1 DEF ReadDir
<1>3. /\ b \in Call /\ b.pc = (IF at[p].pc = "creating" THEN "adding" ELSE "removing")
      /\ b.obj = at[p].obj /\ b.ino = at[p].ino /\ b.slot = at[p].slot /\ b.buf = dir
      /\ b.op = at[p].op
  BY <1>1 DEF Call
<1> HIDE DEF b
<1>4. /\ \A i : Named(i)' <=> Named(i)
      /\ \A o : Users(o)' = Users(o)
      /\ \A s : Refs(s)' = Refs(s)
      /\ \A i : NotOpen(i)' <=> NotOpen(i)
      /\ \A i : InUse(i)' <=> InUse(i)
      /\ dir' = dir /\ heap' = heap /\ open' = open /\ slot' = slot /\ imap' = imap
  BY <1>1 DEF Named, Users, Refs, tables, NotOpen, InUse
<1>5. CASE at[p].pc = "creating"
  <2>1. Making(p) /\ b.pc = "adding" /\ InCall(p)
    BY <1>3, <1>5 DEF Making, InCall
  <2>2. CallOK(p)'
    BY <1>1, <1>2, <1>3, <1>4, <1>5, <2>1 DEF CallOK, Making
  <2> QED BY <1>1, <1>2, <1>3, <2>1, <2>2, Alone, CallStep
<1>6. CASE at[p].pc = "unlinking"
  <2>1. ~Making(p) /\ b.pc = "removing" /\ InCall(p)
    BY <1>3, <1>6 DEF Making, InCall
  <2>2. CallOK(p)'
    BY <1>1, <1>2, <1>3, <1>4, <1>6, <2>1 DEF CallOK, Making
  <2> QED BY <1>1, <1>2, <1>3, <2>1, <2>2, Alone, CallStep
<1> QED BY <1>1, <1>5, <1>6

-----------------------------------------------------------------------------
(* Steps that open a file. *)

\* Refs collects the descriptors of an entry.
LEMMA RefsFacts ==
    ASSUME NEW s, NEW q \in alive, NEW g \in Fds
    PROVE  fd[q][g] = s <=> <<q, g>> \in Refs(s)
BY DEF Refs

\* At most one free descriptor of p is set to s, or none.
Installed(p, s) ==
    \/ fd' = fd
    \/ \E f \in Fds : fd[p][f] = None /\ fd' = [fd EXCEPT ![p][f] = s]

\* pcb_fd_install takes a free descriptor, or none.
LEMMA InstallFacts ==
    ASSUME Types, NEW p \in Procs, NEW s \in Slots, Install(p, s)
    PROVE  Installed(p, s) /\ at' = [at EXCEPT ![p] = User]
<1> DEFINE F == {g \in Fds : fd[p][g] = None}
<1>1. fd' = IF Lowest(F) = None THEN fd ELSE [fd EXCEPT ![p][Lowest(F)] = s]
  BY DEF Install
<1>2. F \subseteq Nat
  BY Apart
<1>3. Lowest(F) # None => Lowest(F) \in F
  BY <1>2, LowestFacts
<1>4. Lowest(F) \in F => Lowest(F) \in Fds /\ fd[p][Lowest(F)] = None
  OBVIOUS
<1> HIDE DEF F
<1> QED BY <1>1, <1>3, <1>4 DEF Install, Return, Installed

\* A descriptor set to an entry that had none is the only one of that entry;
\* all others are as before.
LEMMA InstalledFacts ==
    ASSUME Types, NEW p \in Procs, NEW s \in Slots, Installed(p, s), alive' = alive,
           p \in alive, Refs(s) = {}
    PROVE  /\ fd' \in [Procs -> [Fds -> Slots \cup {None}]]
           /\ \A t \in Slots \ {s} : Refs(t)' = Refs(t)
           /\ \A q, r \in alive, g, h \in Fds :
                  fd'[q][g] = s /\ fd'[r][h] = s => q = r /\ g = h
           /\ \A q \in alive, g \in Fds : fd'[q][g] # s => fd'[q][g] = fd[q][g]
<1>1. \A q \in alive, g \in Fds : fd[q][g] # s
  BY RefsFacts
<1>2. /\ fd \in [Procs -> [Fds -> Slots \cup {None}]] /\ alive \subseteq Procs
      /\ None \notin Slots
  BY Apart DEF Types
<1>3. CASE fd' = fd
  BY <1>1, <1>2, <1>3 DEF Refs
<1>4. ASSUME NEW f \in Fds, fd[p][f] = None, fd' = [fd EXCEPT ![p][f] = s]
      PROVE  /\ fd' \in [Procs -> [Fds -> Slots \cup {None}]]
             /\ \A q \in alive, g \in Fds : fd'[q][g] = s => q = p /\ g = f
             /\ \A q \in alive, g \in Fds : q # p \/ g # f => fd'[q][g] = fd[q][g]
             /\ fd'[p][f] = s
  <2>1. fd' = [fd EXCEPT ![p] = [fd[p] EXCEPT ![f] = s]]
    BY <1>4
  <2>2. [fd[p] EXCEPT ![f] = s] \in [Fds -> Slots \cup {None}]
    BY <1>2
  <2>3. \A q \in alive : fd'[q] = IF q = p THEN [fd[p] EXCEPT ![f] = s] ELSE fd[q]
    BY <2>1, <1>2
  <2>4. \A g \in Fds : [fd[p] EXCEPT ![f] = s][g] = IF g = f THEN s ELSE fd[p][g]
    BY <1>2
  <2> QED BY <2>1, <2>2, <2>3, <2>4, <1>1, <1>2
<1>5. ASSUME NEW f \in Fds, fd[p][f] = None, fd' = [fd EXCEPT ![p][f] = s],
             NEW t \in Slots \ {s}
      PROVE  Refs(t)' = Refs(t)
  <2>1. \A q \in alive, g \in Fds : fd'[q][g] = t <=> fd[q][g] = t
    BY <1>2, <1>4, <1>5
  <2> QED BY <2>1 DEF Refs
<1>6. ASSUME NEW f \in Fds, fd[p][f] = None, fd' = [fd EXCEPT ![p][f] = s]
      PROVE  /\ \A q, r \in alive, g, h \in Fds :
                    fd'[q][g] = s /\ fd'[r][h] = s => q = r /\ g = h
             /\ \A q \in alive, g \in Fds : fd'[q][g] # s => fd'[q][g] = fd[q][g]
  <2>1. /\ \A q \in alive, g \in Fds : fd'[q][g] = s => q = p /\ g = f
        /\ \A q \in alive, g \in Fds : q # p \/ g # f => fd'[q][g] = fd[q][g]
        /\ fd'[p][f] = s
    BY <1>4, <1>6
  <2> QED BY <2>1
<1> QED BY <1>3, <1>4, <1>5, <1>6 DEF Installed

\* file_open, when the inode is in memory: the entry, the count and the
\* descriptor are set together.
LEMMA OpenedInv ==
    ASSUME Inv, NEW p \in Procs, p \in alive, at[p].pc \in {"searched", "reading"},
           NEW s \in Slots, slot[s].inode = None,
           NEW o \in Objs, NEW r \in Inode, r.ino = at[p].ino,
           r.cnt = Cardinality(Users(o)) + 1,
           at[p].ino # None, Named(at[p].ino),
           open' \in Seq(Objs), NoRepeat(open'),
           \A y : InList(y, open') <=> InList(y, open) \/ y = o,
           \A u \in Objs : u # o /\ InList(u, open) => heap[u].ino # at[p].ino,
           UNCHANGED <<dir, imap, alive, panic>>,
           Opened(p, s, o, [heap EXCEPT ![o] = r])
    PROVE  Inv'
<1> DEFINE i == at[p].ino
<1>0. /\ Types /\ InCall(p) /\ ~Making(p) /\ at[p].pc # "deleting"
      /\ at[p].mode \in {"r", "w"} /\ heap \in [Objs -> Inode]
      /\ dir' = dir /\ imap' = imap /\ alive' = alive
  BY DEF Inv, Types, InCall, Making, Call
<1>1. /\ \A q \in Procs \ {p} : ~InCall(q)
      /\ \A q \in Procs : ~Making(q) /\ at[q].pc # "deleting"
  <2>1. \A q \in Procs \ {p} : ~InCall(q)
    BY <1>0, Alone
  <2> QED BY <2>1, <1>0 DEF InCall, Making
<1>2. /\ slot' = [slot EXCEPT ![s] = [inode |-> o, flag |-> at[p].mode, pos |-> 0]]
      /\ Installed(p, s) /\ at' = [at EXCEPT ![p] = User]
  BY <1>0, InstallFacts DEF Opened, Return, Installed
<1>3. /\ heap' \in [Objs -> Inode] /\ heap'[o].ino = i /\ heap'[o].cnt = r.cnt
      /\ \A u \in Objs : u # o => heap'[u] = heap[u]
  <2> DEFINE hp == [heap EXCEPT ![o] = r]
  <2>1. hp \in [Objs -> Inode] /\ hp[o] = r /\ \A u \in Objs : u # o => hp[u] = heap[u]
    BY <1>0
  <2>2. heap' = hp \/ heap' = [hp EXCEPT ![o].deny = (hp[o].deny \/ at[p].mode = "w")]
    BY DEF Opened
  <2> HIDE DEF hp
  <2>3. CASE heap' = hp
    BY <2>1, <2>3
  <2>4. CASE heap' = [hp EXCEPT ![o].deny = (hp[o].deny \/ at[p].mode = "w")]
    <3>1. heap' = [hp EXCEPT ![o] = [hp[o] EXCEPT !.deny = (hp[o].deny \/ at[p].mode = "w")]]
      BY <2>4
    <3>2. /\ [hp[o] EXCEPT !.deny = (hp[o].deny \/ at[p].mode = "w")] \in Inode
          /\ [hp[o] EXCEPT !.deny = (hp[o].deny \/ at[p].mode = "w")].ino = r.ino
          /\ [hp[o] EXCEPT !.deny = (hp[o].deny \/ at[p].mode = "w")].cnt = r.cnt
      BY <2>1 DEF Inode
    <3> QED BY <3>1, <3>2, <2>1
  <2> QED BY <2>2, <2>3, <2>4
<1>4. Refs(s) = {}
  BY FreeSlotUnused
<1>5. /\ fd' \in [Procs -> [Fds -> Slots \cup {None}]]
      /\ \A t \in Slots \ {s} : Refs(t)' = Refs(t)
      /\ \A q, u \in alive, g, h \in Fds :
             fd'[q][g] = s /\ fd'[u][h] = s => q = u /\ g = h
      /\ \A q \in alive, g \in Fds : fd'[q][g] # s => fd'[q][g] = fd[q][g]
  BY <1>0, <1>2, <1>4, InstalledFacts
<1>6. /\ slot' \in [Slots -> File] /\ slot'[s].inode = o /\ slot'[s].flag \in {"r", "w"}
      /\ \A t \in Slots : t # s => slot'[t] = slot[t]
  <2>1. [inode |-> o, flag |-> at[p].mode, pos |-> 0] \in File
    BY <1>0, TableAssumption DEF File
  <2> QED BY <2>1, <1>0, <1>2 DEF Types
<1>7. at' \in [Procs -> Call] /\ at'[p] = User /\ \A q \in Procs : q # p => at'[q] = at[q]
  <2>1. User \in Call
    BY DEF User, Call, NoEntry, Dirent
  <2> QED BY <2>1, <1>0, <1>2 DEF Types
<1>8. Types'
  BY <1>0, <1>3, <1>5, <1>6, <1>7 DEF Types
<1>9. \A q \in Procs : ~InCall(q)' /\ CallOK(q)' /\ ~Making(q)' /\ at'[q].pc # "deleting"
  <2>1. CallOK(p)' /\ ~InCall(p)'
    BY <1>7 DEF CallOK, InCall, Making, User
  <2>2. \A q \in Procs \ {p} : CallOK(q)' /\ ~InCall(q)'
    BY <1>1, <1>7, IdleCall DEF Inv
  <2> QED BY <2>1, <2>2 DEF InCall, Making
<1>10. OneCall'
  BY <1>9 DEF OneCall
<1>11. i \in imap /\ \A j : Named(j)' <=> Named(j)
  BY <1>0 DEF Inv, Named
<1>12. /\ Users(o)' = Users(o) \cup {s} /\ s \notin Users(o)
       /\ \A u \in Objs : u # o => Users(u)' = Users(u)
  BY <1>6, Apart DEF Users
<1>13. Cardinality(Users(o)') = Cardinality(Users(o)) + 1
  <2>1. Cardinality(Users(o) \cup {s}) = Cardinality(Users(o)) + 1
    BY <1>12, Finite, FS_AddElement
  <2> QED BY <2>1, <1>12
<1>14. \A u : Deleters(u) = {} /\ Deleters(u)' = {}
  BY <1>1, <1>9 DEF Deleters
<1>15. \A u \in Objs : InodeOK(u)'
  <2> SUFFICES ASSUME NEW u \in Objs PROVE InodeOK(u)'
    OBVIOUS
  <2>1. CASE u = o
    <3>1. InList(o, open') /\ heap'[o].ino # None
      BY <1>3
    <3>2. heap'[o].cnt = Cardinality(Users(o)') /\ Cardinality(Users(o)) \in Nat
      BY <1>3, <1>13, Finite
    <3>3. Cardinality(Deleters(o)') = 0
      BY <1>14, FS_EmptySet
    <3>4. heap'[o].cnt = Cardinality(Users(o)) + 1
      BY <1>3
    <3> QED BY <2>1, <3>1, <3>2, <3>3, <3>4 DEF InodeOK
  <2>2. CASE u # o
    BY <2>2, <1>1, <1>3, <1>12, <1>14 DEF Inv, InodeOK
  <2> QED BY <2>1, <2>2
<1>16. \A t \in Slots : SlotOK(t)'
  <2> SUFFICES ASSUME NEW t \in Slots PROVE SlotOK(t)'
    OBVIOUS
  <2>1. CASE t = s
    <3>1. slot'[t].inode = o /\ slot'[t].flag # "pipe" /\ o # Ring
      BY <2>1, <1>6, Apart
    <3>2. heap'[o].ino \in imap' /\ InList(o, open') /\ Named(heap[o].ino)'
      BY <1>0, <1>3, <1>11
    <3> QED BY <3>1, <3>2 DEF SlotOK
  <2>2. CASE t # s /\ slot[t].inode = o
    <3>1. slot'[t] = slot[t] /\ Refs(t)' = Refs(t) /\ SlotOK(t)
      BY <2>2, <1>5, <1>6 DEF Inv
    <3>2. heap'[o].ino \in imap' /\ InList(o, open') /\ Named(heap[o].ino)'
      BY <1>0, <1>3, <1>11
    <3> QED BY <2>2, <3>1, <3>2 DEF SlotOK
  <2>3. CASE t # s /\ slot[t].inode # o
    <3>1. slot'[t] = slot[t] /\ Refs(t)' = Refs(t) /\ SlotOK(t)
      BY <2>3, <1>5, <1>6 DEF Inv
    <3>2. slot[t].inode \in Objs => heap'[slot[t].inode] = heap[slot[t].inode]
      BY <2>3, <1>3
    <3>3. slot[t].inode \in Objs => InList(slot[t].inode, open) /\ Named(heap[slot[t].inode].ino)
      BY <3>1, <1>1 DEF SlotOK
    <3> QED BY <3>1, <3>2, <3>3, <1>0, <1>11 DEF SlotOK
  <2> QED BY <2>1, <2>2, <2>3
<1>17. \A q \in alive', g \in Fds : FdOK(q, g)'
  <2> SUFFICES ASSUME NEW q \in alive, NEW g \in Fds, fd'[q][g] # None,
                      slot'[fd'[q][g]].flag # "pipe"
               PROVE  /\ InList(slot'[fd'[q][g]].inode, open')
                      /\ \A u \in alive, h \in Fds : fd'[u][h] = fd'[q][g] => u = q /\ h = g
    BY <1>0 DEF FdOK
  <2>1. CASE fd'[q][g] = s
    BY <2>1, <1>5, <1>6
  <2>2. CASE fd'[q][g] # s
    <3>1. fd'[q][g] = fd[q][g] /\ fd[q][g] \in Slots /\ slot'[fd[q][g]] = slot[fd[q][g]]
      BY <2>2, <1>0, <1>5, <1>6 DEF Types
    <3>2. FdOK(q, g)
      BY DEF Inv
    <3> QED BY <2>2, <3>1, <3>2, <1>5 DEF FdOK
  <2> QED BY <2>1, <2>2
<1>18. OneEach'
  <2> SUFFICES ASSUME NEW u \in Objs, NEW v \in Objs, InList(u, open'), InList(v, open'),
                      heap'[u].ino = heap'[v].ino
               PROVE  u = v
    BY DEF OneEach
  <2> QED BY <1>3 DEF Inv, OneEach
<1>19. \A e \in Entries : dir'[e].ino # None => dir'[e].ino \in imap'
  BY <1>0 DEF Inv
<1> QED BY <1>8, <1>9, <1>10, <1>15, <1>16, <1>17, <1>18, <1>19 DEF Inv

\* Inside a call before it has taken anything, nobody has a block of the heap.
LEMMA NothingTaken ==
    ASSUME Inv, NEW p \in Procs, at[p].pc \in {"searched", "unlinking", "removing", "releasing"}
    PROVE  /\ InCall(p) /\ \A q \in Procs \ {p} : ~InCall(q)
           /\ \A q \in Procs : at[q].obj = None /\ ~Making(q) /\ at[q].pc # "deleting"
<1>1. InCall(p) /\ at[p].obj = None /\ CallOK(p) /\ ~Making(p)
  BY DEF Inv, InCall, CallOK, Making
<1>2. \A q \in Procs \ {p} : ~InCall(q)
  BY <1>1, Alone
<1>3. \A q \in Procs \ {p} : at[q].obj = None /\ ~Making(q) /\ at[q].pc # "deleting"
  BY <1>2 DEF Inv, InCall, CallOK, Making
<1> QED BY <1>1, <1>2, <1>3

\* file_open: the inode is found in memory or has to be read.
LEMMA FileOpenInv ==
    ASSUME Inv, NEW p \in Procs, file_open(p)
    PROVE  Inv'
<1> DEFINE s == get_free_slot_in_global
           o == InOpen(at[p].ino)
<1>1. /\ p \in alive /\ at[p].pc = "searched" /\ at[p].op = "open"
      /\ UNCHANGED <<dir, imap, open, alive, panic>>
      /\ Types /\ at \in [Procs -> Call] /\ at[p] \in Call /\ CallOK(p)
  BY DEF file_open, At, Inv, Types
<1>2. InCall(p) /\ ~Making(p) /\ at[p].obj = None /\ \A q \in Procs \ {p} : ~InCall(q)
  BY <1>1, NothingTaken
<1>3. \/ Return(p) /\ UNCHANGED <<slot, fd, heap>>
      \/ /\ at[p].ino # None /\ s # None /\ o # None
         /\ Opened(p, s, o, [heap EXCEPT ![o].cnt = @ + 1])
      \/ /\ at[p].ino # None /\ s # None /\ o = None
         /\ at' = [at EXCEPT ![p].pc = "reading", ![p].slot = s, ![p].obj = FreeObj]
         /\ UNCHANGED <<slot, fd, heap>>
  BY DEF file_open
<1>4. CASE Return(p) /\ UNCHANGED <<slot, fd, heap>>
  BY <1>1, <1>2, <1>4, ReturnStep DEF tables, Types
<1>5. CASE /\ at[p].ino # None /\ s # None /\ o # None
           /\ Opened(p, s, o, [heap EXCEPT ![o].cnt = @ + 1])
  <2>1. s \in Slots /\ slot[s].inode = None
    BY <1>5, FreeSlotFacts
  <2>2. o \in Objs /\ InList(o, open) /\ heap[o].ino = at[p].ino
    BY <1>1, <1>5, InOpenFacts DEF Types
  <2> DEFINE r == [heap[o] EXCEPT !.cnt = @ + 1]
  <2>3. heap[o] \in Inode /\ InodeOK(o) /\ Deleters(o) = {}
    BY <1>1, <2>2, NothingTaken, UsedOpen DEF Inv, Types
  <2>4. Cardinality(Deleters(o)) = 0 /\ Cardinality(Users(o)) \in Nat
    BY <2>3, FS_EmptySet, Finite
  <2>5. heap[o].cnt = Cardinality(Users(o))
    BY <2>2, <2>3, <2>4 DEF InodeOK
  <2>6. r \in Inode /\ r.ino = at[p].ino /\ r.cnt = Cardinality(Users(o)) + 1
    BY <2>2, <2>3, <2>4, <2>5 DEF Inode
  <2>7. [heap EXCEPT ![o].cnt = @ + 1] = [heap EXCEPT ![o] = r]
    BY <1>1, <2>2 DEF Types
  <2> HIDE DEF r
  <2>8. Named(at[p].ino)
    BY <1>1, <1>5 DEF CallOK
  <2>9. open' \in Seq(Objs) /\ NoRepeat(open') /\ open' = open
    BY <1>1 DEF Types
  <2>10. \A y : InList(y, open') <=> InList(y, open) \/ y = o
    BY <2>2, <2>9
  <2>11. \A u \in Objs : u # o /\ InList(u, open) => heap[u].ino # at[p].ino
    BY <2>2 DEF Inv, OneEach
  <2>12. Opened(p, s, o, [heap EXCEPT ![o] = r])
    BY <1>5, <2>7
  <2> HIDE DEF s, o
  <2> QED BY <1>1, <1>5, <2>1, <2>2, <2>6, <2>8, <2>9, <2>10, <2>11, <2>12, OpenedInv
<1>6. CASE /\ at[p].ino # None /\ s # None /\ o = None
           /\ at' = [at EXCEPT ![p].pc = "reading", ![p].slot = s, ![p].obj = FreeObj]
           /\ UNCHANGED <<slot, fd, heap>>
  <2> DEFINE b == [at[p] EXCEPT !.pc = "reading", !.slot = s, !.obj = FreeObj]
  <2>1. s \in Slots /\ slot[s].inode = None
    BY <1>6, FreeSlotFacts
  <2>2. FreeObj \in Objs /\ heap[FreeObj] = NoInode /\ ~InList(FreeObj, open)
    BY <1>1, NothingTaken, FreeObjFacts
  <2>3. NotOpen(at[p].ino) /\ Named(at[p].ino)
    BY <1>1, <1>6, InOpenFacts DEF Types, CallOK
  <2>4. at' = [at EXCEPT ![p] = b] /\ at'[p] = b
    BY <1>1, <1>6
  <2>5. /\ b \in Call /\ b.pc = "reading" /\ b.slot = s /\ b.obj = FreeObj
        /\ b.ino = at[p].ino /\ b.op = "open"
    BY <1>1, <2>1, <2>2 DEF Call
  <2> HIDE DEF b, s, o
  <2>6. UNCHANGED tables
    BY <1>1, <1>6 DEF tables
  <2>7. CallOK(p)'
    BY <1>6, <2>1, <2>2, <2>3, <2>4, <2>5, <2>6, Apart
       DEF CallOK, Making, tables, NotOpen, Named
  <2>8. panic' \in BOOLEAN
    BY <1>1 DEF Types
  <2> QED BY <1>1, <1>2, <2>4, <2>5, <2>6, <2>7, <2>8, CallStep
<1> QED BY <1>3, <1>4, <1>5, <1>6

\* inode_open goes on with the inode from the disk.
LEMMA FileOpenReadInv ==
    ASSUME Inv, NEW p \in Procs, file_open_read(p)
    PROVE  Inv'
<1> DEFINE s == at[p].slot
           o == at[p].obj
           r == [ino |-> at[p].ino, cnt |-> 1, deny |-> FALSE]
<1>1. /\ p \in alive /\ at[p].pc = "reading" /\ at[p].op = "open"
      /\ UNCHANGED <<dir, imap, alive, panic>> /\ open' = <<o>> \o open
      /\ Opened(p, s, o, [heap EXCEPT ![o] = r])
      /\ Types /\ at[p] \in Call /\ CallOK(p)
  BY DEF file_open_read, At, Inv, Types
<1>2. /\ InCall(p) /\ ~Making(p) /\ \A q \in Procs \ {p} : ~InCall(q)
      /\ o \in Objs /\ ~InList(o, open) /\ s \in Slots /\ slot[s].inode = None
      /\ at[p].ino # None /\ NotOpen(at[p].ino) /\ Named(at[p].ino)
  <2>1. InCall(p) /\ ~Making(p)
    BY <1>1 DEF InCall, Making
  <2> QED BY <1>1, <2>1, Alone DEF CallOK, Call
<1>3. \A q \in Procs : ~Making(q) /\ at[q].pc # "deleting"
  BY <1>1, <1>2 DEF InCall, Making
<1>4. Users(o) = {} /\ Cardinality(Users(o)) = 0
  BY <1>2, <1>3, UsedOpen, FS_EmptySet
<1>5. r \in Inode /\ r.ino = at[p].ino /\ r.cnt = Cardinality(Users(o)) + 1
  BY <1>1, <1>4 DEF Inode, Call
<1>6. /\ open' \in Seq(Objs) /\ NoRepeat(open')
      /\ \A y : InList(y, open') <=> InList(y, open) \/ y = o
  BY <1>1, <1>2, PushFacts DEF Types
<1>7. \A u \in Objs : u # o /\ InList(u, open) => heap[u].ino # at[p].ino
  BY <1>2 DEF NotOpen
<1> HIDE DEF r, s, o
<1> QED BY <1>1, <1>2, <1>5, <1>6, <1>7, OpenedInv

-----------------------------------------------------------------------------
(* Steps that delete a file. *)

\* delete_dir_entry writes the sector back without the file's entries.
LEMMA DeleteDirEntryInv ==
    ASSUME Inv, NEW p \in Procs, delete_dir_entry(p)
    PROVE  Inv'
<1> DEFINE i == at[p].ino
           b == [at[p] EXCEPT !.pc = "releasing"]
<1>1. /\ at[p].pc = "removing" /\ UNCHANGED <<imap, heap, open, slot, fd, alive, panic>>
      /\ Types /\ at[p] \in Call /\ CallOK(p)
      /\ at' = [at EXCEPT ![p] = b]
  BY DEF delete_dir_entry, At, Inv, Types
<1>2. /\ \A q \in Procs \ {p} : ~InCall(q)
      /\ \A q \in Procs : ~Making(q) /\ at[q].pc # "deleting"
      /\ at[p].obj = None /\ i # None /\ ~InUse(i) /\ at[p].buf = dir
  BY <1>1, NothingTaken DEF CallOK
<1>3. dir' = [e \in Entries |-> IF dir[e].ino = i THEN NoEntry ELSE dir[e]]
  <2>1. CASE \E e \in Entries : dir[e].ino = i
    BY <1>2, <2>1 DEF delete_dir_entry
  <2>2. CASE ~ \E e \in Entries : dir[e].ino = i
    <3>1. dir' = dir
      BY <1>2, <2>2 DEF delete_dir_entry
    <3> QED BY <3>1, <2>2, <1>1 DEF Types
  <2> QED BY <2>1, <2>2
<1>4. /\ dir' \in [Entries -> Dirent]
      /\ \A e \in Entries : dir'[e].ino = IF dir[e].ino = i THEN None ELSE dir[e].ino
  BY <1>1, <1>3 DEF Types, NoEntry, Dirent
<1>5. \A j : j # None /\ j # i /\ Named(j) => Named(j)'
  BY <1>4 DEF Named
<1>6. \A e \in Entries : dir'[e].ino # i
  BY <1>2, <1>4
<1>7. /\ at' \in [Procs -> Call] /\ at'[p] = b /\ \A q \in Procs : q # p => at'[q] = at[q]
      /\ b \in Call /\ b.pc = "releasing" /\ b.obj = None /\ b.ino = i /\ b.op = at[p].op
  <2>1. b \in Call /\ b.pc = "releasing" /\ b.obj = None /\ b.ino = i /\ b.op = at[p].op
    BY <1>1, <1>2 DEF Call
  <2> QED BY <2>1, <1>1 DEF Types
<1> HIDE DEF b
<1>8. heap' = heap /\ open' = open /\ slot' = slot /\ imap' = imap /\ fd' = fd /\ alive' = alive
  BY <1>1
<1>9. Types'
  BY <1>1, <1>4, <1>7 DEF Types
<1>10. CallOK(p)'
  BY <1>1, <1>2, <1>6, <1>7, <1>8 DEF CallOK, Making, InUse, Named
<1>11. \A q \in Procs \ {p} : CallOK(q)' /\ ~InCall(q)'
  BY <1>2, <1>7, IdleCall DEF Inv
<1>12. OneCall' /\ \A q \in Procs : CallOK(q)'
  BY <1>10, <1>11 DEF OneCall
<1>13. \A q \in Procs : ~Making(q)' /\ at'[q].pc # "deleting"
  BY <1>7, <1>11 DEF Making, InCall
<1>14. /\ \A o : Users(o)' = Users(o)
       /\ \A o : Deleters(o)' = {} /\ Deleters(o) = {}
       /\ \A s : Refs(s)' = Refs(s)
  BY <1>2, <1>8, <1>13 DEF Users, Refs, Deleters
<1>15. \A o \in Objs : InodeOK(o)'
  BY <1>2, <1>8, <1>14 DEF Inv, InodeOK
<1>16. ASSUME NEW s \in Slots PROVE SlotOK(s)'
  <2>1. SlotOK(s)
    BY DEF Inv
  <2>2. slot[s].inode \in Objs => /\ heap[slot[s].inode].ino # i
                                  /\ heap[slot[s].inode].ino \in imap
                                  /\ InList(slot[s].inode, open)
                                  /\ Named(heap[slot[s].inode].ino)
    BY <2>1, <1>2 DEF SlotOK, InUse
  <2>3. slot[s].inode \in Objs => Named(heap[slot[s].inode].ino)'
    <3> SUFFICES ASSUME slot[s].inode \in Objs PROVE Named(heap[slot[s].inode].ino)'
      OBVIOUS
    <3> DEFINE j == heap[slot[s].inode].ino
    <3>1. j \in Inos /\ j # None /\ j # i /\ Named(j)
      BY <2>2, <1>1, Apart DEF Types
    <3>2. j' = j
      BY <1>8
    <3> HIDE DEF j
    <3>3. Named(j)'
      BY <3>1, <3>2, <1>4 DEF Named
    <3> QED BY <3>3 DEF j
  <2> QED BY <2>1, <2>2, <2>3, <1>8, <1>14 DEF SlotOK
<1>17. OneEach' /\ \A q \in alive', f \in Fds : FdOK(q, f)'
  BY <1>8 DEF Inv, OneEach, FdOK
<1>18. \A e \in Entries : dir'[e].ino # None => dir'[e].ino \in imap'
  BY <1>4, <1>8 DEF Inv
<1> QED BY <1>9, <1>12, <1>15, <1>16, <1>17, <1>18 DEF Inv

\* inode_release: as nobody has the file open, its inode is not in memory and
\* is read from the disk.
LEMMA InodeReleaseInv ==
    ASSUME Inv, NEW p \in Procs, inode_release(p)
    PROVE  Inv'
<1> DEFINE o == InOpen(at[p].ino)
           b == [at[p] EXCEPT !.pc = "reading", !.obj = FreeObj]
<1>1. /\ at[p].pc = "releasing" /\ UNCHANGED <<dir, open, slot, fd, alive, panic>>
      /\ Types /\ at[p] \in Call /\ CallOK(p)
  BY DEF inode_release, At, Inv, Types
<1>2. /\ InCall(p) /\ ~Making(p) /\ \A q \in Procs \ {p} : ~InCall(q)
      /\ \A q \in Procs : at[q].obj = None /\ ~Making(q) /\ at[q].pc # "deleting"
      /\ at[p].op = "unlink" /\ at[p].ino # None /\ ~InUse(at[p].ino) /\ ~Named(at[p].ino)
  BY <1>1, NothingTaken DEF CallOK
<1>3. o = None
  <2> SUFFICES ASSUME o # None PROVE FALSE
    OBVIOUS
  <2>1. o \in Objs /\ InList(o, open) /\ heap[o].ino = at[p].ino
    BY <1>1, InOpenFacts DEF Types
  <2>2. Users(o) # {}
    BY <1>2, <2>1, UsedOpen
  <2> QED BY <1>2, <2>1, <2>2 DEF Users, InUse
<1>4. /\ at' = [at EXCEPT ![p] = b] /\ UNCHANGED tables
  BY <1>1, <1>3 DEF inode_release, tables
<1>5. FreeObj \in Objs /\ heap[FreeObj] = NoInode /\ ~InList(FreeObj, open)
  BY <1>2, FreeObjFacts
<1>6. /\ b \in Call /\ b.pc = "reading" /\ b.obj = FreeObj
      /\ b.ino = at[p].ino /\ b.op = "unlink" /\ at'[p] = b
  BY <1>1, <1>2, <1>4, <1>5 DEF Call, Types
<1>7. NotOpen(at[p].ino)
  BY <1>1, <1>3, InOpenFacts DEF Types
<1> HIDE DEF b, o
<1>8. CallOK(p)'
  BY <1>2, <1>4, <1>5, <1>6, <1>7, Apart
     DEF CallOK, Making, tables, NotOpen, Named, InUse
<1>9. panic' \in BOOLEAN
  BY <1>1 DEF Types
<1> QED BY <1>1, <1>2, <1>4, <1>6, <1>8, <1>9, CallStep

\* inode_release with the inode read from the disk: its number is free again.
LEMMA InodeReleaseReadInv ==
    ASSUME Inv, NEW p \in Procs, inode_release_read(p)
    PROVE  Inv'
<1> DEFINE i == at[p].ino
           o == at[p].obj
           r == [ino |-> i, cnt |-> 1, deny |-> FALSE]
           b == [at[p] EXCEPT !.pc = "deleting"]
<1>1. /\ at[p].pc = "reading" /\ at[p].op = "unlink"
      /\ dir' = dir /\ slot' = slot /\ fd' = fd /\ alive' = alive /\ panic' = panic
      /\ Types /\ at[p] \in Call /\ CallOK(p)
      /\ open' = <<o>> \o open /\ heap' = [heap EXCEPT ![o] = r] /\ imap' = imap \ {i}
      /\ at' = [at EXCEPT ![p] = b]
  BY DEF inode_release_read, At, Inv, Types
<1>2. /\ InCall(p) /\ ~Making(p) /\ \A q \in Procs \ {p} : ~InCall(q)
      /\ o \in Objs /\ ~InList(o, open) /\ i \in Inos /\ i # None
      /\ NotOpen(i) /\ ~Named(i) /\ ~InUse(i)
  <2>1. InCall(p) /\ ~Making(p)
    BY <1>1 DEF InCall, Making
  <2> QED BY <1>1, <2>1, Alone DEF CallOK, Call
<1>3. \A q \in Procs : ~Making(q) /\ at[q].pc # "deleting"
  BY <1>1, <1>2 DEF InCall, Making
<1>4. Users(o) = {}
  BY <1>2, <1>3, UsedOpen
<1>5. /\ open' \in Seq(Objs) /\ NoRepeat(open')
      /\ \A y : InList(y, open') <=> InList(y, open) \/ y = o
  BY <1>1, <1>2, PushFacts DEF Types
<1>6. /\ heap' \in [Objs -> Inode] /\ heap'[o] = r
      /\ \A u \in Objs : u # o => heap'[u] = heap[u]
  <2>1. r \in Inode
    BY <1>2 DEF Inode
  <2> QED BY <2>1, <1>1, <1>2 DEF Types
<1>7. /\ at' \in [Procs -> Call] /\ at'[p] = b /\ \A q \in Procs : q # p => at'[q] = at[q]
      /\ b \in Call /\ b.pc = "deleting" /\ b.obj = o
  <2>1. b \in Call /\ b.pc = "deleting" /\ b.obj = o
    BY <1>1 DEF Call
  <2> QED BY <2>1, <1>1 DEF Types
<1>8. r.ino = i /\ r.cnt = 1
  OBVIOUS
<1> HIDE DEF b, r
<1>9. Types'
  BY <1>1, <1>5, <1>6, <1>7 DEF Types
<1>10. /\ \A u : Users(u)' = Users(u)
       /\ \A s : Refs(s)' = Refs(s)
       /\ \A j : Named(j)' <=> Named(j)
  BY <1>1 DEF Users, Refs, Named
<1>11. CallOK(p)'
  <2>1. InList(o, open') /\ o # None /\ {s \in Slots : slot'[s].inode = o} = {}
    BY <1>1, <1>2, <1>4, <1>5, Apart DEF Users
  <2> QED BY <2>1, <1>7 DEF CallOK, Making, Users
<1>12. \A q \in Procs \ {p} : CallOK(q)' /\ ~InCall(q)'
  BY <1>2, <1>7, IdleCall DEF Inv
<1>13. OneCall' /\ \A q \in Procs : CallOK(q)'
  BY <1>11, <1>12 DEF OneCall
<1>14. /\ \A q \in Procs : ~Making(q)' /\ (at'[q].pc = "deleting" <=> q = p)
  BY <1>7, <1>12 DEF Making, InCall
<1>15. /\ \A u : Deleters(u) = {}
       /\ \A u \in Objs : u # o => Deleters(u)' = {}
  BY <1>3, <1>7, <1>14 DEF Deleters
<1>16. {q \in Procs : at'[q].pc = "deleting" /\ at'[q].obj = o} = {p}
  BY <1>7, <1>14
<1>17. \A u \in Objs : InodeOK(u)'
  <2> SUFFICES ASSUME NEW u \in Objs PROVE InodeOK(u)'
    OBVIOUS
  <2>1. CASE u = o
    <3>1. Deleters(u)' = {p} /\ Users(u)' = {}
      BY <2>1, <1>4, <1>10, <1>16 DEF Deleters
    <3>2. Cardinality(Deleters(u)') = 1 /\ Cardinality(Users(u)') = 0
      BY <3>1, FS_EmptySet, FS_Singleton
    <3>3. InList(u, open') /\ heap'[u].ino # None /\ heap'[u].cnt = 1
      BY <2>1, <1>2, <1>5, <1>6, <1>8
    <3> QED BY <3>2, <3>3 DEF InodeOK
  <2>2. CASE u # o
    <3>1. InodeOK(u) /\ heap'[u] = heap[u] /\ (InList(u, open') <=> InList(u, open))
      BY <2>2, <1>5, <1>6 DEF Inv
    <3> QED BY <2>2, <3>1, <1>3, <1>10, <1>15 DEF InodeOK
  <2> QED BY <2>1, <2>2
<1>18. \A s \in Slots : SlotOK(s)'
  <2> SUFFICES ASSUME NEW s \in Slots PROVE SlotOK(s)'
    OBVIOUS
  <2>1. SlotOK(s)
    BY DEF Inv
  <2>2. CASE slot[s].inode \notin Objs
    BY <2>1, <2>2, <1>1, <1>10 DEF SlotOK
  <2>3. CASE slot[s].inode \in Objs
    <3>1. slot[s].inode # o /\ heap'[slot[s].inode] = heap[slot[s].inode]
      BY <2>3, <1>4, <1>6 DEF Users
    <3>2. /\ heap[slot[s].inode].ino \in imap'
          /\ InList(slot[s].inode, open') /\ Named(heap[slot[s].inode].ino)
      BY <2>1, <2>3, <1>1, <1>2, <1>3, <1>5 DEF SlotOK, InUse
    <3>3. \E e \in Entries : dir'[e].ino = heap'[slot'[s].inode].ino
      BY <3>1, <3>2, <1>1 DEF Named
    <3> QED BY <2>1, <2>3, <3>1, <3>2, <3>3, <1>1, <1>10 DEF SlotOK, Named
  <2> QED BY <2>2, <2>3
<1>19. OneEach'
  <2> SUFFICES ASSUME NEW u \in Objs, NEW v \in Objs, InList(u, open'), InList(v, open'),
                      heap'[u].ino = heap'[v].ino
               PROVE  u = v
    BY DEF OneEach
  <2>1. heap'[o].ino = i
    BY <1>6, <1>8
  <2>2. \A x \in Objs : x # o /\ InList(x, open') => InList(x, open) /\ heap'[x].ino = heap[x].ino
    BY <1>5, <1>6
  <2>3. \A x \in Objs : InList(x, open) => heap[x].ino # i
    BY <1>2 DEF NotOpen
  <2>4. (u = o) <=> (v = o)
    BY <2>1, <2>2, <2>3
  <2>5. CASE u # o /\ v # o
    BY <2>2, <2>5 DEF Inv, OneEach
  <2> QED BY <2>4, <2>5
<1>20. \A q \in alive', f \in Fds : FdOK(q, f)'
  BY <1>1, <1>5 DEF Inv, FdOK
<1>21. \A e \in Entries : dir'[e].ino # None => dir'[e].ino \in imap'
  BY <1>1, <1>2 DEF Inv, Named
<1> QED BY <1>9, <1>13, <1>17, <1>18, <1>19, <1>20, <1>21 DEF Inv

\* inode_release ends: the inode's only user closes it.
LEMMA InodeReleaseEndInv ==
    ASSUME Inv, NEW p \in Procs, inode_release_end(p)
    PROVE  Inv'
<1> DEFINE o == at[p].obj
<1>1. /\ at[p].pc = "deleting" /\ UNCHANGED <<dir, imap, slot, fd, alive, panic>>
      /\ Types /\ at[p] \in Call /\ CallOK(p) /\ inode_close(o, heap)
      /\ at' = [at EXCEPT ![p] = User]
  BY DEF inode_release_end, At, Inv, Types, Return
<1>2. /\ InCall(p) /\ ~Making(p) /\ \A q \in Procs \ {p} : ~InCall(q)
      /\ InList(o, open) /\ o \in Objs /\ Users(o) = {}
  <2>1. InCall(p) /\ ~Making(p)
    BY <1>1 DEF InCall, Making
  <2>2. InList(o, open) /\ Users(o) = {}
    BY <1>1 DEF CallOK
  <2> QED BY <2>1, <2>2, Alone, OpenUsed
<1>3. \A q \in Procs : ~Making(q) /\ (at[q].pc = "deleting" <=> q = p)
  BY <1>1, <1>2 DEF InCall, Making
<1>4. heap[o].cnt = 1
  <2>1. Deleters(o) = {p}
    BY <1>3 DEF Deleters
  <2>2. Cardinality(Deleters(o)) = 1 /\ Cardinality(Users(o)) = 0
    BY <2>1, <1>2, FS_EmptySet, FS_Singleton
  <2>3. heap[o].cnt = 0 + 1
    BY <2>2, <1>2 DEF Inv, InodeOK
  <2> QED BY <2>3
<1>5. heap' = [heap EXCEPT ![o] = NoInode] /\ open' = list_remove(o, open)
  BY <1>1, <1>4 DEF inode_close
<1>6. /\ heap' \in [Objs -> Inode] /\ heap'[o] = NoInode
      /\ \A u \in Objs : u # o => heap'[u] = heap[u]
  <2>1. NoInode \in Inode
    BY DEF NoInode, Inode
  <2> QED BY <2>1, <1>1, <1>2, <1>5 DEF Types
<1>7. /\ open' \in Seq(Objs) /\ NoRepeat(open')
      /\ \A y : InList(y, open') <=> InList(y, open) /\ y # o
  BY <1>1, <1>2, <1>5, RemoveFacts DEF Types
<1>8. /\ at' \in [Procs -> Call] /\ at'[p] = User /\ \A q \in Procs : q # p => at'[q] = at[q]
  <2>1. User \in Call
    BY DEF User, Call, NoEntry, Dirent
  <2> QED BY <2>1, <1>1 DEF Types
<1>9. Types'
  BY <1>1, <1>6, <1>7, <1>8 DEF Types
<1>10. \A q \in Procs : ~InCall(q)' /\ CallOK(q)' /\ ~Making(q)' /\ at'[q].pc # "deleting"
  <2>1. CallOK(p)' /\ ~InCall(p)'
    BY <1>8 DEF CallOK, InCall, Making, User
  <2>2. \A q \in Procs \ {p} : CallOK(q)' /\ ~InCall(q)'
    BY <1>2, <1>8, IdleCall DEF Inv
  <2> QED BY <2>1, <2>2 DEF InCall, Making
<1>11. OneCall'
  BY <1>10 DEF OneCall
<1>12. /\ \A u : Users(u)' = Users(u)
       /\ \A s : Refs(s)' = Refs(s)
       /\ \A j : Named(j)' <=> Named(j)
  BY <1>1 DEF Users, Refs, Named
<1>13. /\ \A u : Deleters(u)' = {}
       /\ \A u \in Objs : u # o => Deleters(u) = {}
  BY <1>3, <1>10 DEF Deleters
<1>14. \A u \in Objs : InodeOK(u)'
  BY <1>3, <1>6, <1>7, <1>12, <1>13 DEF Inv, InodeOK
<1>15. \A s \in Slots : SlotOK(s)'
  <2> SUFFICES ASSUME NEW s \in Slots PROVE SlotOK(s)'
    OBVIOUS
  <2>1. SlotOK(s)
    BY DEF Inv
  <2>2. CASE slot[s].inode \notin Objs
    BY <2>1, <2>2, <1>1, <1>12 DEF SlotOK
  <2>3. CASE slot[s].inode \in Objs
    <3>1. slot[s].inode # o /\ heap'[slot[s].inode] = heap[slot[s].inode]
      BY <2>3, <1>2, <1>6 DEF Users
    <3>2. InList(slot[s].inode, open') /\ Named(heap[slot[s].inode].ino)
      BY <2>1, <2>3, <3>1, <1>3, <1>7 DEF SlotOK
    <3>3. \E e \in Entries : dir'[e].ino = heap'[slot'[s].inode].ino
      BY <3>1, <3>2, <1>1 DEF Named
    <3> QED BY <2>1, <2>3, <3>1, <3>2, <3>3, <1>1, <1>12 DEF SlotOK, Named
  <2> QED BY <2>2, <2>3
<1>16. OneEach'
  BY <1>6, <1>7 DEF Inv, OneEach
<1>17. \A q \in alive', f \in Fds : FdOK(q, f)'
  <2> SUFFICES ASSUME NEW q \in alive, NEW f \in Fds PROVE FdOK(q, f)'
    BY <1>1
  <2>1. FdOK(q, f) /\ (fd[q][f] # None => fd[q][f] \in Slots)
    BY <1>1 DEF Inv, Types
  <2>2. fd[q][f] # None => slot[fd[q][f]].inode # o
    BY <2>1, <1>2 DEF Users
  <2> QED BY <2>1, <2>2, <1>1, <1>7 DEF FdOK
<1>18. \A e \in Entries : dir'[e].ino # None => dir'[e].ino \in imap'
  BY <1>1 DEF Inv
<1> QED BY <1>9, <1>10, <1>11, <1>14, <1>15, <1>16, <1>17, <1>18 DEF Inv

-----------------------------------------------------------------------------
(* Steps that create a file. *)

\* file_create up to its first wait: inode number, struct inode and file_table
\* entry are taken together.
LEMMA FileCreateInv ==
    ASSUME Inv, NEW p \in Procs, file_create(p)
    PROVE  Inv'
<1> DEFINE s == get_free_slot_in_global
           i == Lowest(Inos \ imap)
           o == FreeObj
           r == [ino |-> i, cnt |-> 0, deny |-> FALSE]
           b == [at[p] EXCEPT !.pc = "creating", !.ino = i, !.slot = s, !.obj = o]
<1>1. /\ p \in alive /\ at[p].pc = "searched" /\ UNCHANGED <<dir, open, fd, alive>>
      /\ Types /\ at \in [Procs -> Call] /\ at[p] \in Call /\ CallOK(p)
  BY DEF file_create, At, Inv, Types
<1>2. /\ InCall(p) /\ ~Making(p) /\ at[p].obj = None /\ \A q \in Procs \ {p} : ~InCall(q)
      /\ \A q \in Procs : at[q].obj = None /\ ~Making(q) /\ at[q].pc # "deleting"
  BY <1>1, NothingTaken
<1>3. \/ Return(p) /\ UNCHANGED <<imap, heap, slot, panic>>
      \/ panic' = TRUE /\ UNCHANGED <<imap, heap, slot, at>>
      \/ /\ i # None /\ s # None /\ panic' = FALSE
         /\ imap' = imap \cup {i} /\ heap' = [heap EXCEPT ![o] = r]
         /\ slot' = [slot EXCEPT ![s] = [inode |-> o, flag |-> at[p].mode, pos |-> 0]]
         /\ at' = [at EXCEPT ![p] = b]
  BY <1>1 DEF file_create
<1>4. CASE Return(p) /\ UNCHANGED <<imap, heap, slot, panic>>
  BY <1>1, <1>2, <1>4, ReturnStep DEF tables, Types
<1>5. CASE panic' = TRUE /\ UNCHANGED <<imap, heap, slot, at>>
  <2>1. at' = [at EXCEPT ![p] = at[p]] /\ UNCHANGED tables
    BY <1>1, <1>5 DEF tables
  <2>2. CallOK(p)'
    BY <1>1, <1>5 DEF CallOK, Making, Named
  <2> QED BY <1>1, <1>2, <1>5, <2>1, <2>2, CallStep DEF Making
<1>6. CASE /\ i # None /\ s # None /\ panic' = FALSE
           /\ imap' = imap \cup {i} /\ heap' = [heap EXCEPT ![o] = r]
           /\ slot' = [slot EXCEPT ![s] = [inode |-> o, flag |-> at[p].mode, pos |-> 0]]
           /\ at' = [at EXCEPT ![p] = b]
  <2>1. s \in Slots /\ slot[s].inode = None
    BY <1>6, FreeSlotFacts
  <2>2. /\ o \in Objs /\ heap[o] = NoInode /\ ~InList(o, open)
        /\ Users(o) = {} /\ \A u : Deleters(u) = {}
    BY <1>2, FreeObjFacts DEF Deleters
  <2>3. i \in Inos /\ i \notin imap
    <3>1. Inos \ imap \subseteq Nat
      BY Apart
    <3>2. i \in Inos \ imap
      BY <1>6, <3>1, LowestFacts
    <3> QED BY <3>2
  <2>4. Refs(s) = {}
    BY <2>1, FreeSlotUnused
  <2>5. /\ b \in Call /\ b.pc = "creating" /\ b.ino = i /\ b.slot = s /\ b.obj = o
        /\ r \in Inode /\ r.ino = i
    BY <1>1, <2>1, <2>2, <2>3 DEF Call, Inode
  <2>6. [inode |-> o, flag |-> at[p].mode, pos |-> 0] \in File /\ at[p].mode \in {"r", "w"}
    BY <1>1, <2>2, TableAssumption DEF File, Call
  <2> DEFINE ff == [inode |-> o, flag |-> at[p].mode, pos |-> 0]
  <2>7. /\ slot' \in [Slots -> File] /\ slot'[s].inode = o /\ slot'[s].flag \in {"r", "w"}
        /\ \A t \in Slots : t # s => slot'[t] = slot[t]
    BY <1>1, <1>6, <2>1, <2>6 DEF Types
  <2>8. r = [ino |-> i, cnt |-> 0, deny |-> FALSE]
    OBVIOUS
  <2> HIDE DEF b, r, s, o, i
  <2>9. /\ heap' \in [Objs -> Inode] /\ heap'[o] = r
        /\ \A u \in Objs : u # o => heap'[u] = heap[u]
        /\ at' \in [Procs -> Call] /\ at'[p] = b
        /\ \A q \in Procs : q # p => at'[q] = at[q]
        /\ dir' = dir /\ open' = open /\ fd' = fd /\ alive' = alive
    BY <1>1, <1>6, <2>2, <2>5 DEF Types
  <2>10. Types'
    BY <1>1, <1>6, <2>3, <2>7, <2>9 DEF Types
  <2>11. \A t \in Slots : slot[t].inode \in Objs =>
              /\ slot[t].inode # o /\ t # s /\ InList(slot[t].inode, open)
              /\ heap[slot[t].inode].ino \in imap /\ heap[slot[t].inode].ino # i
    BY <1>2, <2>1, <2>2, <2>3, Apart DEF Inv, SlotOK, Users
  <2>12. \A u \in Objs : InList(u, open) => heap[u].ino # i /\ u # o
    <3> SUFFICES ASSUME NEW u \in Objs, InList(u, open) PROVE heap[u].ino # i /\ u # o
      OBVIOUS
    <3>1. PICK t \in Slots : slot[t].inode = u
      BY <1>2, UsedOpen DEF Users
    <3> QED BY <3>1, <2>2, <2>11
  <2>13. \A e \in Entries : dir[e].ino # i
    BY <2>3, <1>1, Apart DEF Inv
  <2>14. /\ \A t \in Slots : slot'[t].inode = o <=> t = s
         /\ \A u \in Objs : u # o => Users(u)' = Users(u)
         /\ \A t : Refs(t)' = Refs(t)
    <3>1. \A t \in Slots : slot'[t].inode = o <=> t = s
      BY <2>2, <2>7, <2>11
    <3>2. \A u \in Objs : u # o => Users(u)' = Users(u)
      BY <2>1, <2>7, Apart DEF Users
    <3> QED BY <3>1, <3>2, <2>9 DEF Refs
  <2>15. CallOK(p)' /\ Making(p)'
    <3>1. at'[p].pc = "creating" /\ at'[p].ino = i /\ at'[p].slot = s /\ at'[p].obj = o
      BY <2>5, <2>9
    <3>2. i \in imap' /\ s # None /\ o # None
      BY <1>6, <2>2, Apart
    <3>3. heap'[o] = [ino |-> i, cnt |-> 0, deny |-> FALSE]
      BY <2>8, <2>9
    <3>4. ~InList(o, open') /\ \A u \in Objs : InList(u, open') => heap'[u].ino # i
      BY <2>2, <2>9, <2>12
    <3>5. {t \in Slots : slot'[t].inode = o} = {s}
      BY <2>1, <2>14
    <3>6. slot'[s].flag # "pipe" /\ {x \in alive' \X Fds : fd'[x[1]][x[2]] = s} = {}
      BY <2>4, <2>7, <2>9 DEF Refs
    <3>7. \A t \in Slots \ {s} : slot'[t].inode \in Objs => heap'[slot'[t].inode].ino # i
      BY <2>7, <2>9, <2>11
    <3>8. ~ \E e \in Entries : dir'[e].ino = i
      BY <2>9, <2>13
    <3>9. Making(p)'
      BY <3>1 DEF Making
    <3> QED BY <3>1, <3>2, <3>3, <3>4, <3>5, <3>6, <3>7, <3>8, <3>9
            DEF CallOK, NotOpen, Users, Refs, Named
  <2>16. \A q \in Procs \ {p} : CallOK(q)' /\ ~InCall(q)'
    BY <1>2, <2>9, IdleCall DEF Inv
  <2>17. OneCall' /\ \A q \in Procs : CallOK(q)'
    BY <2>15, <2>16 DEF OneCall
  <2>18. \A u : Deleters(u)' = {}
    BY <2>5, <2>9, <2>16 DEF Deleters, InCall
  <2>19. \A u \in Objs : InodeOK(u)'
    <3> SUFFICES ASSUME NEW u \in Objs PROVE InodeOK(u)'
      OBVIOUS
    <3>1. CASE u = o
      <4>1. ~InList(u, open') /\ at'[p].obj = u
        BY <3>1, <2>2, <2>5, <2>9
      <4> QED BY <4>1, <2>15 DEF InodeOK
    <3>2. CASE u # o
      BY <3>2, <1>2, <2>2, <2>9, <2>14, <2>18 DEF Inv, InodeOK
    <3> QED BY <3>1, <3>2
  <2>20. \A t \in Slots : SlotOK(t)'
    <3> SUFFICES ASSUME NEW t \in Slots PROVE SlotOK(t)'
      OBVIOUS
    <3>1. CASE t = s
      <4>1. slot'[t].inode = o /\ slot'[t].flag # "pipe" /\ o # Ring
        BY <3>1, <2>2, <2>7, Apart
      <4>2. heap'[o].ino \in imap' /\ at'[p].slot = t /\ at'[p].obj = o
        BY <3>1, <1>6, <2>5, <2>8, <2>9
      <4> QED BY <4>1, <4>2, <2>15 DEF SlotOK
    <3>2. CASE t # s
      <4>1. slot'[t] = slot[t] /\ SlotOK(t) /\ Refs(t)' = Refs(t)
        BY <3>2, <2>7, <2>14 DEF Inv
      <4>2. slot[t].inode \in Objs =>
               /\ heap'[slot[t].inode] = heap[slot[t].inode]
               /\ Named(heap[slot[t].inode].ino) /\ InList(slot[t].inode, open)
        BY <4>1, <1>2, <2>9, <2>11 DEF SlotOK
      <4>3. slot[t].inode \in Objs =>
               \E e \in Entries : dir'[e].ino = heap'[slot'[t].inode].ino
        BY <4>1, <4>2, <2>9 DEF Named
      <4> QED BY <4>1, <4>2, <4>3, <1>6, <2>9 DEF SlotOK, Named
    <3> QED BY <3>1, <3>2
  <2>21. OneEach'
    BY <2>9, <2>12 DEF Inv, OneEach
  <2>22. \A q \in alive', f \in Fds : FdOK(q, f)'
    <3> SUFFICES ASSUME NEW q \in alive, NEW f \in Fds PROVE FdOK(q, f)'
      BY <2>9
    <3>1. FdOK(q, f) /\ (fd[q][f] # None => fd[q][f] \in Slots)
      BY <1>1 DEF Inv, Types
    <3>2. fd[q][f] # s
      BY <2>4, RefsFacts
    <3> QED BY <3>1, <3>2, <2>7, <2>9 DEF FdOK
  <2>23. \A e \in Entries : dir'[e].ino # None => dir'[e].ino \in imap'
    BY <1>6, <2>9 DEF Inv
  <2> QED BY <2>10, <2>17, <2>19, <2>20, <2>21, <2>22, <2>23 DEF Inv
<1> QED BY <1>3, <1>4, <1>5, <1>6

\* What holds while p is creating a file.
LEMMA MakingFacts ==
    ASSUME Inv, NEW p \in Procs, Making(p)
    PROVE  /\ InCall(p) /\ \A q \in Procs \ {p} : ~InCall(q)
           /\ \A q \in Procs : (Making(q) <=> q = p) /\ at[q].pc # "deleting"
           /\ at[p].slot \in Slots /\ at[p].obj \in Objs /\ at[p].ino \in Inos
           /\ at[p].ino # None /\ \A u : Deleters(u) = {}
           /\ \A t \in Slots : slot[t].inode = at[p].obj <=> t = at[p].slot
           /\ \A t \in Slots : slot[t].inode \in Objs /\ t # at[p].slot =>
                  /\ InList(slot[t].inode, open) /\ heap[slot[t].inode].ino \in imap
                  /\ Named(heap[slot[t].inode].ino) /\ heap[slot[t].inode].ino # at[p].ino
<1>1. /\ at[p] \in Call /\ imap \subseteq Inos /\ CallOK(p)
      /\ at[p].pc \in {"creating", "adding", "syncing"}
  BY DEF Inv, Types, Making
<1>2. InCall(p) /\ at[p].pc # "deleting"
  BY <1>1 DEF InCall
<1>3. \A q \in Procs \ {p} : ~InCall(q)
  BY <1>2, Alone
<1>4. \A q \in Procs : (Making(q) <=> q = p) /\ at[q].pc # "deleting"
  BY <1>2, <1>3 DEF InCall, Making
<1>5. \A u : Deleters(u) = {}
  BY <1>4 DEF Deleters
<1>6. at[p].slot \in Slots /\ at[p].obj \in Objs /\ at[p].ino \in Inos /\ at[p].ino # None
  BY <1>1, Apart DEF CallOK, Call
<1>7. \A t \in Slots : slot[t].inode = at[p].obj <=> t = at[p].slot
  BY <1>1, <1>6 DEF CallOK, Users
<1>8. \A t \in Slots : slot[t].inode \in Objs /\ t # at[p].slot =>
          /\ InList(slot[t].inode, open) /\ heap[slot[t].inode].ino \in imap
          /\ Named(heap[slot[t].inode].ino) /\ heap[slot[t].inode].ino # at[p].ino
  BY <1>1, <1>4 DEF CallOK, Inv, SlotOK
<1> QED BY <1>2, <1>3, <1>4, <1>5, <1>6, <1>7, <1>8

\* sync_dir_entry: the entry is written, or everything taken is given back.
LEMMA SyncDirEntryInv ==
    ASSUME Inv, NEW p \in Procs, sync_dir_entry(p)
    PROVE  Inv'
<1> DEFINE i == at[p].ino
           s == at[p].slot
           o == at[p].obj
           e == FreeEntry(at[p].buf)
<1>1. /\ at[p].pc = "adding" /\ Making(p) /\ UNCHANGED <<open, fd, alive, panic>>
      /\ Types /\ at[p] \in Call /\ CallOK(p) /\ at[p].buf = dir
  BY DEF sync_dir_entry, At, Inv, Types, Making, CallOK
<1>2. /\ \A q \in Procs \ {p} : ~InCall(q)
      /\ \A q \in Procs : (Making(q) <=> q = p) /\ at[q].pc # "deleting"
      /\ s \in Slots /\ o \in Objs /\ i \in Inos /\ i # None /\ \A u : Deleters(u) = {}
      /\ \A t \in Slots : slot[t].inode = o <=> t = s
      /\ \A t \in Slots : slot[t].inode \in Objs /\ t # s =>
             /\ InList(slot[t].inode, open) /\ heap[slot[t].inode].ino \in imap
             /\ Named(heap[slot[t].inode].ino) /\ heap[slot[t].inode].ino # i
  BY <1>1, MakingFacts
<1>3. /\ i \in imap /\ heap[o] = [ino |-> i, cnt |-> 0, deny |-> FALSE]
      /\ ~InList(o, open) /\ NotOpen(i) /\ Users(o) = {s} /\ slot[s].flag # "pipe"
      /\ Refs(s) = {} /\ ~Named(i)
  BY <1>1 DEF CallOK
<1>4. /\ open' = open /\ fd' = fd /\ alive' = alive /\ panic' = panic
      /\ \A t : Refs(t)' = Refs(t)
  BY <1>1 DEF Refs
<1>5. CASE e = None
  <2>1. /\ slot' = [slot EXCEPT ![s] = [inode |-> None, flag |-> "r", pos |-> 0]]
        /\ heap' = [heap EXCEPT ![o] = NoInode] /\ imap' = imap \ {i}
        /\ at' = [at EXCEPT ![p] = User] /\ dir' = dir
    BY <1>5 DEF sync_dir_entry, Return
  <2>2. /\ slot' \in [Slots -> File] /\ slot'[s].inode = None /\ slot'[s].flag = "r"
        /\ \A t \in Slots : t # s => slot'[t] = slot[t]
    <3>1. [inode |-> None, flag |-> "r", pos |-> 0] \in File
      BY TableAssumption DEF File
    <3> QED BY <3>1, <2>1, <1>1, <1>2 DEF Types
  <2>3. /\ heap' \in [Objs -> Inode] /\ heap'[o] = NoInode
        /\ \A u \in Objs : u # o => heap'[u] = heap[u]
    <3>1. NoInode \in Inode
      BY DEF NoInode, Inode
    <3> QED BY <3>1, <2>1, <1>1, <1>2 DEF Types
  <2>4. /\ at' \in [Procs -> Call] /\ at'[p] = User
        /\ \A q \in Procs : q # p => at'[q] = at[q]
    <3>1. User \in Call
      BY DEF User, Call, NoEntry, Dirent
    <3> QED BY <3>1, <2>1, <1>1 DEF Types
  <2>5. Types'
    BY <1>1, <1>4, <2>1, <2>2, <2>3, <2>4 DEF Types
  <2>6. \A q \in Procs : ~InCall(q)' /\ CallOK(q)' /\ ~Making(q)' /\ at'[q].pc # "deleting"
    <3>1. CallOK(p)' /\ ~InCall(p)'
      BY <2>4 DEF CallOK, InCall, Making, User
    <3>2. \A q \in Procs \ {p} : CallOK(q)' /\ ~InCall(q)'
      BY <1>2, <2>4, IdleCall DEF Inv
    <3> QED BY <3>1, <3>2 DEF InCall, Making
  <2>7. OneCall' /\ \A u : Deleters(u)' = {}
    BY <2>6 DEF OneCall, Deleters
  <2>8. \A u \in Objs : u # o => Users(u)' = Users(u)
    BY <1>2, <2>2, Apart DEF Users
  <2>9. \A u \in Objs : InodeOK(u)'
    <3> SUFFICES ASSUME NEW u \in Objs PROVE InodeOK(u)'
      OBVIOUS
    <3>1. CASE u = o
      BY <3>1, <1>3, <1>4, <2>3 DEF InodeOK
    <3>2. CASE u # o
      BY <3>2, <1>2, <1>4, <2>3, <2>7, <2>8 DEF Inv, InodeOK
    <3> QED BY <3>1, <3>2
  <2>10. \A t \in Slots : SlotOK(t)'
    <3> SUFFICES ASSUME NEW t \in Slots PROVE SlotOK(t)'
      OBVIOUS
    <3>1. CASE t = s
      BY <3>1, <2>2, Apart DEF SlotOK
    <3>2. CASE t # s
      <4>1. slot'[t] = slot[t] /\ SlotOK(t) /\ Refs(t)' = Refs(t)
        BY <3>2, <1>4, <2>2 DEF Inv
      <4>2. slot[t].inode \in Objs =>
               /\ heap'[slot[t].inode] = heap[slot[t].inode]
               /\ heap[slot[t].inode].ino \in imap'
               /\ Named(heap[slot[t].inode].ino) /\ InList(slot[t].inode, open)
        BY <3>2, <1>2, <2>1, <2>3
      <4>3. slot[t].inode \in Objs =>
               \E x \in Entries : dir'[x].ino = heap'[slot'[t].inode].ino
        BY <4>1, <4>2, <2>1 DEF Named
      <4> QED BY <4>1, <4>2, <4>3, <1>4 DEF SlotOK, Named
    <3> QED BY <3>1, <3>2
  <2>11. OneEach'
    BY <1>3, <1>4, <2>3 DEF Inv, OneEach
  <2>12. \A q \in alive', f \in Fds : FdOK(q, f)'
    <3> SUFFICES ASSUME NEW q \in alive, NEW f \in Fds PROVE FdOK(q, f)'
      BY <1>4
    <3>1. FdOK(q, f) /\ (fd[q][f] # None => fd[q][f] \in Slots)
      BY <1>1 DEF Inv, Types
    <3>2. fd[q][f] # s
      BY <1>3, RefsFacts
    <3> QED BY <3>1, <3>2, <1>4, <2>2 DEF FdOK
  <2>13. \A x \in Entries : dir'[x].ino # None => dir'[x].ino \in imap'
    BY <1>3, <2>1 DEF Inv, Named
  <2> QED BY <2>5, <2>6, <2>7, <2>9, <2>10, <2>11, <2>12, <2>13 DEF Inv
<1>6. CASE e # None
  <2> DEFINE n == [name |-> at[p].name, ino |-> i]
             b == [at[p] EXCEPT !.pc = "syncing"]
  <2>1. /\ dir' = [dir EXCEPT ![e] = n] /\ at' = [at EXCEPT ![p] = b]
        /\ slot' = slot /\ heap' = heap /\ imap' = imap
    BY <1>1, <1>6 DEF sync_dir_entry
  <2>2. e \in Entries /\ dir[e] = NoEntry
    <3>1. {x \in Entries : dir[x] = NoEntry} \subseteq Nat
      BY Apart
    <3> QED BY <3>1, <1>1, <1>6, LowestFacts DEF FreeEntry
  <2>3. /\ dir' \in [Entries -> Dirent] /\ dir'[e].ino = i
        /\ \A x \in Entries : x # e => dir'[x] = dir[x]
    BY <1>1, <1>2, <2>1, <2>2 DEF Types, Dirent, Call
  <2>4. /\ b \in Call /\ b.pc = "syncing" /\ b.ino = i /\ b.slot = s /\ b.obj = o
    BY <1>1 DEF Call
  <2> HIDE DEF b, e
  <2>5. /\ at' \in [Procs -> Call] /\ at'[p] = b
        /\ \A q \in Procs : q # p => at'[q] = at[q]
    BY <1>1, <2>1, <2>4 DEF Types
  <2>6. Types'
    BY <1>1, <1>4, <2>1, <2>3, <2>5 DEF Types
  <2>7. ASSUME NEW j, j # None, \E x \in Entries : dir[x].ino = j
        PROVE  \E x \in Entries : dir'[x].ino = j
    <3>1. PICK x \in Entries : dir[x].ino = j
      BY <2>7
    <3>2. x # e
      BY <3>1, <2>2, <2>7 DEF NoEntry
    <3> QED BY <3>1, <3>2, <2>3
  <2>8. CallOK(p)' /\ Making(p)'
    <3>1. at'[p].pc = "syncing" /\ at'[p].ino = i /\ at'[p].slot = s /\ at'[p].obj = o
      BY <2>4, <2>5
    <3>2. Making(p)'
      BY <3>1 DEF Making
    <3>3. \E x \in Entries : dir'[x].ino = i
      BY <2>2, <2>3
    <3>4. {t \in Slots : slot'[t].inode = o} = {s} /\ {x \in alive' \X Fds : fd'[x[1]][x[2]] = s} = {}
      BY <1>3, <1>4, <2>1 DEF Users, Refs
    <3>5. \A t \in Slots \ {s} : slot'[t].inode \in Objs => heap'[slot'[t].inode].ino # i
      BY <1>2, <2>1
    <3>6. i \in imap' /\ s # None /\ o # None
      BY <1>2, <1>3, <2>1, Apart
    <3>7. heap'[o] = [ino |-> i, cnt |-> 0, deny |-> FALSE] /\ slot'[s].flag # "pipe"
      BY <1>3, <2>1
    <3>8. ~InList(o, open') /\ \A u \in Objs : InList(u, open') => heap'[u].ino # i
      BY <1>3, <1>4, <2>1 DEF NotOpen
    <3> QED BY <3>1, <3>2, <3>3, <3>4, <3>5, <3>6, <3>7, <3>8
            DEF CallOK, NotOpen, Users, Refs, Named
  <2>9. \A q \in Procs \ {p} : CallOK(q)' /\ ~InCall(q)'
    BY <1>2, <2>5, IdleCall DEF Inv
  <2>10. OneCall' /\ \A q \in Procs : CallOK(q)'
    BY <2>8, <2>9 DEF OneCall
  <2>11. /\ \A u : Deleters(u)' = {} /\ Users(u)' = Users(u)
         /\ \A q \in Procs : Making(q)' <=> q = p
    BY <2>1, <2>4, <2>5, <2>8, <2>9 DEF Deleters, Users, InCall, Making
  <2>12. \A u \in Objs : InodeOK(u)'
    <3> SUFFICES ASSUME NEW u \in Objs PROVE InodeOK(u)'
      OBVIOUS
    <3>1. InodeOK(u) /\ (InList(u, open') <=> InList(u, open)) /\ heap'[u] = heap[u]
      BY <1>4, <2>1 DEF Inv
    <3>2. CASE u = o
      <4>1. at'[p].obj = u /\ ~InList(u, open')
        BY <3>2, <1>3, <1>4, <2>4, <2>5
      <4> QED BY <4>1, <2>8 DEF InodeOK
    <3>3. CASE u # o
      <4>1. ~InList(u, open) => heap[u] = NoInode
        BY <3>1, <3>3, <1>2 DEF InodeOK
      <4> QED BY <3>1, <4>1, <1>2, <2>11 DEF InodeOK
    <3> QED BY <3>2, <3>3
  <2>13. \A t \in Slots : SlotOK(t)'
    <3> SUFFICES ASSUME NEW t \in Slots PROVE SlotOK(t)'
      OBVIOUS
    <3>1. slot'[t] = slot[t] /\ SlotOK(t) /\ Refs(t)' = Refs(t) /\ slot[t] \in File
      BY <1>1, <1>4, <2>1 DEF Inv, Types
    <3>2. CASE slot[t].inode \notin Objs
      BY <3>1, <3>2 DEF SlotOK
    <3>3. CASE t = s
      <4>1. at'[p].slot = t /\ at'[p].obj = slot'[t].inode
        BY <3>3, <1>2, <2>4, <2>5, <3>1
      <4> QED BY <3>1, <4>1, <2>1, <2>8 DEF SlotOK
    <3>4. CASE slot[t].inode \in Objs /\ t # s
      <4>1. /\ InList(slot[t].inode, open) /\ Named(heap[slot[t].inode].ino)
            /\ heap[slot[t].inode].ino # None
        BY <3>4, <1>1, <1>2, Apart DEF Types
      <4>2. \E x \in Entries : dir'[x].ino = heap'[slot'[t].inode].ino
        BY <4>1, <2>1, <2>7 DEF Named
      <4> QED BY <3>1, <4>1, <4>2, <1>4, <2>1 DEF SlotOK, Named
    <3> QED BY <3>2, <3>3, <3>4
  <2>14. OneEach' /\ \A q \in alive', f \in Fds : FdOK(q, f)'
    BY <1>4, <2>1 DEF Inv, OneEach, FdOK
  <2>15. \A x \in Entries : dir'[x].ino # None => dir'[x].ino \in imap'
    BY <1>3, <2>1, <2>3 DEF Inv
  <2> QED BY <2>6, <2>10, <2>12, <2>13, <2>14, <2>15 DEF Inv
<1> QED BY <1>5, <1>6

\* file_create ends: the inode enters open_inodes with one use.
LEMMA FileCreateEndInv ==
    ASSUME Inv, NEW p \in Procs, file_create_end(p)
    PROVE  Inv'
<1> DEFINE i == at[p].ino
           s == at[p].slot
           o == at[p].obj
<1>1. /\ p \in alive /\ at[p].pc = "syncing" /\ Making(p)
      /\ UNCHANGED <<dir, imap, slot, alive, panic>>
      /\ Types /\ at[p] \in Call /\ CallOK(p)
      /\ open' = <<o>> \o open /\ heap' = [heap EXCEPT ![o].cnt = 1] /\ Install(p, s)
  BY DEF file_create_end, At, Inv, Types, Making
<1>2. /\ \A q \in Procs \ {p} : ~InCall(q)
      /\ \A q \in Procs : (Making(q) <=> q = p) /\ at[q].pc # "deleting"
      /\ s \in Slots /\ o \in Objs /\ i \in Inos /\ i # None /\ \A u : Deleters(u) = {}
      /\ \A t \in Slots : slot[t].inode = o <=> t = s
      /\ \A t \in Slots : slot[t].inode \in Objs /\ t # s =>
             /\ InList(slot[t].inode, open) /\ heap[slot[t].inode].ino \in imap
             /\ Named(heap[slot[t].inode].ino) /\ heap[slot[t].inode].ino # i
  BY <1>1, MakingFacts
<1>3. /\ i \in imap /\ heap[o] = [ino |-> i, cnt |-> 0, deny |-> FALSE]
      /\ ~InList(o, open) /\ NotOpen(i) /\ Users(o) = {s} /\ slot[s].flag # "pipe"
      /\ Refs(s) = {} /\ Named(i)
  BY <1>1 DEF CallOK
<1>4. dir' = dir /\ imap' = imap /\ slot' = slot /\ alive' = alive /\ panic' = panic
  BY <1>1
<1>5. Installed(p, s) /\ at' = [at EXCEPT ![p] = User]
  BY <1>1, <1>2, InstallFacts
<1>6. /\ fd' \in [Procs -> [Fds -> Slots \cup {None}]]
      /\ \A t \in Slots \ {s} : Refs(t)' = Refs(t)
      /\ \A q, u \in alive, g, h \in Fds :
             fd'[q][g] = s /\ fd'[u][h] = s => q = u /\ g = h
      /\ \A q \in alive, g \in Fds : fd'[q][g] # s => fd'[q][g] = fd[q][g]
  BY <1>1, <1>2, <1>3, <1>4, <1>5, InstalledFacts
<1>7. /\ open' \in Seq(Objs) /\ NoRepeat(open')
      /\ \A y : InList(y, open') <=> InList(y, open) \/ y = o
  BY <1>1, <1>2, <1>3, PushFacts DEF Types
<1>8. /\ heap' \in [Objs -> Inode] /\ heap'[o].ino = i /\ heap'[o].cnt = 1
      /\ \A u \in Objs : u # o => heap'[u] = heap[u]
  <2>1. heap' = [heap EXCEPT ![o] = [heap[o] EXCEPT !.cnt = 1]]
    BY <1>1
  <2>2. /\ [heap[o] EXCEPT !.cnt = 1] \in Inode
        /\ [heap[o] EXCEPT !.cnt = 1].ino = i /\ [heap[o] EXCEPT !.cnt = 1].cnt = 1
    <3>1. heap[o] \in Inode /\ heap[o].ino = i
      BY <1>1, <1>2, <1>3 DEF Types
    <3> QED BY <3>1 DEF Inode
  <2> QED BY <2>1, <2>2, <1>1, <1>2 DEF Types
<1>9. /\ at' \in [Procs -> Call] /\ at'[p] = User /\ \A q \in Procs : q # p => at'[q] = at[q]
  <2>1. User \in Call
    BY DEF User, Call, NoEntry, Dirent
  <2> QED BY <2>1, <1>1, <1>5 DEF Types
<1>10. Types'
  BY <1>1, <1>4, <1>6, <1>7, <1>8, <1>9 DEF Types
<1>11. \A q \in Procs : ~InCall(q)' /\ CallOK(q)' /\ ~Making(q)' /\ at'[q].pc # "deleting"
  <2>1. CallOK(p)' /\ ~InCall(p)'
    BY <1>9 DEF CallOK, InCall, Making, User
  <2>2. \A q \in Procs \ {p} : CallOK(q)' /\ ~InCall(q)'
    BY <1>2, <1>9, IdleCall DEF Inv
  <2> QED BY <2>1, <2>2 DEF InCall, Making
<1>12. OneCall' /\ \A u : Deleters(u)' = {} /\ Users(u)' = Users(u)
  BY <1>4, <1>11 DEF OneCall, Deleters, Users
<1>13. \A u \in Objs : InodeOK(u)'
  <2> SUFFICES ASSUME NEW u \in Objs PROVE InodeOK(u)'
    OBVIOUS
  <2>1. CASE u = o
    <3>1. Cardinality(Users(u)') = 1 /\ Cardinality(Deleters(u)') = 0
      BY <2>1, <1>3, <1>12, FS_Singleton, FS_EmptySet
    <3>2. InList(u, open') /\ heap'[u].ino # None /\ heap'[u].cnt = 1
      BY <2>1, <1>2, <1>7, <1>8
    <3> QED BY <3>1, <3>2 DEF InodeOK
  <2>2. CASE u # o
    BY <2>2, <1>2, <1>7, <1>8, <1>12 DEF Inv, InodeOK
  <2> QED BY <2>1, <2>2
<1>14. \A t \in Slots : SlotOK(t)'
  <2> SUFFICES ASSUME NEW t \in Slots PROVE SlotOK(t)'
    OBVIOUS
  <2>1. slot'[t] = slot[t] /\ SlotOK(t)
    BY <1>4 DEF Inv
  <2>2. CASE t = s
    <3>1. slot'[t].inode = o /\ slot'[t].flag # "pipe" /\ o # Ring
      BY <2>2, <1>2, <1>3, <1>4, Apart
    <3>2. heap'[o].ino \in imap' /\ InList(o, open') /\ \E x \in Entries : dir'[x].ino = heap'[o].ino
      BY <1>3, <1>4, <1>7, <1>8 DEF Named
    <3> QED BY <3>1, <3>2 DEF SlotOK, Named
  <2>3. CASE t # s
    <3>1. Refs(t)' = Refs(t)
      BY <2>3, <1>6
    <3>2. slot[t].inode \in Objs =>
             /\ slot[t].inode # o /\ heap[slot[t].inode].ino \in imap
             /\ InList(slot[t].inode, open) /\ Named(heap[slot[t].inode].ino)
      BY <2>3, <1>2
    <3>3. slot[t].inode \in Objs =>
             \E x \in Entries : dir'[x].ino = heap'[slot'[t].inode].ino
      BY <2>1, <3>2, <1>4, <1>8 DEF Named
    <3> QED BY <2>1, <3>1, <3>2, <3>3, <1>4, <1>7, <1>8 DEF SlotOK, Named
  <2> QED BY <2>2, <2>3
<1>15. \A q \in alive', g \in Fds : FdOK(q, g)'
  <2> SUFFICES ASSUME NEW q \in alive, NEW g \in Fds, fd'[q][g] # None,
                      slot[fd'[q][g]].flag # "pipe"
               PROVE  /\ InList(slot[fd'[q][g]].inode, open')
                      /\ \A u \in alive, h \in Fds : fd'[u][h] = fd'[q][g] => u = q /\ h = g
    BY <1>4 DEF FdOK
  <2>1. CASE fd'[q][g] = s
    BY <2>1, <1>2, <1>6, <1>7
  <2>2. CASE fd'[q][g] # s
    <3>1. fd'[q][g] = fd[q][g] /\ FdOK(q, g)
      BY <2>2, <1>6 DEF Inv
    <3> QED BY <2>2, <3>1, <1>6, <1>7 DEF FdOK
  <2> QED BY <2>1, <2>2
<1>16. OneEach'
  <2> SUFFICES ASSUME NEW u \in Objs, NEW v \in Objs, InList(u, open'), InList(v, open'),
                      heap'[u].ino = heap'[v].ino
               PROVE  u = v
    BY DEF OneEach
  <2>1. \A x \in Objs : x # o /\ InList(x, open') => InList(x, open) /\ heap'[x].ino = heap[x].ino
    BY <1>7, <1>8
  <2>2. \A x \in Objs : InList(x, open) => heap[x].ino # i
    BY <1>3 DEF NotOpen
  <2>3. (u = o) <=> (v = o)
    BY <1>8, <2>1, <2>2
  <2>4. CASE u # o /\ v # o
    BY <2>1, <2>4 DEF Inv, OneEach
  <2> QED BY <2>3, <2>4
<1>17. \A x \in Entries : dir'[x].ino # None => dir'[x].ino \in imap'
  BY <1>4 DEF Inv
<1> QED BY <1>10, <1>11, <1>12, <1>13, <1>14, <1>15, <1>16, <1>17 DEF Inv

-----------------------------------------------------------------------------
(* Steps that close a descriptor. *)

\* What closing a descriptor of entry s leaves alone.
Shrunk(s) ==
    /\ dir' = dir /\ imap' = imap /\ alive' = alive
    /\ \A t \in Slots : t # s => slot'[t] = slot[t]
    /\ slot'[s].flag = slot[s].flag /\ slot'[s].inode \in {slot[s].inode, None}
    /\ \A u \in Objs : heap'[u].ino \in {heap[u].ino, None}
    /\ \A u \in Objs : InList(u, open') => InList(u, open) /\ heap'[u].ino = heap[u].ino
    /\ \A u \in Objs : u # slot[s].inode =>
           heap'[u] = heap[u] /\ (InList(u, open') <=> InList(u, open))
    /\ \A t \in Slots : Refs(t)' \subseteq Refs(t)
    /\ Refs(s) # {}
    /\ slot[s].inode \in Objs => InList(slot[s].inode, open)

\* A call that waits for the disk is not disturbed by a close of another
\* process.
LEMMA CallSurvivesClose ==
    ASSUME Inv, NEW s \in Slots, Shrunk(s), NEW q \in Procs, at'[q] = at[q]
    PROVE  CallOK(q)'
<1> DEFINE a == at[q]
           o == slot[s].inode
<1>1. CallOK(q) /\ a \in Call /\ Types
  BY DEF Inv, Types
<1>2. \A i : NotOpen(i) => \A u \in Objs : InList(u, open') => heap'[u].ino # i
  BY DEF Shrunk, NotOpen
<1>3. ASSUME NEW i, i # None, ~InUse(i), NEW t \in Slots, slot'[t].inode \in Objs
      PROVE  heap'[slot'[t].inode].ino # i
  <2>1. slot'[t].inode = slot[t].inode
    BY <1>3, Apart DEF Shrunk
  <2>2. heap'[slot[t].inode].ino \in {heap[slot[t].inode].ino, None}
    BY <1>3, <2>1 DEF Shrunk
  <2> QED BY <1>3, <2>1, <2>2 DEF InUse
<1>4. \A u : slot[s].inode # u /\ u # None => Users(u)' = Users(u)
  BY DEF Shrunk, Users
<1>5. slot[s].inode # None
  BY FreeSlotUnused DEF Shrunk
<1>6. dir' = dir /\ imap' = imap
  BY DEF Shrunk
<1>7. CASE a.pc \notin {"reading", "creating", "adding", "syncing", "deleting",
                        "unlinking", "removing", "releasing"}
  BY <1>1, <1>6, <1>7 DEF CallOK, Making, Named
<1>8. CASE a.pc = "reading"
  <2>1. /\ a.obj \in Objs /\ a.obj # o
    BY <1>1, <1>8, Apart DEF CallOK, Call, Shrunk
  <2>2. heap'[a.obj] = NoInode /\ ~InList(a.obj, open') /\ a.obj # None
    BY <1>1, <1>8, <2>1 DEF CallOK, Shrunk
  <2>3. a.op = "open" => a.slot # None /\ a.slot \in Slots /\ a.slot # s
                         /\ slot'[a.slot].inode = None
    BY <1>1, <1>5, <1>8 DEF CallOK, Call, Shrunk
  <2>4. a.ino # None /\ \A u \in Objs : InList(u, open') => heap'[u].ino # a.ino
    BY <1>1, <1>2, <1>8 DEF CallOK
  <2>5. a.op # "open" => ~ \E t \in Slots : slot'[t].inode \in Objs
                                            /\ heap'[slot'[t].inode].ino = a.ino
    BY <1>1, <1>3, <1>8 DEF CallOK
  <2> QED BY <1>1, <1>6, <1>8, <2>2, <2>3, <2>4, <2>5
          DEF CallOK, Making, Named, NotOpen, InUse
<1>9. CASE a.pc \in {"creating", "adding", "syncing"}
  <2>1. Making(q)
    BY <1>9 DEF Making
  <2>2. /\ a.obj \in Objs /\ a.obj # o /\ a.slot \in Slots /\ a.slot # s
        /\ a.slot # None /\ a.obj # None /\ a.ino \in imap
    BY <1>1, <2>1, Apart DEF CallOK, Call, Shrunk
  <2>3. /\ heap'[a.obj] = [ino |-> a.ino, cnt |-> 0, deny |-> FALSE]
        /\ ~InList(a.obj, open')
        /\ \A u \in Objs : InList(u, open') => heap'[u].ino # a.ino
    BY <1>1, <1>2, <2>1, <2>2 DEF CallOK, Shrunk
  <2>4. Users(a.obj)' = {a.slot}
    BY <1>1, <1>4, <2>1, <2>2 DEF CallOK
  <2>5. slot'[a.slot].flag # "pipe" /\ Refs(a.slot)' = {}
    BY <1>1, <2>1, <2>2 DEF CallOK, Shrunk
  <2>6. \A t \in Slots \ {a.slot} : slot'[t].inode \in Objs => heap'[slot'[t].inode].ino # a.ino
    <3> SUFFICES ASSUME NEW t \in Slots, t # a.slot, slot'[t].inode \in Objs
                 PROVE  heap'[slot'[t].inode].ino # a.ino
      OBVIOUS
    <3>1. slot'[t].inode = slot[t].inode
      BY Apart DEF Shrunk
    <3>2. heap'[slot[t].inode].ino \in {heap[slot[t].inode].ino, None}
      BY <3>1 DEF Shrunk
    <3>3. heap[slot[t].inode].ino # a.ino /\ a.ino # None
      BY <1>1, <2>1, <2>2, <3>1, Apart DEF CallOK, Types
    <3> QED BY <3>1, <3>2, <3>3
  <2>7. at'[q].obj = a.obj /\ at'[q].slot = a.slot /\ at'[q].ino = a.ino
    OBVIOUS
  <2>8. {t \in Slots : slot'[t].inode = a.obj} = {a.slot}
        /\ {x \in alive' \X Fds : fd'[x[1]][x[2]] = a.slot} = {}
    BY <2>4, <2>5, <2>7 DEF Users, Refs
  <2>9. Named(a.ino) <=> a.pc = "syncing"
    BY <1>1, <2>1 DEF CallOK
  <2>10. a.pc = "adding" => a.buf = dir
    BY <1>1, <2>1 DEF CallOK
  <2> QED BY <1>6, <1>9, <2>2, <2>3, <2>5, <2>6, <2>8, <2>9, <2>10
          DEF CallOK, Making, Named, NotOpen, Users, Refs
<1>10. CASE a.pc \in {"unlinking", "removing", "releasing"}
  <2>1. /\ a.op = "unlink" /\ a.ino # None /\ ~InUse(a.ino) /\ a.obj = None
        /\ a.pc = "removing" => a.buf = dir
        /\ a.pc = "releasing" => ~Named(a.ino)
    BY <1>1, <1>10 DEF CallOK
  <2>2. ~ \E t \in Slots : slot'[t].inode \in Objs /\ heap'[slot'[t].inode].ino = a.ino
    BY <1>3, <2>1
  <2> QED BY <1>6, <1>10, <2>1, <2>2 DEF CallOK, Making, Named, InUse
<1>11. CASE a.pc = "deleting"
  <2>1. InList(a.obj, open) /\ Users(a.obj) = {} /\ a.obj \in Objs
    BY <1>1, <1>11, OpenUsed DEF CallOK
  <2>2. a.obj # o /\ a.obj # None
    BY <2>1, Apart DEF Users
  <2>3. InList(a.obj, open') /\ {t \in Slots : slot'[t].inode = a.obj} = {}
    BY <2>1, <2>2 DEF Shrunk, Users
  <2> QED BY <1>11, <2>3 DEF CallOK, Making, Users
<1> QED BY <1>7, <1>8, <1>9, <1>10, <1>11

\* The descriptor is free afterwards, and the others are what they were.
LEMMA ClosedFds ==
    ASSUME Types, NEW p \in alive, NEW f \in Fds, fd' = [fd EXCEPT ![p][f] = None]
    PROVE  /\ fd' \in [Procs -> [Fds -> Slots \cup {None}]]
           /\ fd'[p][f] = None
           /\ \A q \in alive, g \in Fds : ~(q = p /\ g = f) => fd'[q][g] = fd[q][g]
<1>1. p \in Procs /\ alive \subseteq Procs /\ fd \in [Procs -> [Fds -> Slots \cup {None}]]
  BY DEF Types
<1>2. fd' = [fd EXCEPT ![p] = [fd[p] EXCEPT ![f] = None]]
  OBVIOUS
<1>3. [fd[p] EXCEPT ![f] = None] \in [Fds -> Slots \cup {None}]
  BY <1>1
<1>4. fd' \in [Procs -> [Fds -> Slots \cup {None}]]
  BY <1>1, <1>2, <1>3
<1>5. \A q \in alive : fd'[q] = IF q = p THEN [fd[p] EXCEPT ![f] = None] ELSE fd[q]
  BY <1>1, <1>2
<1>6. \A g \in Fds : [fd[p] EXCEPT ![f] = None][g] = IF g = f THEN None ELSE fd[p][g]
  BY <1>1
<1> QED BY <1>4, <1>5, <1>6

\* The other entries keep their references.
LEMMA ClosedOthers ==
    ASSUME Types, NEW p \in alive, NEW f \in Fds, NEW t \in Slots, fd[p][f] # t,
           fd' = [fd EXCEPT ![p][f] = None], alive' = alive
    PROVE  Refs(t)' = Refs(t)
<1>1. fd'[p][f] = None
      /\ \A q \in alive, g \in Fds : ~(q = p /\ g = f) => fd'[q][g] = fd[q][g]
  BY ClosedFds
<1>2. None # t
  BY Apart
<1>3. \A q \in alive, g \in Fds : fd'[q][g] = t <=> fd[q][g] = t
  BY <1>1, <1>2
<1> QED BY <1>3 DEF Refs

\* The entry of the descriptor has one reference less.
LEMMA ClosedRefs ==
    ASSUME Types, NEW p \in alive, NEW f \in Fds, NEW s \in Slots, fd[p][f] = s,
           fd' = [fd EXCEPT ![p][f] = None], alive' = alive
    PROVE  /\ Refs(s)' = Refs(s) \ {<<p, f>>}
           /\ Refs(s) # {} /\ Cardinality(Refs(s)) \in Nat /\ Cardinality(Refs(s)) >= 1
           /\ Cardinality(Refs(s)') = Cardinality(Refs(s)) - 1
<1>1. \A q \in alive, g \in Fds : fd'[q][g] = s <=> fd[q][g] = s /\ <<q, g>> # <<p, f>>
  <2>1. fd'[p][f] = None
        /\ \A q \in alive, g \in Fds : ~(q = p /\ g = f) => fd'[q][g] = fd[q][g]
    BY ClosedFds
  <2>2. None # s
    BY Apart
  <2> QED BY <2>1, <2>2
<1>2. \A x : x \in Refs(s)' <=> x \in Refs(s) /\ x # <<p, f>>
  BY <1>1 DEF Refs
<1>3. Refs(s)' = Refs(s) \ {<<p, f>>}
  BY <1>2
<1>4. <<p, f>> \in Refs(s)
  BY DEF Refs
<1>5. IsFiniteSet(Refs(s)) /\ Cardinality(Refs(s)) \in Nat
  BY Finite DEF Types
<1>6. /\ Cardinality(Refs(s) \ {<<p, f>>}) = Cardinality(Refs(s)) - 1
      /\ Cardinality(Refs(s) \ {<<p, f>>}) \in Nat
  BY <1>4, <1>5, FS_RemoveElement, FS_CardinalityType
<1> QED BY <1>3, <1>4, <1>5, <1>6

\* The entry of a pipe: one use less, and the ring goes with the last one.
LEMMA ClosePipe ==
    ASSUME Inv, NEW p \in alive, NEW f \in Fds, NEW s \in Slots, fd[p][f] = s,
           CloseFd(p, f), slot[s].flag = "pipe", UNCHANGED <<dir, imap, alive>>
    PROVE  /\ Shrunk(s) /\ slot' \in [Slots -> File] /\ panic' = panic
           /\ heap' = heap /\ open' = open
           /\ slot'[s].inode \in {None, Ring}
           /\ slot'[s].pos = 0 <=> slot'[s].inode = None
           /\ slot'[s].pos >= Cardinality(Refs(s)')
<1>1. /\ fd' = [fd EXCEPT ![p][f] = None] /\ heap' = heap /\ open' = open /\ panic' = panic
      /\ slot' = [slot EXCEPT ![s].pos = @ - 1,
                              ![s].inode = IF slot[s].pos = 1 THEN None ELSE @]
      /\ Types /\ slot[s] \in File /\ SlotOK(s)
  BY DEF CloseFd, Inv, Types
<1>2. /\ \A t : t \in Slots /\ t # s => Refs(t)' = Refs(t)
      /\ \A t \in Slots : Refs(t)' \subseteq Refs(t)
      /\ Refs(s) # {} /\ Cardinality(Refs(s)) >= 1 /\ Cardinality(Refs(s)) \in Nat
      /\ Cardinality(Refs(s)') = Cardinality(Refs(s)) - 1
  <2>1. Types /\ fd' = [fd EXCEPT ![p][f] = None] /\ alive' = alive
    BY <1>1
  <2>2. \A t : t \in Slots /\ t # s => Refs(t)' = Refs(t)
    BY <2>1, ClosedOthers
  <2>3. /\ Refs(s)' = Refs(s) \ {<<p, f>>}
        /\ Refs(s) # {} /\ Cardinality(Refs(s)) \in Nat /\ Cardinality(Refs(s)) >= 1
        /\ Cardinality(Refs(s)') = Cardinality(Refs(s)) - 1
    BY <2>1, ClosedRefs
  <2> QED BY <2>2, <2>3
<1> DEFINE r == [slot[s] EXCEPT !.pos = slot[s].pos - 1,
                 !.inode = IF slot[s].pos = 1 THEN None ELSE slot[s].inode]
<1>3. /\ slot[s].pos >= Cardinality(Refs(s)) /\ slot[s].pos \in 0..MaxPos /\ MaxPos \in Nat
      /\ slot[s].inode \in {None, Ring} /\ (slot[s].pos = 0 <=> slot[s].inode = None)
  BY <1>1, TableAssumption DEF SlotOK, File
<1>4. slot[s].inode = Ring /\ slot[s].pos \in 1..MaxPos
  BY <1>2, <1>3
<1>5. slot' = [slot EXCEPT ![s] = r]
  BY <1>1 DEF Types
<1>6. /\ r \in File /\ r.pos = slot[s].pos - 1 /\ r.flag = slot[s].flag
      /\ r.inode = IF slot[s].pos = 1 THEN None ELSE Ring
  <2>1. slot[s].pos - 1 \in 0..MaxPos
    BY <1>3, <1>4
  <2> QED BY <2>1, <1>1, <1>4 DEF File
<1> HIDE DEF r
<1>7. /\ slot' \in [Slots -> File] /\ slot'[s] = r
      /\ \A t \in Slots : t # s => slot'[t] = slot[t]
  <2>1. slot \in [Slots -> File] /\ r \in File
    BY <1>1, <1>6 DEF Types
  <2> QED BY <1>5, <2>1
<1>8. /\ slot'[s].inode \in {None, Ring}
      /\ slot'[s].pos = 0 <=> slot'[s].inode = None
      /\ slot'[s].pos >= Cardinality(Refs(s)')
  BY <1>2, <1>3, <1>4, <1>6, <1>7, Apart
<1>9. Shrunk(s)
  BY <1>1, <1>2, <1>4, <1>6, <1>7, Apart DEF Shrunk
<1> QED BY <1>1, <1>7, <1>8, <1>9

\* The entry of a file: it becomes free, the count goes down, and the inode
\* leaves open_inodes with its last user.
LEMMA CloseFile ==
    ASSUME Inv, NEW p \in alive, NEW f \in Fds, NEW s \in Slots, fd[p][f] = s,
           CloseFd(p, f), slot[s].flag # "pipe", UNCHANGED <<dir, imap, alive>>
    PROVE  /\ Shrunk(s) /\ slot' \in [Slots -> File] /\ panic' = panic
           /\ heap' \in [Objs -> Inode] /\ open' \in Seq(Objs) /\ NoRepeat(open')
           /\ slot'[s].inode = None /\ Refs(s)' = {} /\ slot[s].inode \in Objs
           /\ IF InList(slot[s].inode, open')
              THEN heap'[slot[s].inode].cnt = heap[slot[s].inode].cnt - 1
                   /\ heap[slot[s].inode].cnt # 1
              ELSE heap'[slot[s].inode] = NoInode /\ heap[slot[s].inode].cnt = 1
<1> DEFINE o == slot[s].inode
           hp == [heap EXCEPT ![o].deny = FALSE]
<1>1. /\ Types /\ slot[s] \in File /\ fd' = [fd EXCEPT ![p][f] = None] /\ alive' = alive
      /\ slot \in [Slots -> File] /\ heap \in [Objs -> Inode] /\ s # None
      /\ open \in Seq(Objs) /\ NoRepeat(open)
  BY Apart DEF CloseFd, Inv, Types
<1>2. /\ InList(o, open)
      /\ \A q \in alive, g \in Fds : fd[q][g] = s => q = p /\ g = f
  BY <1>1 DEF Inv, FdOK
<1>3. o \in Objs /\ heap[o] # NoInode /\ InodeOK(o) /\ o # None /\ heap[o] \in Inode
  BY <1>1, <1>2, OpenUsed, Apart DEF Inv
<1>4. heap[o].ino # None /\ heap[o].cnt > 0 /\ heap[o].cnt \in Nat
  BY <1>2, <1>3 DEF InodeOK, Inode
<1>5. slot' = [slot EXCEPT ![s].inode = None] /\ panic' = panic /\ inode_close(o, hp)
  BY <1>1, <1>3 DEF CloseFd
<1>6. /\ hp \in [Objs -> Inode] /\ hp[o].cnt = heap[o].cnt /\ hp[o].ino = heap[o].ino
      /\ \A u \in Objs : u # o => hp[u] = heap[u]
  BY <1>1, <1>3 DEF Inode
<1> HIDE DEF hp
<1>7. /\ slot' \in [Slots -> File] /\ slot'[s].inode = None /\ slot'[s].flag = slot[s].flag
      /\ \A t \in Slots : t # s => slot'[t] = slot[t]
  BY <1>1, <1>5 DEF File
<1>8. Refs(s) # {} /\ Refs(s)' = Refs(s) \ {<<p, f>>}
  BY <1>1, ClosedRefs
<1>9. Refs(s)' = {}
  <2>1. \A x \in Refs(s) : x = <<p, f>>
    BY <1>2 DEF Refs
  <2> QED BY <2>1, <1>8
<1>10. \A t \in Slots : Refs(t)' \subseteq Refs(t)
  <2>1. \A t \in Slots : t # s => Refs(t)' = Refs(t)
    BY <1>1, ClosedOthers
  <2> QED BY <2>1, <1>9
<1>11. CASE heap[o].cnt = 1
  <2>1. heap' = [hp EXCEPT ![o] = NoInode] /\ open' = list_remove(o, open)
    BY <1>5, <1>6, <1>11 DEF inode_close
  <2>2. /\ heap' \in [Objs -> Inode] /\ heap'[o] = NoInode
        /\ \A u \in Objs : u # o => heap'[u] = heap[u]
    <3>1. NoInode \in Inode
      BY DEF NoInode, Inode
    <3> QED BY <3>1, <2>1, <1>3, <1>6
  <2>3. /\ open' \in Seq(Objs) /\ NoRepeat(open')
        /\ \A y : InList(y, open') <=> InList(y, open) /\ y # o
    BY <1>1, <1>2, <2>1, RemoveFacts
  <2>4. NoInode.ino = None
    BY DEF NoInode
  <2>5. Shrunk(s)
    BY <1>1, <1>2, <1>7, <1>8, <1>10, <2>2, <2>3, <2>4 DEF Shrunk
  <2> QED BY <1>3, <1>5, <1>7, <1>9, <1>11, <2>2, <2>3, <2>5
<1>12. CASE heap[o].cnt # 1
  <2>1. heap' = [hp EXCEPT ![o].cnt = @ - 1] /\ open' = open
    BY <1>5, <1>6, <1>12 DEF inode_close
  <2>2. /\ heap' \in [Objs -> Inode] /\ heap'[o].cnt = heap[o].cnt - 1
        /\ heap'[o].ino = heap[o].ino
        /\ \A u \in Objs : u # o => heap'[u] = heap[u]
    <3>1. heap[o].cnt - 1 \in Nat
      BY <1>4
    <3> QED BY <3>1, <2>1, <1>3, <1>6 DEF Inode
  <2>3. Shrunk(s)
    BY <1>1, <1>2, <1>7, <1>8, <1>10, <2>1, <2>2 DEF Shrunk
  <2> QED BY <1>1, <1>2, <1>3, <1>5, <1>7, <1>9, <1>12, <2>1, <2>2, <2>3
<1> QED BY <1>11, <1>12

\* Closing a descriptor keeps the invariant.
LEMMA CloseFdInv ==
    ASSUME Inv, NEW p \in alive, NEW f \in Fds, NEW s \in Slots, fd[p][f] = s, CloseFd(p, f),
           UNCHANGED <<dir, imap, alive>>, at[p].pc \in {"user", "exit"},
           at' \in [Procs -> Call], \A q \in Procs : q # p => at'[q] = at[q],
           at'[p].pc \in {"user", "exit"}, at'[p].obj = None
    PROVE  Inv'
<1> DEFINE o == slot[s].inode
<1>1. /\ Types /\ p \in Procs /\ fd' = [fd EXCEPT ![p][f] = None]
      /\ dir' = dir /\ imap' = imap /\ alive' = alive /\ slot[s] \in File
  BY DEF CloseFd, Inv, Types
<1>2. /\ Shrunk(s) /\ slot' \in [Slots -> File] /\ panic' = panic
      /\ heap' \in [Objs -> Inode] /\ open' \in Seq(Objs) /\ NoRepeat(open')
  <2>1. CASE slot[s].flag = "pipe"
    BY <1>1, <2>1, ClosePipe DEF Types
  <2>2. CASE slot[s].flag # "pipe"
    BY <1>1, <2>2, CloseFile
  <2> QED BY <2>1, <2>2
<1>3. /\ fd' \in [Procs -> [Fds -> Slots \cup {None}]]
      /\ fd'[p][f] = None
      /\ \A q \in alive, g \in Fds : ~(q = p /\ g = f) => fd'[q][g] = fd[q][g]
  <2>1. Types /\ fd' = [fd EXCEPT ![p][f] = None]
    BY <1>1
  <2>2. fd' \in [Procs -> [Fds -> Slots \cup {None}]]
    BY <2>1, ClosedFds
  <2>3. fd'[p][f] = None
    BY <2>1, ClosedFds
  <2>4. ASSUME NEW q \in alive, NEW g \in Fds, ~(q = p /\ g = f)
        PROVE  fd'[q][g] = fd[q][g]
    BY <2>1, <2>4, ClosedFds
  <2> QED BY <2>2, <2>3, <2>4
<1>4. Types'
  BY <1>1, <1>2, <1>3 DEF Types
<1>5. /\ \A t \in Slots : t # s => slot'[t] = slot[t]
      /\ slot'[s].flag = slot[s].flag
      /\ \A u \in Objs : u # o => heap'[u] = heap[u] /\ (InList(u, open') <=> InList(u, open))
      /\ \A u \in Objs : InList(u, open') => InList(u, open) /\ heap'[u].ino = heap[u].ino
      /\ slot'[s].inode \in {o, None}
  BY <1>2 DEF Shrunk
<1>6. /\ \A q \in Procs : Making(q)' <=> Making(q)
      /\ \A q \in Procs : Making(q) => at'[q] = at[q]
      /\ \A q \in Procs : InCall(q)' <=> InCall(q)
  BY DEF Making, InCall
<1>7. ASSUME NEW u PROVE Deleters(u)' = Deleters(u)
  <2>1. \A q \in Procs : /\ at'[q].pc = "deleting" <=> at[q].pc = "deleting"
                         /\ at[q].pc = "deleting" => at'[q].obj = at[q].obj
    OBVIOUS
  <2> QED BY <2>1 DEF Deleters
<1>8. OneCall' /\ \A q \in Procs : CallOK(q)'
  <2>1. CallOK(p)'
    BY DEF CallOK, Making
  <2>2. \A q \in Procs : q # p => CallOK(q)'
    BY <1>1, <1>2, CallSurvivesClose
  <2> QED BY <1>6, <2>1, <2>2 DEF Inv, OneCall
<1>9. OneEach'
  BY <1>5 DEF Inv, OneEach
<1>10. \A j : Named(j)' <=> Named(j)
  BY <1>1 DEF Named
\* With two users the count is at least two.
<1>11. ASSUME NEW t \in Slots, t # s, slot[t].inode = o, o \in Objs
       PROVE  InList(o, open')
  <2> SUFFICES ASSUME ~InList(o, open') PROVE FALSE
    OBVIOUS
  <2>1. slot[s].flag # "pipe"
    <3>1. slot[s].flag = "pipe" => o \in {None, Ring}
      BY <1>1 DEF Inv, SlotOK
    <3> QED BY <1>11, <3>1, Apart
  <2>2. heap[o].cnt = 1 /\ InList(o, open)
    BY <1>1, <1>2, <1>11, <2>1, CloseFile DEF Shrunk
  <2>3. InodeOK(o)
    BY <1>11 DEF Inv
  <2>4. heap[o].cnt = Cardinality(Users(o)) + Cardinality(Deleters(o))
    BY <2>2, <2>3 DEF InodeOK
  <2>5. /\ IsFiniteSet(Users(o)) /\ Cardinality(Users(o)) \in Nat
        /\ Cardinality(Deleters(o)) \in Nat
    BY Finite
  <2>6. s \in Users(o) /\ t \in Users(o)
    BY <1>1, <1>11 DEF Users
  <2>7. /\ IsFiniteSet(Users(o) \ {s})
        /\ Cardinality(Users(o) \ {s}) = Cardinality(Users(o)) - 1
        /\ Cardinality(Users(o) \ {s}) \in Nat
    BY <2>5, <2>6, FS_RemoveElement, FS_CardinalityType
  <2>8. Cardinality(Users(o) \ {s}) = 0
    BY <2>2, <2>4, <2>5, <2>7
  <2>9. Users(o) \ {s} = {}
    BY <2>7, <2>8, FS_EmptySet
  <2> QED BY <1>11, <2>6, <2>9
<1>12. \A u \in Objs : u # o => Users(u)' = Users(u)
  BY <1>5, Apart DEF Users
<1>13. ASSUME NEW u \in Objs PROVE InodeOK(u)'
  <2>1. InodeOK(u)
    BY DEF Inv
  <2>2. CASE u # o
    <3>1. heap'[u] = heap[u] /\ (InList(u, open') <=> InList(u, open)) /\ Users(u)' = Users(u)
      BY <2>2, <1>5, <1>12
    <3>2. \A q \in Procs : Making(q) /\ at[q].obj = u => Making(q)' /\ at'[q].obj = u
      BY <1>6
    <3> QED BY <2>1, <3>1, <3>2, <1>7 DEF InodeOK
  <2>3. CASE u = o
    <3>1. slot[s].flag # "pipe"
      <4>1. slot[s].flag = "pipe" => o \in {None, Ring}
        BY <1>1 DEF Inv, SlotOK
      <4> QED BY <2>3, <4>1, Apart
    <3>2. /\ slot'[s].inode = None /\ InList(o, open)
          /\ IF InList(o, open') THEN heap'[o].cnt = heap[o].cnt - 1 /\ heap[o].cnt # 1
                                 ELSE heap'[o] = NoInode
      BY <1>1, <1>2, <2>3, <3>1, CloseFile DEF Shrunk
    <3>3. CASE ~InList(o, open')
      BY <2>3, <3>2, <3>3 DEF InodeOK
    <3>4. CASE InList(o, open')
      <4>1. \A t \in Slots : slot'[t].inode = o <=> slot[t].inode = o /\ t # s
        BY <1>5, <2>3, <3>2, Apart
      <4>2. {t \in Slots : slot'[t].inode = o} = Users(o) \ {s}
        BY <4>1 DEF Users
      <4>3. s \in Users(o) /\ IsFiniteSet(Users(o)) /\ Cardinality(Users(o)) \in Nat
            /\ Cardinality(Deleters(o)) \in Nat
        BY <1>1, Finite DEF Users
      <4>4. Cardinality(Users(o) \ {s}) = Cardinality(Users(o)) - 1
        BY <4>3, FS_RemoveElement
      <4>5. Users(u)' = Users(o) \ {s}
        BY <2>3, <4>2 DEF Users
      <4>6. /\ heap[o].cnt = Cardinality(Users(o)) + Cardinality(Deleters(o))
            /\ heap[o].ino # None /\ heap[o].cnt > 0
        BY <2>1, <2>3, <3>2 DEF InodeOK
      <4>7. heap'[o].ino = heap[o].ino /\ heap'[o].cnt = heap[o].cnt - 1 /\ heap[o].cnt # 1
        BY <1>5, <2>3, <3>2, <3>4
      <4>8. heap'[u].cnt > 0
            /\ heap'[u].cnt = Cardinality(Users(u)') + Cardinality(Deleters(u))
        BY <2>3, <4>3, <4>4, <4>5, <4>6, <4>7
      <4>9. Deleters(u)' = Deleters(u)
        BY <1>7
      <4> QED BY <2>3, <3>4, <4>6, <4>7, <4>8, <4>9 DEF InodeOK
    <3> QED BY <3>3, <3>4
  <2> QED BY <2>2, <2>3
<1>14. ASSUME NEW t \in Slots PROVE SlotOK(t)'
  <2>1. SlotOK(t) /\ SlotOK(s)
    BY <1>1 DEF Inv
  <2>2. CASE t = s
    <3>1. CASE slot[s].flag = "pipe"
      <4>1. /\ slot'[s].inode \in {None, Ring} /\ slot'[s].flag = "pipe"
            /\ slot'[s].pos = 0 <=> slot'[s].inode = None
            /\ slot'[s].pos >= Cardinality(Refs(s)')
        BY <1>1, <1>5, <3>1, ClosePipe
      <4>2. slot'[s].inode \notin Objs
        BY <2>2, <4>1, Apart
      <4>3. Refs(t)' = Refs(s)'
        BY <2>2 DEF Refs
      <4> QED BY <2>2, <4>1, <4>2, <4>3 DEF SlotOK
    <3>2. CASE slot[s].flag # "pipe"
      <4>1. slot'[s].inode = None /\ slot'[s].flag # "pipe"
        BY <1>1, <1>5, <3>2, CloseFile
      <4> QED BY <2>2, <4>1, Apart DEF SlotOK
    <3> QED BY <3>1, <3>2
  <2>3. CASE t # s
    <3>1. slot'[t] = slot[t] /\ Refs(t)' = Refs(t)
      BY <2>3, <1>1, <1>5, ClosedOthers
    <3>2. CASE slot[t].inode \notin Objs
      BY <2>1, <3>1, <3>2 DEF SlotOK
    <3>3. CASE slot[t].inode \in Objs
      <4> DEFINE u == slot[t].inode
      <4>1. heap[u].ino \in imap /\ (\/ InList(u, open) /\ Named(heap[u].ino)
                                     \/ \E q \in Procs : Making(q) /\ at[q].slot = t /\ at[q].obj = u)
        BY <2>1, <3>3 DEF SlotOK
      <4>2. CASE InList(u, open) /\ Named(heap[u].ino)
        <5>1. InList(u, open') /\ heap'[u].ino = heap[u].ino
          BY <1>5, <1>11, <2>3, <3>3, <4>2
        <5>2. \E e \in Entries : dir'[e].ino = heap'[slot'[t].inode].ino
          BY <3>1, <4>2, <5>1, <1>1 DEF Named
        <5> QED BY <2>1, <3>1, <3>3, <4>1, <5>1, <5>2, <1>1 DEF SlotOK, Named
      <4>3. CASE ~InList(u, open)
        <5>1. u # o
          BY <1>2, <3>3, <4>3 DEF Shrunk
        <5>2. heap'[u] = heap[u]
          BY <5>1, <1>5, <3>3
        <5>3. \E q \in Procs : Making(q)' /\ at'[q].slot = t /\ at'[q].obj = u
          BY <4>1, <4>3, <1>6
        <5> QED BY <2>1, <3>1, <3>3, <4>1, <5>2, <5>3, <1>1 DEF SlotOK
      <4>4. CASE InList(u, open) /\ ~Named(heap[u].ino)
        <5>1. PICK q \in Procs : Making(q) /\ at[q].slot = t /\ at[q].obj = u
          BY <4>1, <4>4
        <5>2. CallOK(q)
          BY DEF Inv
        <5> QED BY <4>4, <5>1, <5>2 DEF CallOK
      <4> QED BY <4>2, <4>3, <4>4
    <3> QED BY <3>2, <3>3
  <2> QED BY <2>2, <2>3
<1>15. ASSUME NEW q \in alive, NEW g \in Fds PROVE FdOK(q, g)'
  <2> DEFINE t == fd[q][g]
  <2> SUFFICES ASSUME fd'[q][g] # None, slot'[fd'[q][g]].flag # "pipe"
               PROVE  /\ InList(slot'[fd'[q][g]].inode, open')
                      /\ \A x \in alive, h \in Fds :
                             fd'[x][h] = fd'[q][g] => x = q /\ h = g
    BY <1>1 DEF FdOK
  <2>1. fd'[q][g] = t /\ ~(q = p /\ g = f) /\ t # None /\ t \in Slots
    BY <1>1, <1>3 DEF Types
  <2>2. slot[t].flag # "pipe"
    BY <1>5, <2>1
  <2>3. /\ InList(slot[t].inode, open)
        /\ \A x \in alive, h \in Fds : fd[x][h] = t => x = q /\ h = g
    BY <2>1, <2>2 DEF Inv, FdOK
  <2>4. t # s
    BY <2>1, <2>3
  <2>5. slot'[t] = slot[t] /\ slot[t].inode \in Objs
    BY <1>1, <1>5, <2>1, <2>3, <2>4 DEF Types, InList
  <2>6. InList(slot[t].inode, open')
    BY <1>5, <1>11, <2>1, <2>3, <2>4, <2>5
  <2>7. \A x \in alive, h \in Fds : fd'[x][h] = t => fd[x][h] = t
    BY <1>3, <2>1
  <2> QED BY <2>1, <2>3, <2>5, <2>6, <2>7
<1>16. \A x \in Entries : dir'[x].ino # None => dir'[x].ino \in imap'
  BY <1>1 DEF Inv
<1> QED BY <1>1, <1>4, <1>8, <1>9, <1>13, <1>14, <1>15, <1>16 DEF Inv

\* sys_close.
LEMMA SysCloseInv ==
    ASSUME Inv, NEW p \in Procs, NEW f \in Fds, sys_close(p, f)
    PROVE  Inv'
<1>1. /\ p \in alive /\ at[p].pc = "user" /\ fd[p][f] # None /\ CloseFd(p, f)
      /\ UNCHANGED <<dir, imap, alive, at>> /\ Types /\ CallOK(p)
  BY DEF sys_close, At, Inv
<1>2. at \in [Procs -> Call] /\ at[p].obj = None /\ fd[p][f] \in Slots
  BY <1>1 DEF CallOK, Types
<1>3. PICK s \in Slots : fd[p][f] = s
  BY <1>2
<1> QED BY <1>1, <1>2, <1>3, CloseFdInv

\* exit: the descriptors are closed one after the other, then the process is
\* gone.
LEMMA ExitInv ==
    ASSUME Inv, NEW p \in Procs, Exit(p)
    PROVE  Inv'
<1>1. /\ p \in alive /\ at[p].pc \in {"user", "exit"} /\ UNCHANGED <<dir, imap>>
      /\ Types /\ CallOK(p) /\ at \in [Procs -> Call] /\ at[p].obj = None
  BY DEF Exit, At, Inv, Types, CallOK
<1>2. User \in Call /\ User.pc = "user" /\ User.obj = None
  BY DEF User, Call, NoEntry, Dirent
<1>3. CASE \A f \in Fds : fd[p][f] = None
  <2>1. /\ alive' = alive \ {p} /\ at' = [at EXCEPT ![p] = User]
        /\ UNCHANGED <<fd, slot, heap, open, panic>>
    BY <1>3 DEF Exit, Return
  <2>2. at' \in [Procs -> Call] /\ at'[p] = User /\ \A q \in Procs : q # p => at'[q] = at[q]
    BY <1>1, <1>2, <2>1
  <2>3. ASSUME NEW t \in Slots PROVE Refs(t)' = Refs(t)
    <3>1. \A x : x \in Refs(t)' <=> x \in Refs(t)
      BY <1>3, <2>1, Apart DEF Refs
    <3> QED BY <3>1
  <2>4. /\ \A q \in Procs : Making(q)' <=> Making(q)
        /\ \A q \in Procs : Making(q) => at'[q] = at[q]
        /\ \A q \in Procs : InCall(q)' <=> InCall(q)
    BY <1>1, <1>2, <2>2 DEF Making, InCall
  <2>5. ASSUME NEW u PROVE Deleters(u)' = Deleters(u) /\ Users(u)' = Users(u)
    <3>1. \A q \in Procs : /\ at'[q].pc = "deleting" <=> at[q].pc = "deleting"
                           /\ at[q].pc = "deleting" => at'[q].obj = at[q].obj
      BY <1>1, <1>2, <2>2
    <3> QED BY <3>1, <2>1 DEF Deleters, Users
  <2>6. ASSUME NEW q \in Procs PROVE CallOK(q)'
    <3>1. CASE q = p
      BY <1>2, <2>2, <3>1 DEF CallOK, Making
    <3>2. CASE q # p
      <4>1. at'[q] = at[q] /\ CallOK(q) /\ at[q] \in Call
        BY <1>1, <2>2, <3>2 DEF Inv
      <4>2. Making(q) => at[q].slot \in Slots
        BY <4>1 DEF Call, CallOK
      <4>3. Making(q) => {x \in alive' \X Fds : fd'[x[1]][x[2]] = at[q].slot} = {}
        BY <4>1, <4>2, <2>3 DEF CallOK, Refs
      <4> QED BY <4>1, <4>3, <1>1, <2>1 DEF CallOK, Making, Named, NotOpen, InUse, Users, Refs
    <3> QED BY <3>1, <3>2
  <2>7. Types'
    BY <1>1, <2>1, <2>2 DEF Types
  <2>8. OneCall' /\ OneEach'
    BY <2>1, <2>4 DEF Inv, OneCall, OneEach
  <2>9. \A u \in Objs : InodeOK(u)'
    BY <2>1, <2>4, <2>5 DEF Inv, InodeOK
  <2>10. \A s \in Slots : SlotOK(s)'
    BY <1>1, <2>1, <2>3, <2>4 DEF Inv, SlotOK, Named
  <2>11. \A q \in alive', f \in Fds : FdOK(q, f)'
    BY <2>1 DEF Inv, FdOK
  <2>12. \A x \in Entries : dir'[x].ino # None => dir'[x].ino \in imap'
    BY <1>1 DEF Inv
  <2> QED BY <2>6, <2>7, <2>8, <2>9, <2>10, <2>11, <2>12 DEF Inv
<1>4. CASE ~ \A f \in Fds : fd[p][f] = None
  <2> DEFINE F == {f \in Fds : fd[p][f] # None}
  <2>1. /\ CloseFd(p, Lowest(F)) /\ at' = [at EXCEPT ![p].pc = "exit"] /\ alive' = alive
    BY <1>4 DEF Exit
  <2>2. F # {} /\ F \subseteq Nat
    BY <1>4, Apart
  <2>3. Lowest(F) \in F
    BY <2>2, LowestFacts
  <2>4. PICK f \in Fds : f = Lowest(F) /\ fd[p][f] # None
    BY <2>3
  <2>5. PICK s \in Slots : fd[p][f] = s
    BY <1>1, <2>4 DEF Types
  <2>6. /\ at' \in [Procs -> Call] /\ \A q \in Procs : q # p => at'[q] = at[q]
        /\ at'[p].pc = "exit" /\ at'[p].obj = None
    BY <1>1, <2>1 DEF Call
  <2>7. CloseFd(p, f)
    BY <2>1, <2>4
  <2> QED BY <1>1, <2>1, <2>5, <2>6, <2>7, CloseFdInv
<1> QED BY <1>3, <1>4

-----------------------------------------------------------------------------
(* pipe and fork. *)

\* The set of two elements is finite, with at most two elements.
LEMMA PairFacts ==
    ASSUME NEW x, NEW y, NEW S, S \subseteq {x, y}
    PROVE  Cardinality(S) \in Nat /\ Cardinality(S) <= 2
<1>1. IsFiniteSet({x}) /\ Cardinality({x}) = 1
  BY FS_Singleton
<1>2. IsFiniteSet({x} \cup {y}) /\ Cardinality({x} \cup {y}) <= 2
  BY <1>1, FS_AddElement
<1>3. {x} \cup {y} = {x, y}
  OBVIOUS
<1>4. IsFiniteSet({x, y}) /\ Cardinality({x, y}) <= 2
  BY <1>2, <1>3
<1>5. S \in SUBSET {x, y} /\ Cardinality({x, y}) \in Nat
  BY <1>4, FS_CardinalityType
<1>6. IsFiniteSet(S) /\ Cardinality(S) <= Cardinality({x, y})
  BY <1>4, <1>5, FS_Subset
<1>7. Cardinality(S) \in Nat
  BY <1>6, FS_CardinalityType
<1> QED BY <1>4, <1>5, <1>6, <1>7

\* A step that changes no table and no call keeps the invariant.
LEMMA SameInv ==
    ASSUME Inv, UNCHANGED tables, at' = at, panic' \in BOOLEAN
    PROVE  Inv'
<1>1. UNCHANGED tables /\ at' = at /\ panic' \in BOOLEAN
  OBVIOUS
<1>2. /\ dir' = dir /\ imap' = imap /\ heap' = heap /\ open' = open /\ slot' = slot
      /\ fd' = fd /\ alive' = alive /\ at' = at
  BY <1>1 DEF tables
<1>3. Types'
  BY <1>1, <1>2 DEF Inv, Types
<1>4. /\ \A i : Named(i)' <=> Named(i)
      /\ \A i : NotOpen(i)' <=> NotOpen(i)
      /\ \A i : InUse(i)' <=> InUse(i)
      /\ \A o : Users(o)' = Users(o)
      /\ \A o : Deleters(o)' = Deleters(o)
      /\ \A s : Refs(s)' = Refs(s)
      /\ \A q : (Making(q)' <=> Making(q)) /\ (InCall(q)' <=> InCall(q))
  BY <1>2 DEF Named, NotOpen, InUse, Users, Deleters, Refs, Making, InCall
<1>5. OneCall' /\ OneEach'
  BY <1>2, <1>4 DEF Inv, OneCall, OneEach
<1>6. \A q \in Procs : CallOK(q)'
  BY <1>2, <1>4 DEF Inv, CallOK
<1>7. \A o \in Objs : InodeOK(o)'
  BY <1>2, <1>4 DEF Inv, InodeOK
<1>8. \A s \in Slots : SlotOK(s)'
  BY <1>2, <1>4 DEF Inv, SlotOK
<1>9. \A q \in alive', f \in Fds : FdOK(q, f)'
  BY <1>2 DEF Inv, FdOK
<1>10. \A x \in Entries : dir'[x].ino # None => dir'[x].ino \in imap'
  BY <1>2 DEF Inv
<1> QED BY <1>3, <1>5, <1>6, <1>7, <1>8, <1>9, <1>10 DEF Inv

\* Two descriptors on the free entry, or fewer if fd_table is full.
LEMMA PipeInv ==
    ASSUME Inv, Unraced, NEW p \in Procs, NEW s \in Slots, s = get_free_slot_in_global,
           sys_pipe(p)
    PROVE  Inv'
<1> DEFINE E1 == {g \in Fds : fd[p][g] = None}
           f1 == Lowest(E1)
           E2 == {g \in Fds : fd[p][g] = None /\ g # f1}
           f2 == Lowest(E2)
           ring == [inode |-> Ring, flag |-> "pipe", pos |-> 2]
<1>1. /\ p \in alive /\ \A q \in Procs : ~(at[q].pc = "reading" /\ at[q].op = "open")
      /\ slot[s].inode = None /\ s # None /\ Types /\ p \in Procs
      /\ slot \in [Slots -> File] /\ fd \in [Procs -> [Fds -> Slots \cup {None}]]
  BY FreeSlotFacts, Apart DEF sys_pipe, At, Unraced, Inv, Types
<1>2. /\ slot' = [slot EXCEPT ![s] = ring] /\ panic' = panic
      /\ fd' = [fd EXCEPT ![p] = [f \in Fds |-> IF f \in {f1, f2} THEN s ELSE @[f]]]
      /\ UNCHANGED <<dir, imap, heap, open, alive, at>> /\ MaxPos >= 2
  BY <1>1 DEF sys_pipe, fsVars
<1>3. f1 \in E1 \cup {None} /\ f2 \in E2 \cup {None}
  <2>1. E1 \subseteq Nat /\ E2 \subseteq Nat
    BY Apart
  <2> HIDE DEF E1, E2
  <2> QED BY <2>1, LowestFacts
<1>4. \A f \in Fds : f \in {f1, f2} => fd[p][f] = None
  BY <1>3, Apart
<1> HIDE DEF E1, E2, f1, f2
<1>5. ring \in File /\ ring.inode = Ring /\ ring.flag = "pipe" /\ ring.pos = 2
  BY <1>2, TableAssumption DEF File
<1>6. /\ slot' \in [Slots -> File] /\ slot'[s] = ring
      /\ \A t \in Slots : t # s => slot'[t] = slot[t]
  BY <1>1, <1>2, <1>5
<1>7. /\ fd' \in [Procs -> [Fds -> Slots \cup {None}]]
      /\ \A q \in Procs : q # p => fd'[q] = fd[q]
      /\ \A f \in Fds : fd'[p][f] = IF f \in {f1, f2} THEN s ELSE fd[p][f]
  BY <1>1, <1>2
<1>8. Types'
  BY <1>1, <1>2, <1>6, <1>7 DEF Types
<1>9. Refs(s) = {}
  BY <1>1, FreeSlotUnused
<1>10. alive \subseteq Procs /\ dir' = dir /\ imap' = imap /\ heap' = heap /\ open' = open
       /\ alive' = alive /\ at' = at
  BY <1>1, <1>2 DEF Types
<1>11. Cardinality(Refs(s)') \in Nat /\ Cardinality(Refs(s)') <= 2
  <2>1. \A q \in alive, g \in Fds : fd[q][g] # s
    BY <1>9, RefsFacts
  <2>2. ASSUME NEW q \in alive, NEW g \in Fds, fd'[q][g] = s PROVE q = p /\ g \in {f1, f2}
    BY <2>1, <2>2, <1>7, <1>10
  <2>3. Refs(s)' \subseteq {<<p, f1>>, <<p, f2>>}
    BY <2>2, <1>10 DEF Refs
  <2> QED BY <2>3, PairFacts
<1>12. ASSUME NEW q \in alive, NEW g \in Fds, NEW t \in Slots, t # s
       PROVE  fd'[q][g] = t <=> fd[q][g] = t
  BY <1>4, <1>7, <1>10, <1>12, Apart
<1>13. ASSUME NEW t \in Slots, t # s PROVE Refs(t)' = Refs(t)
  BY <1>10, <1>12, <1>13 DEF Refs
<1>14. /\ \A q \in Procs : (InCall(q)' <=> InCall(q)) /\ (Making(q)' <=> Making(q))
       /\ \A n : (Named(n)' <=> Named(n)) /\ (NotOpen(n)' <=> NotOpen(n))
  BY <1>10 DEF InCall, Making, Named, NotOpen
<1>15. OneCall' /\ OneEach'
  BY <1>10, <1>14 DEF Inv, OneCall, OneEach
<1>16. ASSUME NEW o \in Objs PROVE InodeOK(o)' /\ Users(o)' = Users(o)
  <2>1. \A t \in Slots : slot'[t].inode = o <=> slot[t].inode = o
    BY <1>1, <1>5, <1>6, Apart
  <2>2. Users(o)' = Users(o) /\ Deleters(o)' = Deleters(o)
    BY <2>1, <1>10 DEF Users, Deleters
  <2> QED BY <2>2, <1>10, <1>14 DEF Inv, InodeOK
<1>20. ASSUME NEW n PROVE InUse(n)' => InUse(n)
  <2>1. \A t \in Slots : slot'[t].inode \in Objs => t # s /\ slot'[t] = slot[t]
    BY <1>5, <1>6, Apart
  <2> QED BY <2>1, <1>10 DEF InUse
<1>21. ASSUME NEW q \in Procs PROVE CallOK(q)'
  <2> DEFINE a == at[q]
  <2>1. CallOK(q) /\ a \in Call /\ at'[q] = a
    BY <1>1, <1>10 DEF Inv, Types
  <2>2. ASSUME Making(q)
        PROVE  /\ a.slot \in Slots /\ a.slot # s /\ a.obj \in Objs
               /\ slot'[a.slot] = slot[a.slot] /\ Refs(a.slot)' = Refs(a.slot)
               /\ Users(a.obj)' = Users(a.obj)
               /\ \A t \in Slots : slot'[t].inode \in Objs => slot'[t] = slot[t]
    <3>1. a.slot \in Slots /\ a.obj \in Objs /\ a.slot \in Users(a.obj)
      BY <2>1, <2>2 DEF CallOK, Call
    <3>2. a.slot # s
      BY <3>1, <1>1, Apart DEF Users
    <3>3. \A t \in Slots : slot'[t].inode \in Objs => slot'[t] = slot[t]
      BY <1>5, <1>6, Apart
    <3>4. PICK t \in Slots : t = at[q].slot
      BY <3>1
    <3>5. PICK o \in Objs : o = at[q].obj
      BY <3>1
    <3>6. Refs(t)' = Refs(t) /\ Users(o)' = Users(o)
      BY <3>2, <3>4, <1>13, <1>16
    <3>7. Refs(a.slot)' = Refs(a.slot) /\ Users(a.obj)' = Users(a.obj)
      BY <3>4, <3>5, <3>6, <1>10 DEF Refs, Users
    <3> QED BY <3>1, <3>2, <3>3, <3>7, <1>6
  <2>3. ASSUME a.pc = "deleting" PROVE Users(a.obj)' = Users(a.obj)
    <3>1. InList(a.obj, open) /\ a.obj \in Objs \cup {None}
      BY <2>1, <2>3 DEF CallOK, Call
    <3>2. PICK o \in Objs : o = at[q].obj
      BY <3>1, <1>1 DEF InList, Types
    <3>3. Users(o)' = Users(o)
      BY <1>16
    <3> QED BY <3>2, <3>3, <1>10 DEF Users
  <2>4. ~(a.pc = "reading" /\ a.op = "open")
    BY <1>1
  <2> HIDE DEF a
  <2>5. Making(q) <=> a.pc \in {"creating", "adding", "syncing"}
    BY DEF Making, a
  <2> QED BY <2>1, <2>2, <2>3, <2>4, <2>5, <1>10, <1>14, <1>20 DEF CallOK, a
<1>17. ASSUME NEW t \in Slots PROVE SlotOK(t)'
  <2>1. CASE t = s
    <3>1. Refs(t)' = Refs(s)'
      BY <2>1 DEF Refs
    <3>2. slot'[t] = ring /\ ring.inode \notin Objs /\ ring.inode # None
      BY <2>1, <1>5, <1>6, Apart
    <3>3. 2 >= Cardinality(Refs(t)') /\ 2 # 0
      BY <3>1, <1>11
    <3> HIDE DEF ring
    <3> QED BY <3>2, <3>3, <1>5 DEF SlotOK
  <2>2. CASE t # s
    <3>1. SlotOK(t) /\ slot'[t] = slot[t] /\ Refs(t)' = Refs(t)
      BY <2>2, <1>6, <1>13 DEF Inv
    <3> QED BY <3>1, <1>10, <1>14 DEF SlotOK, Named
  <2> QED BY <2>1, <2>2
<1>18. ASSUME NEW q \in alive, NEW g \in Fds PROVE FdOK(q, g)'
  <2> SUFFICES ASSUME fd'[q][g] # None, slot'[fd'[q][g]].flag # "pipe"
               PROVE  /\ InList(slot'[fd'[q][g]].inode, open')
                      /\ \A x \in alive, h \in Fds :
                             fd'[x][h] = fd'[q][g] => x = q /\ h = g
    BY <1>10 DEF FdOK
  <2>1. PICK t \in Slots : t = fd'[q][g]
    BY <1>7, <1>10
  <2>2. t # s
    BY <2>1, <1>5, <1>6
  <2>3. fd[q][g] = t /\ slot'[t] = slot[t] /\ t # None
    BY <2>1, <2>2, <1>6, <1>12
  <2>4. /\ InList(slot[t].inode, open)
        /\ \A x \in alive, h \in Fds : fd[x][h] = t => x = q /\ h = g
    BY <2>1, <2>3 DEF Inv, FdOK
  <2>5. \A x \in alive, h \in Fds : fd'[x][h] = t => fd[x][h] = t
    BY <2>2, <1>12
  <2> QED BY <2>1, <2>3, <2>4, <2>5, <1>10
<1>19. \A x \in Entries : dir'[x].ino # None => dir'[x].ino \in imap'
  BY <1>10 DEF Inv
<1> QED BY <1>8, <1>10, <1>15, <1>16, <1>17, <1>18, <1>19, <1>21 DEF Inv

\* The child gets as many references to an entry as the parent has.
LEMMA ForkedRefs ==
    ASSUME Types, NEW p \in alive, NEW c \in Procs, c \notin alive, NEW t \in Slots,
           alive' = alive \cup {c}, fd' = [fd EXCEPT ![c] = fd[p]]
    PROVE  /\ Uses(p, t) \in Nat
           /\ Uses(p, t) = 0 => Refs(t)' = Refs(t)
           /\ Refs(t) = {} => Uses(p, t) = 0
           /\ Cardinality(Refs(t)') \in Nat
           /\ Cardinality(Refs(t)') <= Cardinality(Refs(t)) + Uses(p, t)
<1> DEFINE F == {f \in Fds : fd[p][f] = t}
           New == {<<c, f>> : f \in F}
<1>1. IsFiniteSet(F) /\ Cardinality(F) \in Nat /\ Uses(p, t) = Cardinality(F)
  <2>1. F \in SUBSET Fds /\ IsFiniteSet(Fds)
    BY TableAssumption
  <2>2. IsFiniteSet(F)
    BY <2>1, FS_Subset
  <2> QED BY <2>2, FS_CardinalityType DEF Uses
<1>2. /\ fd'[c] = fd[p] /\ \A q \in alive : fd'[q] = fd[q]
      /\ alive \subseteq Procs /\ p \in Procs
  BY DEF Types
<1>3. Refs(t)' = Refs(t) \cup New
  <2>1. \A x : x \in Refs(t)' <=> x \in {y \in (alive \cup {c}) \X Fds : fd'[y[1]][y[2]] = t}
    BY DEF Refs
  <2>2. ASSUME NEW q \in alive \cup {c}, NEW f \in Fds
        PROVE  fd'[q][f] = t <=> <<q, f>> \in Refs(t) \cup New
    <3>1. CASE q = c
      <4>1. <<q, f>> \notin Refs(t)
        BY <3>1 DEF Refs
      <4>2. <<q, f>> \in New <=> f \in F
        BY <3>1
      <4> QED BY <3>1, <4>1, <4>2, <1>2
    <3>2. CASE q # c
      <4>1. <<q, f>> \notin New
        BY <3>2
      <4>2. <<q, f>> \in Refs(t) <=> fd[q][f] = t
        BY <3>2 DEF Refs
      <4> QED BY <3>2, <4>1, <4>2, <1>2
    <3> QED BY <3>1, <3>2
  <2>3. Refs(t) \cup New \subseteq (alive \cup {c}) \X Fds
    BY DEF Refs
  <2> HIDE DEF New
  <2>4. \A x : x \in Refs(t)' <=> x \in Refs(t) \cup New
    BY <2>1, <2>2, <2>3
  <2> QED BY <2>4
<1>4. IsFiniteSet(New) /\ Cardinality(New) \in Nat /\ Cardinality(New) <= Cardinality(F)
  <2> DEFINE G == [x \in New |-> x[2]]
  <2>1. IsFiniteSet(New)
    <3>1. IsFiniteSet({c})
      BY FS_Singleton
    <3>2. New \in SUBSET ({c} \X F)
      OBVIOUS
    <3> HIDE DEF New, F
    <3>3. IsFiniteSet({c} \X F)
      BY <1>1, <3>1, FS_Product
    <3> QED BY <3>2, <3>3, FS_Subset
  <2>2. Cardinality(New) \in Nat
    BY <2>1, FS_CardinalityType
  <2>3. G \in [New -> F] /\ \A x, y \in New : G[x] = G[y] => x = y
    OBVIOUS
  <2> HIDE DEF G, New, F
  <2>4. ~(Cardinality(F) < Cardinality(New))
    BY <1>1, <2>1, <2>3, FS_PigeonHole
  <2> QED BY <1>1, <2>1, <2>2, <2>4
<1>5. IsFiniteSet(Refs(t)) /\ Cardinality(Refs(t)) \in Nat
  BY <1>2, Finite
<1>6. ASSUME Uses(p, t) = 0 PROVE New = {}
  <2>1. F = {}
    <3> HIDE DEF F
    <3> QED BY <1>1, <1>6, FS_EmptySet
  <2> QED BY <2>1
<1>7. ASSUME Refs(t) = {} PROVE Uses(p, t) = 0
  <2>1. F = {}
    BY <1>7, RefsFacts
  <2> QED BY <1>1, <2>1, FS_EmptySet
<1> HIDE DEF New, F
<1>8. /\ Cardinality(Refs(t) \cup New) \in Nat
      /\ Cardinality(Refs(t) \cup New) <= Cardinality(Refs(t)) + Cardinality(New)
  <2>1. /\ IsFiniteSet(Refs(t) \cup New)
        /\ Cardinality(Refs(t) \cup New)
             = Cardinality(Refs(t)) + Cardinality(New) - Cardinality(Refs(t) \cap New)
    BY <1>4, <1>5, FS_Union
  <2>2. IsFiniteSet(Refs(t) \cap New)
    <3>1. Refs(t) \cap New \in SUBSET New
      OBVIOUS
    <3> QED BY <3>1, <1>4, FS_Subset
  <2>3. Cardinality(Refs(t) \cap New) \in Nat /\ Cardinality(Refs(t) \cup New) \in Nat
    BY <2>1, <2>2, FS_CardinalityType
  <2> QED BY <1>4, <1>5, <2>1, <2>3
<1>9. Cardinality(Refs(t)') = Cardinality(Refs(t) \cup New)
  BY <1>3
<1>10. Cardinality(Refs(t)') \in Nat /\ Cardinality(Refs(t)') <= Cardinality(Refs(t)) + Uses(p, t)
  BY <1>1, <1>4, <1>5, <1>8, <1>9
<1>11. Uses(p, t) = 0 => Refs(t)' = Refs(t)
  BY <1>3, <1>6
<1> QED BY <1>1, <1>7, <1>10, <1>11

\* fork of a process without a regular file open.
LEMMA ForkInv ==
    ASSUME Inv, Unraced, NEW p \in Procs, NEW c \in Procs, sys_fork(p, c)
    PROVE  Inv'
<1>1. /\ p \in alive /\ c \notin alive /\ Types /\ alive \subseteq Procs
      /\ slot \in [Slots -> File] /\ heap \in [Objs -> Inode]
      /\ fd \in [Procs -> [Fds -> Slots \cup {None}]]
  BY DEF sys_fork, At, Inv, Types
<1>2. \A f \in Fds : fd[p][f] # None => fd[p][f] \in Slots /\ slot[fd[p][f]].flag = "pipe"
  BY <1>1 DEF sys_fork, MayFork, Unraced
<1>3. /\ alive' = alive \cup {c} /\ fd' = [fd EXCEPT ![c] = fd[p]]
      /\ slot' = [t \in Slots |-> IF slot[t].flag = "pipe"
                                  THEN [slot[t] EXCEPT !.pos = @ + Uses(p, t)] ELSE slot[t]]
      /\ heap' = [o \in Objs |-> [heap[o] EXCEPT !.cnt = @ + Cardinality({f \in Fds :
                       fd[p][f] # None /\ slot[fd[p][f]].inode = o})]]
      /\ panic' = \E f \in Fds : /\ fd[p][f] # None
                                 /\ slot[fd[p][f]].inode = None
                                 /\ slot[fd[p][f]].flag # "pipe"
      /\ UNCHANGED <<dir, imap, open, at>>
      /\ \A t \in Slots : slot[t].flag = "pipe" => slot[t].pos + Uses(p, t) <= MaxPos
  BY DEF sys_fork
<1>4. panic' = FALSE
  BY <1>2, <1>3
<1>5. heap' = heap
  <2>1. ASSUME NEW o \in Objs PROVE heap'[o] = heap[o]
    <3> DEFINE F == {f \in Fds : fd[p][f] # None /\ slot[fd[p][f]].inode = o}
    <3>1. ASSUME NEW f \in F PROVE FALSE
      <4>1. fd[p][f] \in Slots /\ slot[fd[p][f]].flag = "pipe" /\ slot[fd[p][f]].inode = o
        BY <1>2
      <4>2. slot[fd[p][f]].inode \in {None, Ring}
        BY <4>1 DEF Inv, SlotOK
      <4> QED BY <4>1, <4>2, Apart
    <3>2. F = {}
      BY <3>1
    <3> HIDE DEF F
    <3>3. Cardinality(F) = 0
      BY <3>2, FS_EmptySet
    <3>4. heap[o] \in Inode /\ heap'[o] = [heap[o] EXCEPT !.cnt = @ + Cardinality(F)]
      BY <1>1, <1>3 DEF F
    <3> QED BY <3>3, <3>4 DEF Inode
  <2>2. DOMAIN heap' = Objs /\ DOMAIN heap = Objs
    BY <1>1, <1>3
  <2>3. heap' = [o \in Objs |-> heap'[o]] /\ heap = [o \in Objs |-> heap[o]]
    BY <1>1, <1>3
  <2> QED BY <2>1, <2>3
<1>6. ASSUME NEW t \in Slots
      PROVE  /\ Uses(p, t) \in Nat /\ Cardinality(Refs(t)) \in Nat
             /\ Uses(p, t) = 0 => Refs(t)' = Refs(t)
             /\ Refs(t) = {} => Uses(p, t) = 0
             /\ Cardinality(Refs(t)') \in Nat
             /\ Cardinality(Refs(t)') <= Cardinality(Refs(t)) + Uses(p, t)
  <2>1. Types /\ alive' = alive \cup {c} /\ fd' = [fd EXCEPT ![c] = fd[p]]
        /\ p \in alive /\ c \notin alive
    BY <1>1, <1>3
  <2>2. Uses(p, t) \in Nat /\ Cardinality(Refs(t)') \in Nat
    BY <2>1, ForkedRefs
  <2>3. Uses(p, t) = 0 => Refs(t)' = Refs(t)
    BY <2>1, ForkedRefs
  <2>4. Refs(t) = {} => Uses(p, t) = 0
    BY <2>1, ForkedRefs
  <2>5. Cardinality(Refs(t)') <= Cardinality(Refs(t)) + Uses(p, t)
    BY <2>1, ForkedRefs
  <2>6. Cardinality(Refs(t)) \in Nat
    BY <1>1, Finite
  <2> QED BY <2>2, <2>3, <2>4, <2>5, <2>6
<1>7. ASSUME NEW t \in Slots
      PROVE  /\ slot'[t] \in File /\ slot'[t].inode = slot[t].inode
             /\ slot'[t].flag = slot[t].flag
             /\ slot[t].flag = "pipe" => slot'[t].pos = slot[t].pos + Uses(p, t)
             /\ slot[t].flag # "pipe" => slot'[t] = slot[t]
  <2>1. slot[t] \in File /\ MaxPos \in Nat /\ Uses(p, t) \in Nat
    BY <1>1, <1>6, TableAssumption
  <2>2. CASE slot[t].flag = "pipe"
    <3>1. slot[t].pos \in Nat /\ slot[t].pos + Uses(p, t) <= MaxPos
      BY <2>1, <2>2, <1>3 DEF File
    <3>2. slot[t].pos + Uses(p, t) \in 0..MaxPos
      BY <2>1, <3>1
    <3>3. slot'[t] = [slot[t] EXCEPT !.pos = slot[t].pos + Uses(p, t)]
      BY <1>3, <2>2
    <3> QED BY <2>1, <2>2, <3>2, <3>3 DEF File
  <2>3. CASE slot[t].flag # "pipe"
    BY <1>3, <2>1, <2>3
  <2> QED BY <2>2, <2>3
<1>8. slot' \in [Slots -> File]
  BY <1>3, <1>7
<1>9. /\ fd' \in [Procs -> [Fds -> Slots \cup {None}]]
      /\ fd'[c] = fd[p] /\ \A q \in alive : fd'[q] = fd[q]
  BY <1>1, <1>3
<1>10. Types'
  BY <1>1, <1>3, <1>4, <1>5, <1>8, <1>9 DEF Types
\* An entry that is not of a pipe is not referred to by the parent.
<1>11. ASSUME NEW t \in Slots, slot[t].flag # "pipe" PROVE Refs(t)' = Refs(t)
  <2>1. \A f \in Fds : fd[p][f] # t
    BY <1>2, <1>11, Apart
  <2>2. {f \in Fds : fd[p][f] = t} = {}
    BY <2>1
  <2>3. Uses(p, t) = 0
    BY <2>2, FS_EmptySet DEF Uses
  <2> QED BY <2>3, <1>6
<1>12. /\ \A i : Named(i)' <=> Named(i)
       /\ \A i : NotOpen(i)' <=> NotOpen(i)
       /\ \A q : (Making(q)' <=> Making(q)) /\ (InCall(q)' <=> InCall(q))
       /\ \A o : Deleters(o)' = Deleters(o)
  BY <1>3, <1>5 DEF Named, NotOpen, Making, InCall, Deleters
<1>13. /\ \A o : Users(o)' = Users(o)
       /\ \A i : InUse(i)' <=> InUse(i)
  BY <1>5, <1>7 DEF Users, InUse
<1>14. ASSUME NEW q \in Procs PROVE CallOK(q)'
  <2>1. CallOK(q) /\ at'[q] = at[q] /\ at[q] \in Call
    BY <1>1, <1>3 DEF Inv, Types
  <2>2. Making(q) => /\ at[q].slot \in Slots /\ Refs(at[q].slot) = {}
                     /\ slot[at[q].slot].flag # "pipe"
    BY <2>1 DEF Call, CallOK
  <2>3. Making(q) => /\ {x \in alive' \X Fds : fd'[x[1]][x[2]] = at[q].slot} = {}
                     /\ slot'[at[q].slot].flag # "pipe"
    BY <2>2, <1>7, <1>11 DEF Refs
  <2>4. at[q].slot # None => at[q].slot \in Slots
    BY <2>1 DEF Call
  <2>5. /\ \A o : {t \in Slots : slot'[t].inode = o} = Users(o)
        /\ \A t \in Slots : slot'[t].inode = slot[t].inode
    BY <1>7, <1>13 DEF Users
  <2>6. CASE at[q].pc = "reading"
    <3> DEFINE a == at[q]
    <3>1. /\ a.obj # None /\ heap'[a.obj] = NoInode /\ ~InList(a.obj, open')
          /\ a.ino # None
          /\ \A o \in Objs : InList(o, open') => heap'[o].ino # a.ino
      BY <2>1, <2>6, <1>3, <1>5 DEF CallOK, NotOpen
    <3>2. a.op = "open" => /\ a.slot # None /\ slot'[a.slot].inode = None
                           /\ \E e \in Entries : dir'[e].ino = a.ino
      BY <2>1, <2>4, <2>5, <2>6, <1>3 DEF CallOK, Named
    <3>3. a.op # "open" => /\ ~ \E t \in Slots : slot'[t].inode \in Objs
                                                 /\ heap'[slot'[t].inode].ino = a.ino
                           /\ ~ \E e \in Entries : dir'[e].ino = a.ino
      BY <2>1, <2>5, <2>6, <1>3, <1>5 DEF CallOK, Named, InUse
    <3> QED BY <2>1, <2>6, <3>1, <3>2, <3>3 DEF CallOK, Making, Named, NotOpen, InUse
  <2>7. CASE at[q].pc # "reading" /\ Making(q)
    <3> DEFINE a == at[q]
    <3>1. /\ a.ino \in imap' /\ a.slot # None /\ a.obj # None
          /\ heap'[a.obj] = [ino |-> a.ino, cnt |-> 0, deny |-> FALSE]
          /\ ~InList(a.obj, open')
          /\ \A o \in Objs : InList(o, open') => heap'[o].ino # a.ino
          /\ a.pc = "adding" => a.buf = dir'
      BY <2>1, <2>7, <1>3, <1>5 DEF CallOK, NotOpen
    <3>2. {t \in Slots : slot'[t].inode = a.obj} = {a.slot}
      BY <2>1, <2>5, <2>7 DEF CallOK
    <3>3. \A t \in Slots \ {a.slot} : slot'[t].inode \in Objs => heap'[slot'[t].inode].ino # a.ino
      BY <2>1, <2>5, <2>7, <1>5 DEF CallOK
    <3>4. (\E e \in Entries : dir'[e].ino = a.ino) <=> a.pc = "syncing"
      BY <2>1, <2>7, <1>3 DEF CallOK, Named
    <3> QED BY <2>1, <2>3, <2>7, <3>1, <3>2, <3>3, <3>4
            DEF CallOK, Making, Named, NotOpen, Users, Refs
  <2>8. CASE at[q].pc # "reading" /\ ~Making(q)
    BY <2>1, <2>5, <2>8, <1>3, <1>5 DEF CallOK, Making, Named, InUse, Users
  <2> QED BY <2>6, <2>7, <2>8
<1>15. OneCall' /\ OneEach'
  BY <1>3, <1>5, <1>12 DEF Inv, OneCall, OneEach
<1>16. \A o \in Objs : InodeOK(o)'
  BY <1>3, <1>5, <1>12, <1>13 DEF Inv, InodeOK
<1>17. ASSUME NEW t \in Slots PROVE SlotOK(t)'
  <2>1. SlotOK(t) /\ slot[t] \in File
    BY <1>1 DEF Inv
  <2>2. CASE slot[t].flag = "pipe"
    <3>1. /\ slot[t].inode \in {None, Ring} /\ (slot[t].pos = 0 <=> slot[t].inode = None)
          /\ slot[t].pos >= Cardinality(Refs(t)) /\ slot[t].pos \in Nat
      BY <2>1, <2>2, TableAssumption DEF SlotOK, File
    <3>2. slot[t].pos = 0 => Uses(p, t) = 0
      BY <1>1, <1>6, <3>1, FreeSlotUnused
    <3>3. slot'[t].pos = slot[t].pos + Uses(p, t) /\ slot'[t].inode = slot[t].inode
          /\ slot'[t].flag = "pipe"
      BY <1>7, <2>2
    <3>4. slot'[t].pos = 0 <=> slot'[t].inode = None
      BY <1>6, <3>1, <3>2, <3>3
    <3>5. slot'[t].pos >= Cardinality(Refs(t)')
      BY <1>6, <3>1, <3>3
    <3>6. slot'[t].inode \notin Objs /\ slot'[t].inode \in {None, Ring}
      BY <3>1, <3>3, Apart
    <3> QED BY <3>3, <3>4, <3>5, <3>6 DEF SlotOK
  <2>3. CASE slot[t].flag # "pipe"
    <3>1. slot'[t] = slot[t] /\ Refs(t)' = Refs(t)
      BY <2>3, <1>7, <1>11
    <3> QED BY <2>1, <3>1, <1>3, <1>5, <1>12 DEF SlotOK, Named
  <2> QED BY <2>2, <2>3
<1>18. ASSUME NEW q \in alive', NEW g \in Fds PROVE FdOK(q, g)'
  <2> SUFFICES ASSUME fd'[q][g] # None, slot'[fd'[q][g]].flag # "pipe"
               PROVE  /\ InList(slot'[fd'[q][g]].inode, open')
                      /\ \A x \in alive', h \in Fds :
                             fd'[x][h] = fd'[q][g] => x = q /\ h = g
    BY DEF FdOK
  <2>1. q \in Procs /\ q \in alive \cup {c}
    BY <1>1, <1>3
  <2>2. PICK t \in Slots : t = fd'[q][g]
    BY <1>9, <2>1
  <2>3. slot[t].flag # "pipe" /\ slot'[t] = slot[t] /\ t # None
    BY <2>2, <1>7
  <2>4. \A h \in Fds : fd'[c][h] # t
    BY <1>2, <1>9, <2>3
  <2>5. q \in alive /\ fd[q][g] = t
    BY <2>1, <2>2, <2>4, <1>9
  <2>6. /\ InList(slot[t].inode, open)
        /\ \A x \in alive, h \in Fds : fd[x][h] = t => x = q /\ h = g
    BY <2>3, <2>5 DEF Inv, FdOK
  <2>7. \A x \in alive', h \in Fds : fd'[x][h] = t => x \in alive /\ fd[x][h] = t
    BY <2>4, <1>3, <1>9
  <2> QED BY <2>2, <2>3, <2>6, <2>7, <1>3
<1>19. \A x \in Entries : dir'[x].ino # None => dir'[x].ino \in imap'
  BY <1>3 DEF Inv
<1> QED BY <1>10, <1>14, <1>15, <1>16, <1>17, <1>18, <1>19 DEF Inv

-----------------------------------------------------------------------------
(* The theorems. *)

\* There are no open files in the beginning.
LEMMA InitInv ==
    ASSUME Init
    PROVE  Inv
<1>1. /\ dir = [e \in Entries |-> NoEntry] /\ imap = {} /\ open = << >> /\ panic = FALSE
      /\ heap = [o \in Objs |-> NoInode] /\ fd = [p \in Procs |-> [f \in Fds |-> None]]
      /\ slot = [s \in Slots |-> [inode |-> None, flag |-> "r", pos |-> 0]]
      /\ at = [p \in Procs |-> User] /\ alive = {First} /\ First \in Procs
      /\ MaxPos \in Nat
  BY TableAssumption DEF Init
<1>2. NoEntry \in Dirent /\ NoInode \in Inode /\ User \in Call
  BY DEF NoEntry, Dirent, NoInode, Inode, User, Call
<1>3. [inode |-> None, flag |-> "r", pos |-> 0] \in File
  BY <1>1 DEF File
<1>4. open \in Seq(Objs) /\ NoRepeat(open) /\ \A o : ~InList(o, open)
  BY <1>1 DEF NoRepeat, InList
<1>5. Types
  BY <1>1, <1>2, <1>3, <1>4 DEF Types
<1>6. \A p \in Procs : at[p].pc = "user" /\ at[p].obj = None
  BY <1>1 DEF User
<1>7. OneCall /\ OneEach
  BY <1>4, <1>6 DEF OneCall, InCall, OneEach
<1>8. \A p \in Procs : CallOK(p)
  BY <1>6 DEF CallOK, Making
<1>9. \A e \in Entries : dir[e].ino # None => dir[e].ino \in imap
  BY <1>1 DEF NoEntry
<1>10. \A o \in Objs : InodeOK(o)
  BY <1>1, <1>4 DEF InodeOK
<1>11. \A s \in Slots : SlotOK(s)
  BY <1>1, Apart DEF SlotOK
<1>12. \A p \in alive, f \in Fds : FdOK(p, f)
  BY <1>1 DEF FdOK
<1> QED BY <1>5, <1>7, <1>8, <1>9, <1>10, <1>11, <1>12 DEF Inv

\* Every step keeps the invariant if no pipe() takes the entry that file_open
\* has chosen and a process with a regular file open does not fork.
LEMMA NextInv ==
    ASSUME Inv, Unraced, [Next]_vars
    PROVE  Inv'
<1>1. CASE UNCHANGED vars
  BY <1>1, SameInv DEF vars, tables, Inv, Types
<1>2. ASSUME NEW p \in Procs, NEW op \in {"open", "create", "unlink"}, NEW n \in Names,
             NEW m \in Modes, Search(p, op, n, m)
      PROVE  Inv'
  BY <1>2, SearchInv
<1>3. ASSUME NEW p \in Procs, file_open(p) \/ file_open_read(p) PROVE Inv'
  BY <1>3, FileOpenInv, FileOpenReadInv
<1>4. ASSUME NEW p \in Procs, file_create(p) \/ ReadDir(p) PROVE Inv'
  BY <1>4, FileCreateInv, ReadDirInv
<1>5. ASSUME NEW p \in Procs, sync_dir_entry(p) \/ file_create_end(p) PROVE Inv'
  BY <1>5, SyncDirEntryInv, FileCreateEndInv
<1>6. ASSUME NEW p \in Procs, unlink_check(p) \/ delete_dir_entry(p) PROVE Inv'
  BY <1>6, UnlinkCheckInv, DeleteDirEntryInv
<1>7. ASSUME NEW p \in Procs, inode_release(p) \/ inode_release_read(p) \/ inode_release_end(p)
      PROVE  Inv'
  BY <1>7, InodeReleaseInv, InodeReleaseReadInv, InodeReleaseEndInv
<1>8. ASSUME NEW p \in Procs, NEW f \in Fds, sys_close(p, f) PROVE Inv'
  BY <1>8, SysCloseInv
<1>9. ASSUME NEW p \in Procs, Exit(p) PROVE Inv'
  BY <1>9, ExitInv
<1>10. ASSUME NEW p \in Procs, sys_pipe(p) PROVE Inv'
  <2>1. CASE get_free_slot_in_global = None
    <3>1. UNCHANGED tables /\ at' = at /\ panic' = TRUE
      BY <1>10, <2>1 DEF sys_pipe, tables, fsVars
    <3> QED BY <3>1, SameInv
  <2>2. CASE get_free_slot_in_global # None
    BY <1>10, <2>2, FreeSlotFacts, PipeInv
  <2> QED BY <2>1, <2>2
<1>11. ASSUME NEW p \in Procs, NEW c \in Procs, sys_fork(p, c) PROVE Inv'
  BY <1>11, ForkInv
<1> QED BY <1>1, <1>2, <1>3, <1>4, <1>5, <1>6, <1>7, <1>8, <1>9, <1>10, <1>11 DEF Next

\* The inductive invariant holds in every reachable state.
THEOREM Invariance ==
    ASSUME Unraced PROVE Spec => []Inv
<1>1. Init => Inv
  BY InitInv
<1>2. Inv /\ [Next]_vars => Inv'
  BY NextInv
<1> QED BY <1>1, <1>2, PTL DEF Spec

\* The tables always hold values of their types: fd_pos of a pipe stays within
\* its bound, and no inode is twice in open_inodes.
THEOREM TypeCorrect ==
    ASSUME Unraced PROVE Spec => []TypeOK
<1>1. Inv => TypeOK
  BY DEF Inv, Types, TypeOK, Dirent, Inode, File
<1> QED BY <1>1, Invariance, PTL

\* A descriptor always leads to an open file or a ring, and that of a file has
\* its file_table entry for itself.
THEOREM DescriptorsValid ==
    ASSUME Unraced PROVE Spec => []FdsValid
<1>1. ASSUME Inv PROVE FdsValid
  <2>1. ASSUME NEW p \in alive, NEW f \in Open(p)
        PROVE  /\ slot[fd[p][f]].inode # None
               /\ slot[fd[p][f]].flag # "pipe" => InList(slot[fd[p][f]].inode, open)
               /\ f \in Fds
    <3>1. f \in Fds /\ fd[p][f] # None /\ fd[p][f] \in Slots
      BY <1>1 DEF Open, Inv, Types
    <3>2. Refs(fd[p][f]) # {}
      BY <3>1, RefsFacts
    <3> QED BY <1>1, <3>1, <3>2, FreeSlotUnused DEF Inv, FdOK
  <2>2. ASSUME NEW p \in alive, NEW q \in alive, NEW f \in Open(p), NEW g \in Open(q),
               fd[p][f] = fd[q][g], slot[fd[p][f]].flag # "pipe"
        PROVE  p = q /\ f = g
    BY <1>1, <2>2 DEF Open, Inv, FdOK
  <2> QED BY <2>1, <2>2 DEF FdsValid
<1> QED BY <1>1, Invariance, PTL

\* i_open_cnts is always exactly the number of users.
THEOREM CountsAlwaysExact ==
    ASSUME Unraced PROVE Spec => []CountsExact
<1>1. ASSUME Inv, NEW i \in 1..Len(open)
      PROVE  heap[open[i]].cnt = Cardinality({s \in Slots : slot[s].inode = open[i]})
                 + Cardinality({p \in Procs : at[p].pc = "deleting" /\ at[p].obj = open[i]})
  <2>1. open[i] \in Objs /\ InList(open[i], open)
    BY <1>1 DEF Inv, Types, InList
  <2>2. InodeOK(open[i])
    BY <1>1, <2>1 DEF Inv
  <2> QED BY <2>1, <2>2 DEF InodeOK, Users, Deleters
<1>2. Inv => CountsExact
  BY <1>1 DEF CountsExact
<1> QED BY <1>2, Invariance, PTL

\* A file never has two inodes in memory.
THEOREM OneInodePerFile ==
    ASSUME Unraced PROVE Spec => []OneInode
<1>1. ASSUME Inv, NEW i \in 1..Len(open), NEW j \in 1..Len(open),
             heap[open[i]].ino = heap[open[j]].ino
      PROVE  i = j
  <2>1. /\ open[i] \in Objs /\ InList(open[i], open)
        /\ open[j] \in Objs /\ InList(open[j], open)
    BY <1>1 DEF Inv, Types, InList
  <2>2. open[i] = open[j]
    BY <1>1, <2>1 DEF Inv, OneEach
  <2> QED BY <1>1, <2>2 DEF Inv, Types, NoRepeat
<1>2. Inv => OneInode
  BY <1>1 DEF OneInode
<1> QED BY <1>2, Invariance, PTL

\* The file behind a descriptor is never deleted.
THEOREM OpenFilesExist ==
    ASSUME Unraced PROVE Spec => []OpenFileExists
<1>1. ASSUME Inv, NEW p \in alive, NEW f \in Open(p), slot[fd[p][f]].inode \in Objs
      PROVE  /\ heap[slot[fd[p][f]].inode].ino \in imap
             /\ Named(heap[slot[fd[p][f]].inode].ino)
  <2>1. PICK s \in Slots : s = fd[p][f]
    BY <1>1 DEF Open, Inv, Types
  <2>2. SlotOK(s) /\ Refs(s) # {}
    BY <1>1, <2>1, RefsFacts DEF Open, Inv
  <2>3. ASSUME NEW q \in Procs, Making(q), at[q].slot = s PROVE FALSE
    BY <1>1, <2>2, <2>3 DEF Inv, CallOK
  <2> QED BY <1>1, <2>1, <2>2, <2>3 DEF SlotOK
<1>2. Inv => OpenFileExists
  BY <1>1 DEF OpenFileExists, Named
<1> QED BY <1>2, Invariance, PTL

\* The ring of a pipe is never freed while a descriptor refers to it.
THEOREM PipeRingsLive ==
    ASSUME Unraced PROVE Spec => []PipeRingLive
<1>1. ASSUME Inv, NEW s \in Slots, slot[s].flag = "pipe"
      PROVE  /\ Cardinality(Refs(s)) > 0 => slot[s].inode = Ring
             /\ slot[s].pos >= Cardinality(Refs(s))
             /\ slot[s].pos = 0 <=> slot[s].inode = None
  <2>1. SlotOK(s) /\ Cardinality(Refs(s)) \in Nat
    BY <1>1, Finite DEF Inv, Types
  <2> QED BY <1>1, <2>1 DEF SlotOK
<1>2. Inv => PipeRingLive
  BY <1>1 DEF PipeRingLive, Refs
<1> QED BY <1>2, Invariance, PTL

\* Creating or deleting a file never overwrites the directory entry of another
\* one, whatever happens while the sector is read and written (sync_dir_entry,
\* delete_dir_entry, and the channel's lock of ide_read).
THEOREM EntriesKept ==
    ASSUME Unraced PROVE Spec => EntryKept
<1> DEFINE Kept == \A e \in Entries : dir[e] # NoEntry /\ dir'[e] # dir[e] =>
                       \E p \in Procs : at[p].pc = "removing" /\ at[p].ino = dir[e].ino
<1>1. ASSUME Inv, [Next]_vars PROVE [Kept]_vars
  <2> SUFFICES ASSUME NEW e \in Entries, dir[e] # NoEntry, dir'[e] # dir[e], Next
               PROVE  \E p \in Procs : at[p].pc = "removing" /\ at[p].ino = dir[e].ino
    BY <1>1
  <2>1. ASSUME NEW p \in Procs, sync_dir_entry(p) PROVE FALSE
    <3>1. at[p].pc = "adding" /\ at[p].buf = dir /\ dir \in [Entries -> Dirent]
      BY <1>1, <2>1 DEF sync_dir_entry, At, Inv, Types, CallOK, Making
    <3> DEFINE S == {i \in Entries : dir[i] = NoEntry}
    <3>2. FreeEntry(at[p].buf) = Lowest(S)
      BY <3>1 DEF FreeEntry
    <3>3. S \subseteq Nat
      BY Apart
    <3> HIDE DEF S
    <3>4. PICK g : g = FreeEntry(at[p].buf)
      OBVIOUS
    <3>5. g # None /\ dir' = [at[p].buf EXCEPT ![g] = [name |-> at[p].name, ino |-> at[p].ino]]
      BY <2>1, <3>4 DEF sync_dir_entry
    <3>6. g = e
      BY <3>1, <3>5
    <3>7. e \in S
      BY <3>2, <3>3, <3>4, <3>5, <3>6, LowestFacts
    <3> QED BY <3>7 DEF S
  <2>2. ASSUME NEW p \in Procs, delete_dir_entry(p)
        PROVE  at[p].pc = "removing" /\ at[p].ino = dir[e].ino
    <3>1. at[p].pc = "removing" /\ at[p].buf = dir
      BY <1>1, <2>2 DEF delete_dir_entry, At, Inv, CallOK
    <3>2. dir' = IF \E g \in Entries : dir[g].ino = at[p].ino
                 THEN [g \in Entries |-> IF dir[g].ino = at[p].ino THEN NoEntry ELSE dir[g]]
                 ELSE dir
      BY <2>2, <3>1 DEF delete_dir_entry
    <3> QED BY <3>1, <3>2
  <2>3. ASSUME NEW p \in Procs,
               \/ \E op \in {"open", "create", "unlink"}, n \in Names, m \in Modes :
                     Search(p, op, n, m)
               \/ file_open(p) \/ file_open_read(p) \/ file_create(p) \/ ReadDir(p)
               \/ file_create_end(p) \/ unlink_check(p) \/ inode_release(p)
               \/ inode_release_read(p) \/ inode_release_end(p)
               \/ \E f \in Fds : sys_close(p, f)
               \/ Exit(p) \/ sys_pipe(p) \/ \E c \in Procs : sys_fork(p, c)
        PROVE  dir' = dir
    BY <2>3 DEF Search, file_open, file_open_read, file_create, ReadDir, file_create_end,
                unlink_check, inode_release, inode_release_read, inode_release_end,
                sys_close, Exit, sys_pipe, sys_fork, fsVars
  <2> QED BY <2>1, <2>2, <2>3 DEF Next
<1>2. Inv /\ [Next]_vars => [Kept]_vars
  BY <1>1
<1>3. Spec => [][Kept]_vars
  BY <1>2, Invariance, PTL DEF Spec
<1> QED BY <1>3 DEF EntryKept

\* No call follows a NULL or freed inode: an ASSERT fails only in a create when
\* every inode number is taken, and memory is overwritten only by a pipe() that
\* finds file_table full.
THEOREM OnlyFullTablesPanic ==
    ASSUME Unraced
    PROVE  Spec => [][panic' # panic =>
              \E p \in Procs : \/ file_create(p) /\ Inos \subseteq imap
                               \/ sys_pipe(p) /\ \A s \in Slots : slot[s].inode # None]_vars
<1> DEFINE Full == \E p \in Procs :
               \/ file_create(p) /\ Inos \subseteq imap
               \/ sys_pipe(p) /\ \A s \in Slots : slot[s].inode # None
<1>1. ASSUME Inv, [Next]_vars PROVE [panic' # panic => Full]_vars
  <2> SUFFICES ASSUME panic' # panic, Next PROVE Full
    BY <1>1
  <2>1. ASSUME NEW p \in Procs, file_create(p) PROVE Inos \subseteq imap
    <3> DEFINE S == Inos \ imap
    <3>1. S \subseteq Nat /\ None \notin S
      BY Apart
    <3>2. Lowest(S) = None
      BY <1>1, <2>1 DEF file_create, At, Inv, Types
    <3> HIDE DEF S
    <3>3. S = {}
      BY <3>1, <3>2, LowestFacts
    <3> QED BY <3>3 DEF S
  <2>2. ASSUME NEW p \in Procs, sys_pipe(p) PROVE \A s \in Slots : slot[s].inode # None
    <3> DEFINE S == {s \in Slots : slot[s].inode = None}
    <3>1. S \subseteq Nat /\ None \notin S
      BY Apart
    <3>2. Lowest(S) = None
      BY <2>2 DEF sys_pipe, get_free_slot_in_global
    <3> HIDE DEF S
    <3>3. S = {}
      BY <3>1, <3>2, LowestFacts
    <3> QED BY <3>3 DEF S
  <2>3. ASSUME NEW p \in alive, NEW f \in Fds, fd[p][f] # None, CloseFd(p, f),
               UNCHANGED <<dir, imap, alive>>
        PROVE  FALSE
    <3>1. PICK s \in Slots : fd[p][f] = s
      BY <1>1, <2>3 DEF Inv, Types
    <3> QED BY <1>1, <2>3, <3>1, ClosePipe, CloseFile
  <2>4. ASSUME NEW p \in Procs, NEW f \in Fds, sys_close(p, f) PROVE FALSE
    BY <2>3, <2>4 DEF sys_close, At
  <2>5. ASSUME NEW p \in Procs, Exit(p) PROVE FALSE
    <3> DEFINE F == {f \in Fds : fd[p][f] # None}
    <3>1. /\ p \in alive /\ F # {} /\ CloseFd(p, Lowest(F)) /\ UNCHANGED <<dir, imap, alive>>
          /\ F \subseteq Nat
      BY <2>5, Apart DEF Exit, At
    <3>2. Lowest(F) \in F
      BY <3>1, LowestFacts
    <3>3. PICK f \in Fds : f = Lowest(F) /\ fd[p][f] # None
      BY <3>2
    <3> QED BY <2>3, <3>1, <3>3
  <2>6. ASSUME NEW p \in Procs, NEW c \in Procs, sys_fork(p, c) PROVE FALSE
    <3>1. \A f \in Fds : fd[p][f] # None => slot[fd[p][f]].flag = "pipe"
      BY <2>6 DEF sys_fork, MayFork, Unraced
    <3>2. panic' = FALSE
      BY <2>6, <3>1 DEF sys_fork
    <3>3. panic = FALSE
      BY <1>1, <2>6 DEF sys_fork, At, Inv, Types
    <3> QED BY <3>2, <3>3
  <2>7. ASSUME NEW p \in Procs,
               \/ \E op \in {"open", "create", "unlink"}, n \in Names, m \in Modes :
                     Search(p, op, n, m)
               \/ file_open(p) \/ file_open_read(p) \/ ReadDir(p) \/ sync_dir_entry(p)
               \/ file_create_end(p) \/ unlink_check(p) \/ delete_dir_entry(p)
               \/ inode_release(p) \/ inode_release_read(p) \/ inode_release_end(p)
        PROVE  FALSE
    BY <2>7 DEF Search, file_open, file_open_read, ReadDir, sync_dir_entry, file_create_end,
                unlink_check, delete_dir_entry, inode_release, inode_release_read,
                inode_release_end
  <2> QED BY <2>1, <2>2, <2>4, <2>5, <2>6, <2>7 DEF Next
<1>2. Inv /\ [Next]_vars => [panic' # panic => Full]_vars
  BY <1>1
<1> QED BY <1>2, Invariance, PTL DEF Spec
=============================================================================
