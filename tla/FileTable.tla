------------------------------ MODULE FileTable ------------------------------
(***************************************************************************)
(* Open files: file_table and the fd tables (fs/file.c), the in-memory     *)
(* inodes of open_inodes (fs/inode.c), the directory entries they are      *)
(* found by (fs/dir.c), and the calls that work on them: sys_open,         *)
(* sys_close and sys_unlink (fs/fs.c), sys_pipe (shell/pipe.c), and what   *)
(* fork and exit do to descriptors (userprog/fork.c, wait_exit.c).         *)
(*                                                                         *)
(* There is one directory, the root, whose entries fit in one sector.  A   *)
(* system call is cut where it waits for the disk.  There another process  *)
(* may do what needs no disk: close, exit, pipe, fork.                     *)
(***************************************************************************)
EXTENDS Integers, FiniteSets, KList

CONSTANTS
    Procs,     \* processes
    First,     \* the process that exists at the start
    Names,     \* file names
    Modes,     \* subset of {"r", "w"}: read only, or for writing
    Inos,      \* inode numbers (the bits of inode_bitmap), a set of naturals
    Objs,      \* heap blocks for struct inode, a set of naturals
    Slots,     \* file_table entries, a set of naturals
    Fds,       \* entries of a process's fd_table, a set of naturals
    Entries,   \* entries of the directory's sector, a set of naturals
    Forking,   \* "files": any process may fork; "pipes": one without a regular
               \* file open; "no": none
    FullPipe,  \* is pipe() called when file_table has no free entry?
    PipeRace,  \* is pipe() called while file_open waits for the disk?
    MaxPos     \* bound on the use count of a pipe

ASSUME TableAssumption ==
    /\ First \in Procs
    /\ Modes \subseteq {"r", "w"}
    /\ \A S \in {Inos, Objs, Slots, Fds, Entries} : S \subseteq Nat \ {0}
    /\ \A S \in {Procs, Objs, Slots, Fds} : IsFiniteSet(S)
    /\ Cardinality(Objs) > Cardinality(Slots)     \* malloc finds a block
    /\ Forking \in {"no", "pipes", "files"}
    /\ {FullPipe, PipeRace} \subseteq BOOLEAN /\ MaxPos \in Nat

None == 0       \* NULL, or -1 in an fd table

VARIABLES
    dir,        \* the directory's sector on disk: entry -> [name, ino]
    imap,       \* inode_bitmap
    heap,       \* struct inode: [ino, cnt = i_open_cnts, deny = write_deny]
    open,       \* part->open_inodes
    slot,       \* file_table: [inode, flag, pos]
    fd,         \* task_struct.fd_table
    alive,      \* processes that exist
    at,         \* where a process is, and the local variables it has there
    panic       \* an ASSERT failed or a NULL or freed inode was used

fsVars == <<dir, imap, heap, open>>
vars == <<dir, imap, heap, open, slot, fd, alive, at, panic>>

NoEntry == [name |-> None, ino |-> None]
NoInode == [ino |-> None, cnt |-> 0, deny |-> FALSE]
Ring    == None - 1         \* the fd_inode of a pipe: its ring buffer page
User    == [pc |-> "user", op |-> "none", name |-> None, mode |-> "r",
            ino |-> None, slot |-> None, obj |-> None,
            buf |-> [e \in Entries |-> NoEntry]]

Lowest(S) == IF S = {} THEN None ELSE CHOOSE i \in S : \A j \in S : i <= j

\* Mutant: the first slot is taken whether it is free or not.
get_free_slot_First == Lowest(Slots)

get_free_slot_in_global == Lowest({s \in Slots : slot[s].inode = None})
FreeObj == Lowest({o \in Objs : heap[o] = NoInode /\ \A p \in Procs : at[p].obj # o})
FreeEntry(d) == Lowest({e \in Entries : d[e] = NoEntry})

\* search_dir_entry: the inode number of the first entry with that name
Lookup(d, name) ==
    LET e == Lowest({i \in Entries : d[i].name = name})
    IN  IF e = None THEN None ELSE d[e].ino

\* The first in-memory inode numbered ino in open_inodes
InOpen(ino) ==
    LET i == Lowest({j \in 1..Len(open) : heap[open[j]].ino = ino})
    IN  IF i = None THEN None ELSE open[i]

-----------------------------------------------------------------------------
(* sys_open, sys_open with O_CREAT and sys_unlink start with search_file.   *)
At(p, pc) == ~panic /\ p \in alive /\ at[p].pc = pc
Return(p) == at' = [at EXCEPT ![p] = User]

\* Mutant: the channel's lock goes to another caller between two requests.
ChannelFree_HandedOver == TRUE

\* A call that uses the disk keeps all others from it until it returns: asleep
\* in the driver it holds the channel's lock, and between two requests, with
\* interrupts off, it does not give up the CPU.
ChannelFree == \A q \in Procs : at[q].pc \in {"user", "exit"}

Search(p, op, name, mode) ==
    /\ At(p, "user") /\ ChannelFree
    /\ at' = [at EXCEPT ![p] = [User EXCEPT !.pc = "searched", !.op = op,
                                !.name = name, !.mode = mode,
                                !.ino = Lookup(dir, name)]]
    /\ UNCHANGED <<fsVars, slot, fd, alive, panic>>

\* pcb_fd_install(s), then the call returns
Install(p, s) ==
    LET f == Lowest({g \in Fds : fd[p][g] = None})
    IN  /\ fd' = IF f = None THEN fd ELSE [fd EXCEPT ![p][f] = s]
        /\ Return(p)

\* file_open once inode_open has returned o: claim the slot, test write_deny
Opened(p, s, o, hp) ==
    /\ slot' = [slot EXCEPT ![s] = [inode |-> o, flag |-> at[p].mode, pos |-> 0]]
    /\ IF at[p].mode = "w" /\ hp[o].deny
       THEN heap' = hp /\ Return(p) /\ UNCHANGED fd
       ELSE /\ heap' = [hp EXCEPT ![o].deny = (@ \/ at[p].mode = "w")]
            /\ Install(p, s)

\* Mutant: i_open_cnts of an inode found in memory is not raised.
file_open_NoCount(p) ==
    /\ At(p, "searched") /\ at[p].op = "open"
    /\ LET s == get_free_slot_in_global
           o == InOpen(at[p].ino) IN
       \/ /\ at[p].ino = None \/ s = None
          /\ Return(p) /\ UNCHANGED <<slot, fd, heap>>
       \/ /\ at[p].ino # None /\ s # None /\ o # None
          /\ Opened(p, s, o, heap)
       \/ /\ at[p].ino # None /\ s # None /\ o = None
          /\ at' = [at EXCEPT ![p].pc = "reading", ![p].slot = s, ![p].obj = FreeObj]
          /\ UNCHANGED <<slot, fd, heap>>
    /\ UNCHANGED <<dir, imap, open, alive, panic>>

\* file_open: the slot is chosen, then inode_open finds the inode in memory
\* or waits for the disk.
file_open(p) ==
    /\ At(p, "searched") /\ at[p].op = "open"
    /\ LET s == get_free_slot_in_global
           o == InOpen(at[p].ino) IN
       \/ /\ at[p].ino = None \/ s = None
          /\ Return(p) /\ UNCHANGED <<slot, fd, heap>>
       \/ /\ at[p].ino # None /\ s # None /\ o # None
          /\ Opened(p, s, o, [heap EXCEPT ![o].cnt = @ + 1])
       \/ /\ at[p].ino # None /\ s # None /\ o = None
          /\ at' = [at EXCEPT ![p].pc = "reading", ![p].slot = s, ![p].obj = FreeObj]
          /\ UNCHANGED <<slot, fd, heap>>
    /\ UNCHANGED <<dir, imap, open, alive, panic>>

\* inode_open goes on with the inode read from the disk.
file_open_read(p) ==
    /\ At(p, "reading") /\ at[p].op = "open"
    /\ LET o == at[p].obj IN
       /\ open' = <<o>> \o open
       /\ Opened(p, at[p].slot, o,
                 [heap EXCEPT ![o] = [ino |-> at[p].ino, cnt |-> 1, deny |-> FALSE]])
    /\ UNCHANGED <<dir, imap, alive, panic>>

-----------------------------------------------------------------------------
\* file_create up to the first wait for the disk, in sync_dir_entry; nothing
\* happens if the file exists ("has already exist!") or file_table is full.
file_create(p) ==
    /\ At(p, "searched") /\ at[p].op = "create"
    /\ LET s == get_free_slot_in_global
           i == Lowest(Inos \ imap)
           o == FreeObj IN
       \/ /\ at[p].ino # None \/ (i # None /\ s = None)
          /\ Return(p) /\ UNCHANGED <<imap, heap, slot, panic>>
       \/ /\ at[p].ino = None /\ (i # None => s # None)
          /\ panic' = (i = None)        \* bitmap_scan asserts
          /\ IF i = None
             THEN UNCHANGED <<imap, heap, slot, at>>
             ELSE /\ imap' = imap \cup {i}
                  /\ heap' = [heap EXCEPT ![o] = [ino |-> i, cnt |-> 0, deny |-> FALSE]]
                  /\ slot' = [slot EXCEPT ![s] = [inode |-> o, flag |-> at[p].mode, pos |-> 0]]
                  /\ at' = [at EXCEPT ![p].pc = "creating", ![p].ino = i,
                                      ![p].slot = s, ![p].obj = o]
    /\ UNCHANGED <<dir, open, fd, alive>>

\* The directory's sector is in the buffer (sync_dir_entry, delete_dir_entry).
ReadDir(p) ==
    /\ At(p, "creating") \/ At(p, "unlinking")
    /\ at' = [at EXCEPT ![p].pc = IF @ = "creating" THEN "adding" ELSE "removing",
                        ![p].buf = dir]
    /\ UNCHANGED <<fsVars, slot, fd, alive, panic>>

\* sync_dir_entry writes the sector with the new entry; if there is no room,
\* file_create rolls back.
sync_dir_entry(p) ==
    /\ At(p, "adding")
    /\ LET e == FreeEntry(at[p].buf) IN
       IF e = None
       THEN /\ slot' = [slot EXCEPT ![at[p].slot] = [inode |-> None, flag |-> "r", pos |-> 0]]
            /\ heap' = [heap EXCEPT ![at[p].obj] = NoInode]
            /\ imap' = imap \ {at[p].ino}
            /\ Return(p)
            /\ UNCHANGED dir
       ELSE /\ dir' = [at[p].buf EXCEPT ![e] = [name |-> at[p].name, ino |-> at[p].ino]]
            /\ at' = [at EXCEPT ![p].pc = "syncing"]
            /\ UNCHANGED <<slot, heap, imap>>
    /\ UNCHANGED <<open, fd, alive, panic>>

\* After the inodes and the bitmap are on disk the inode enters open_inodes.
file_create_end(p) ==
    /\ At(p, "syncing")
    /\ open' = <<at[p].obj>> \o open
    /\ heap' = [heap EXCEPT ![at[p].obj].cnt = 1]
    /\ Install(p, at[p].slot)
    /\ UNCHANGED <<dir, imap, slot, alive, panic>>

-----------------------------------------------------------------------------
InUse(ino) == \E s \in Slots : /\ slot[s].inode \in Objs
                               /\ heap[slot[s].inode].ino = ino

\* sys_unlink: a file found in file_table is not deleted.
unlink_check(p) ==
    /\ At(p, "searched") /\ at[p].op = "unlink"
    /\ IF at[p].ino = None \/ InUse(at[p].ino)
       THEN Return(p)
       ELSE at' = [at EXCEPT ![p].pc = "unlinking"]
    /\ UNCHANGED <<fsVars, slot, fd, alive, panic>>

delete_dir_entry(p) ==
    /\ At(p, "removing")
    /\ dir' = IF \E e \in Entries : at[p].buf[e].ino = at[p].ino
              THEN [e \in Entries |-> IF at[p].buf[e].ino = at[p].ino
                                      THEN NoEntry ELSE at[p].buf[e]]
              ELSE dir
    /\ at' = [at EXCEPT ![p].pc = "releasing"]
    /\ UNCHANGED <<imap, heap, open, slot, fd, alive, panic>>

\* inode_release: inode_open, with or without the disk
inode_release(p) ==
    /\ At(p, "releasing")
    /\ LET o == InOpen(at[p].ino) IN
       IF o = None
       THEN /\ at' = [at EXCEPT ![p].pc = "reading", ![p].obj = FreeObj]
            /\ UNCHANGED <<imap, heap>>
       ELSE /\ heap' = [heap EXCEPT ![o].cnt = @ + 1]
            /\ imap' = imap \ {at[p].ino}
            /\ at' = [at EXCEPT ![p].pc = "deleting", ![p].obj = o]
    /\ UNCHANGED <<dir, open, slot, fd, alive, panic>>

inode_release_read(p) ==
    /\ At(p, "reading") /\ at[p].op = "unlink"
    /\ LET o == at[p].obj IN
       /\ open' = <<o>> \o open
       /\ heap' = [heap EXCEPT ![o] = [ino |-> at[p].ino, cnt |-> 1, deny |-> FALSE]]
    /\ imap' = imap \ {at[p].ino}
    /\ at' = [at EXCEPT ![p].pc = "deleting"]
    /\ UNCHANGED <<dir, slot, fd, alive, panic>>

\* inode_close(o): the last close frees the inode
inode_close(o, hp) ==
    IF hp[o].cnt = 1
    THEN /\ heap' = [hp EXCEPT ![o] = NoInode]
         /\ open' = list_remove(o, open)
    ELSE /\ heap' = [hp EXCEPT ![o].cnt = @ - 1]
         /\ UNCHANGED open

inode_release_end(p) ==
    /\ At(p, "deleting")
    /\ inode_close(at[p].obj, heap)
    /\ Return(p)
    /\ UNCHANGED <<dir, imap, slot, fd, alive, panic>>

-----------------------------------------------------------------------------
\* sys_close(f) of an open descriptor: file_close, or one use less of a pipe
CloseFd(p, f) ==
    LET s == fd[p][f]
        o == slot[s].inode IN
    /\ fd' = [fd EXCEPT ![p][f] = None]
    /\ CASE slot[s].flag = "pipe" ->
              /\ slot' = [slot EXCEPT ![s].pos = @ - 1,
                                      ![s].inode = IF slot[s].pos = 1 THEN None ELSE @]
              /\ UNCHANGED <<heap, open, panic>>
         [] slot[s].flag # "pipe" /\ (o = None \/ heap[o] = NoInode) ->
              panic' = TRUE /\ UNCHANGED <<slot, heap, open>>
         [] OTHER ->
              /\ inode_close(o, [heap EXCEPT ![o].deny = FALSE])
              /\ slot' = [slot EXCEPT ![s].inode = None]
              /\ UNCHANGED panic

sys_close(p, f) ==
    /\ At(p, "user") /\ fd[p][f] # None
    /\ CloseFd(p, f)
    /\ UNCHANGED <<dir, imap, alive, at>>

\* release_prog_resource closes the descriptors in order, then the process
\* is gone; each close may wait for a lock.
Exit(p) ==
    /\ At(p, "user") \/ At(p, "exit")
    /\ IF \A f \in Fds : fd[p][f] = None
       THEN /\ alive' = alive \ {p}
            /\ Return(p)
            /\ UNCHANGED <<fd, slot, heap, open, panic>>
       ELSE /\ CloseFd(p, Lowest({f \in Fds : fd[p][f] # None}))
            /\ at' = [at EXCEPT ![p].pc = "exit"]
            /\ UNCHANGED alive
    /\ UNCHANGED <<dir, imap>>

\* sys_pipe: two descriptors on one slot.  It needs no disk.
sys_pipe(p) ==
    /\ At(p, "user") /\ MaxPos >= 2
    /\ PipeRace \/ \A q \in Procs : ~(at[q].pc = "reading" /\ at[q].op = "open")
    /\ FullPipe \/ get_free_slot_in_global # None
    /\ LET s  == get_free_slot_in_global
           f1 == Lowest({g \in Fds : fd[p][g] = None})
           f2 == Lowest({g \in Fds : fd[p][g] = None /\ g # f1}) IN
       IF s = None      \* writes to file_table[-1]
       THEN panic' = TRUE /\ UNCHANGED <<slot, fd>>
       ELSE /\ slot' = [slot EXCEPT ![s] = [inode |-> Ring, flag |-> "pipe", pos |-> 2]]
            /\ fd' = [fd EXCEPT ![p] = [f \in Fds |-> IF f \in {f1, f2} THEN s ELSE @[f]]]
            /\ UNCHANGED panic
    /\ UNCHANGED <<fsVars, alive, at>>

\* copy_pcb and update_inode_open_cnts of sys_fork
Uses(p, s) == Cardinality({f \in Fds : fd[p][f] = s})

MayFork(p) ==
    \/ Forking = "files"
    \/ /\ Forking = "pipes"
       /\ \A f \in Fds : fd[p][f] # None => slot[fd[p][f]].flag = "pipe"

\* Mutant: the child's uses of a pipe are not counted.
sys_fork_NoCount(p, c) ==
    /\ At(p, "user") /\ MayFork(p) /\ c \notin alive
    /\ alive' = alive \cup {c}
    /\ fd' = [fd EXCEPT ![c] = fd[p]]
    /\ UNCHANGED <<slot, fsVars, at, panic>>

sys_fork(p, c) ==
    /\ At(p, "user") /\ MayFork(p) /\ c \notin alive
    /\ \A s \in Slots : slot[s].flag = "pipe" => slot[s].pos + Uses(p, s) <= MaxPos
    /\ alive' = alive \cup {c}
    /\ fd' = [fd EXCEPT ![c] = fd[p]]
    /\ slot' = [s \in Slots |-> IF slot[s].flag = "pipe"
                                THEN [slot[s] EXCEPT !.pos = @ + Uses(p, s)]
                                ELSE slot[s]]
    /\ heap' = [o \in Objs |->
                   [heap[o] EXCEPT !.cnt = @ + Cardinality({f \in Fds :
                       fd[p][f] # None /\ slot[fd[p][f]].inode = o})]]
    /\ panic' = \E f \in Fds : /\ fd[p][f] # None
                               /\ slot[fd[p][f]].inode = None
                               /\ slot[fd[p][f]].flag # "pipe"
    /\ UNCHANGED <<dir, imap, open, at>>

-----------------------------------------------------------------------------
Init ==
    /\ dir = [e \in Entries |-> NoEntry]
    /\ imap = {}
    /\ heap = [o \in Objs |-> NoInode]
    /\ open = << >>
    /\ slot = [s \in Slots |-> [inode |-> None, flag |-> "r", pos |-> 0]]
    /\ fd = [p \in Procs |-> [f \in Fds |-> None]]
    /\ alive = {First}
    /\ at = [p \in Procs |-> User]
    /\ panic = FALSE

Next ==
    \E p \in Procs :
        \/ \E op \in {"open", "create", "unlink"}, n \in Names, m \in Modes :
              (op = "unlink" => m = "r") /\ Search(p, op, n, m)
        \/ file_open(p) \/ file_open_read(p)
        \/ file_create(p) \/ ReadDir(p) \/ sync_dir_entry(p) \/ file_create_end(p)
        \/ unlink_check(p) \/ delete_dir_entry(p)
        \/ inode_release(p) \/ inode_release_read(p) \/ inode_release_end(p)
        \/ \E f \in Fds : sys_close(p, f)
        \/ Exit(p)
        \/ sys_pipe(p)
        \/ \E c \in Procs : sys_fork(p, c)

Spec == Init /\ [][Next]_vars

-----------------------------------------------------------------------------
(* Properties *)

\* Every variable holds a value of the C type it stands for (struct file,
\* struct inode, fd_table).
TypeOK ==
    /\ \A e \in Entries : dir[e].ino \in Inos \cup {None}
    /\ imap \subseteq Inos
    /\ \A o \in Objs : heap[o].cnt \in Nat /\ heap[o].ino \in Inos \cup {None}
    /\ open \in Seq(Objs) /\ NoRepeat(open)
    /\ \A s \in Slots : /\ slot[s].inode \in Objs \cup {None, Ring}
                        /\ slot[s].flag \in {"r", "w", "pipe"}
                        /\ slot[s].pos \in 0..MaxPos
    /\ fd \in [Procs -> [Fds -> Slots \cup {None}]]
    /\ alive \subseteq Procs

\* No ASSERT fails, and no call follows a NULL or freed struct inode or writes
\* in front of file_table.
NoPanic == ~panic

Open(p) == {f \in Fds : fd[p][f] # None}

\* A descriptor leads to a file: its file_table entry is occupied, by the ring
\* of a pipe or by an inode that is still in open_inodes, and no two opens
\* share the entry (file_open, file_close, update_inode_open_cnts).
FdsValid ==
    /\ \A p \in alive : \A f \in Open(p) :
          LET s == slot[fd[p][f]] IN
          /\ s.inode # None
          /\ s.flag # "pipe" => InList(s.inode, open)
    /\ Forking # "files" => \A p, q \in alive : \A f \in Open(p), g \in Open(q) :
          fd[p][f] = fd[q][g] /\ slot[fd[p][f]].flag # "pipe" => p = q /\ f = g

\* i_open_cnts is the number of file_table entries (and of a deletion under
\* way) that use the in-memory inode, so the last close frees it and no earlier
\* one does (inode_open, inode_close).
CountsExact ==
    \A i \in 1..Len(open) :
        heap[open[i]].cnt = Cardinality({s \in Slots : slot[s].inode = open[i]})
            + Cardinality({p \in Procs : at[p].pc = "deleting" /\ at[p].obj = open[i]})

\* A file has one inode in memory: everybody who opened it works on the same
\* size, sectors and write_deny (inode_open looks in open_inodes first).
OneInode ==
    \A i, j \in 1..Len(open) : heap[open[i]].ino = heap[open[j]].ino => i = j

\* A file is open for writing at most once (write_deny).
\* (The code does not have this property: README, "Disagreements".)
OneWriter ==
    \A s, t \in Slots :
        /\ {slot[s].inode, slot[t].inode} \subseteq Objs
        /\ slot[s].flag = "w" /\ slot[t].flag = "w"
        /\ \E p, q \in alive : \E f \in Fds, g \in Fds : fd[p][f] = s /\ fd[q][g] = t
        /\ heap[slot[s].inode].ino = heap[slot[t].inode].ino
        => s = t

\* The entries of a directory have different names (sys_open refuses to create
\* a file that exists).
NamesUnique ==
    \A e, g \in Entries : dir[e] # NoEntry /\ dir[e].name = dir[g].name => e = g

\* A file that some process has open is not deleted: its inode number stays
\* allocated and its entry stays in the directory (sys_unlink).
OpenFileExists ==
    \A p \in alive : \A f \in Open(p) :
        LET o == slot[fd[p][f]].inode IN
        o \in Objs => /\ heap[o].ino \in imap
                      /\ \E e \in Entries : dir[e].ino = heap[o].ino

\* A directory entry, once written, changes only when its file is deleted:
\* adding or removing another file does not overwrite it (sync_dir_entry,
\* delete_dir_entry).
EntryKept ==
    [][\A e \in Entries : dir[e] # NoEntry /\ dir'[e] # dir[e] =>
          \E p \in Procs : at[p].pc = "removing" /\ at[p].ino = dir[e].ino]_vars

\* An occupied file_table entry is reachable: some descriptor, or a call that
\* is creating the file, uses it (a call that fails leaves no entry behind).
\* (The code does not have this property: README, "Disagreements".)
SlotsReachable ==
    \A s \in Slots : slot[s].inode # None =>
        \/ \E p \in alive : \E f \in Fds : fd[p][f] = s
        \/ \E p \in alive : at[p].pc \in {"creating", "adding", "syncing"} /\ at[p].slot = s

\* The ring of a pipe lives as long as a descriptor of any process refers to
\* it: fd_pos is never less than the number of those descriptors, whatever
\* order fork, close and exit come in.
PipeRingLive ==
    \A s \in Slots : slot[s].flag = "pipe" =>
        LET n == Cardinality({x \in alive \X Fds : fd[x[1]][x[2]] = s}) IN
        /\ n > 0 => slot[s].inode = Ring
        /\ slot[s].pos >= n
        /\ slot[s].pos = 0 <=> slot[s].inode = None
=============================================================================
