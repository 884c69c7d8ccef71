----------------------------- MODULE Directory -----------------------------
(***************************************************************************)
(* Directories and paths: the directory blocks (fs/dir.c), the inodes they *)
(* name (fs/inode.c, fs/file.c), the calls that walk and change the tree   *)
(* (fs/fs.c) and the shell's commands with their path arguments            *)
(* (shell/buildin_cmd.c).                                                  *)
(*                                                                         *)
(* A path is the sequence of its components, a size counts directory       *)
(* entries, and a call runs without interruption: the disk's channel keeps *)
(* the others out (FileTable); loss of power in a call is FileData's.  The *)
(* state of the file system is the record fs, so that a call is the        *)
(* composition of the functions it calls.                                  *)
(***************************************************************************)
EXTENDS Integers, Sequences, FiniteSets, SequencesExt

CONSTANTS
    Names,       \* file names
    DirArgs,     \* arguments of calls and commands on directories: [abs, path]
    FileArgs,    \* arguments of those on files
    NInodes,     \* MAX_FILES_PER_PART (4096)
    NoWidth,     \* 2^8: inode_sync keeps the number in a uint8_t
    NBlocks,     \* data blocks; block 1 is the root directory's
    EPS,         \* directory entries in a sector
    ND,          \* direct blocks of an inode (12)
    NI,          \* addresses in the indirect table (128)
    Boot,        \* sector 0 of the disk, read as addresses
    OpendirMax,  \* longest path sys_opendir takes
    MaxFiles,    \* bound: inodes in use
    Careless     \* kinds of calls, of those below, that are made nevertheless

\* Calls the code does not defend itself against: a file below the root is
\* opened; a directory in use is removed; a path to be removed is "/" or ends
\* in "." or "..".
Hazardous == {"open_sub", "remove_used", "dots"}

ASSUME DirectoryAssumption ==
    /\ {NInodes, NoWidth, NBlocks, ND, NI, OpendirMax, MaxFiles} \subseteq Nat \ {0}
    /\ EPS \in Nat /\ EPS >= 2
    /\ Careless \subseteq Hazardous
    /\ {".", "..", ""} \cap Names = {}
    /\ \A a \in DirArgs \cup FileArgs : \A k \in 1..Len(a.path) : a.path[k] \in Names \cup {".", ".."}

VARIABLES
    fs,         \* the file system, on disk and in memory
    cwd,        \* cwd_inode_no of the shell
    cwd_cache,  \* the path the shell prints in its prompt
    dirp,       \* a directory stream a program has open, or NoStream
    still,      \* history: the tree has not changed since it was rewound
    seen        \* history: if so, the entries read from it

vars == <<fs, cwd, cwd_cache, dirp, still, seen>>

Inodes == 0..(NInodes - 1)
Blocks == 1..(NBlocks + 1)      \* partition_format clears one bit too many
Index  == 0..(ND + NI - 1)
Cells  == 1..EPS
None   == -1
Dots   == {".", ".."}

NoEntry   == [name |-> "", ino |-> 0, type |-> "none"]
NoEntries == [c \in Cells |-> NoEntry]
NoTable   == [k \in 0..(NI - 1) |-> 0]
Blank     == [ent |-> NoEntries, adr |-> NoTable]
NoInode   == [no |-> 0, size |-> 0, sect |-> [k \in 0..ND |-> 0]]
InMemory(c, i) == [cnt |-> c, no |-> i.no, size |-> i.size, sect |-> i.sect]
OnDisk(m) == [no |-> m.no, size |-> m.size, sect |-> m.sect]
Absent    == InMemory(0, NoInode)
NoStream  == [no |-> None, static |-> FALSE, pos |-> 0]

Least(S) == CHOOSE i \in S : \A j \in S : i <= j
Fail(f, why) == [f EXCEPT !.bad = IF @ = "" THEN why ELSE @]
Check(f, holds) == IF holds THEN f ELSE Fail(f, "assert")

-----------------------------------------------------------------------------
(* Inodes and bitmaps *)

\* The inode as inode_open finds it: in open_inodes, or else on disk
Inode(f, n) == IF f.mem[n].cnt > 0 THEN OnDisk(f.mem[n]) ELSE f.dinode[n]

inode_open(f, n) ==
    [f EXCEPT !.mem[n] = IF @.cnt > 0 THEN [@ EXCEPT !.cnt = @ + 1]
                         ELSE InMemory(1, f.dinode[n])]

inode_close(f, n) ==
    [f EXCEPT !.mem[n] = IF @.cnt > 1 THEN [@ EXCEPT !.cnt = @ - 1] ELSE Absent]

\* A directory that is open: the static root_dir, never closed, or a copy.
RootDir == [no |-> 0, static |-> TRUE]
Copy(n) == [no |-> n, static |-> FALSE]
dir_close(f, d) == IF d.static THEN f ELSE inode_close(f, d.no)

\* Mutant: the inode behind it is written.
inode_sync_Next(f, m) == [f EXCEPT !.dinode[(m.no + 1) % NInodes] = OnDisk(m)]

\* The inode is stored where its number, as a uint8_t, says.
inode_sync(f, m) == [f EXCEPT !.dinode[m.no % NoWidth] = OnDisk(m)]

sync_blocks(f) == [f EXCEPT !.dbmap = f.bmap]
sync_inodes(f) == [f EXCEPT !.dimap = f.imap]

\* bitmap_scan asserts when no bit is clear.
FreeBlock(f) == IF Blocks \subseteq f.bmap THEN None ELSE Least(Blocks \ f.bmap)
FreeInode(f) == IF Inodes \subseteq f.imap THEN None ELSE Least(Inodes \ f.imap)

\* all_blocks of an inode
AllBlocks(f, n) ==
    LET s == Inode(f, n).sect IN
    [k \in Index |-> IF k < ND THEN s[k] ELSE IF s[ND] = 0 THEN 0 ELSE f.disk[s[ND]].adr[k - ND]]

\* Mutant: the blocks are not given back.
inode_release_KeepBlocks(f, n) ==
    LET f1 == [f EXCEPT !.imap = @ \ {n}, !.dinode[n] = NoInode]
    IN  sync_inodes(f1)

inode_release(f, n) ==
    LET f1  == inode_open(f, n)
        all == AllBlocks(f1, n)
        bs  == ({all[k] : k \in Index} \cup {f1.mem[n].sect[ND]}) \ {0}
        f2  == Check(f1, f1.mem[n].no = n /\ 1 \notin bs)
        f3  == sync_blocks([f2 EXCEPT !.bmap = @ \ bs])
        f4  == sync_inodes([f3 EXCEPT !.imap = @ \ {n}])
    IN  inode_close([f4 EXCEPT !.dinode[n] = NoInode], n)

-----------------------------------------------------------------------------
(* Entries *)

\* The entries of a directory with their places: block index k, cell c
Live(f, n) ==
    LET all == AllBlocks(f, n) IN
    {x \in {[k |-> k, c |-> c, e |-> f.disk[all[k]].ent[c]] : k \in {j \in Index : all[j] # 0}, c \in Cells} :
        x.e.type # "none"}
Before(x, y) == x.k < y.k \/ (x.k = y.k /\ x.c < y.c)
First(S) == CHOOSE x \in S : \A y \in S : x = y \/ Before(x, y)

\* The first entry with the name, or NoEntry
search_dir_entry(f, n, name) ==
    LET S == {x \in Live(f, n) : x.e.name = name}
    IN  IF S = {} THEN NoEntry ELSE First(S).e

\* The entry goes to the first free place of the first block that has one or
\* is missing.  Behind the direct blocks the table is read before it is known
\* to exist: without one, that is sector 0 of the disk.
sync_dir_entry(f, n, e) ==
    LET s     == f.mem[n].sect
        all   == [j \in Index |-> IF j >= ND /\ s[ND] = 0 THEN Boot[j - ND] ELSE AllBlocks(f, n)[j]]
        Room(j) == \E c \in Cells : f.disk[all[j]].ent[c].type = "none"
        S     == {j \in Index : all[j] = 0 \/ Room(j)}
        k     == Least(S)
        b     == FreeBlock(f)
        f1    == sync_blocks([f EXCEPT !.bmap = @ \cup {b}])
        b2    == FreeBlock(f1)
        f2    == sync_blocks([f1 EXCEPT !.bmap = @ \cup {b2}])
        Table(x) == [j \in 0..(NI - 1) |-> IF j = k - ND THEN x ELSE all[j + ND]]
        Put(g, x) == [g EXCEPT !.disk[x] = [Blank EXCEPT !.ent[1] = e]]
        new   == CASE S = {} -> f
                   [] k \in S /\ all[k] # 0 ->
                        LET c == Least({j \in Cells : f.disk[all[k]].ent[j].type = "none"})
                        IN  [f EXCEPT !.disk[all[k]].ent[c] = e]
                   [] b = None -> Fail(f, "assert")
                   [] k < ND -> Put([f1 EXCEPT !.mem[n].sect[k] = b], b)
                   [] k = ND /\ b2 = None -> Fail(f, "assert")
                   [] k = ND -> Put([f2 EXCEPT !.mem[n].sect[ND] = b, !.disk[b].adr = Table(b2)], b2)
                   [] OTHER -> Put([f1 EXCEPT !.disk[s[ND]].adr = Table(b)], b) IN
    IF S = {} THEN [f |-> f, ok |-> FALSE]
    ELSE [f |-> [new EXCEPT !.mem[n].size = @ + 1], ok |-> TRUE]

\* Mutant: the block of the last entry is freed, but stays in the inode.
delete_dir_entry_Dangling(f, n, ino) ==
    LET live == Live(f, n)
        all  == AllBlocks(f, n)
        S    == {x \in live : x.e.ino = ino /\ x.e.name \notin Dots}
        k    == First(S).k
        f1   == IF Cardinality({x \in live : x.k = k}) = 1
                THEN sync_blocks([f EXCEPT !.bmap = @ \ {all[k]}])
                ELSE [f EXCEPT !.disk[all[k]].ent[First(S).c] = NoEntry]
        f2   == [f1 EXCEPT !.mem[n].size = @ - 1] IN
    IF S = {} THEN f ELSE inode_sync(f2, f2.mem[n])

\* The entry of inode ino is cleared; a block with no other entry is freed,
\* unless it is the first.  The loop that counts the blocks of the table, when
\* such a block is in it, does not end.
delete_dir_entry(f, n, ino) ==
    LET live == Live(f, n)
        all  == AllBlocks(f, n)
        S    == {x \in live : x.e.ino = ino /\ x.e.name \notin Dots}
        k    == First(S).k
        own  == {x \in live : x.k = k}
        f0   == Check(f, Cardinality({x \in S : x.k = k}) = 1)
        f1   == IF /\ Cardinality({x \in own : x.e.name \notin Dots}) = 1
                   /\ \A x \in own : x.e.name # "."
                THEN LET g == sync_blocks([f0 EXCEPT !.bmap = @ \ {all[k]}])
                     IN  IF k < ND THEN [g EXCEPT !.mem[n].sect[k] = 0] ELSE Fail(g, "hang")
                ELSE [f0 EXCEPT !.disk[all[k]].ent[First(S).c] = NoEntry]
        f2   == Check([f1 EXCEPT !.mem[n].size = @ - 1], f1.mem[n].size >= 1) IN
    IF S = {} THEN f ELSE inode_sync(f2, f2.mem[n])

\* Mutant: the stream counts places, holes included.
dir_read_Places(f, n, pos) ==
    LET S == {x \in Live(f, n) : EPS * x.k + x.c - 1 = pos} IN
    IF pos >= f.mem[n].size \/ S = {} THEN NoEntry ELSE First(S).e

\* The entry with pos entries before it
dir_read(f, n, pos) ==
    LET L == Live(f, n) IN
    IF pos >= f.mem[n].size THEN NoEntry
    ELSE (CHOOSE x \in L : Cardinality({y \in L : Before(y, x)}) = pos).e

-----------------------------------------------------------------------------
(* Paths *)

\* One component of the path: the directory is closed and the next one opened.
SearchStep(r, name) ==
    LET e == search_dir_entry(r.f, r.dir.no, name) IN
    IF r.stop THEN r
    ELSE CASE e.type = "dir" ->
                [r EXCEPT !.f = inode_open(dir_close(r.f, r.dir), e.ino), !.dir = Copy(e.ino),
                          !.parent = r.dir.no, !.ino = e.ino, !.depth = @ + 1]
           [] e.type = "file" ->
                [r EXCEPT !.stop = TRUE, !.type = "file", !.ino = e.ino, !.depth = @ + 1]
           [] OTHER ->
                [r EXCEPT !.stop = TRUE, !.ino = None, !.depth = @ + 1]

\* search_file: the inode, its type, its parent directory, left open, and the
\* depth of searched_path.  A regular file ends the search wherever it is.
search_file(f, path) ==
    LET start == [f |-> f, dir |-> RootDir, parent |-> 0, ino |-> 0, type |-> "unknown",
                  depth |-> 0, stop |-> FALSE]
        r     == FoldLeft(SearchStep, start, path) IN
    IF path \in {<< >>, <<".">>, <<"..">>} THEN [start EXCEPT !.type = "dir"]
    ELSE IF r.stop THEN r
    ELSE [r EXCEPT !.f = inode_open(dir_close(r.f, r.dir), r.parent),
                   !.dir = Copy(r.parent), !.type = "dir"]

\* Mutant: ".." keeps the first component.
WashStep_Keep(new, name) ==
    IF name = ".." THEN IF Len(new) > 1 THEN Front(new) ELSE new
    ELSE IF name = "." THEN new ELSE Append(new, name)

\* One component of wash_path
WashStep(new, name) ==
    IF name = ".." THEN IF new = << >> THEN new ELSE Front(new)
    ELSE IF name = "." THEN new ELSE Append(new, name)
wash_path(path) == FoldLeft(WashStep, << >>, path)

\* get_parent_dir_inode_nr reads the second entry of the first block; None is
\* a failed ASSERT.
get_parent_dir_inode_nr(f, n) ==
    LET b == Inode(f, n).sect[0]
        e == f.disk[b].ent[2] IN
    IF b = 0 THEN None ELSE IF e.type = "dir" THEN e.ino ELSE None

\* get_child_dir_name: the name of the first entry with the inode
get_child_dir_name(f, p, n) ==
    LET S == {x \in Live(f, p) : x.e.ino = n}
    IN  IF S = {} THEN "" ELSE First(S).e.name

\* sys_getcwd climbs to the root and puts the names in front of one another;
\* ok says that each was found, and found before all inodes were visited.
sys_getcwd(f, n) ==
    LET up[k \in 0..NInodes] ==
            IF k = 0 THEN n
            ELSE LET c == up[k - 1]
                 IN  IF c \in {0, None} THEN c ELSE get_parent_dir_inode_nr(f, c)
        steps == {k \in 1..NInodes : up[k - 1] # 0}
        top   == Cardinality(steps)
        name(k) == get_child_dir_name(f, up[top + 1 - k], up[top - k]) IN
    IF up[NInodes] # 0 THEN [ok |-> FALSE, path |-> << >>]
    ELSE [ok |-> \A k \in 1..top : name(k) # "", path |-> [k \in 1..top |-> name(k)]]

\* make_clear_abs_path: a relative path starts at the working directory.
make_clear_abs_path(f, a) ==
    wash_path(IF a.abs THEN a.path ELSE sys_getcwd(f, cwd).path \o a.path)

-----------------------------------------------------------------------------
(* System calls, as functions to a file system.  Each begins with a search: *)
(* s is what search_file returned for the path.                            *)

Ended(s) == dir_close(s.f, s.dir)

\* file_create: inode, entry, then what is in memory goes to the disk.
file_create(f, d, name, who) ==
    LET n  == FreeInode(f)
        f1 == [f EXCEPT !.imap = @ \cup {n}]
        i  == [NoInode EXCEPT !.no = n]
        s  == sync_dir_entry(f1, d.no, [name |-> name, ino |-> n, type |-> "file"])
        f2 == inode_sync(inode_sync(s.f, s.f.mem[d.no]), InMemory(0, i))
        f3 == [sync_inodes(f2) EXCEPT !.mem[n] = InMemory(1, i), !.held[n] = @ \cup {who}] IN
    IF n = None THEN Fail(f, "assert")
    ELSE IF ~s.ok THEN [s.f EXCEPT !.imap = @ \ {n}]
    ELSE f3

\* sys_open with O_CREAT
OpenCreate(s, path, who) ==
    IF s.type = "dir" \/ s.depth # Len(path) \/ s.ino # None THEN Ended(s)
    ELSE dir_close(file_create(s.f, s.dir, Last(path), who), s.dir)

\* sys_open of a file that exists: the directory it is in stays open.
OpenExisting(s, path, who) ==
    IF s.type = "dir" \/ s.depth # Len(path) \/ s.ino = None THEN Ended(s)
    ELSE [inode_open(s.f, s.ino) EXCEPT !.held[s.ino] = @ \cup {who}]

\* sys_mkdir; when there is no room for the entry the two bits are cleared.
sys_mkdir(s, path) ==
    LET n  == FreeInode(s.f)
        b  == FreeBlock(s.f)
        f1 == [s.f EXCEPT !.imap = @ \cup {n}, !.bmap = @ \cup {b},
                  !.disk[b] = [Blank EXCEPT !.ent[1] = [name |-> ".", ino |-> n, type |-> "dir"],
                                            !.ent[2] = [name |-> "..", ino |-> s.dir.no, type |-> "dir"]]]
        w  == sync_dir_entry(f1, s.dir.no, [name |-> Last(path), ino |-> n, type |-> "dir"])
        i  == [NoInode EXCEPT !.no = n, !.size = 2, !.sect[0] = b]
        f2 == inode_sync(sync_blocks(w.f), w.f.mem[s.dir.no]) IN
    IF s.ino # None \/ s.depth # Len(path) THEN Ended(s)
    ELSE IF n = None \/ b = None THEN Fail(s.f, "assert")
    ELSE IF ~w.ok THEN dir_close([w.f EXCEPT !.imap = @ \ {n}, !.bmap = @ \ {b}], s.dir)
    ELSE dir_close(sync_inodes(inode_sync(f2, InMemory(0, i))), s.dir)

\* sys_rmdir and dir_remove: only an empty directory goes.
sys_rmdir(s) ==
    LET f1 == inode_open(s.f, s.ino)
        f2 == Check(f1, \A k \in 1..(ND - 1) : f1.mem[s.ino].sect[k] = 0)
        f3 == inode_release(delete_dir_entry(f2, s.dir.no, s.ino), s.ino)
        f4 == IF f1.mem[s.ino].size = 2 THEN f3 ELSE f1 IN
    IF s.ino = 0 THEN Fail(s.f, "assert")
    ELSE IF s.ino = None \/ s.type = "file" THEN Ended(s)
    ELSE dir_close(inode_close(f4, s.ino), s.dir)

\* sys_unlink: a file that is open stays.  How deep the search got is not
\* asked: "/c/x" deletes the file "/c".
sys_unlink(s) ==
    IF s.ino = 0 THEN Fail(s.f, "assert")
    ELSE IF s.ino = None \/ s.type = "dir" THEN Ended(s)
    ELSE IF s.f.held[s.ino] # {} THEN Ended(s)
    ELSE dir_close(inode_release(delete_dir_entry(s.f, s.dir.no, s.ino), s.ino), s.dir)

\* sys_stat leaves nothing open; it returns this.
sys_stat(s) ==
    IF s.ino = None THEN [ino |-> None, type |-> "unknown", size |-> 0]
    ELSE [ino |-> s.ino, type |-> s.type, size |-> Inode(s.f, s.ino).size]

-----------------------------------------------------------------------------
(* The steps: a program calls with an absolute path, the shell's commands  *)
(* wash their argument first.                                              *)

Running == fs.bad = ""
Given(args) == {make_clear_abs_path(fs, a) : a \in args} \cup {a.path : a \in {x \in args : x.abs}}
Careful(kind, safe) == safe \/ kind \in Careless
Used == {n \in Inodes : n = cwd \/ n = dirp.no}

\* A call that may change the tree, and nothing else
Call(f) == /\ fs' = f
           /\ still' = (dirp = NoStream \/ (still /\ fs' = fs))
           /\ seen' = IF still' THEN seen ELSE {}
           /\ UNCHANGED <<cwd, cwd_cache, dirp>>

Found(p) == {search_file(fs, p)}
Bounded == Cardinality(fs.imap) < MaxFiles

mkdir(p) == p # << >> /\ Bounded /\ \E s \in Found(p) : Call(sys_mkdir(s, p))

rmdir(p) ==
    /\ Careful("dots", p # << >> /\ Last(p) \notin Dots)
    /\ \E s \in Found(p) :
        /\ Careful("remove_used", s.ino \notin Used)
        /\ Call(sys_rmdir(s))

unlink(p) ==
    /\ Careful("dots", p # << >> /\ Last(p) \notin Dots)
    /\ \E s \in Found(p) : Call(sys_unlink(s))

\* buildin_touch: the shell never closes what it opened.
touch(p) == p # << >> /\ Bounded /\ \E s \in Found(p) : Call(OpenCreate(s, p, "shell"))

creat(p) == p # << >> /\ Bounded /\ \E s \in Found(p) : Call(OpenCreate(s, p, "program"))

open(p) ==
    \E s \in Found(p) :
        /\ p # << >> /\ s.ino # None
        /\ "program" \notin fs.held[s.ino]
        /\ Careful("open_sub", s.dir = RootDir)
        /\ Call(OpenExisting(s, p, "program"))

close(n) ==
    /\ "program" \in fs.held[n]
    /\ Call([inode_close(fs, n) EXCEPT !.held[n] = @ \ {"program"}])

\* buildin_cd: chdir to the washed path, which is kept in cwd_cache
cd(a) ==
    LET p == make_clear_abs_path(fs, a)
        s == search_file(fs, p) IN
    /\ s.ino # None /\ s.type # "file"
    /\ cwd' = s.ino
    /\ cwd_cache' = p
    /\ fs' = Ended(s)
    /\ UNCHANGED <<dirp, seen, still>>

\* sys_opendir: "/." and what follows is taken for the root, and so is "/0"; its
\* stream, root_dir, stands where the program that read it last has left it.
opendir(p) ==
    LET s == search_file(fs, p) IN
    /\ dirp = NoStream
    /\ IF Len(p) > OpendirMax THEN fs' = Fail(fs, "assert") /\ UNCHANGED dirp
       ELSE IF p # << >> /\ p[1] \in Dots
       THEN dirp' = [no |-> 0, static |-> TRUE, pos |-> fs.root_pos] /\ UNCHANGED fs
       ELSE /\ s.type = "dir"
            /\ fs' = dir_close(inode_open(s.f, s.ino), s.dir)
            /\ dirp' = [no |-> s.ino, static |-> FALSE, pos |-> 0]
    /\ seen' = {} /\ still' = TRUE
    /\ UNCHANGED <<cwd, cwd_cache>>

\* sys_readdir; a size larger than the entries there are is an overrun.
readdir ==
    LET e == dir_read(fs, dirp.no, dirp.pos) IN
    /\ dirp # NoStream /\ dirp.pos < fs.mem[dirp.no].size
    /\ IF dirp.pos >= Cardinality(Live(fs, dirp.no))
       THEN fs' = Fail(fs, "overrun") /\ UNCHANGED <<dirp, seen>>
       ELSE /\ dirp' = [dirp EXCEPT !.pos = @ + 1]
            /\ seen' = IF still THEN seen \cup {e} ELSE {}
            /\ UNCHANGED fs
    /\ UNCHANGED <<cwd, cwd_cache, still>>

rewinddir ==
    /\ dirp # NoStream /\ dirp.pos > 0
    /\ dirp' = [dirp EXCEPT !.pos = 0]
    /\ seen' = {} /\ still' = TRUE
    /\ UNCHANGED <<fs, cwd, cwd_cache>>

closedir ==
    /\ dirp # NoStream
    /\ fs' = [dir_close(fs, dirp) EXCEPT !.root_pos = IF dirp.static THEN dirp.pos ELSE @]
    /\ dirp' = NoStream /\ seen' = {} /\ still' = TRUE
    /\ UNCHANGED <<cwd, cwd_cache>>

\* filesys_init on a disk with a file system: mount_partition, and open_root_dir,
\* which sets the position of root_dir
Mounted(f) ==
    inode_open([f EXCEPT !.bmap = f.dbmap, !.imap = f.dimap, !.mem = [n \in Inodes |-> Absent],
                         !.held = [n \in Inodes |-> {}], !.root_pos = 0], 0)

Reboot ==
    /\ fs' = Mounted(fs)
    /\ cwd' = 0 /\ cwd_cache' = << >>
    /\ dirp' = NoStream /\ seen' = {} /\ still' = TRUE

\* partition_format: the root directory has the first block and inode 0.
partition_format ==
    LET Dot(name) == [name |-> name, ino |-> 0, type |-> "dir"] IN
    [dinode |-> [n \in Inodes |-> IF n = 0 THEN [NoInode EXCEPT !.size = 2, !.sect[0] = 1] ELSE NoInode],
     mem    |-> [n \in Inodes |-> Absent],
     disk   |-> [b \in Blocks |-> IF b = 1 THEN [Blank EXCEPT !.ent[1] = Dot("."), !.ent[2] = Dot("..")]
                                  ELSE Blank],
     bmap |-> {}, dbmap |-> {1}, imap |-> {}, dimap |-> {0},
     held |-> [n \in Inodes |-> {}], root_pos |-> 0, bad |-> ""]

Init ==
    /\ fs = Mounted(partition_format)
    /\ cwd = 0 /\ cwd_cache = << >>
    /\ dirp = NoStream /\ seen = {} /\ still = TRUE

Next ==
    /\ Running
    /\ \/ \E p \in Given(DirArgs) : mkdir(p) \/ rmdir(p) \/ opendir(p)
       \/ \E p \in Given(FileArgs) : touch(p) \/ creat(p) \/ open(p) \/ unlink(p)
       \/ \E a \in DirArgs : cd(a)
       \/ \E n \in Inodes : close(n)
       \/ readdir \/ rewinddir \/ closedir \/ Reboot

Spec == Init /\ [][Next]_vars

-----------------------------------------------------------------------------
(* Properties *)

\* No ASSERT of a call fails, no loop runs on for ever or beyond its array.
NoPanic == fs.bad = ""

Entries(n) == {x.e : x \in Live(fs, n)}
BlocksOf(n) == ({AllBlocks(fs, n)[k] : k \in Index} \cup {Inode(fs, n).sect[ND]}) \ {0}
Dirs == {n \in fs.imap : \E e \in Entries(n) : e.name = "."}

\* The directories form a tree: its names are unique in a directory, every
\* inode but the root has one entry, "." and ".." lead where they should, and
\* the size of a directory counts its entries.
TreeSound ==
    LET dirs     == Dirs
        live     == [n \in dirs |-> Live(fs, n)]
        entries  == [n \in dirs |-> {x.e : x \in live[n]}]
        children == UNION {{<<n, e>> : e \in {x \in entries[n] : x.name \notin Dots}} : n \in dirs} IN
    /\ \A n \in dirs : /\ Inode(fs, n).size = Cardinality(live[n])
                       /\ Cardinality(live[n]) = Cardinality({e.name : e \in entries[n]})
                       /\ [name |-> ".", ino |-> n, type |-> "dir"] \in entries[n]
                       /\ sys_getcwd(fs, n).ok
    /\ \A c \in children : c[2].type = "dir" =>
        c[2].ino \in dirs /\ [name |-> "..", ino |-> c[1], type |-> "dir"] \in entries[c[2].ino]
    /\ Cardinality({c[2].ino : c \in children}) = Cardinality(children)

\* Between calls memory and disk agree: what a mount would read is what is in
\* memory, and exactly the inodes and blocks that are reachable are marked.
\* open_inodes holds only inodes that exist.
MountSeesSame ==
    LET named == {0} \cup UNION {{e.ino : e \in Entries(n)} : n \in Dirs} IN
    /\ fs.bmap = fs.dbmap /\ fs.imap = fs.dimap
    /\ fs.imap = named
    /\ fs.bmap = UNION {BlocksOf(n) : n \in named} /\ fs.bmap \subseteq 1..NBlocks
    /\ \A n \in Inodes : fs.mem[n].cnt > 0 => n \in named /\ OnDisk(fs.mem[n]) = fs.dinode[n]

\* While the tree does not change, a stream returns each entry of its directory
\* once, and stat finds each under its name.
ListingComplete ==
    dirp # NoStream /\ still =>
        /\ Cardinality(seen) = dirp.pos
        /\ dirp.pos = fs.mem[dirp.no].size => seen = Entries(dirp.no)
        /\ \A e \in seen :
            LET st == sys_stat(search_file(fs, Append(sys_getcwd(fs, dirp.no).path, e.name)))
            IN  st.ino = e.ino /\ st.type = e.type

\* A path and its washed form name the same thing, the working directory's path
\* leads to it, and so does the one in the shell's prompt.
PathsAgree ==
    /\ \A a \in {x \in DirArgs \cup FileArgs : x.abs /\ wash_path(x.path) # x.path} :
        LET s == search_file(fs, a.path) IN
        s.ino # None /\ s.depth \in {0, Len(a.path)} =>
            search_file(fs, wash_path(a.path)).ino = s.ino
    /\ search_file(fs, sys_getcwd(fs, cwd).path).ino = cwd
    /\ search_file(fs, cwd_cache).ino = cwd
=============================================================================
