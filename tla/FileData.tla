------------------------------ MODULE FileData ------------------------------
(***************************************************************************)
(* The contents of files: file_write and file_read (fs/file.c), sys_Iseek  *)
(* (fs/fs.c), and the release of a deleted file's blocks (fs/inode.c), on  *)
(* a disk that keeps what was written when the power goes.                 *)
(*                                                                         *)
(* A block is a row of cells; a cell holds a byte of data or, in the       *)
(* indirect table, the address of a block.  A call is cut wherever it      *)
(* waits for the disk, and what the disk was asked to do happens in the    *)
(* step that goes on from there.  Each process works on one file.          *)
(***************************************************************************)
EXTENDS Integers, Sequences, FiniteSets

CONSTANTS
    Procs,       \* processes
    FileOf,      \* the file each process works on
    ModeOf,      \* "w": opened O_RDWR; "r": opened O_RDONLY
    Files,       \* files, numbers from 1 (each stands for its inode too)
    Cut,         \* addresses of a file's inode that lie in its first sector;
                 \* ND + 1: the inode lies in one sector
    BLOCK_SIZE,  \* bytes in a block
    ND,          \* direct blocks of an inode (12): i_sectors[ND] is the table
    NI,          \* addresses in the indirect table (128)
    NBlocks,     \* data blocks of the partition; block 0 is the root directory's
    BitsPerSec,  \* bits of block_bitmap in a sector (4096)
    Word,        \* 2^32, the values of a uint32_t
    Writes,      \* byte counts of each process's write calls
    Reads,       \* byte counts of its read calls
    Offsets,     \* offsets of its lseek calls
    MaxSize,     \* bound: a file is not written beyond this size
    MaxLives,    \* bound: how often a file is created
    MaxCrashes,  \* bound: how often the power goes
    HeapFull     \* may sys_malloc return NULL?

MaxBlk == ND + NI               \* 140

ASSUME DataAssumption ==
    /\ FileOf \in [Procs -> Files] /\ ModeOf \in [Procs -> {"r", "w"}]
    /\ Files \subseteq Nat \ {0}
    /\ {BLOCK_SIZE, ND, NI, NBlocks, BitsPerSec, Word} \subseteq Nat \ {0}
    /\ Cut \in [Files -> 0..(ND + 1)]
    /\ Word > MaxBlk * BLOCK_SIZE
    /\ {Writes, Reads} \subseteq [Procs -> SUBSET Nat]
    /\ Offsets \in [Procs -> SUBSET Int]
    /\ {MaxSize, MaxLives} \subseteq [Files -> Nat]
    /\ MaxCrashes \in Nat /\ HeapFull \in BOOLEAN

VARIABLES
    entry,      \* does the file's directory entry exist?
    dinode,     \* the inode table on disk: [size, sect]
    mem,        \* the struct inode in open_inodes, while the file is open
    disk,       \* the data blocks
    bmap,       \* block_bitmap in memory
    dmap,       \* block_bitmap on disk
    pos,        \* fd_pos of the process's descriptor, or Closed
    at,         \* where a process is, and the local variables it has there
    panic,      \* an ASSERT failed
    life,       \* history: how often the file was created
    safe,       \* history: size of the file when the last write returned
    crashes

memory == <<mem, bmap, pos, at, panic>>
device == <<entry, dinode, disk, dmap>>
history == <<life, safe, crashes>>
vars == <<entry, dinode, mem, disk, bmap, dmap, pos, at, panic, life, safe, crashes>>

Closed  == -1
None    == -1
Index   == 0..(MaxBlk - 1)      \* indices of all_blocks
Cell    == 0..((IF BLOCK_SIZE > NI THEN BLOCK_SIZE ELSE NI) - 1)
Blank   == [c \in Cell |-> 0]
\* partition_format clears one bit behind the last block as well.
Bits    == 0..NBlocks
NoInode == [size |-> 0, sect |-> [k \in 0..ND |-> 0]]
User    == [pc |-> "user", op |-> "none", left |-> 0, will |-> 0, next |-> 0,
            bit |-> 0, all |-> [k \in Index |-> 0], tab |-> FALSE, buf |-> Blank,
            pure |-> NoInode, start |-> 0, got |-> << >>]

At(p, pc) == ~panic /\ at[p].pc = pc
Least(S) == IF S = {} THEN None ELSE CHOOSE i \in S : \A j \in S : i <= j
Smaller(a, b) == IF a < b THEN a ELSE b

\* The i-th byte given to write() for file f; data of another file, of an
\* earlier life of the file or for another offset is different.
Byte(f, i) == 1000 * f + 100 * life[f] + i

\* block_bitmap_alloc: bitmap_scan asserts when no bit is clear
FreeBit(bm) == Least(Bits \ bm)

\* bitmap_sync writes the sector of the map that holds the bit.
bitmap_sync(bit) ==
    LET sec == {b \in Bits : b \div BitsPerSec = bit \div BitsPerSec}
    IN  dmap' = (dmap \ sec) \cup (bmap \cap sec)

Opened(f) == \E p \in Procs : /\ FileOf[p] = f
                              /\ pos[p] # Closed \/ at[p].op = "unlink"

-----------------------------------------------------------------------------
(* file_write.  The operators below run the call from one wait for the disk *)
(* to the next: a holds its local variables, i is the inode, bm the bitmap. *)

Go(p, a, i, bm) == /\ at' = [at EXCEPT ![p] = a]
                   /\ mem' = [mem EXCEPT ![FileOf[p]] = i]
                   /\ bmap' = bm

Panic == panic' = TRUE /\ UNCHANGED <<mem, bmap, pos, at>>

\* Mutant: the addresses are not part of the copy.
inode_sync_SizeOnly(p, a, i, bm, pure) ==
    Go(p, [a EXCEPT !.pc = "inode_r", !.pure = [pure EXCEPT !.sect = dinode[FileOf[p]].sect]], i, bm)

\* inode_sync: a copy of the inode is made, then its sector is read.
inode_sync(p, a, i, bm, pure) ==
    Go(p, [a EXCEPT !.pc = "inode_r", !.pure = pure], i, bm)

\* Mutant: the call returns without inode_sync.
SyncInode_Skip(p, a, i, bm) == Go(p, User, i, bm)

\* The end of file_write: if there is no memory for the buffer the inode is
\* not stored, and the call returns as if it were.
SyncInode(p, a, i, bm) ==
    \E ok \in (IF HeapFull THEN BOOLEAN ELSE {TRUE}) :
        IF ok THEN inode_sync(p, a, i, bm, i) ELSE Go(p, User, i, bm)

\* The blocks are there: fd_pos is set and the first block is read.
WriteData(p, a, i, bm) ==
    \E ok \in (IF HeapFull THEN BOOLEAN ELSE {TRUE}) :
        IF ~ok THEN Go(p, User, i, bm) /\ UNCHANGED <<pos, panic>>
        ELSE /\ pos' = [pos EXCEPT ![p] = (i.size - 1) % Word]
             /\ IF a.left = 0 THEN SyncInode(p, a, i, bm)
                ELSE Go(p, [a EXCEPT !.pc = "block_r"], i, bm)
             /\ UNCHANGED panic

\* The loops that take the blocks from file_has_used_blocks (next) up to
\* file_will_use_blocks (will); each waits for bitmap_sync.
AllocBlocks(p, a, i, bm) ==
    LET b == FreeBit(bm) IN
    IF a.next < a.will
    THEN IF b = None \/ (a.next < ND /\ i.sect[a.next] # 0) THEN Panic
         ELSE /\ Go(p, [a EXCEPT !.pc = "sync", !.bit = b, !.all[a.next] = b, !.next = @ + 1],
                    IF a.next < ND THEN [i EXCEPT !.sect[a.next] = b] ELSE i,
                    bm \cup {b})
              /\ UNCHANGED <<pos, panic>>
    ELSE IF a.tab THEN Go(p, [a EXCEPT !.pc = "table_w"], i, bm) /\ UNCHANGED <<pos, panic>>
    ELSE WriteData(p, a, i, bm)

\* file_has_used_blocks, and file_will_use_blocks of the new size
has_used(size) == size \div BLOCK_SIZE + 1

\* The cases of file_write: all in direct blocks; the table is created
\* (without bitmap_sync of its own block); the table exists.
Collect(p, a, i, bm) ==
    LET has  == has_used(i.size)
        will == has_used(i.size + a.left)
        a1   == [a EXCEPT !.will = will, !.next = has]
        old  == [k \in Index |-> IF k = has - 1 /\ k < ND THEN i.sect[k] ELSE 0]
        tb   == FreeBit(bm) IN
    IF will > MaxBlk THEN Panic
    ELSE IF has > ND
    THEN IF i.sect[ND] = 0 THEN Panic
         ELSE /\ Go(p, [a1 EXCEPT !.pc = "table_r", !.tab = will > has], i, bm)
              /\ UNCHANGED <<pos, panic>>
    ELSE IF will <= ND
    THEN IF will > has /\ i.sect[has - 1] = 0 THEN Panic
         ELSE AllocBlocks(p, [a1 EXCEPT !.all = old], i, bm)
    ELSE IF tb = None \/ i.sect[ND] # 0 THEN Panic
    ELSE AllocBlocks(p, [a1 EXCEPT !.all = old, !.tab = TRUE],
                     [i EXCEPT !.sect[ND] = tb], bm \cup {tb})

\* sys_write on a descriptor opened for writing; a write that would exceed the
\* largest file is refused.  The first block is taken before the others.
sys_write(p, count) ==
    LET i == mem[FileOf[p]]
        a == [User EXCEPT !.op = "write", !.left = count]
        b == FreeBit(bmap) IN
    /\ At(p, "user") /\ pos[p] # Closed /\ ModeOf[p] = "w"
    /\ i.size + count <= MaxBlk * BLOCK_SIZE /\ i.size + count <= MaxSize[FileOf[p]]
    /\ IF i.sect[0] # 0 THEN Collect(p, a, i, bmap)
       ELSE IF b \in {None, 0} THEN Panic
       ELSE /\ Go(p, [a EXCEPT !.pc = "sync", !.bit = b],
                  [i EXCEPT !.sect[0] = b], bmap \cup {b})
            /\ UNCHANGED <<pos, panic>>
    /\ UNCHANGED <<device, history>>

\* The last block has been read: the chunk is put behind the old bytes.
block_read(p) ==
    /\ At(p, "block_r")
    /\ LET a == at[p]
           i == mem[FileOf[p]] IN
       at' = [at EXCEPT ![p] = [a EXCEPT !.pc = "block_w",
                                         !.buf = disk[a.all[i.size \div BLOCK_SIZE]]]]
    /\ UNCHANGED <<mem, bmap, pos, panic, device, history>>

\* A chunk has been written to block i_size / BLOCK_SIZE; the size follows,
\* then the next chunk, in an empty buffer, or the inode.
block_written(p) ==
    /\ At(p, "block_w")
    /\ LET a     == at[p]
           f     == FileOf[p]
           i     == mem[f]
           off   == i.size % BLOCK_SIZE
           chunk == Smaller(a.left, BLOCK_SIZE - off)
           new   == [i EXCEPT !.size = @ + chunk]
           a1    == [a EXCEPT !.left = @ - chunk, !.buf = Blank] IN
       /\ disk' = [disk EXCEPT ![a.all[i.size \div BLOCK_SIZE]] =
                      [c \in Cell |-> IF c \in off..(off + chunk - 1)
                                      THEN Byte(f, i.size + c - off) ELSE a.buf[c]]]
       /\ pos' = [pos EXCEPT ![p] = (@ + chunk) % Word]
       /\ IF a1.left > 0 THEN Go(p, a1, new, bmap) ELSE SyncInode(p, a1, new, bmap)
       /\ safe' = IF at'[p] = User THEN [safe EXCEPT ![f] = new.size] ELSE safe
    /\ UNCHANGED <<panic, entry, dinode, dmap, life, crashes>>

\* inode_sync and inode_delete read the sectors the inode is in, change it and
\* write them back.  The driver's channel keeps other calls off the disk from
\* the read to the write, so the other inodes of the sectors stay as they are.
inode_read(p) ==
    /\ At(p, "inode_r")
    /\ at' = [at EXCEPT ![p].pc = "inode_w"]
    /\ UNCHANGED <<mem, bmap, pos, panic, device, history>>

inode_written(p) ==
    /\ At(p, "inode_w")
    /\ LET a == at[p]
           f == FileOf[p] IN
       /\ dinode' = [dinode EXCEPT ![f] = a.pure]
       /\ safe' = [safe EXCEPT ![f] = a.pure.size]
       /\ at' = [at EXCEPT ![p] = User]
    /\ UNCHANGED <<mem, bmap, pos, panic, entry, disk, dmap, life, crashes>>

\* Of an inode that crosses two sectors the first may be stored alone.
TwoSec(p) == at[p].pc = "inode_w" /\ Cut[FileOf[p]] <= ND
Torn(p) == [at[p].pure EXCEPT !.sect = [k \in 0..ND |->
               IF k < Cut[FileOf[p]] THEN @[k] ELSE dinode[FileOf[p]].sect[k]]]

-----------------------------------------------------------------------------
(* inode_release frees the blocks one by one, the table first.              *)

\* Mutant: blocks of the table are not freed.
FreeBlocks_Direct(p, a, i, bm) ==
    LET k == Least({j \in Index : j >= a.next /\ j < ND /\ a.all[j] # 0}) IN
    IF k = None THEN inode_sync(p, a, i, bm, NoInode)
    ELSE Go(p, [a EXCEPT !.pc = "sync", !.bit = a.all[k], !.next = k + 1],
            i, bm \ {a.all[k]})

\* The blocks from index a.next on; after the last one inode_delete writes
\* zeros over the inode.
FreeBlocks(p, a, i, bm) ==
    LET k == Least({j \in Index : j >= a.next /\ a.all[j] # 0}) IN
    IF k = None THEN inode_sync(p, a, i, bm, NoInode)
    ELSE Go(p, [a EXCEPT !.pc = "sync", !.bit = a.all[k], !.next = k + 1],
            i, bm \ {a.all[k]})

\* sys_unlink of a file that is not open: the directory entry goes first.
sys_unlink(p) ==
    LET f == FileOf[p]
        i == dinode[f]
        a == [User EXCEPT !.op = "unlink",
                          !.all = [k \in Index |-> IF k < ND THEN i.sect[k] ELSE 0]] IN
    /\ At(p, "user") /\ entry[f] /\ ~Opened(f)
    /\ entry' = [entry EXCEPT ![f] = FALSE]
    /\ safe' = [safe EXCEPT ![f] = 0]
    /\ IF i.sect[ND] # 0 THEN Go(p, [a EXCEPT !.pc = "table_r"], i, bmap)
       ELSE FreeBlocks(p, a, i, bmap)
    /\ UNCHANGED <<dinode, disk, dmap, pos, panic, life, crashes>>

-----------------------------------------------------------------------------
(* file_read *)

\* The addresses of the blocks from fd_pos to the end of the read; one ASSERT
\* wants both below the last index.
sys_read(p, count) ==
    LET i     == mem[FileOf[p]]
        size  == IF (pos[p] + count) % Word > i.size THEN (i.size - pos[p]) % Word
                 ELSE count
        start == pos[p] \div BLOCK_SIZE
        end   == ((pos[p] + size) % Word) \div BLOCK_SIZE
        a     == [User EXCEPT !.op = "read", !.left = size, !.start = pos[p],
                     !.all = [k \in Index |-> IF k \in start..end /\ k < ND
                                              THEN i.sect[k] ELSE 0]] IN
    /\ At(p, "user") /\ pos[p] # Closed
    /\ size > 0                 \* otherwise -1: end of file
    /\ IF start >= MaxBlk - 1 \/ end >= MaxBlk - 1 \/ (end >= ND /\ start < end /\ i.sect[ND] = 0)
       THEN Panic
       ELSE /\ Go(p, [a EXCEPT !.pc = IF end < ND THEN "chunk" ELSE "table_r"], i, bmap)
            /\ UNCHANGED <<pos, panic>>
    /\ UNCHANGED <<device, history>>

\* Mutant: the offset in the block is that of the start of the read.
read_chunk_StartOffset(p) ==
    /\ At(p, "chunk") /\ at[p].left > 0
    /\ LET a     == at[p]
           off   == a.start % BLOCK_SIZE
           chunk == Smaller(a.left, BLOCK_SIZE - off)
           data  == disk[a.all[pos[p] \div BLOCK_SIZE]] IN
       /\ at' = [at EXCEPT ![p].left = @ - chunk,
                           ![p].got = @ \o [n \in 1..chunk |-> data[off + n - 1]]]
       /\ pos' = [pos EXCEPT ![p] = @ + chunk]
    /\ UNCHANGED <<mem, bmap, panic, device, history>>

\* One block has been read.
read_chunk(p) ==
    /\ At(p, "chunk") /\ at[p].left > 0
    /\ LET a     == at[p]
           off   == pos[p] % BLOCK_SIZE
           chunk == Smaller(a.left, BLOCK_SIZE - off)
           data  == disk[a.all[pos[p] \div BLOCK_SIZE]] IN
       /\ at' = [at EXCEPT ![p].left = @ - chunk,
                           ![p].got = @ \o [n \in 1..chunk |-> data[off + n - 1]]]
       /\ pos' = [pos EXCEPT ![p] = @ + chunk]
    /\ UNCHANGED <<mem, bmap, panic, device, history>>

read_return(p) ==
    /\ At(p, "chunk") /\ at[p].left = 0
    /\ at' = [at EXCEPT ![p] = User]
    /\ UNCHANGED <<mem, bmap, pos, panic, device, history>>

-----------------------------------------------------------------------------
(* Waits that several calls share *)

\* bitmap_sync is done; the call goes on.
bitmap_synced(p) ==
    LET a == at[p]
        i == mem[FileOf[p]] IN
    /\ At(p, "sync")
    /\ bitmap_sync(a.bit)
    /\ IF a.op = "unlink" THEN FreeBlocks(p, a, i, bmap) /\ UNCHANGED <<pos, panic>>
       ELSE IF a.will = 0 THEN Collect(p, a, i, bmap)
       ELSE AllocBlocks(p, a, i, bmap)
    /\ UNCHANGED <<entry, dinode, disk, history>>

\* The indirect table has been read into all_blocks + 12.
table_read(p) ==
    LET i == mem[FileOf[p]]
        a == [at[p] EXCEPT !.all = [k \in Index |-> IF k < ND THEN @[k]
                                                    ELSE disk[i.sect[ND]][k - ND]]] IN
    /\ At(p, "table_r")
    /\ CASE a.op = "write" -> AllocBlocks(p, a, i, bmap)
         [] a.op = "read" -> /\ Go(p, [a EXCEPT !.pc = "chunk"], i, bmap)
                             /\ UNCHANGED <<pos, panic>>
         [] a.op = "unlink" ->
              /\ Go(p, [a EXCEPT !.pc = "sync", !.bit = i.sect[ND]], i, bmap \ {i.sect[ND]})
              /\ UNCHANGED <<pos, panic>>
    /\ UNCHANGED <<device, history>>

table_written(p) ==
    LET i == mem[FileOf[p]] IN
    /\ At(p, "table_w")
    /\ disk' = [disk EXCEPT ![i.sect[ND]] =
                   [c \in Cell |-> IF c < NI THEN at[p].all[c + ND] ELSE 0]]
    /\ WriteData(p, at[p], i, bmap)
    /\ UNCHANGED <<entry, dinode, dmap, history>>

-----------------------------------------------------------------------------
\* sys_Iseek; a position outside the file is refused.
sys_Iseek(p, whence, offset) ==
    LET size == mem[FileOf[p]].size
        new  == offset + CASE whence = "SET" -> 0
                           [] whence = "CUR" -> pos[p]
                           [] whence = "END" -> size IN
    /\ At(p, "user") /\ pos[p] # Closed
    /\ new \in 0..(size - 1)
    /\ pos' = [pos EXCEPT ![p] = new]
    /\ UNCHANGED <<mem, bmap, at, panic, device, history>>

\* open, with or without O_CREAT: inode_open reads the inode unless the file
\* is open already.
Open(p) ==
    LET f == FileOf[p] IN
    /\ At(p, "user") /\ pos[p] = Closed
    /\ entry[f] \/ (~Opened(f) /\ ModeOf[p] = "w" /\ life[f] < MaxLives[f])
    /\ pos' = [pos EXCEPT ![p] = 0]
    /\ entry' = [entry EXCEPT ![f] = TRUE]
    /\ dinode' = IF entry[f] THEN dinode ELSE [dinode EXCEPT ![f] = NoInode]
    /\ life' = IF entry[f] THEN life ELSE [life EXCEPT ![f] = @ + 1]
    /\ mem' = IF Opened(f) THEN mem ELSE [mem EXCEPT ![f] = dinode'[f]]
    /\ UNCHANGED <<disk, dmap, bmap, at, panic, safe, crashes>>

Close(p) ==
    /\ At(p, "user") /\ pos[p] # Closed
    /\ pos' = [pos EXCEPT ![p] = Closed]
    /\ mem' = IF \E q \in Procs \ {p} : FileOf[q] = FileOf[p] /\ pos[q] # Closed
              THEN mem ELSE [mem EXCEPT ![FileOf[p]] = NoInode]
    /\ UNCHANGED <<bmap, at, panic, device, history>>

\* The power goes, perhaps between the two sectors of an inode; after the boot
\* the partition is mounted again.
PowerLoss ==
    /\ crashes < MaxCrashes
    /\ crashes' = crashes + 1
    /\ bmap' = dmap
    /\ mem' = [f \in Files |-> NoInode]
    /\ pos' = [p \in Procs |-> Closed]
    /\ at' = [p \in Procs |-> User]
    /\ panic' = FALSE
    /\ \/ UNCHANGED dinode
       \/ \E p \in Procs : TwoSec(p) /\ dinode' = [dinode EXCEPT ![FileOf[p]] = Torn(p)]
    /\ UNCHANGED <<entry, disk, dmap, life, safe>>

Init ==
    /\ entry = [f \in Files |-> FALSE]
    /\ dinode = [f \in Files |-> NoInode]
    /\ mem = [f \in Files |-> NoInode]
    /\ disk = [b \in Bits |-> Blank]
    /\ bmap = {0} /\ dmap = {0}
    /\ pos = [p \in Procs |-> Closed]
    /\ at = [p \in Procs |-> User]
    /\ panic = FALSE
    /\ life = [f \in Files |-> 0]
    /\ safe = [f \in Files |-> 0]
    /\ crashes = 0

Next ==
    \/ PowerLoss
    \/ \E p \in Procs :
        \/ Open(p) \/ Close(p) \/ sys_unlink(p)
        \/ \E n \in Writes[p] : sys_write(p, n)
        \/ \E n \in Reads[p] : sys_read(p, n)
        \/ \E w \in {"SET", "CUR", "END"}, o \in Offsets[p] : sys_Iseek(p, w, o)
        \/ bitmap_synced(p) \/ table_read(p) \/ table_written(p)
        \/ block_read(p) \/ block_written(p)
        \/ inode_read(p) \/ inode_written(p)
        \/ read_chunk(p) \/ read_return(p)

Spec == Init /\ [][Next]_vars

-----------------------------------------------------------------------------
(* Properties *)

View(f) == IF Opened(f) THEN mem[f] ELSE dinode[f]

BlockOf(i, k) == IF k < ND THEN i.sect[k]
                 ELSE IF i.sect[ND] = 0 THEN 0 ELSE disk[i.sect[ND]][k - ND]

\* The bytes a reader of the file gets
Content(f) ==
    IF ~entry[f] THEN << >>
    ELSE [n \in 1..View(f).size |->
             disk[BlockOf(View(f), (n - 1) \div BLOCK_SIZE)][(n - 1) % BLOCK_SIZE]]

\* No ASSERT of file_write, file_read or bitmap_scan fails: a block is there
\* exactly if the size says so, and the table exists from the byte on that
\* fills the last direct block.
NoPanic == ~panic

\* Indices with a block; until a write has stored a new table, the bytes tell.
Uses(f) == {k \in Index : /\ \/ k * BLOCK_SIZE < View(f).size \/ k < ND
                             \/ \A p \in Procs : FileOf[p] = f => at[p].op # "write"
                          /\ BlockOf(View(f), k) # 0}
Blocks(f) == {BlockOf(View(f), k) : k \in Uses(f)} \cup ({View(f).sect[ND]} \ {0})
Resting == \A p \in Procs : at[p].op \in {"none", "read"}

\* A block belongs to one file, once, and lies in the partition; it is marked
\* in the bitmap, so nobody else is given it.  When no call is under way and
\* the power has not gone, every marked block belongs to a file, and the
\* bitmap on disk is the one in memory.
BlocksExact ==
    LET there == {f \in Files : entry[f]} IN
    /\ \A f \in there : /\ Cardinality(Blocks(f)) =
                             Cardinality(Uses(f)) + (IF View(f).sect[ND] = 0 THEN 0 ELSE 1)
                        /\ Blocks(f) \subseteq bmap \cap 1..(NBlocks - 1)
    /\ \A f, g \in there : f # g => Blocks(f) \cap Blocks(g) = {}
    /\ Resting => dmap = bmap
    /\ Resting /\ crashes = 0 => bmap = {0} \cup UNION {Blocks(f) : f \in there}

\* What a read has copied so far is what was written there, also while the
\* file is being appended to.
ReadReturnsWritten ==
    \A p \in Procs : at[p].op = "read" =>
        LET a == at[p] IN
        a.got = SubSeq(Content(FileOf[p]), a.start + 1, a.start + Len(a.got))

\* The blocks, tables and inodes together behave as append-only byte
\* sequences; a write that returned is safe from a loss of power, and one that
\* had not leaves a prefix.
Promise == INSTANCE AppendFile WITH content <- [f \in Files |-> Content(f)], safe <- safe
ImplementsAppendFile == Promise!Spec
=============================================================================
