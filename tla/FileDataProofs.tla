--------------------------- MODULE FileDataProofs ---------------------------
(***************************************************************************)
(* Theorems about the contents of files (module FileData).                 *)
(*                                                                         *)
(* The argument is about who owns a block.  A file owns what its inode and *)
(* its table on disk name, and what a call under way has taken for it or   *)
(* has still to free.  No block is owned twice, so what is written for one *)
(* file changes no byte, no table and no inode of another one.             *)
(***************************************************************************)
EXTENDS FileData, KernelFacts, FiniteSetTheorems, SequenceTheorems

\* What the theorems ask of the constants; without any one of these the code
\* fails (see the README).  A file has one writer, nobody writes 0 bytes, a
\* file ends before the last block, the sum of position and count fits in a
\* word, an inode lies in one sector, block_bitmap has one sector, and
\* sys_malloc finds memory.
Usual ==
    /\ \A p, q \in Procs : FileOf[p] = FileOf[q] /\ ModeOf[p] = "w" /\ ModeOf[q] = "w" => p = q
    /\ \A p \in Procs : 0 \notin Writes[p]
    /\ \A f \in Files : MaxSize[f] < (MaxBlk - 1) * BLOCK_SIZE
    /\ \A p \in Procs : \A n \in Reads[p] : n + MaxSize[FileOf[p]] < Word
    /\ \A f \in Files : Cut[f] = ND + 1
    /\ NBlocks < BitsPerSec
    /\ ~HeapFull

InPartition == 1..(NBlocks - 1)

\* Two blocks of the partition are free.
Room == \E b, c \in InPartition \ bmap : b # c

-----------------------------------------------------------------------------
(* The inductive invariant                                                  *)

Inode == [size : Nat, sect : [0..ND -> Bits]]
Pcs == {"user", "sync", "table_r", "table_w", "block_r", "block_w", "inode_r", "inode_w", "chunk"}
Frame == [pc : Pcs, op : {"none", "read", "write", "unlink"}, left : Nat, will : Nat,
          next : Nat, bit : Nat, all : [Index -> Nat], tab : BOOLEAN, buf : [Cell -> Nat],
          pure : Inode, start : Nat, got : Seq(Nat)]

TypeOK ==
    /\ entry \in [Files -> BOOLEAN]
    /\ dinode \in [Files -> Inode] /\ mem \in [Files -> Inode]
    /\ disk \in [Bits -> [Cell -> Nat]]
    /\ bmap \subseteq Bits /\ dmap \subseteq Bits /\ 0 \in bmap /\ 0 \in dmap
    /\ pos \in [Procs -> Nat \cup {Closed}]
    /\ at \in [Procs -> Frame]
    /\ life \in [Files -> Nat] /\ safe \in [Files -> Nat]
    /\ crashes \in Nat /\ panic \in BOOLEAN

\* The slots of a file: its blocks, and the table at MaxBlk
TableSlots == ND..(MaxBlk - 1)

\* Block b is in slot k of inode i; of the table of i, on disk dk
InInode(i, k, b) == \/ k \in 0..(ND - 1) /\ b = i.sect[k]
                    \/ k = MaxBlk /\ b = i.sect[ND]
InTable(dk, i, k, b) == i.sect[ND] # 0 /\ k \in TableSlots /\ b = dk[i.sect[ND]][k - ND]
OnDisk(dk, i, k, b) == InInode(i, k, b) \/ InTable(dk, i, k, b)

\* file_write holds the addresses of the table in all_blocks.
Filling(a) == a.will # 0 /\ a.pc \in {"sync", "table_w"}

\* A call with local variables a, and the inode i in memory, has block b in
\* hand for slot k.
InHand(dk, a, i, k, b) ==
    \/ /\ a.op = "write"
       /\ \/ InInode(i, k, b)
          \/ Filling(a) /\ k \in TableSlots /\ b = a.all[k]
          \/ ~Filling(a) /\ InTable(dk, i, k, b)
    \/ /\ a.op = "unlink"
       /\ \/ a.pc = "table_r" /\ OnDisk(dk, i, k, b)
          \/ a.pc = "sync" /\ k \in Index /\ k >= a.next /\ b = a.all[k]

\* File f owns block b, in slot k.
Owns(f, k, b) ==
    /\ b # 0
    /\ \/ entry[f] /\ OnDisk(disk, dinode[f], k, b)
       \/ \E p \in Procs : FileOf[p] = f /\ InHand(disk, at[p], mem[f], k, b)

OwnedOnce == \A f, g \in Files : \A j, k, b : Owns(f, j, b) /\ Owns(g, k, b) => f = g /\ j = k
OwnedMarked == \A f \in Files : \A k, b : Owns(f, k, b) => b \in bmap /\ b \in InPartition

\* The bitmap on disk knows of every block the disk names, and of those a
\* write has taken, except while it waits for bitmap_sync.
KnownOnDisk ==
    /\ \A f \in Files : \A k, b : entry[f] /\ b # 0 /\ OnDisk(disk, dinode[f], k, b) => b \in dmap
    /\ \A p \in Procs : \A k, b :
          at[p].op = "write" /\ at[p].pc # "sync" /\ b # 0
          /\ InHand(disk, at[p], mem[FileOf[p]], k, b) => b \in dmap
MapsAgree == (\A p \in Procs : at[p].pc # "sync") => dmap = bmap

\* Before the first loss of power no block is lost.
AllOwned == crashes = 0 => \A b \in bmap \ {0} : \E f \in Files : \E k : Owns(f, k, b)

\* i has a block at the direct indices below n, and a table if t needs one.
Shape(i, n, t) == /\ \A k \in 0..(ND - 1) : i.sect[k] # 0 <=> k < n
                  /\ i.sect[ND] # 0 <=> t > ND
Count(i) == IF i.size = 0 THEN 0 ELSE has_used(i.size)
\* The table has a block at the indices below n; and no others.
Full(dk, i, n) == i.sect[ND] # 0 => \A k \in TableSlots : k < n => dk[i.sect[ND]][k - ND] # 0
NoMore(dk, i, n, cr) ==
    cr = 0 /\ i.sect[ND] # 0 => \A k \in TableSlots : k >= n => dk[i.sect[ND]][k - ND] = 0

Busy(p) == at[p].op \in {"write", "unlink"}
Whole(dk, i, m) == Shape(i, Count(i), Count(i)) /\ Full(dk, i, Count(i)) /\ i.size <= m

\* A file is whole on disk.  One call at a time changes it, and while there is
\* none the inode in memory is the one on disk.
FileOK(f) ==
    /\ entry[f] => Whole(disk, dinode[f], MaxSize[f]) /\ safe[f] = dinode[f].size
    /\ ~entry[f] => safe[f] = 0
    /\ entry[f] /\ (\A p \in Procs : FileOf[p] = f => ~Busy(p)) =>
          /\ Opened(f) => mem[f] = dinode[f]
          /\ NoMore(disk, dinode[f], Count(dinode[f]), crashes)
    /\ \A p, q \in Procs : FileOf[p] = f /\ FileOf[q] = f /\ Busy(p) /\ Busy(q) => p = q

\* A write of inode i on disk d continues what is there, up to m bytes.
Grows(a, i, d, m) ==
    /\ i.size + a.left <= m /\ d.size <= i.size /\ i.size + a.left > 0
    /\ \A k \in 0..ND : d.sect[k] # 0 => d.sect[k] = i.sect[k]

\* The blocks up to a.next are collected.
Fill(a, i, d, dk, cr) ==
    LET has == has_used(i.size) IN
    /\ i.size = d.size /\ a.left > 0
    /\ a.will = has_used(i.size + a.left) /\ has <= a.next /\ a.next <= a.will
    /\ Shape(i, a.next, a.will)
    /\ \A k \in Index : has - 1 <= k /\ k < a.next => a.all[k] # 0 /\ (k < ND => a.all[k] = i.sect[k])
    /\ d.sect[ND] # 0 => \A k \in TableSlots : k < has => a.all[k] = dk[d.sect[ND]][k - ND]
    /\ d.sect[ND] # 0 /\ cr = 0 => \A k \in TableSlots : dk[d.sect[ND]][k - ND] \in {0, a.all[k]}
    /\ d.sect[ND] = 0 \/ cr = 0 => \A k \in TableSlots : k >= a.next => a.all[k] = 0
    /\ a.tab <=> a.will > ND /\ a.will > has

\* The address of block k
Blk(dk, i, k) == IF k < ND THEN i.sect[k] ELSE IF i.sect[ND] = 0 THEN 0 ELSE dk[i.sect[ND]][k - ND]

\* The blocks are there, and fd_pos is one byte before the end.
Ready(a, i, dk, cr, ps) ==
    /\ a.will = has_used(i.size + a.left)
    /\ Shape(i, a.will, a.will) /\ Full(dk, i, a.will) /\ NoMore(dk, i, a.will, cr)
    /\ ps = IF i.size = 0 THEN Word - 1 ELSE i.size - 1

\* The addresses of the blocks still to be written are collected.
Listed(a, i, dk) == \A k \in Index : i.size \div BLOCK_SIZE <= k /\ k < a.will => a.all[k] = Blk(dk, i, k)

Step1(a, i, d) ==
    /\ a.pc = "sync" /\ a.will = 0 /\ ~a.tab /\ a.left > 0
    /\ i.size = 0 /\ d.size = 0 /\ Shape(i, 1, 0)
Step2(a, i, d, dk, cr) ==
    /\ a.pc = "table_r" /\ a.left > 0 /\ i = d /\ a.next = has_used(i.size) /\ a.next > ND
    /\ a.will = has_used(i.size + a.left) /\ (a.tab <=> a.will > a.next)
    /\ NoMore(dk, i, a.next, cr)
Step3(a, i, d, dk, cr) ==
    /\ Filling(a) /\ Fill(a, i, d, dk, cr) /\ a.next > has_used(i.size)
    /\ a.pc = "table_w" => a.next = a.will /\ a.tab
Step4(a, i, d, dk, cr, ps) ==
    /\ a.pc \in {"block_r", "block_w"} /\ a.left > 0
    /\ Ready(a, i, dk, cr, ps) /\ Listed(a, i, dk)
    /\ a.pc = "block_r" => i.size = d.size
    /\ a.pc = "block_w" => \A c \in Cell : c < i.size % BLOCK_SIZE =>
                              a.buf[c] = dk[Blk(dk, i, i.size \div BLOCK_SIZE)][c]
Step5(a, i, dk, cr, ps) ==
    a.pc \in {"inode_r", "inode_w"} /\ a.left = 0 /\ Ready(a, i, dk, cr, ps) /\ a.pure = i

\* file_write, from the first block to inode_sync
Writing(a, i, d, dk, cr, ps, m) ==
    /\ Grows(a, i, d, m)
    /\ \/ Step1(a, i, d) \/ Step2(a, i, d, dk, cr) \/ Step3(a, i, d, dk, cr)
       \/ Step4(a, i, d, dk, cr, ps) \/ Step5(a, i, dk, cr, ps)

WriteOK(p) ==
    at[p].op = "write" =>
        /\ pos[p] # Closed /\ ModeOf[p] = "w"
        /\ Writing(at[p], mem[FileOf[p]], dinode[FileOf[p]], disk, crashes, pos[p], MaxSize[FileOf[p]])

\* The end of a file that nobody can open any more
Deleting(a, i) ==
    /\ a.pc \in {"table_r", "sync", "inode_r", "inode_w"}
    /\ a.pc = "table_r" => /\ a.next = 0 /\ i.sect[ND] # 0
                           /\ \A k \in Index : a.all[k] = IF k < ND THEN i.sect[k] ELSE 0
    /\ a.pc \in {"inode_r", "inode_w"} => a.pure = NoInode
DeleteOK(p) ==
    at[p].op = "unlink" =>
        /\ ~entry[FileOf[p]] /\ \A q \in Procs : FileOf[q] = FileOf[p] => pos[q] = Closed
        /\ Deleting(at[p], mem[FileOf[p]])

\* Byte x of a file with inode i
Data(dk, i, x) == dk[Blk(dk, i, x \div BLOCK_SIZE)][x % BLOCK_SIZE]

\* What is copied is what the file holds, and the addresses of the rest are
\* the ones of its blocks.
Reading(a, i, dk, ps) ==
    LET n == Len(a.got) IN
    /\ a.pc \in {"table_r", "chunk"}
    /\ ps = a.start + n /\ ps + a.left <= i.size
    /\ \A x \in ps..(ps + a.left - 1) :
          LET k == x \div BLOCK_SIZE IN a.pc = "chunk" \/ k < ND => a.all[k] = Blk(dk, i, k)
    /\ a.pc = "table_r" => i.sect[ND] # 0
    /\ \A m \in 1..n : a.got[m] = Data(dk, i, a.start + m - 1)
ReadOK(p) == at[p].op = "read" => Reading(at[p], mem[FileOf[p]], disk, pos[p])

CallOK(p) ==
    /\ at[p].op = "none" <=> at[p].pc = "user"
    /\ at[p].pc = "user" => at[p] = User
    /\ at[p].pc = "sync" => at[p].bit \in Bits
    /\ at[p].op = "read" => pos[p] # Closed
    /\ pos[p] # Closed => entry[FileOf[p]]
    /\ pos[p] # Closed /\ at[p].op # "write" => pos[p] <= mem[FileOf[p]].size

Inv == /\ TypeOK /\ ~panic
       /\ OwnedOnce /\ OwnedMarked /\ KnownOnDisk /\ MapsAgree /\ AllOwned
       /\ \A f \in Files : FileOK(f)
       /\ \A p \in Procs : CallOK(p) /\ WriteOK(p) /\ DeleteOK(p) /\ ReadOK(p)

-----------------------------------------------------------------------------
(* Numbers                                                                  *)

\* What DataAssumption says of the numbers and functions
LEMMA Consts ==
    /\ ND \in Nat /\ ND > 0 /\ NI \in Nat /\ NI > 0 /\ MaxBlk = ND + NI /\ MaxBlk \in Nat
    /\ BLOCK_SIZE \in Nat /\ BLOCK_SIZE > 0 /\ NBlocks \in Nat /\ NBlocks > 0
    /\ BitsPerSec \in Nat /\ BitsPerSec > 0 /\ Word \in Nat /\ Word > MaxBlk * BLOCK_SIZE
    /\ Files \subseteq Nat /\ \A f \in Files : MaxSize[f] \in Nat
    /\ \A p \in Procs : FileOf[p] \in Files /\ ModeOf[p] \in {"r", "w"}
    /\ \A p \in Procs : Writes[p] \subseteq Nat /\ Reads[p] \subseteq Nat /\ Offsets[p] \subseteq Int
<1>1. {BLOCK_SIZE, ND, NI, NBlocks, BitsPerSec, Word} \subseteq Nat \ {0}
  BY DataAssumption
<1>2. ND \in Nat /\ NI \in Nat /\ MaxBlk = ND + NI /\ MaxBlk \in Nat
  BY <1>1 DEF MaxBlk
<1>3. \A f \in Files : MaxSize[f] \in Nat
  BY DataAssumption
<1>4. \A p \in Procs : Writes[p] \subseteq Nat /\ Reads[p] \subseteq Nat
  BY DataAssumption
<1> QED BY <1>1, <1>2, <1>3, <1>4, DataAssumption

\* Slots and cells
LEMMA Ranges ==
    /\ Index = 0..(ND + NI - 1) /\ TableSlots = ND..(ND + NI - 1)
    /\ \A k \in TableSlots : k - ND \in Cell /\ k - ND < NI /\ k \in Index
    /\ \A c \in Nat : c < BLOCK_SIZE => c \in Cell
    /\ \A c \in Cell : c \in Nat
    /\ Bits = 0..NBlocks /\ 0 \in Bits /\ InPartition \subseteq Bits
<1>1. /\ ND \in Nat /\ ND > 0 /\ NI \in Nat /\ NI > 0 /\ BLOCK_SIZE \in Nat /\ BLOCK_SIZE > 0
      /\ NBlocks \in Nat
  BY Consts
<1>2. Index = 0..(ND + NI - 1) /\ TableSlots = ND..(ND + NI - 1)
  BY <1>1, Consts DEF Index, TableSlots
<1>3. \A c \in Int : c \in Cell <=> 0 <= c /\ (c < BLOCK_SIZE \/ c < NI)
  BY <1>1 DEF Cell
<1>4. \A c \in Cell : c \in Nat
  BY <1>1 DEF Cell
<1>5. \A k \in TableSlots : k - ND \in Cell /\ k - ND < NI /\ k \in Index
  BY <1>1, <1>2, <1>3
<1>6. Bits = 0..NBlocks /\ 0 \in Bits /\ InPartition \subseteq Bits
  BY <1>1 DEF Bits, InPartition
<1> QED BY <1>2, <1>3, <1>4, <1>5, <1>6

\* Quotient and remainder
LEMMA Div ==
    ASSUME NEW n \in Nat
    PROVE  /\ n \div BLOCK_SIZE \in Nat /\ n % BLOCK_SIZE \in Nat /\ n % BLOCK_SIZE < BLOCK_SIZE
           /\ n = BLOCK_SIZE * (n \div BLOCK_SIZE) + (n % BLOCK_SIZE)
<1>1. BLOCK_SIZE \in Nat /\ BLOCK_SIZE > 0
  BY Consts
<1>2. n \div BLOCK_SIZE \in Nat /\ n % BLOCK_SIZE \in Nat /\ n % BLOCK_SIZE < BLOCK_SIZE
  BY <1>1
<1>3. n = BLOCK_SIZE * (n \div BLOCK_SIZE) + (n % BLOCK_SIZE)
  BY <1>1, SMTT(30)
<1> QED BY <1>2, <1>3

\* Quotient and remainder are the only numbers that add up.
LEMMA DivOnly ==
    ASSUME NEW b \in Nat, NEW q \in Nat, NEW r \in Nat, NEW s \in Nat, NEW t \in Nat,
           b > 0, r < b, t < b, b * q + r = b * s + t
    PROVE  q = s /\ r = t
<1>1. CASE q < s
  <2>1. PICK d \in Nat : s = q + 1 + d
    <3>1. s - q - 1 \in Nat /\ s = q + 1 + (s - q - 1)
      BY <1>1
    <3> QED BY <3>1
  <2>2. b * s = b * q + b + b * d /\ b * d \in Nat /\ b * q \in Nat
    BY <2>1
  <2> QED BY <2>2
<1>2. CASE s < q
  <2>1. PICK d \in Nat : q = s + 1 + d
    <3>1. q - s - 1 \in Nat /\ q = s + 1 + (q - s - 1)
      BY <1>2
    <3> QED BY <3>1
  <2>2. b * q = b * s + b + b * d /\ b * d \in Nat /\ b * s \in Nat
    BY <2>1
  <2> QED BY <2>2
<1>3. CASE q = s
  BY <1>3
<1> QED BY <1>1, <1>2, <1>3

\* Quotient and remainder are what makes up the number.
LEMMA DivIs ==
    ASSUME NEW n \in Nat, NEW q \in Nat, NEW r \in Nat, r < BLOCK_SIZE, n = BLOCK_SIZE * q + r
    PROVE  n \div BLOCK_SIZE = q /\ n % BLOCK_SIZE = r
<1> DEFINE s == n \div BLOCK_SIZE
           t == n % BLOCK_SIZE
<1>1. s \in Nat /\ t \in Nat /\ t < BLOCK_SIZE /\ n = BLOCK_SIZE * s + t
  BY Div
<1>2. BLOCK_SIZE \in Nat /\ BLOCK_SIZE > 0
  BY Consts
<1> HIDE DEF s, t
<1>3. q = s /\ r = t
  BY <1>1, <1>2, DivOnly
<1> QED BY <1>3 DEF s, t

\* A longer file has as many blocks or more.
LEMMA DivLe ==
    ASSUME NEW m \in Nat, NEW n \in Nat, m <= n
    PROVE  m \div BLOCK_SIZE <= n \div BLOCK_SIZE
<1> DEFINE q == m \div BLOCK_SIZE
           r == m % BLOCK_SIZE
           s == n \div BLOCK_SIZE
           t == n % BLOCK_SIZE
           b == BLOCK_SIZE
<1>1. /\ q \in Nat /\ r \in Nat /\ r < b /\ m = b * q + r
      /\ s \in Nat /\ t \in Nat /\ t < b /\ n = b * s + t
      /\ b \in Nat
  BY Div, Consts
<1> HIDE DEF q, r, s, t, b
<1>2. CASE s < q
  <2>1. PICK d \in Nat : q = s + 1 + d
    <3>1. q - s - 1 \in Nat /\ q = s + 1 + (q - s - 1)
      BY <1>1, <1>2
    <3> QED BY <3>1
  <2>2. b * q = b * s + b + b * d /\ b * d \in Nat /\ b * s \in Nat
    BY <1>1, <2>1
  <2> QED BY <1>1, <2>2
<1> QED BY <1>1, <1>2 DEF q, s

\* The byte at n is in block k or behind it, if and only if n is k blocks or more.
LEMMA DivBlock ==
    ASSUME NEW k \in Nat, NEW n \in Nat
    PROVE  k * BLOCK_SIZE <= n <=> k <= n \div BLOCK_SIZE
<1> DEFINE s == n \div BLOCK_SIZE
           t == n % BLOCK_SIZE
           b == BLOCK_SIZE
<1>1. s \in Nat /\ t \in Nat /\ t < b /\ n = b * s + t /\ b \in Nat
  BY Div, Consts
<1> HIDE DEF s, t, b
<1>2. CASE s < k
  <2>1. PICK d \in Nat : k = s + 1 + d
    <3>1. k - s - 1 \in Nat /\ k = s + 1 + (k - s - 1)
      BY <1>1, <1>2
    <3> QED BY <3>1
  <2>2. k * b = b * s + b + b * d /\ b * d \in Nat /\ b * s \in Nat
    BY <1>1, <2>1
  <2> QED BY <1>1, <1>2, <2>2 DEF s, b
<1>3. CASE k <= s
  <2>1. PICK d \in Nat : s = k + d
    <3>1. s - k \in Nat /\ s = k + (s - k)
      BY <1>1, <1>3
    <3> QED BY <3>1
  <2>2. b * s = k * b + b * d /\ b * d \in Nat /\ k * b \in Nat
    BY <1>1, <2>1
  <2> QED BY <1>1, <1>3, <2>2 DEF s, b
<1> QED BY <1>1, <1>2, <1>3

\* The bytes that fit into the block of byte n, and the first one behind it
LEMMA DivAdd ==
    ASSUME NEW n \in Nat, NEW c \in Nat, (n % BLOCK_SIZE) + c <= BLOCK_SIZE
    PROVE  LET q == n \div BLOCK_SIZE  r == n % BLOCK_SIZE IN
           /\ r + c < BLOCK_SIZE => (n + c) \div BLOCK_SIZE = q /\ (n + c) % BLOCK_SIZE = r + c
           /\ r + c = BLOCK_SIZE => (n + c) \div BLOCK_SIZE = q + 1 /\ (n + c) % BLOCK_SIZE = 0
<1> DEFINE q == n \div BLOCK_SIZE
           r == n % BLOCK_SIZE
<1>1. q \in Nat /\ r \in Nat /\ r < BLOCK_SIZE /\ n = BLOCK_SIZE * q + r
  BY Div
<1>2. BLOCK_SIZE \in Nat /\ BLOCK_SIZE > 0
  BY Consts
<1>a. r + c <= BLOCK_SIZE
  OBVIOUS
<1> SUFFICES /\ r + c < BLOCK_SIZE => (n + c) \div BLOCK_SIZE = q /\ (n + c) % BLOCK_SIZE = r + c
             /\ r + c = BLOCK_SIZE => (n + c) \div BLOCK_SIZE = q + 1 /\ (n + c) % BLOCK_SIZE = 0
  OBVIOUS
<1> HIDE DEF q, r
<1>3. CASE r + c < BLOCK_SIZE
  <2>1. n + c = BLOCK_SIZE * q + (r + c) /\ r + c \in Nat /\ n + c \in Nat
    BY <1>1, <1>2
  <2> QED BY <1>1, <1>3, <2>1, DivIs
<1>4. CASE r + c = BLOCK_SIZE
  <2>1. n + c = BLOCK_SIZE * (q + 1) + 0 /\ q + 1 \in Nat /\ n + c \in Nat
    <3>1. BLOCK_SIZE * (q + 1) = BLOCK_SIZE * q + BLOCK_SIZE /\ BLOCK_SIZE * q \in Nat
      BY <1>1, <1>2
    <3> QED BY <1>1, <1>2, <1>4, <3>1
  <2>2. (n + c) \div BLOCK_SIZE = q + 1 /\ (n + c) % BLOCK_SIZE = 0
    BY <1>2, <2>1, DivIs
  <2>3. ~(r + c < BLOCK_SIZE)
    BY <1>1, <1>2, <1>4
  <2> QED BY <2>2, <2>3
<1> QED BY <1>a, <1>3, <1>4, <1>1, <1>2

\* Of two bytes in one block, the earlier one is in an earlier cell.
LEMMA DivCell ==
    ASSUME NEW m \in Nat, NEW n \in Nat, m \div BLOCK_SIZE = n \div BLOCK_SIZE
    PROVE  m < n <=> m % BLOCK_SIZE < n % BLOCK_SIZE
<1> DEFINE q == n \div BLOCK_SIZE
           r == m % BLOCK_SIZE
           t == n % BLOCK_SIZE
           c == BLOCK_SIZE * q
<1>1. /\ r \in Nat /\ m = BLOCK_SIZE * (m \div BLOCK_SIZE) + r
      /\ q \in Nat /\ t \in Nat /\ n = BLOCK_SIZE * q + t
  BY Div
<1>2. m = c + r /\ n = c + t
  BY <1>1
<1>3. c \in Nat
  BY <1>1, Consts
<1> HIDE DEF q, r, t, c
<1> QED BY <1>1, <1>2, <1>3 DEF r, t

-----------------------------------------------------------------------------
(* The bitmap                                                               *)

\* Least is in its set, and below every other member.
LEMMA LeastFacts ==
    ASSUME NEW S, S \subseteq Nat, S # {}
    PROVE  Least(S) \in S /\ \A j \in S : Least(S) <= j
<1>1. \E i \in S : \A j \in S : i <= j
  BY LeastNat
<1>2. Least(S) = CHOOSE i \in S : \A j \in S : i <= j
  BY DEF Least
<1> QED BY <1>1, <1>2

\* With a free block in the partition the scan finds one there.
LEMMA FreeInPartition ==
    ASSUME NEW bm, 0 \in bm, NEW x \in InPartition, x \notin bm
    PROVE  FreeBit(bm) \in InPartition /\ FreeBit(bm) \notin bm /\ FreeBit(bm) \in Bits
           /\ FreeBit(bm) # None /\ FreeBit(bm) # 0
<1>1. x \in Bits \ bm /\ Bits \ bm \subseteq Nat
  BY Ranges
<1>2. FreeBit(bm) \in Bits \ bm /\ FreeBit(bm) <= x
  BY <1>1, LeastFacts DEF FreeBit
<1>3. FreeBit(bm) # 0
  BY <1>2
<1> QED BY <1>2, <1>3, Ranges, Consts DEF InPartition, None

\* file_write finds a block for the table and one for data.
LEMMA RoomFacts ==
    ASSUME TypeOK, Room
    PROVE  LET b == FreeBit(bmap)  c == FreeBit(bmap \cup {b}) IN
           /\ b \in InPartition /\ b \notin bmap /\ b \in Bits /\ b # None /\ b # 0
           /\ c \in InPartition /\ c \notin bmap /\ c # b /\ c \in Bits /\ c # None /\ c # 0
<1> DEFINE b == FreeBit(bmap)
<1>1. PICK x, y \in InPartition \ bmap : x # y
  BY DEF Room
<1>2. 0 \in bmap
  BY DEF TypeOK
<1>3. b \in InPartition /\ b \notin bmap /\ b \in Bits /\ b # None /\ b # 0
  BY <1>1, <1>2, FreeInPartition
<1>4. \E z \in InPartition : z \notin bmap \cup {b}
  BY <1>1
<1> HIDE DEF b
<1> DEFINE c == FreeBit(bmap \cup {b})
<1>5. /\ c \in InPartition /\ c \notin bmap \cup {b} /\ c \in Bits /\ c # None /\ c # 0
  <2>1. 0 \in bmap \cup {b}
    BY <1>2
  <2> QED BY <1>4, <2>1, FreeInPartition
<1> QED BY <1>3, <1>5 DEF b

\* A bitmap of one sector is written as a whole.
LEMMA SyncAll ==
    ASSUME Usual, TypeOK, NEW b \in Bits, bitmap_sync(b)
    PROVE  dmap' = bmap
<1>1. \A c \in Bits : c \div BitsPerSec = 0
  <2> TAKE c \in Bits
  <2>1. c \in Nat /\ c < BitsPerSec /\ BitsPerSec \in Nat
    BY Ranges, Consts DEF Usual
  <2> QED BY <2>1
<1> DEFINE sec == {c \in Bits : c \div BitsPerSec = b \div BitsPerSec}
<1>2. dmap' = (dmap \ sec) \cup (bmap \cap sec)
  BY DEF bitmap_sync
<1>3. sec = Bits
  BY <1>1
<1> HIDE DEF sec
<1>4. dmap \subseteq Bits /\ bmap \subseteq Bits
  BY DEF TypeOK
<1> QED BY <1>2, <1>3, <1>4

-----------------------------------------------------------------------------
(* Who owns a block                                                         *)

\* Of the processes on the file of p only p can be in a write or an unlink.
Alone(p) == \A q \in Procs : q # p /\ FileOf[q] = FileOf[p] => ~Busy(q)

\* Then the blocks of its file are those on disk and in its own hands,
LEMMA OwnsMine ==
    ASSUME NEW p \in Procs, Alone(p)
    PROVE  \A k, b : Owns(FileOf[p], k, b) <=>
              /\ b # 0
              /\ \/ entry[FileOf[p]] /\ OnDisk(disk, dinode[FileOf[p]], k, b)
                 \/ InHand(disk, at[p], mem[FileOf[p]], k, b)
<1> SUFFICES ASSUME NEW k, NEW b, NEW q \in Procs, FileOf[q] = FileOf[p], q # p
             PROVE  ~InHand(disk, at[q], mem[FileOf[p]], k, b)
  BY DEF Owns
<1> QED BY DEF Alone, Busy, InHand

\* also after a step of its own.
LEMMA OwnsMineNext ==
    ASSUME NEW p \in Procs, Alone(p), \A q \in Procs : q # p => at'[q] = at[q]
    PROVE  \A k, b : Owns(FileOf[p], k, b)' <=>
              /\ b # 0
              /\ \/ entry'[FileOf[p]] /\ OnDisk(disk', dinode'[FileOf[p]], k, b)
                 \/ InHand(disk', at'[p], mem'[FileOf[p]], k, b)
<1> SUFFICES ASSUME NEW k, NEW b, NEW q \in Procs, FileOf[q] = FileOf[p], q # p
             PROVE  ~InHand(disk', at[q], mem'[FileOf[p]], k, b)
  BY DEF Owns
<1> QED BY DEF Alone, Busy, InHand

\* A process that writes or deletes a file is the only one.
LEMMA BusyAlone ==
    ASSUME Inv, NEW p \in Procs, Busy(p)
    PROVE  Alone(p)
<1>1. FileOf[p] \in Files
  BY Consts
<1> QED BY <1>1 DEF Inv, FileOK, Alone

\* While a file is there, the inode in use is the one on disk or that of a write.
LEMMA ViewFacts ==
    ASSUME Inv, NEW f \in Files, entry[f]
    PROVE  /\ View(f) \in Inode /\ dinode[f] \in Inode
           /\ \/ /\ View(f) = dinode[f]
                 /\ \A p \in Procs : FileOf[p] = f => ~Busy(p)
              \/ \E p \in Procs : /\ FileOf[p] = f /\ at[p].op = "write" /\ View(f) = mem[f]
                                  /\ Writing(at[p], mem[f], dinode[f], disk, crashes, pos[p], MaxSize[f])
<1>1. dinode[f] \in Inode /\ mem[f] \in Inode /\ View(f) \in Inode
  BY DEF Inv, TypeOK, View
<1>2. CASE \A p \in Procs : FileOf[p] = f => ~Busy(p)
  <2>1. Opened(f) => mem[f] = dinode[f]
    BY <1>2 DEF Inv, FileOK
  <2> QED BY <1>1, <1>2, <2>1 DEF View
<1>3. CASE \E p \in Procs : FileOf[p] = f /\ Busy(p)
  <2>1. PICK p \in Procs : FileOf[p] = f /\ Busy(p)
    BY <1>3
  <2>2. at[p].op = "write"
    BY <2>1 DEF Inv, Busy, DeleteOK
  <2>3. /\ pos[p] # Closed
        /\ Writing(at[p], mem[f], dinode[f], disk, crashes, pos[p], MaxSize[f])
    BY <2>1, <2>2 DEF Inv, WriteOK
  <2>4. View(f) = mem[f]
    BY <2>1, <2>3 DEF View, Opened
  <2> QED BY <1>1, <2>1, <2>2, <2>3, <2>4
<1> QED BY <1>2, <1>3

\* file_has_used_blocks counts the block in which byte s is, or would be.
LEMMA HasFacts ==
    ASSUME NEW s \in Nat
    PROVE  /\ has_used(s) \in Nat /\ has_used(s) >= 1 /\ has_used(s) - 1 = s \div BLOCK_SIZE
           /\ s \div BLOCK_SIZE \in Nat
           /\ \A k \in Nat : k * BLOCK_SIZE <= s <=> k < has_used(s)
           /\ \A t \in Nat : s <= t => has_used(s) <= has_used(t)
           /\ s < MaxBlk * BLOCK_SIZE => has_used(s) <= MaxBlk
           /\ s < BLOCK_SIZE => has_used(s) = 1
<1>1. s \div BLOCK_SIZE \in Nat
  BY Div
<1>2. has_used(s) = s \div BLOCK_SIZE + 1
  BY DEF has_used
<1>3. \A k \in Nat : k * BLOCK_SIZE <= s <=> k < has_used(s)
  <2> TAKE k \in Nat
  <2> DEFINE q == s \div BLOCK_SIZE
  <2>1. k * BLOCK_SIZE <= s <=> k <= q
    BY DivBlock
  <2>2. q \in Nat /\ has_used(s) = q + 1
    BY <1>1, <1>2
  <2> HIDE DEF q
  <2> QED BY <2>1, <2>2
<1>4. \A t \in Nat : s <= t => has_used(s) <= has_used(t)
  <2> TAKE t \in Nat
  <2> DEFINE q == s \div BLOCK_SIZE
             r == t \div BLOCK_SIZE
  <2>1. s <= t => q <= r
    BY DivLe
  <2>2. q \in Nat /\ r \in Nat /\ has_used(s) = q + 1 /\ has_used(t) = r + 1
    BY <1>1, <1>2, Div DEF has_used
  <2> HIDE DEF q, r
  <2> QED BY <2>1, <2>2
<1>5. s < MaxBlk * BLOCK_SIZE => has_used(s) <= MaxBlk
  <2> DEFINE n == MaxBlk * BLOCK_SIZE
             h == has_used(s)
  <2>1. MaxBlk \in Nat /\ n \in Nat /\ h \in Nat
    BY <1>1, <1>2, Consts
  <2>2. n <= s <=> MaxBlk < h
    BY <1>3, <2>1
  <2> HIDE DEF n, h
  <2>3. s < n => h <= MaxBlk
    BY <2>1, <2>2
  <2> QED BY <2>3 DEF n, h
<1>6. s < BLOCK_SIZE => has_used(s) = 1
  <2>1. BLOCK_SIZE \in Nat /\ 1 * BLOCK_SIZE = BLOCK_SIZE
    BY Consts
  <2>2. 1 * BLOCK_SIZE <= s <=> 1 < has_used(s)
    BY <1>3
  <2> HIDE DEF has_used
  <2>3. has_used(s) \in Nat /\ has_used(s) >= 1
    BY <1>1, <1>2
  <2> QED BY <2>1, <2>2, <2>3
<1> QED BY <1>1, <1>2, <1>3, <1>4, <1>5, <1>6

\* Inode i has a block for each of its bytes.
Covers(dk, i) == /\ \A k \in Index : k * BLOCK_SIZE < i.size => Blk(dk, i, k) # 0
                 /\ ND * BLOCK_SIZE <= i.size => i.sect[ND] # 0

\* An inode with blocks below n, as many as its size needs, covers its bytes.
LEMMA ShapeCovers ==
    ASSUME NEW dk, NEW i \in Inode, NEW n \in Nat, NEW t \in Nat, Shape(i, n, t),
           i.size > 0 => has_used(i.size) <= n /\ has_used(i.size) <= t,
           \A k \in TableSlots : k < has_used(i.size) /\ i.size > 0 /\ i.sect[ND] # 0 =>
              dk[i.sect[ND]][k - ND] # 0
    PROVE  Covers(dk, i)
<1> DEFINE has == has_used(i.size)
<1>1. i.size \in Nat /\ has \in Nat /\ ND \in Nat /\ ND > 0 /\ BLOCK_SIZE \in Nat /\ BLOCK_SIZE > 0
  BY HasFacts, Consts DEF Inode
<1>2. \A k \in Nat : k * BLOCK_SIZE <= i.size <=> k < has
  BY <1>1, HasFacts
<1>3. ND * BLOCK_SIZE >= 1
  BY <1>1
<1> HIDE DEF has
<1>4. ND * BLOCK_SIZE <= i.size => i.size > 0 /\ ND < has
  BY <1>1, <1>2, <1>3
<1>5. ND * BLOCK_SIZE <= i.size => i.sect[ND] # 0
  BY <1>1, <1>4 DEF Shape, has
<1>6. ASSUME NEW k \in Index, k * BLOCK_SIZE < i.size PROVE Blk(dk, i, k) # 0
  <2>1. k \in Nat /\ k * BLOCK_SIZE \in Nat /\ k * BLOCK_SIZE >= 0
    BY <1>1, Ranges, Consts
  <2>2. k < has /\ i.size > 0
    BY <1>1, <1>2, <1>6, <2>1
  <2>3. CASE k < ND
    BY <1>1, <2>1, <2>2, <2>3 DEF Blk, Shape, has
  <2>4. CASE k >= ND
    <3>1. k \in TableSlots
      BY <1>1, <2>1, <2>4, Ranges, Consts
    <3>2. i.sect[ND] # 0
      BY <1>1, <2>1, <2>2, <2>4 DEF Shape, has
    <3> QED BY <1>1, <2>1, <2>2, <2>4, <3>1, <3>2 DEF Blk, has
  <2> QED BY <1>1, <2>1, <2>3, <2>4
<1> QED BY <1>5, <1>6 DEF Covers

\* So does that of a file which is whole on disk.
LEMMA WholeCovers ==
    ASSUME NEW dk, NEW i \in Inode, NEW m, Whole(dk, i, m)
    PROVE  Covers(dk, i)
<1>1. i.size \in Nat /\ has_used(i.size) \in Nat
  BY HasFacts DEF Inode
<1>2. Count(i) \in Nat /\ (i.size > 0 => Count(i) = has_used(i.size))
  BY <1>1 DEF Count
<1> QED BY <1>1, <1>2, ShapeCovers DEF Whole, Full

\* So has the inode of a write, and until a new table is written the bytes
\* need none.
LEMMA WriteCovers ==
    ASSUME NEW a \in Frame, NEW i \in Inode, NEW d \in Inode, NEW dk, NEW cr, NEW ps, NEW m,
           Whole(dk, d, m), Writing(a, i, d, dk, cr, ps, m)
    PROVE  /\ Covers(dk, i)
           /\ Filling(a) /\ ND * BLOCK_SIZE <= i.size => d.sect[ND] = i.sect[ND]
<1> DEFINE has == has_used(i.size)
<1>1. /\ i.size \in Nat /\ has \in Nat /\ has >= 1 /\ ND \in Nat /\ ND > 0 /\ a.next \in Nat /\ a.will \in Nat
      /\ a.left \in Nat /\ d.size \in Nat
  BY HasFacts, Consts DEF Inode, Frame
<1>2. has <= has_used(i.size + a.left)
  BY <1>1, HasFacts, SMTT(30)
<1>3. ND * BLOCK_SIZE <= i.size <=> ND < has
  BY <1>1, HasFacts
<1>4. Covers(dk, d)
  BY WholeCovers
<1> HIDE DEF has
<1>5. CASE Step1(a, i, d)
  <2>1. 1 \in Nat /\ 0 \in Nat /\ Shape(i, 1, 0) /\ i.size = 0 /\ ~Filling(a)
    BY <1>5 DEF Step1, Filling
  <2> QED BY <2>1, ShapeCovers
<1>6. CASE Step2(a, i, d, dk, cr)
  BY <1>4, <1>6 DEF Step2
<1>7. CASE Step3(a, i, d, dk, cr)
  <2>1. /\ Shape(i, a.next, a.will) /\ i.size = d.size /\ has <= a.next /\ a.next <= a.will
        /\ \A k \in 0..ND : d.sect[k] # 0 => d.sect[k] = i.sect[k]
    BY <1>7 DEF Step3, Fill, has, Writing, Grows
  <2>2. ND * BLOCK_SIZE <= i.size => d.sect[ND] = i.sect[ND]
    BY <1>1, <1>4, <2>1 DEF Covers
  <2>3. ASSUME NEW k \in TableSlots, k < has, i.size > 0, i.sect[ND] # 0
        PROVE  dk[i.sect[ND]][k - ND] # 0
    <3>1. k \in Nat /\ ND <= k /\ k \in Index
      BY <1>1, Ranges, Consts
    <3>2. d.sect[ND] = i.sect[ND]
      BY <1>1, <1>3, <2>2, <2>3, <3>1
    <3>3. Count(d) = has
      BY <2>1, <2>3 DEF Count, has
    <3> QED BY <2>3, <3>2, <3>3 DEF Whole, Full
  <2>4. has <= a.will
    BY <1>1, <2>1
  <2>5. Covers(dk, i)
    BY <1>1, <2>1, <2>3, <2>4, ShapeCovers DEF has
  <2> QED BY <2>2, <2>5
<1>8. CASE Ready(a, i, dk, cr, ps) /\ ~Filling(a)
  <2>1. Shape(i, a.will, a.will) /\ Full(dk, i, a.will) /\ a.will = has_used(i.size + a.left)
    BY <1>8 DEF Ready
  <2>2. has <= a.will
    BY <1>2, <2>1 DEF has
  <2>3. \A k \in TableSlots : k < has /\ i.size > 0 /\ i.sect[ND] # 0 => dk[i.sect[ND]][k - ND] # 0
    <3> TAKE k \in TableSlots
    <3>1. k \in Nat
      BY <1>1, Ranges, Consts
    <3> QED BY <1>1, <2>1, <2>2, <3>1 DEF Full
  <2>4. Covers(dk, i)
    BY <1>1, <2>1, <2>2, <2>3, ShapeCovers DEF has
  <2> QED BY <1>8, <2>4
<1>9. Step4(a, i, d, dk, cr, ps) \/ Step5(a, i, dk, cr, ps) => Ready(a, i, dk, cr, ps) /\ ~Filling(a)
  BY DEF Step4, Step5, Filling
<1> QED BY <1>5, <1>6, <1>7, <1>8, <1>9 DEF Writing

\* Blocks are in the order of their first bytes.
LEMMA MulLe ==
    ASSUME NEW j \in Nat, NEW k \in Nat
    PROVE  j <= k <=> j * BLOCK_SIZE <= k * BLOCK_SIZE
<1>1. BLOCK_SIZE \in Nat /\ BLOCK_SIZE > 0
  BY Consts
<1>2. CASE j <= k
  <2>1. PICK d \in Nat : k = j + d
    <3>1. k - j \in Nat /\ k = j + (k - j)
      BY <1>2
    <3> QED BY <3>1
  <2>2. k * BLOCK_SIZE = j * BLOCK_SIZE + d * BLOCK_SIZE /\ d * BLOCK_SIZE \in Nat
        /\ j * BLOCK_SIZE \in Nat
    BY <1>1, <2>1
  <2> QED BY <1>2, <2>2
<1>3. CASE k < j
  <2>1. PICK d \in Nat : j = k + 1 + d
    <3>1. j - k - 1 \in Nat /\ j = k + 1 + (j - k - 1)
      BY <1>3
    <3> QED BY <3>1
  <2>2. j * BLOCK_SIZE = k * BLOCK_SIZE + BLOCK_SIZE + d * BLOCK_SIZE /\ d * BLOCK_SIZE \in Nat
        /\ k * BLOCK_SIZE \in Nat
    BY <1>1, <2>1
  <2> QED BY <1>1, <1>3, <2>2
<1> QED BY <1>2, <1>3

\* The block of the last byte of the largest file has an index.
LEMMA InIndex ==
    ASSUME Usual, NEW f \in Files, NEW s \in Nat, s <= MaxSize[f]
    PROVE  /\ \A k \in Nat : k * BLOCK_SIZE <= s => k \in Index /\ k < MaxBlk - 1
           /\ has_used(s) <= MaxBlk - 1 /\ s < MaxBlk * BLOCK_SIZE
<1> DEFINE n == (MaxBlk - 1) * BLOCK_SIZE
<1>1. MaxBlk - 1 \in Nat /\ MaxBlk \in Nat /\ BLOCK_SIZE \in Nat /\ MaxSize[f] < n /\ MaxSize[f] \in Nat
  BY Consts DEF Usual
<1>2. n \in Nat /\ n <= MaxBlk * BLOCK_SIZE
  <2>1. MaxBlk * BLOCK_SIZE = n + BLOCK_SIZE /\ n \in Nat
    BY <1>1
  <2> QED BY <1>1, <2>1
<1>3. ~(n <= s)
  BY <1>1, <1>2
<1> HIDE DEF n
<1>4. has_used(s) <= MaxBlk - 1
  <2>1. n <= s <=> MaxBlk - 1 < has_used(s)
    BY <1>1, HasFacts DEF n
  <2> QED BY <1>1, <1>3, <2>1, HasFacts
<1>5. ASSUME NEW k \in Nat, k * BLOCK_SIZE <= s PROVE k < MaxBlk - 1
  <2>1. k < has_used(s) /\ has_used(s) \in Nat
    BY <1>5, HasFacts
  <2> QED BY <1>1, <1>4, <2>1
<1>6. s < MaxBlk * BLOCK_SIZE
  <2>1. MaxBlk * BLOCK_SIZE \in Nat
    BY <1>1
  <2> QED BY <1>1, <1>2, <1>3, <2>1
<1>7. \A k \in Nat : k * BLOCK_SIZE <= s => k \in Index
  <2> SUFFICES ASSUME NEW k \in Nat, k * BLOCK_SIZE <= s PROVE k \in Index
    OBVIOUS
  <2>1. k < MaxBlk - 1
    BY <1>5
  <2> QED BY <1>1, <2>1, Ranges, Consts
<1> QED BY <1>4, <1>5, <1>6, <1>7

\* A file owns the blocks that a reader finds through its inode and table.
LEMMA ViewOwns ==
    ASSUME Inv, Usual, NEW f \in Files, entry[f]
    PROVE  /\ \A k, b : b # 0 /\ InInode(View(f), k, b) => Owns(f, k, b)
           /\ \A k \in TableSlots :
                 /\ Blk(disk, View(f), k) # 0
                 /\ \/ k * BLOCK_SIZE < View(f).size
                    \/ \A p \in Procs : FileOf[p] = f => at[p].op # "write"
                 => Owns(f, k, Blk(disk, View(f), k))
           /\ Covers(disk, View(f)) /\ View(f).size \in Nat /\ View(f).size <= MaxSize[f]
           /\ \A k \in Nat : k * BLOCK_SIZE < View(f).size =>
                 k \in Index /\ Blk(disk, View(f), k) # 0 /\ Owns(f, k, Blk(disk, View(f), k))
<1> DEFINE v == View(f)
           d == dinode[f]
<1>1. v \in Inode /\ d \in Inode /\ v.size \in Nat /\ MaxSize[f] \in Nat
  BY ViewFacts, Consts DEF Inode
<1>2. Whole(disk, d, MaxSize[f])
  BY DEF Inv, FileOK
<1>3. \A k, b : b # 0 /\ OnDisk(disk, d, k, b) => Owns(f, k, b)
  BY DEF Owns
<1>4. /\ \A k, b : b # 0 /\ InInode(v, k, b) => Owns(f, k, b)
      /\ Covers(disk, v) /\ v.size <= MaxSize[f]
      /\ \A k \in TableSlots :
            /\ Blk(disk, v, k) # 0
            /\ \/ k * BLOCK_SIZE < v.size
               \/ \A p \in Procs : FileOf[p] = f => at[p].op # "write"
            => Owns(f, k, Blk(disk, v, k))
  <2>1. CASE v = d
    <3>1. Covers(disk, v) /\ v.size <= MaxSize[f]
      BY <1>1, <1>2, <2>1, WholeCovers DEF Whole
    <3>2. ASSUME NEW k \in TableSlots, Blk(disk, v, k) # 0 PROVE Owns(f, k, Blk(disk, v, k))
      <4>1. ~(k < ND)
        BY Ranges, Consts
      <4> QED BY <1>3, <2>1, <3>2, <4>1 DEF Blk, OnDisk, InTable
    <3> QED BY <1>3, <2>1, <3>1, <3>2 DEF OnDisk
  <2>2. ASSUME NEW p \in Procs, FileOf[p] = f, at[p].op = "write", v = mem[f],
               Writing(at[p], mem[f], dinode[f], disk, crashes, pos[p], MaxSize[f])
        PROVE  <1>4!1 /\ <1>4!2 /\ <1>4!3
    <3> DEFINE a == at[p]
    <3>1. a \in Frame /\ a.left \in Nat
      BY DEF Inv, TypeOK, Frame
    <3>2. Covers(disk, v) /\ (Filling(a) /\ ND * BLOCK_SIZE <= v.size => d.sect[ND] = v.sect[ND])
      BY <1>1, <1>2, <2>2, <3>1, WriteCovers
    <3>3. v.size <= MaxSize[f]
      BY <1>1, <2>2, <3>1 DEF Writing, Grows
    <3>4. \A k, b : b # 0 /\ InHand(disk, a, v, k, b) => Owns(f, k, b)
      BY <2>2 DEF Owns
    <3>5. \A k, b : b # 0 /\ InInode(v, k, b) => Owns(f, k, b)
      BY <2>2, <3>4 DEF InHand
    <3>6. ASSUME NEW k \in TableSlots, Blk(disk, v, k) # 0,
                 \/ k * BLOCK_SIZE < v.size
                 \/ \A q \in Procs : FileOf[q] = f => at[q].op # "write"
          PROVE  Owns(f, k, Blk(disk, v, k))
      <4>1. k \in Nat /\ ND <= k /\ k * BLOCK_SIZE < v.size
        BY <2>2, <3>6, Ranges, Consts
      <4>2. ND * BLOCK_SIZE <= v.size
        <5> DEFINE m == k * BLOCK_SIZE
                   n == ND * BLOCK_SIZE
        <5>1. n <= m /\ m \in Nat /\ n \in Nat
          BY <4>1, MulLe, Consts
        <5> HIDE DEF m, n
        <5>2. m < v.size
          BY <4>1 DEF m
        <5>3. n <= v.size
          BY <1>1, <5>1, <5>2
        <5> QED BY <5>3 DEF n
      <4>3. InTable(disk, v, k, Blk(disk, v, k))
        BY <3>6, <4>1, Consts DEF Blk, InTable
      <4>4. CASE Filling(a)
        <5>1. InTable(disk, d, k, Blk(disk, v, k))
          BY <3>2, <4>2, <4>3, <4>4 DEF InTable
        <5> QED BY <1>3, <3>6, <5>1 DEF OnDisk
      <4>5. CASE ~Filling(a)
        BY <2>2, <3>4, <3>6, <4>3, <4>5 DEF InHand
      <4> QED BY <4>4, <4>5
    <3> QED BY <3>2, <3>3, <3>5, <3>6
  <2> QED BY <2>1, <2>2, ViewFacts
<1>5. ASSUME NEW k \in Nat, k * BLOCK_SIZE < v.size
      PROVE  k \in Index /\ Blk(disk, v, k) # 0 /\ Owns(f, k, Blk(disk, v, k))
  <2>1. k \in Index
    <3> DEFINE m == k * BLOCK_SIZE
    <3>1. m \in Nat
      BY Consts
    <3>2. m <= v.size
      <4> HIDE DEF m
      <4> QED BY <1>1, <1>5, <3>1 DEF m
    <3> QED BY <1>1, <1>4, <3>2, InIndex
  <2>2. Blk(disk, v, k) # 0
    BY <1>4, <1>5, <2>1 DEF Covers
  <2>3. CASE k < ND
    <3>1. InInode(v, k, Blk(disk, v, k))
      BY <2>3, Consts DEF InInode, Blk
    <3> QED BY <1>4, <2>1, <2>2, <3>1
  <2>4. CASE ~(k < ND)
    <3>1. k \in TableSlots
      BY <2>1, <2>4, Ranges, Consts
    <3> QED BY <1>4, <1>5, <2>1, <2>2, <3>1
  <2> QED BY <2>3, <2>4
<1> QED BY <1>1, <1>4, <1>5

-----------------------------------------------------------------------------
(* What a step changes                                                      *)

\* Inode i2 on disk dk2 has the bytes of inode i on disk dk, in the same
\* blocks, and perhaps more.
Extends(dk, i, dk2, i2) ==
    /\ i.size <= i2.size
    /\ i.sect[ND] # 0 => i2.sect[ND] # 0
    /\ \A k \in Nat : k * BLOCK_SIZE < i.size => Blk(dk2, i2, k) = Blk(dk, i, k)
    /\ \A x \in Nat : x < i.size => Data(dk2, i2, x) = Data(dk, i, x)

\* Between disk dk and disk dk2 the table of inode i and its bytes are kept.
Kept(dk, dk2, i) ==
    /\ i.sect[ND] # 0 => dk2[i.sect[ND]] = dk[i.sect[ND]]
    /\ \A k \in Nat : k * BLOCK_SIZE < i.size => dk2[Blk(dk, i, k)] = dk[Blk(dk, i, k)]

\* The block of a byte begins at the byte or before it.
LEMMA BlockStart ==
    ASSUME NEW x \in Nat
    PROVE  x \div BLOCK_SIZE \in Nat /\ (x \div BLOCK_SIZE) * BLOCK_SIZE <= x
<1>1. x \div BLOCK_SIZE \in Nat
  BY Div
<1> QED BY <1>1, DivBlock

\* With the table the addresses of the blocks are kept.
LEMMA BlkKept ==
    ASSUME NEW dk, NEW dk2, NEW i, i.sect[ND] # 0 => dk2[i.sect[ND]] = dk[i.sect[ND]]
    PROVE  \A k : Blk(dk2, i, k) = Blk(dk, i, k)
BY DEF Blk

\* What is kept continues what was there.
LEMMA KeptExtends ==
    ASSUME NEW dk, NEW dk2, NEW i \in Inode, Kept(dk, dk2, i)
    PROVE  Extends(dk, i, dk2, i)
<1>1. i.size \in Nat
  BY DEF Inode
<1>2. \A k : Blk(dk2, i, k) = Blk(dk, i, k)
  BY BlkKept DEF Kept
<1>3. ASSUME NEW x \in Nat, x < i.size PROVE Data(dk2, i, x) = Data(dk, i, x)
  <2> DEFINE k == x \div BLOCK_SIZE
             n == k * BLOCK_SIZE
  <2>1. k \in Nat /\ n <= x
    BY BlockStart
  <2>2. n \in Nat
    BY <2>1, Consts
  <2>3. n < i.size
    <3> HIDE DEF n
    <3> QED BY <1>1, <1>3, <2>1, <2>2
  <2>4. dk2[Blk(dk, i, k)] = dk[Blk(dk, i, k)]
    BY <2>1, <2>3 DEF Kept
  <2> QED BY <1>2, <2>4 DEF Data
<1> QED BY <1>1, <1>2, <1>3 DEF Extends

\* A read goes on while its file is continued.
LEMMA ReadingExtends ==
    ASSUME NEW a \in Frame, NEW i \in Inode, NEW i2 \in Inode, NEW dk, NEW dk2, NEW ps,
           Extends(dk, i, dk2, i2), Reading(a, i, dk, ps)
    PROVE  Reading(a, i2, dk2, ps)
<1> DEFINE n == Len(a.got)
<1>1. /\ n \in Nat /\ a.start \in Nat /\ a.left \in Nat /\ i.size \in Nat /\ i2.size \in Nat
      /\ ps = a.start + n /\ ps + a.left <= i.size /\ i.size <= i2.size
  BY DEF Frame, Inode, Reading, Extends
<1> HIDE DEF n
<1>2. \A x \in ps..(ps + a.left - 1) : x \in Nat /\ x < i.size
  BY <1>1
<1>3. \A m \in 1..n : a.start + m - 1 \in Nat /\ a.start + m - 1 < i.size
  BY <1>1
<1>4. ASSUME NEW x \in ps..(ps + a.left - 1), a.pc = "chunk" \/ x \div BLOCK_SIZE < ND
      PROVE  a.all[x \div BLOCK_SIZE] = Blk(dk2, i2, x \div BLOCK_SIZE)
  <2> DEFINE k == x \div BLOCK_SIZE
             z == k * BLOCK_SIZE
  <2>1. x \in Nat /\ x < i.size
    BY <1>2
  <2>2. k \in Nat /\ z <= x
    BY <2>1, BlockStart
  <2>3. z < i.size
    <3>1. z \in Nat
      BY <2>2, Consts
    <3> HIDE DEF z
    <3> QED BY <1>1, <2>1, <2>2, <3>1
  <2>4. Blk(dk2, i2, k) = Blk(dk, i, k)
    BY <2>2, <2>3 DEF Extends
  <2> QED BY <1>4, <2>4 DEF Reading, n
<1>5. ASSUME NEW m \in 1..n PROVE a.got[m] = Data(dk2, i2, a.start + m - 1)
  <2>1. Data(dk2, i2, a.start + m - 1) = Data(dk, i, a.start + m - 1)
    BY <1>3 DEF Extends
  <2>2. a.got[m] = Data(dk, i, a.start + m - 1)
    BY DEF Reading, n
  <2> QED BY <2>1, <2>2
<1>6. ps + a.left <= i2.size
  BY <1>1
<1>7. a.pc \in {"table_r", "chunk"} /\ (a.pc = "table_r" => i2.sect[ND] # 0)
  BY DEF Reading, Extends
<1> QED BY <1>1, <1>4, <1>5, <1>6, <1>7 DEF Reading, n

\* So does a write, when it is what another call changes that differs.
LEMMA WritingKept ==
    ASSUME NEW a \in Frame, NEW i \in Inode, NEW d \in Inode, NEW dk, NEW dk2, NEW cr, NEW ps, NEW m,
           Kept(dk, dk2, i), Kept(dk, dk2, d), Writing(a, i, d, dk, cr, ps, m)
    PROVE  Writing(a, i, d, dk2, cr, ps, m)
<1>2. /\ i.sect[ND] # 0 => dk2[i.sect[ND]] = dk[i.sect[ND]]
      /\ d.sect[ND] # 0 => dk2[d.sect[ND]] = dk[d.sect[ND]]
  BY DEF Kept
<1>1. \A k : Blk(dk2, i, k) = Blk(dk, i, k)
  BY <1>2, BlkKept
<1>3. \A n : NoMore(dk, i, n, cr) => NoMore(dk2, i, n, cr)
  BY <1>2 DEF NoMore
<1>4. \A n : Full(dk, i, n) => Full(dk2, i, n)
  BY <1>2 DEF Full
<1>5. Ready(a, i, dk, cr, ps) => Ready(a, i, dk2, cr, ps)
  BY <1>3, <1>4 DEF Ready
<1>6. CASE Step1(a, i, d)
  BY <1>6 DEF Writing
<1>7. CASE Step2(a, i, d, dk, cr)
  BY <1>3, <1>7 DEF Writing, Step2
<1>8. CASE Step3(a, i, d, dk, cr)
  <2>1. Fill(a, i, d, dk2, cr)
    BY <1>2, <1>8 DEF Step3, Fill
  <2> QED BY <1>8, <2>1 DEF Writing, Step3
<1>9. CASE Step4(a, i, d, dk, cr, ps)
  <2> DEFINE q == i.size \div BLOCK_SIZE
             r == i.size % BLOCK_SIZE
  <2>1. Listed(a, i, dk2)
    BY <1>1, <1>9 DEF Step4, Listed
  <2>2. ASSUME a.pc = "block_w", NEW c \in Cell, c < r
        PROVE  a.buf[c] = dk2[Blk(dk2, i, q)][c]
    <3>1. i.size \in Nat /\ q \in Nat /\ r \in Nat /\ i.size = BLOCK_SIZE * q + r /\ c \in Nat
      BY Div, Ranges DEF Inode
    <3>2. q * BLOCK_SIZE < i.size
      <4>1. q * BLOCK_SIZE = BLOCK_SIZE * q /\ BLOCK_SIZE * q \in Nat
        BY <3>1, Consts
      <4> HIDE DEF q, r
      <4> QED BY <2>2, <3>1, <4>1
    <3>3. dk2[Blk(dk, i, q)] = dk[Blk(dk, i, q)]
      BY <3>1, <3>2 DEF Kept
    <3> QED BY <1>1, <1>9, <2>2, <3>3 DEF Step4
  <2>3. Step4(a, i, d, dk2, cr, ps)
    BY <1>5, <1>9, <2>1, <2>2 DEF Step4
  <2> QED BY <2>3 DEF Writing
<1>10. CASE Step5(a, i, dk, cr, ps)
  BY <1>5, <1>10 DEF Writing, Step5
<1> QED BY <1>6, <1>7, <1>8, <1>9, <1>10 DEF Writing

\* What a step of p changes is its own descriptor and the inode, the entry and
\* block w of its own file.
Local(p, w) ==
    /\ \A q \in Procs : q # p => at'[q] = at[q] /\ pos'[q] = pos[q]
    /\ \A g \in Files : g # FileOf[p] =>
          /\ mem'[g] = mem[g] /\ dinode'[g] = dinode[g] /\ entry'[g] = entry[g] /\ safe'[g] = safe[g]
    /\ \A b \in Bits : b # w => disk'[b] = disk[b]
    /\ \A g \in Files : \A k : g # FileOf[p] => ~Owns(g, k, w)
    /\ crashes' = crashes

\* The inodes of another file, on disk and in a call, are kept.
LEMMA OthersKept ==
    ASSUME Inv, Usual, NEW p \in Procs, NEW w, Local(p, w), NEW g \in Files, g # FileOf[p]
    PROVE  /\ entry[g] => Kept(disk, disk', dinode[g]) /\ Kept(disk, disk', View(g))
           /\ \A q \in Procs : FileOf[q] = g /\ at[q].op = "write" /\ mem[g].sect[ND] # 0 =>
                 disk'[mem[g].sect[ND]] = disk[mem[g].sect[ND]]
           /\ \A q \in Procs : FileOf[q] = g /\ at[q].op = "unlink" /\ at[q].pc = "table_r"
                            /\ mem[g].sect[ND] # 0 =>
                 disk'[mem[g].sect[ND]] = disk[mem[g].sect[ND]]
<1>1. \A k, b : Owns(g, k, b) => disk'[b] = disk[b]
  <2> SUFFICES ASSUME NEW k, NEW b, Owns(g, k, b) PROVE disk'[b] = disk[b]
    OBVIOUS
  <2>1. b # w
    BY DEF Local
  <2>2. b \in Bits
    BY Ranges DEF Inv, OwnedMarked
  <2> QED BY <2>1, <2>2 DEF Local
<1>2. ND \in Nat /\ ND > 0 /\ MaxBlk \in Nat
  BY Consts
<1>3. ASSUME entry[g] PROVE Kept(disk, disk', View(g))
  <2>1. /\ \A k, b : b # 0 /\ InInode(View(g), k, b) => Owns(g, k, b)
        /\ \A k \in Nat : k * BLOCK_SIZE < View(g).size => Owns(g, k, Blk(disk, View(g), k))
    BY <1>3, ViewOwns
  <2>2. InInode(View(g), MaxBlk, View(g).sect[ND])
    BY DEF InInode
  <2> QED BY <1>1, <2>1, <2>2 DEF Kept
<1>4. ASSUME entry[g] PROVE Kept(disk, disk', dinode[g])
  <2> DEFINE d == dinode[g]
  <2>1. d \in Inode /\ Whole(disk, d, MaxSize[g])
    BY <1>4 DEF Inv, TypeOK, FileOK
  <2>2. \A k, b : b # 0 /\ OnDisk(disk, d, k, b) => Owns(g, k, b)
    BY <1>4 DEF Owns
  <2>3. d.sect[ND] # 0 => disk'[d.sect[ND]] = disk[d.sect[ND]]
    BY <1>1, <2>2 DEF OnDisk, InInode
  <2>4. ASSUME NEW k \in Nat, k * BLOCK_SIZE < d.size
        PROVE  disk'[Blk(disk, d, k)] = disk[Blk(disk, d, k)]
    <3>1. k \in Index
      <4> DEFINE n == k * BLOCK_SIZE
      <4>1. n \in Nat /\ d.size \in Nat /\ d.size <= MaxSize[g]
        BY <2>1, Consts, SMTT(30) DEF Whole, Inode
      <4>2. n <= d.size
        <5> HIDE DEF n
        <5> QED BY <2>4, <4>1 DEF n
      <4> QED BY <4>1, <4>2, InIndex
    <3>2. Blk(disk, d, k) # 0
      BY <2>1, <2>4, <3>1, WholeCovers DEF Covers
    <3>3. OnDisk(disk, d, k, Blk(disk, d, k))
      <4>1. CASE k < ND
        BY <1>2, <4>1 DEF Blk, OnDisk, InInode
      <4>2. CASE ~(k < ND)
        <5>1. k \in TableSlots
          BY <3>1, <4>2, Ranges, Consts
        <5> QED BY <3>2, <4>2, <5>1 DEF Blk, OnDisk, InTable
      <4> QED BY <4>1, <4>2
    <3> QED BY <1>1, <2>2, <3>2, <3>3
  <2> QED BY <2>3, <2>4 DEF Kept
<1>5. ASSUME NEW q \in Procs, FileOf[q] = g, mem[g].sect[ND] # 0,
             at[q].op = "write" \/ (at[q].op = "unlink" /\ at[q].pc = "table_r")
      PROVE  disk'[mem[g].sect[ND]] = disk[mem[g].sect[ND]]
  <2>1. InHand(disk, at[q], mem[g], MaxBlk, mem[g].sect[ND])
    BY <1>5 DEF InHand, OnDisk, InInode
  <2>2. Owns(g, MaxBlk, mem[g].sect[ND])
    BY <1>5, <2>1 DEF Owns
  <2> QED BY <1>1, <2>2
<1> QED BY <1>3, <1>4, <1>5

\* So another file owns what it did,
LEMMA OthersOwn ==
    ASSUME Inv, Usual, NEW p \in Procs, NEW w, Local(p, w), NEW g \in Files, g # FileOf[p]
    PROVE  /\ \A k, b : Owns(g, k, b)' <=> Owns(g, k, b)
           /\ \A k, b : entry[g] => (OnDisk(disk, dinode[g], k, b)' <=> OnDisk(disk, dinode[g], k, b))
           /\ \A q \in Procs : \A k, b : FileOf[q] = g =>
                 (InHand(disk, at[q], mem[FileOf[q]], k, b)' <=> InHand(disk, at[q], mem[FileOf[q]], k, b))
<1>1. /\ entry'[g] = entry[g] /\ dinode'[g] = dinode[g] /\ mem'[g] = mem[g]
      /\ \A q \in Procs : FileOf[q] = g => at'[q] = at[q]
  BY DEF Local
<1>2. ASSUME entry[g], NEW k, NEW b
      PROVE  OnDisk(disk', dinode[g], k, b) <=> OnDisk(disk, dinode[g], k, b)
  <2>1. dinode[g].sect[ND] # 0 => disk'[dinode[g].sect[ND]] = disk[dinode[g].sect[ND]]
    BY <1>2, OthersKept DEF Kept
  <2>2. InTable(disk', dinode[g], k, b) <=> InTable(disk, dinode[g], k, b)
    BY <2>1 DEF InTable
  <2> QED BY <2>2 DEF OnDisk
<1>3. ASSUME NEW q \in Procs, FileOf[q] = g, NEW k, NEW b
      PROVE  InHand(disk', at[q], mem[g], k, b) <=> InHand(disk, at[q], mem[g], k, b)
  <2>1. at[q].op = "write" \/ (at[q].op = "unlink" /\ at[q].pc = "table_r") =>
           (InTable(disk', mem[g], k, b) <=> InTable(disk, mem[g], k, b))
    BY <1>3, OthersKept DEF InTable
  <2>2. at[q].op = "unlink" /\ at[q].pc = "table_r" =>
           (OnDisk(disk', mem[g], k, b) <=> OnDisk(disk, mem[g], k, b))
    BY <2>1 DEF OnDisk
  <2> QED BY <2>1, <2>2 DEF InHand
<1>4. \A k, b : entry[g] => (OnDisk(disk, dinode[g], k, b)' <=> OnDisk(disk, dinode[g], k, b))
  BY <1>1, <1>2
<1>5. \A q \in Procs : \A k, b : FileOf[q] = g =>
         (InHand(disk, at[q], mem[FileOf[q]], k, b)' <=> InHand(disk, at[q], mem[FileOf[q]], k, b))
  <2> SUFFICES ASSUME NEW q \in Procs, NEW k, NEW b, FileOf[q] = g
               PROVE  InHand(disk', at'[q], mem'[g], k, b) <=> InHand(disk, at[q], mem[g], k, b)
    OBVIOUS
  <2> QED BY <1>1, <1>3
<1>6. ASSUME NEW k, NEW b PROVE Owns(g, k, b)' <=> Owns(g, k, b)
  <2>1. entry'[g] /\ OnDisk(disk', dinode'[g], k, b) <=> entry[g] /\ OnDisk(disk, dinode[g], k, b)
    BY <1>1, <1>2
  <2>2. \A q \in Procs : FileOf[q] = g =>
           (InHand(disk', at'[q], mem'[g], k, b) <=> InHand(disk, at[q], mem[g], k, b))
    BY <1>1, <1>3
  <2> QED BY <2>1, <2>2 DEF Owns
<1> QED BY <1>4, <1>5, <1>6

\* is as whole as it was,
LEMMA OthersFile ==
    ASSUME Inv, Usual, NEW p \in Procs, NEW w, Local(p, w), NEW g \in Files, g # FileOf[p]
    PROVE  FileOK(g)'
<1>1. /\ entry'[g] = entry[g] /\ dinode'[g] = dinode[g] /\ mem'[g] = mem[g] /\ safe'[g] = safe[g]
      /\ \A q \in Procs : FileOf[q] = g => at'[q] = at[q] /\ pos'[q] = pos[q]
      /\ crashes' = crashes
  BY DEF Local
<1>2. FileOK(g)
  BY DEF Inv
<1>3. Opened(g)' <=> Opened(g)
  BY <1>1 DEF Opened
<1>4. \A q \in Procs : FileOf[q] = g => (Busy(q)' <=> Busy(q))
  BY <1>1 DEF Busy
<1>5. ASSUME entry[g]
      PROVE  /\ Whole(disk, dinode[g], MaxSize[g]) => Whole(disk', dinode[g], MaxSize[g])
             /\ \A n : NoMore(disk, dinode[g], n, crashes) => NoMore(disk', dinode[g], n, crashes)
  <2>1. dinode[g].sect[ND] # 0 => disk'[dinode[g].sect[ND]] = disk[dinode[g].sect[ND]]
    BY <1>5, OthersKept DEF Kept
  <2> QED BY <2>1 DEF Whole, Full, NoMore
<1>6. entry'[g] => Whole(disk', dinode'[g], MaxSize[g]) /\ safe'[g] = dinode'[g].size
  BY <1>1, <1>2, <1>5 DEF FileOK
<1>7. ~entry'[g] => safe'[g] = 0
  BY <1>1, <1>2 DEF FileOK
<1>8. entry'[g] /\ (\A q \in Procs : FileOf[q] = g => ~Busy(q)') =>
         /\ Opened(g)' => mem'[g] = dinode'[g]
         /\ NoMore(disk', dinode'[g], Count(dinode'[g]), crashes')
  BY <1>1, <1>2, <1>3, <1>4, <1>5 DEF FileOK
<1>9. \A q, r \in Procs : FileOf[q] = g /\ FileOf[r] = g /\ Busy(q)' /\ Busy(r)' => q = r
  BY <1>2, <1>4 DEF FileOK
<1> QED BY <1>6, <1>7, <1>8, <1>9 DEF FileOK

\* and its calls go on.
LEMMA OthersCall ==
    ASSUME Inv, Usual, NEW p \in Procs, NEW w, Local(p, w), NEW q \in Procs, FileOf[q] # FileOf[p]
    PROVE  CallOK(q)' /\ WriteOK(q)' /\ DeleteOK(q)' /\ ReadOK(q)'
<1> DEFINE g == FileOf[q]
<1>1. /\ entry'[g] = entry[g] /\ dinode'[g] = dinode[g] /\ mem'[g] = mem[g]
      /\ \A r \in Procs : FileOf[r] = g => at'[r] = at[r] /\ pos'[r] = pos[r]
      /\ crashes' = crashes /\ g \in Files
  BY Consts DEF Local
<1>2. CallOK(q) /\ WriteOK(q) /\ DeleteOK(q) /\ ReadOK(q)
  BY DEF Inv
<1>3. at[q] \in Frame /\ mem[g] \in Inode /\ dinode[g] \in Inode
  BY <1>1 DEF Inv, TypeOK
<1>4. pos[q] # Closed => entry[g] /\ View(g) = mem[g]
  BY <1>1, <1>2 DEF CallOK, View, Opened
<1>5. pos[q] # Closed => Kept(disk, disk', dinode[g]) /\ Kept(disk, disk', mem[g])
  <2>1. entry[g] => Kept(disk, disk', dinode[g]) /\ Kept(disk, disk', View(g))
    BY <1>1, OthersKept
  <2> QED BY <1>4, <2>1
<1>6. CallOK(q)'
  BY <1>1, <1>2 DEF CallOK
<1>7. WriteOK(q)'
  <2>1. ASSUME at[q].op = "write"
        PROVE  Writing(at[q], mem[g], dinode[g], disk', crashes, pos[q], MaxSize[g])
    <3>1. /\ pos[q] # Closed
          /\ Writing(at[q], mem[g], dinode[g], disk, crashes, pos[q], MaxSize[g])
      BY <1>2, <2>1 DEF WriteOK
    <3> QED BY <1>3, <1>5, <3>1, WritingKept
  <2> QED BY <1>1, <1>2, <2>1 DEF WriteOK
<1>8. DeleteOK(q)'
  BY <1>1, <1>2 DEF DeleteOK
<1>9. ReadOK(q)'
  <2>1. ASSUME at[q].op = "read" PROVE Reading(at[q], mem[g], disk', pos[q])
    <3>1. pos[q] # Closed /\ Reading(at[q], mem[g], disk, pos[q])
      BY <1>2, <2>1 DEF ReadOK, CallOK
    <3>2. Extends(disk, mem[g], disk', mem[g])
      BY <1>3, <1>5, <3>1, KeptExtends
    <3> QED BY <1>3, <3>1, <3>2, ReadingExtends
  <2> QED BY <1>1, <2>1 DEF ReadOK
<1> QED BY <1>6, <1>7, <1>8, <1>9

-----------------------------------------------------------------------------
(* When a step keeps the invariant                                          *)

\* File f gets only the blocks N, which were free; what it owns is marked, and
\* what it gives back is not.
Claims(f, N) ==
    /\ \A k, b : Owns(f, k, b)' => Owns(f, k, b) \/ <<k, b>> \in N
    /\ \A k, b : <<k, b>> \in N => b \notin bmap /\ b \in InPartition
    /\ \A j, k, b : <<j, b>> \in N /\ <<k, b>> \in N => j = k
    /\ \A k, b : Owns(f, k, b)' => b \in bmap'
    /\ \A b \in bmap : b \notin bmap' => \E k : Owns(f, k, b)
    /\ crashes = 0 => \A b \in bmap' \ {0} :
          b \notin bmap \/ (\E k : Owns(f, k, b)) => \E k : Owns(f, k, b)'

\* The bitmap on disk knows what the disk names and what the call has taken.
Synced(p) ==
    /\ dmap' = dmap \/ dmap' = bmap
    /\ \A k, b : entry'[FileOf[p]] /\ b # 0 /\ OnDisk(disk', dinode'[FileOf[p]], k, b) => b \in dmap'
    /\ \A k, b : at'[p].op = "write" /\ at'[p].pc # "sync" /\ b # 0
                 /\ InHand(disk', at'[p], mem'[FileOf[p]], k, b) => b \in dmap'
    /\ at'[p].pc # "sync" => \/ dmap' = bmap'
                             \/ dmap' = dmap /\ bmap' = bmap /\ at[p].pc # "sync"

\* A process that has the file of p open finds it continued.
Continued(p) ==
    \A q \in Procs : q # p /\ FileOf[q] = FileOf[p] /\ pos[q] # Closed =>
        entry'[FileOf[p]] /\ Extends(disk, mem[FileOf[p]], disk', mem'[FileOf[p]])

\* The calls of the others on the file go on.
LEMMA SameFileCall ==
    ASSUME Inv, Usual, TypeOK', NEW p \in Procs, NEW w, Local(p, w), Alone(p), Continued(p),
           NEW q \in Procs, q # p, FileOf[q] = FileOf[p]
    PROVE  CallOK(q)' /\ WriteOK(q)' /\ DeleteOK(q)' /\ ReadOK(q)'
<1> DEFINE f == FileOf[p]
<1>1. CallOK(q) /\ ReadOK(q)
  BY DEF Inv
<1>2. at'[q] = at[q] /\ pos'[q] = pos[q]
  BY DEF Local
<1>3. at[q].op # "write" /\ at[q].op # "unlink"
  BY DEF Alone, Busy
<1>4. WriteOK(q)' /\ DeleteOK(q)'
  BY <1>2, <1>3 DEF WriteOK, DeleteOK
<1>5. f \in Files /\ mem[f] \in Inode /\ mem'[f] \in Inode /\ at[q] \in Frame
  BY Consts DEF Inv, TypeOK
<1>6. pos[q] # Closed => entry'[f] /\ Extends(disk, mem[f], disk', mem'[f])
  BY DEF Continued
<1>7. ReadOK(q)'
  <2>1. ASSUME at[q].op = "read" PROVE Reading(at[q], mem'[f], disk', pos[q])
    <3>1. pos[q] # Closed /\ Reading(at[q], mem[f], disk, pos[q])
      BY <1>1, <2>1 DEF ReadOK, CallOK
    <3> QED BY <1>5, <1>6, <3>1, ReadingExtends
  <2> QED BY <1>2, <2>1 DEF ReadOK
<1>8. pos[q] # Closed => pos[q] <= mem'[f].size
  <2>1. pos[q] # Closed => pos[q] <= mem[f].size /\ mem[f].size <= mem'[f].size
    BY <1>1, <1>3, <1>6 DEF CallOK, Extends
  <2>2. pos[q] # Closed => pos[q] \in Nat
    BY DEF Inv, TypeOK
  <2>3. mem[f].size \in Nat /\ mem'[f].size \in Nat
    BY <1>5 DEF Inode
  <2> QED BY <2>1, <2>2, <2>3
<1>9. CallOK(q)'
  BY <1>1, <1>2, <1>6, <1>8 DEF CallOK
<1> QED BY <1>4, <1>7, <1>9

\* No block gets a second owner, and the owners are the ones the map tells.
LEMMA StepOwners ==
    ASSUME Inv, Usual, NEW p \in Procs, NEW w, NEW N, Local(p, w), Claims(FileOf[p], N)
    PROVE  OwnedOnce' /\ OwnedMarked' /\ AllOwned'
<1> DEFINE f == FileOf[p]
<1>1. \A g \in Files : g # f => \A k, b : Owns(g, k, b)' <=> Owns(g, k, b)
  BY OthersOwn
<1>2. /\ \A k, b : Owns(f, k, b)' => Owns(f, k, b) \/ <<k, b>> \in N
      /\ \A k, b : <<k, b>> \in N => b \notin bmap /\ b \in InPartition
      /\ \A j, k, b : <<j, b>> \in N /\ <<k, b>> \in N => j = k
  BY DEF Claims
<1>3. /\ \A g, h \in Files : \A j, k, b : Owns(g, j, b) /\ Owns(h, k, b) => g = h /\ j = k
      /\ \A g \in Files : \A k, b : Owns(g, k, b) => b \in bmap /\ b \in InPartition
  BY DEF Inv, OwnedOnce, OwnedMarked
<1>4. f \in Files
  BY Consts
<1>5. \A g \in Files : \A k, b : Owns(g, k, b)' => Owns(g, k, b) \/ (g = f /\ <<k, b>> \in N)
  BY <1>1, <1>2
<1>6. OwnedOnce'
  <2> SUFFICES ASSUME NEW g \in Files, NEW h \in Files, NEW j, NEW k, NEW b,
                      Owns(g, j, b)', Owns(h, k, b)'
               PROVE  g = h /\ j = k
    BY DEF OwnedOnce
  <2>1. /\ Owns(g, j, b) \/ (g = f /\ <<j, b>> \in N)
        /\ Owns(h, k, b) \/ (h = f /\ <<k, b>> \in N)
    BY <1>5
  <2> QED BY <1>2, <1>3, <2>1
<1>7. OwnedMarked'
  <2> SUFFICES ASSUME NEW g \in Files, NEW k, NEW b, Owns(g, k, b)'
               PROVE  b \in bmap' /\ b \in InPartition
    BY DEF OwnedMarked
  <2>1. b \in InPartition
    BY <1>2, <1>3, <1>5
  <2>2. CASE g = f
    BY <2>1, <2>2 DEF Claims
  <2>3. CASE g # f
    <3>1. Owns(g, k, b) /\ b \in bmap
      BY <1>1, <1>3, <2>3
    <3>2. ~ \E j : Owns(f, j, b)
      BY <1>3, <1>4, <2>3, <3>1
    <3> QED BY <2>1, <3>1, <3>2 DEF Claims
  <2> QED BY <2>2, <2>3
<1>8. AllOwned'
  <2> SUFFICES ASSUME crashes' = 0, NEW b \in bmap' \ {0}
               PROVE  \E g \in Files : \E k : Owns(g, k, b)'
    BY DEF AllOwned
  <2>1. crashes = 0
    BY DEF Local
  <2>2. CASE b \notin bmap \/ \E k : Owns(f, k, b)
    BY <1>4, <2>1, <2>2 DEF Claims
  <2>3. CASE b \in bmap /\ ~ \E k : Owns(f, k, b)
    <3>1. PICK g \in Files : \E k : Owns(g, k, b)
      BY <2>1, <2>3 DEF Inv, AllOwned
    <3>2. g # f
      BY <2>3, <3>1
    <3> QED BY <1>1, <3>1, <3>2
  <2> QED BY <2>2, <2>3
<1> QED BY <1>6, <1>7, <1>8

\* The two copies of the bitmap agree as they did.
LEMMA StepMaps ==
    ASSUME Inv, Usual, NEW p \in Procs, NEW w, Local(p, w), Alone(p), Synced(p)
    PROVE  KnownOnDisk' /\ MapsAgree'
<1> DEFINE f == FileOf[p]
<1>1. f \in Files
  BY Consts
<1>2. \A b : b \in dmap /\ b \in bmap => b \in dmap'
  BY DEF Synced
<1>3. \A g \in Files : \A k, b : Owns(g, k, b) => b \in bmap
  BY DEF Inv, OwnedMarked
<1>4. ASSUME NEW g \in Files, NEW k, NEW b, entry'[g], b # 0, OnDisk(disk', dinode'[g], k, b)
      PROVE  b \in dmap'
  <2>1. CASE g = f
    BY <1>4, <2>1 DEF Synced
  <2>2. CASE g # f
    <3>1. entry[g]
      BY <1>4, <2>2 DEF Local
    <3>2. OnDisk(disk, dinode[g], k, b)
      BY <1>4, <2>2, <3>1, OthersOwn
    <3>3. b \in dmap
      BY <1>4, <3>1, <3>2 DEF Inv, KnownOnDisk
    <3>4. Owns(g, k, b)
      BY <1>4, <3>1, <3>2 DEF Owns
    <3> QED BY <1>2, <1>3, <3>3, <3>4
  <2> QED BY <2>1, <2>2
<1>5. ASSUME NEW q \in Procs, NEW k, NEW b, at'[q].op = "write", at'[q].pc # "sync", b # 0,
             InHand(disk', at'[q], mem'[FileOf[q]], k, b)
      PROVE  b \in dmap'
  <2>1. CASE q = p
    BY <1>5, <2>1 DEF Synced
  <2>2. CASE q # p
    <3>1. at'[q] = at[q]
      BY <2>2 DEF Local
    <3>2. FileOf[q] # f /\ FileOf[q] \in Files
      BY <1>5, <2>2, <3>1, Consts DEF Alone, Busy
    <3>3. InHand(disk, at[q], mem[FileOf[q]], k, b)
      BY <1>5, <3>2, OthersOwn
    <3>4. b \in dmap
      BY <1>5, <3>1, <3>3 DEF Inv, KnownOnDisk
    <3>5. Owns(FileOf[q], k, b)
      BY <1>5, <3>3 DEF Owns
    <3> QED BY <1>2, <1>3, <3>2, <3>4, <3>5
  <2> QED BY <2>1, <2>2
<1>6. KnownOnDisk'
  BY <1>4, <1>5 DEF KnownOnDisk
<1>7. MapsAgree'
  <2> SUFFICES ASSUME \A q \in Procs : at'[q].pc # "sync"
               PROVE  dmap' = bmap'
    BY DEF MapsAgree
  <2>1. \A q \in Procs : q # p => at[q].pc # "sync"
    BY DEF Local
  <2>2. CASE dmap' = dmap /\ bmap' = bmap /\ at[p].pc # "sync"
    BY <2>1, <2>2 DEF Inv, MapsAgree
  <2> QED BY <2>2 DEF Synced
<1> QED BY <1>6, <1>7

\* A step of p keeps the invariant if it keeps what is said of p and its file.
LEMMA StepInv ==
    ASSUME Inv, Usual, TypeOK', ~panic', NEW p \in Procs, NEW w, NEW N, Local(p, w), Alone(p),
           Claims(FileOf[p], N), Synced(p), Continued(p), FileOK(FileOf[p])',
           CallOK(p)', WriteOK(p)', DeleteOK(p)', ReadOK(p)'
    PROVE  Inv'
<1>1. OwnedOnce' /\ OwnedMarked' /\ AllOwned'
  BY StepOwners
<1>2. KnownOnDisk' /\ MapsAgree'
  BY StepMaps
<1>3. \A g \in Files : FileOK(g)'
  BY OthersFile
<1>4. ASSUME NEW q \in Procs PROVE CallOK(q)' /\ WriteOK(q)' /\ DeleteOK(q)' /\ ReadOK(q)'
  <2>1. CASE FileOf[q] # FileOf[p]
    BY <2>1, OthersCall
  <2>2. CASE FileOf[q] = FileOf[p] /\ q # p
    BY <2>2, SameFileCall
  <2> QED BY <2>1, <2>2
<1> QED BY <1>1, <1>2, <1>3, <1>4 DEF Inv

\* What the invariant says of a process and its file
LEMMA MyFacts ==
    ASSUME Inv, NEW p \in Procs
    PROVE  /\ FileOf[p] \in Files /\ MaxSize[FileOf[p]] \in Nat
           /\ at[p] \in Frame /\ mem[FileOf[p]] \in Inode /\ dinode[FileOf[p]] \in Inode
           /\ pos[p] \in Nat \cup {Closed}
           /\ FileOK(FileOf[p]) /\ CallOK(p) /\ WriteOK(p) /\ DeleteOK(p) /\ ReadOK(p)
           /\ 0 \in bmap /\ bmap \subseteq Bits
BY Consts DEF Inv, TypeOK

\* The writer of a file is alone with it.
LEMMA WriterAlone ==
    ASSUME Inv, Usual, NEW p \in Procs, ModeOf[p] = "w", pos[p] # Closed
    PROVE  Alone(p)
<1> SUFFICES ASSUME NEW q \in Procs, q # p, FileOf[q] = FileOf[p], Busy(q)
             PROVE  FALSE
  BY DEF Alone
<1>1. ModeOf[q] # "w"
  BY DEF Usual
<1>2. WriteOK(q) /\ DeleteOK(q)
  BY DEF Inv
<1>3. at[q].op # "write"
  BY <1>1, <1>2 DEF WriteOK
<1>4. at[q].op # "unlink"
  BY <1>2 DEF DeleteOK
<1> QED BY <1>3, <1>4 DEF Busy

\* Such a step only adds to the bytes of the file of p; the others keep theirs.
Appends(p) ==
    /\ UNCHANGED <<entry, safe>>
    /\ entry[FileOf[p]] /\ Extends(disk, View(FileOf[p]), disk', View(FileOf[p])')
    /\ \A g \in Files : g # FileOf[p] =>
          View(g)' = View(g) /\ (entry[g] => Kept(disk, disk', View(g)))

\* Another file looks the same after a step of p.
LEMMA OthersView ==
    ASSUME NEW p \in Procs, NEW w, Local(p, w), NEW g \in Files, g # FileOf[p]
    PROVE  View(g)' = View(g)
<1>1. \A q \in Procs : FileOf[q] = g => at'[q] = at[q] /\ pos'[q] = pos[q]
  BY DEF Local
<1>2. Opened(g)' <=> Opened(g)
  BY <1>1 DEF Opened
<1>3. mem'[g] = mem[g] /\ dinode'[g] = dinode[g]
  BY DEF Local
<1> QED BY <1>2, <1>3 DEF View

-----------------------------------------------------------------------------
(* What becomes of the contents                                             *)

\* A part of a sequence of which each element is known
LEMMA PartIs ==
    ASSUME NEW s, NEW start \in Nat, NEW t, NEW n \in Nat, DOMAIN t = 1..n,
           t = [k \in 1..n |-> t[k]], \A k \in 1..n : t[k] = s[start + k]
    PROVE  t = SubSeq(s, start + 1, start + n)
<1>1. SubSeq(s, start + 1, start + n) = [k \in 1..((start + n) - (start + 1) + 1) |-> s[k + (start + 1) - 1]]
  OBVIOUS
<1>2. (start + n) - (start + 1) + 1 = n
  OBVIOUS
<1>3. \A k \in 1..n : k + (start + 1) - 1 = start + k
  OBVIOUS
<1> QED BY <1>1, <1>2, <1>3

\* The first bytes of a sequence of bytes
LEMMA PrefixIs ==
    ASSUME NEW s, NEW t, NEW m \in Nat, NEW n \in Nat, m <= n, Len(s) = m, Len(t) = n,
           DOMAIN s = 1..m, s = [k \in 1..m |-> s[k]], \A k \in 1..m : s[k] = t[k]
    PROVE  Promise!Prefix(s, t)
<1> DEFINE z == 0
<1>1. z \in Nat /\ z + 1 = 1 /\ z + m = m /\ \A k \in 1..m : z + k = k
  OBVIOUS
<1> HIDE DEF z
<1>2. \A k \in 1..m : s[k] = t[z + k]
  BY <1>1
<1>3. s = SubSeq(t, z + 1, z + m)
  BY <1>1, <1>2, PartIs
<1> QED BY <1>1, <1>3 DEF Promise!Prefix

\* No bytes are the beginning of all bytes.
LEMMA NothingIs ==
    ASSUME NEW t, NEW n \in Nat, Len(t) = n
    PROVE  Promise!Prefix(<< >>, t)
<1> DEFINE e == << >>
           z == 0
<1>1. Len(e) = z /\ z \in Nat /\ z <= n /\ DOMAIN e = 1..z /\ e = [k \in 1..z |-> e[k]]
      /\ \A k \in 1..z : e[k] = t[k]
  OBVIOUS
<1> HIDE DEF e, z
<1>2. Promise!Prefix(e, t)
  BY <1>1, PrefixIs
<1> QED BY <1>2 DEF e

\* What Extends says of inodes holds of their bytes.
LEMMA ExtendsPrefix ==
    ASSUME NEW dk, NEW dk2, NEW i \in Inode, NEW i2 \in Inode, Extends(dk, i, dk2, i2),
           NEW s, NEW t, s = [n \in 1..i.size |-> Data(dk, i, n - 1)],
           t = [n \in 1..i2.size |-> Data(dk2, i2, n - 1)]
    PROVE  Promise!Prefix(s, t) /\ Len(s) = i.size /\ Len(t) = i2.size
<1> DEFINE m == i.size
           n == i2.size
<1>1. m \in Nat /\ n \in Nat /\ m <= n
  BY DEF Inode, Extends
<1>2. /\ Len(s) = m /\ DOMAIN s = 1..m /\ s = [k \in 1..m |-> s[k]]
      /\ \A k \in 1..m : s[k] = Data(dk, i, k - 1)
  BY <1>1
<1>3. Len(t) = n /\ \A k \in 1..n : t[k] = Data(dk2, i2, k - 1)
  BY <1>1
<1>4. \A x \in Nat : x < m => Data(dk2, i2, x) = Data(dk, i, x)
  BY DEF Extends
<1> HIDE DEF m, n
<1>6. \A k \in 1..m : k \in 1..n /\ k - 1 \in Nat /\ k - 1 < m
  BY <1>1
<1>7. \A k \in 1..m : s[k] = t[k]
  BY <1>2, <1>3, <1>4, <1>6
<1>8. Promise!Prefix(s, t)
  <2>1. Len(s) = m /\ Len(t) = n /\ DOMAIN s = 1..m /\ s = [k \in 1..m |-> s[k]]
    BY <1>2, <1>3
  <2> QED BY ONLY <1>1, <1>7, <2>1, PrefixIs
<1> QED BY <1>2, <1>3, <1>8 DEF m, n

\* What the contents are, before a step and after it
LEMMA ContentNow ==
    ASSUME TypeOK, NEW f \in Files
    PROVE  /\ View(f) \in Inode
           /\ ~entry[f] => Content(f) = << >>
           /\ entry[f] => Content(f) = [n \in 1..View(f).size |-> Data(disk, View(f), n - 1)]
<1>1. View(f) \in Inode
  BY DEF TypeOK, View
<1>2. entry[f] => Content(f) = [n \in 1..View(f).size |-> Data(disk, View(f), n - 1)]
  <2> SUFFICES ASSUME entry[f] PROVE Content(f) = [n \in 1..View(f).size |-> Data(disk, View(f), n - 1)]
    OBVIOUS
  <2> QED BY DEF Content, Data, Blk, BlockOf
<1>3. ~entry[f] => Content(f) = << >>
  BY DEF Content
<1> QED BY <1>1, <1>2, <1>3

\* The same for the state after the step
LEMMA ContentNext ==
    ASSUME TypeOK', NEW f \in Files
    PROVE  /\ View(f)' \in Inode
           /\ ~entry'[f] => Content(f)' = << >>
           /\ entry'[f] => Content(f)' = [n \in 1..(View(f)').size |-> Data(disk', View(f)', n - 1)]
<1>1. View(f)' \in Inode
  BY DEF TypeOK, View
<1>2. entry'[f] => Content(f)' = [n \in 1..(View(f)').size |-> Data(disk', View(f)', n - 1)]
  <2> SUFFICES ASSUME entry'[f] PROVE Content(f)' = [n \in 1..(View(f)').size |-> Data(disk', View(f)', n - 1)]
    OBVIOUS
  <2> QED BY DEF Content, Data, Blk, BlockOf
<1>3. ~entry'[f] => Content(f)' = << >>
  BY DEF Content
<1> QED BY <1>1, <1>2, <1>3

\* A file whose inode and blocks are kept has the same contents.
LEMMA ContentKept ==
    ASSUME TypeOK, TypeOK', NEW f \in Files, entry'[f] = entry[f],
           entry[f] => View(f)' = View(f) /\ Kept(disk, disk', View(f))
    PROVE  Content(f)' = Content(f)
<1>1. CASE entry[f]
  <2>1. View(f) \in Inode /\ View(f)' = View(f)
    BY <1>1, ContentNow
  <2>2. Extends(disk, View(f), disk', View(f))
    BY <1>1, <2>1, KeptExtends
  <2>3. Content(f) = [n \in 1..View(f).size |-> Data(disk, View(f), n - 1)]
    BY <1>1, ContentNow
  <2>4. Content(f)' = [n \in 1..View(f).size |-> Data(disk', View(f), n - 1)]
    BY <1>1, <2>1, ContentNext
  <2>5. \A n \in 1..View(f).size : Data(disk', View(f), n - 1) = Data(disk, View(f), n - 1)
    <3> DEFINE m == View(f).size
    <3>1. m \in Nat
      BY <2>1 DEF Inode
    <3>2. \A x \in Nat : x < m => Data(disk', View(f), x) = Data(disk, View(f), x)
      BY <2>2 DEF Extends
    <3> HIDE DEF m
    <3>3. \A n \in 1..m : n - 1 \in Nat /\ n - 1 < m
      BY <3>1
    <3>4. \A n \in 1..m : Data(disk', View(f), n - 1) = Data(disk, View(f), n - 1)
      BY <3>2, <3>3
    <3> QED BY <3>4 DEF m
  <2> QED BY <2>3, <2>4, <2>5
<1>2. CASE ~entry[f]
  BY <1>2, ContentNow, ContentNext
<1> QED BY <1>1, <1>2

\* A step that changes no bytes
Same == safe' = safe /\ \A f \in Files : Content(f)' = Content(f)

\* A file whose inode is the same has the same bytes.
LEMMA SameView ==
    ASSUME TypeOK, TypeOK', UNCHANGED <<entry, disk, safe>>,
           \A f \in Files : entry[f] => View(f)' = View(f)
    PROVE  Same
<1> SUFFICES ASSUME NEW f \in Files PROVE Content(f)' = Content(f)
  BY DEF Same
<1>1. Kept(disk, disk', View(f))
  BY DEF Kept
<1> QED BY <1>1, ContentKept

\* Such a step is none in the promise.
LEMMA SameStutters ==
    ASSUME Same
    PROVE  UNCHANGED Promise!vars
<1>1. \A f \in Files : Content(f)' = Content(f)
  BY DEF Same
<1>2. [f \in Files |-> Content(f)]' = [f \in Files |-> Content(f)]
  BY <1>1
<1> QED BY <1>2 DEF Promise!vars, Same

\* The steps of a call that reads, and lseek
LEMMA ReaderSame ==
    ASSUME TypeOK, TypeOK', NEW p \in Procs, pos[p] # Closed, pos'[p] # Closed,
           \A q \in Procs : q # p => at'[q] = at[q] /\ pos'[q] = pos[q],
           UNCHANGED <<entry, disk, safe, mem, dinode>>
    PROVE  Same
<1>1. \A f \in Files : Opened(f)' <=> Opened(f)
  <2> SUFFICES ASSUME NEW f \in Files PROVE Opened(f)' <=> Opened(f)
    OBVIOUS
  <2>1. CASE FileOf[p] = f
    BY <2>1 DEF Opened
  <2>2. CASE FileOf[p] # f
    <3>1. \A q \in Procs : FileOf[q] = f => at'[q] = at[q] /\ pos'[q] = pos[q]
      BY <2>2
    <3> QED BY <3>1 DEF Opened
  <2> QED BY <2>1, <2>2
<1>2. \A f \in Files : View(f)' = View(f)
  BY <1>1 DEF View
<1> QED BY <1>2, SameView

\* When the contents of one file only grow, that is a write in the promise.
LEMMA IsWrite ==
    ASSUME NEW f \in Files, \A g \in Files : g # f => Content(g)' = Content(g),
           Promise!Prefix(Content(f), Content(f)'),
           safe' \in {safe, [safe EXCEPT ![f] = Len(Content(f)')]}
    PROVE  Promise!Write(f)
<1>1. [g \in Files |-> Content(g)]' = [[g \in Files |-> Content(g)] EXCEPT ![f] = Content(f)']
  OBVIOUS
<1>2. [g \in Files |-> Content(g)]'[f] = Content(f)' /\ [g \in Files |-> Content(g)][f] = Content(f)
  OBVIOUS
<1> QED BY <1>1, <1>2 DEF Promise!Write

\* So is a step that only adds to the file of p.
LEMMA AppendsWrite ==
    ASSUME TypeOK, TypeOK', NEW p \in Procs, FileOf[p] \in Files, Appends(p)
    PROVE  Promise!Write(FileOf[p])
<1> DEFINE f == FileOf[p]
<1>1. entry' = entry /\ safe' = safe /\ entry[f]
  BY DEF Appends
<1>2. \A g \in Files : g # f => Content(g)' = Content(g)
  <2> SUFFICES ASSUME NEW g \in Files, g # f PROVE Content(g)' = Content(g)
    OBVIOUS
  <2>1. entry[g] => View(g)' = View(g) /\ Kept(disk, disk', View(g))
    BY DEF Appends
  <2> QED BY <1>1, <2>1, ContentKept
<1>3. Promise!Prefix(Content(f), Content(f)')
  <2>1. Extends(disk, View(f), disk', View(f)')
    BY DEF Appends
  <2>2. View(f) \in Inode /\ Content(f) = [n \in 1..View(f).size |-> Data(disk, View(f), n - 1)]
    BY <1>1, ContentNow
  <2>3. View(f)' \in Inode /\ Content(f)' = [n \in 1..(View(f)').size |-> Data(disk', View(f)', n - 1)]
    BY <1>1, ContentNext
  <2> QED BY <2>1, <2>2, <2>3, ExtendsPrefix
<1> QED BY <1>1, <1>2, <1>3, IsWrite

\* Nor do the bytes of another file change,
LEMMA OthersSame ==
    ASSUME Inv, Usual, TypeOK', NEW p \in Procs, NEW w, Local(p, w)
    PROVE  \A g \in Files : g # FileOf[p] => Content(g)' = Content(g)
<1> SUFFICES ASSUME NEW g \in Files, g # FileOf[p] PROVE Content(g)' = Content(g)
  OBVIOUS
<1>1. entry'[g] = entry[g] /\ View(g)' = View(g)
  BY OthersView DEF Local
<1>2. entry[g] => Kept(disk, disk', View(g))
  BY OthersKept
<1> QED BY <1>1, <1>2, ContentKept DEF Inv

\* and when the file of p is gone, it has been deleted.
LEMMA IsDelete ==
    ASSUME Inv, Usual, TypeOK', NEW p \in Procs, NEW w, Local(p, w), ~entry'[FileOf[p]],
           safe'[FileOf[p]] = 0
    PROVE  Promise!Delete(FileOf[p])
<1> DEFINE f == FileOf[p]
<1>1. f \in Files /\ safe \in [Files -> Nat] /\ safe' \in [Files -> Nat]
  BY Consts DEF Inv, TypeOK
<1>2. \A g \in Files : g # f => Content(g)' = Content(g) /\ safe'[g] = safe[g]
  BY OthersSame DEF Local
<1>3. Content(f)' = << >>
  BY <1>1, ContentNext
<1>4. safe' = [safe EXCEPT ![f] = 0]
  BY <1>1, <1>2
<1> HIDE DEF f
<1>5. [g \in Files |-> Content(g)]' = [[g \in Files |-> Content(g)] EXCEPT ![f] = << >>]
  BY <1>1, <1>2, <1>3
<1> QED BY <1>4, <1>5 DEF Promise!Delete, f

-----------------------------------------------------------------------------
(* What steps of one call keep                                              *)

\* A step of a write, or from the call to it
LEMMA WriteStep ==
    ASSUME Inv, Usual, TypeOK', ~panic', NEW p \in Procs, NEW w, NEW N, Local(p, w),
           Claims(FileOf[p], N), Synced(p),
           ModeOf[p] = "w", pos[p] # Closed, pos'[p] # Closed,
           entry' = entry, dinode' = dinode, safe' = safe,
           at'[p].op = "write", at'[p].pc # "user", at'[p].pc = "sync" => at'[p].bit \in Bits,
           Extends(disk, mem[FileOf[p]], disk', mem'[FileOf[p]]),
           Whole(disk', dinode[FileOf[p]], MaxSize[FileOf[p]]),
           Writing(at'[p], mem'[FileOf[p]], dinode[FileOf[p]], disk', crashes, pos'[p],
                   MaxSize[FileOf[p]])
    PROVE  Inv' /\ Appends(p)
<1> DEFINE f == FileOf[p]
<1>1. Alone(p)
  BY WriterAlone
<1>2. CallOK(p) /\ FileOK(f) /\ entry[f]
  BY MyFacts DEF CallOK
<1>3. Continued(p)
  BY <1>2 DEF Continued
<1>4. CallOK(p)'
  BY <1>2 DEF CallOK
<1>5. WriteOK(p)' /\ DeleteOK(p)' /\ ReadOK(p)'
  BY DEF WriteOK, DeleteOK, ReadOK, Local
<1>6. Busy(p)'
  BY DEF Busy
<1>7. \A q \in Procs : FileOf[q] = f /\ Busy(q)' => q = p
  BY <1>1 DEF Alone, Busy, Local
<1>8. FileOK(f)'
  BY <1>2, <1>6, <1>7 DEF FileOK
<1>9. Inv'
  BY <1>1, <1>3, <1>4, <1>5, <1>8, StepInv
<1>10. View(f) = mem[f] /\ View(f)' = mem'[f]
  BY DEF View, Opened
<1>11. \A g \in Files : g # f => View(g)' = View(g) /\ (entry[g] => Kept(disk, disk', View(g)))
  BY OthersView, OthersKept
<1> QED BY <1>2, <1>9, <1>10, <1>11 DEF Appends

\* A step of a call that only reads
LEMMA QuietStep ==
    ASSUME Inv, Usual, TypeOK', ~panic', NEW p \in Procs,
           at[p].op \in {"none", "read"}, at'[p].op \in {"none", "read"},
           at[p].pc # "sync", at'[p].pc # "sync",
           \A q \in Procs : q # p => at'[q] = at[q] /\ pos'[q] = pos[q],
           UNCHANGED <<entry, dinode, mem, disk, bmap, dmap, safe, crashes>>,
           Opened(FileOf[p])' <=> Opened(FileOf[p]),
           CallOK(p)', ReadOK(p)'
    PROVE  Inv'
<1> DEFINE f == FileOf[p]
<1>1. ~Busy(p) /\ ~Busy(p)'
  BY DEF Busy
<1>2. \A q \in Procs : Busy(q)' <=> Busy(q)
  <2> SUFFICES ASSUME NEW q \in Procs, q # p PROVE Busy(q)' <=> Busy(q)
    BY <1>1
  <2> QED BY DEF Busy
<1>3. \A dk, i, k, b : ~InHand(dk, at[p], i, k, b) /\ ~InHand(dk, at'[p], i, k, b)
  BY DEF InHand
<1>4. \A g \in Files : \A k, b : Owns(g, k, b)' <=> Owns(g, k, b)
  <2> SUFFICES ASSUME NEW g \in Files, NEW k, NEW b PROVE Owns(g, k, b)' <=> Owns(g, k, b)
    OBVIOUS
  <2>1. \A q \in Procs : InHand(disk', at'[q], mem'[g], k, b) <=> InHand(disk, at[q], mem[g], k, b)
    <3> SUFFICES ASSUME NEW q \in Procs, q # p
                 PROVE  InHand(disk', at'[q], mem'[g], k, b) <=> InHand(disk, at[q], mem[g], k, b)
      BY <1>3
    <3> QED OBVIOUS
  <2> QED BY <2>1 DEF Owns
<1>5. OwnedOnce' /\ OwnedMarked' /\ AllOwned'
  BY <1>4 DEF Inv, OwnedOnce, OwnedMarked, AllOwned
<1>6. KnownOnDisk'
  <2>1. \A g \in Files : \A k, b :
           entry'[g] /\ b # 0 /\ OnDisk(disk', dinode'[g], k, b) => b \in dmap'
    BY DEF Inv, KnownOnDisk
  <2>2. ASSUME NEW q \in Procs, NEW k, NEW b, at'[q].op = "write", at'[q].pc # "sync", b # 0,
               InHand(disk', at'[q], mem'[FileOf[q]], k, b)
        PROVE  b \in dmap'
    <3>1. q # p
      BY <2>2
    <3> QED BY <2>2, <3>1 DEF Inv, KnownOnDisk
  <2> QED BY <2>1, <2>2 DEF KnownOnDisk
<1>7. MapsAgree'
  <2>1. (\A q \in Procs : at'[q].pc # "sync") => \A q \in Procs : at[q].pc # "sync"
    OBVIOUS
  <2> QED BY <2>1 DEF Inv, MapsAgree
<1>8. \A g \in Files : Opened(g)' <=> Opened(g)
  <2> SUFFICES ASSUME NEW g \in Files, g # f PROVE Opened(g)' <=> Opened(g)
    OBVIOUS
  <2> QED BY DEF Opened
<1>9. \A g \in Files : FileOK(g)'
  BY <1>2, <1>8 DEF Inv, FileOK
<1>10. ASSUME NEW q \in Procs, q # p PROVE CallOK(q)' /\ WriteOK(q)' /\ DeleteOK(q)' /\ ReadOK(q)'
  <2>1. CallOK(q) /\ WriteOK(q) /\ DeleteOK(q) /\ ReadOK(q)
    BY DEF Inv
  <2>2. CallOK(q)' /\ WriteOK(q)' /\ ReadOK(q)'
    BY <1>10, <2>1 DEF CallOK, WriteOK, ReadOK
  <2>3. DeleteOK(q)'
    <3> SUFFICES ASSUME at[q].op = "unlink"
                 PROVE  /\ ~entry[FileOf[q]]
                        /\ \A r \in Procs : FileOf[r] = FileOf[q] => pos'[r] = Closed
                        /\ Deleting(at[q], mem[FileOf[q]])
      BY <1>10 DEF DeleteOK
    <3>1. /\ ~entry[FileOf[q]] /\ \A r \in Procs : FileOf[r] = FileOf[q] => pos[r] = Closed
          /\ Deleting(at[q], mem[FileOf[q]])
      BY <2>1 DEF DeleteOK
    <3>2. FileOf[q] = f => pos'[p] = Closed
      BY <3>1 DEF CallOK
    <3> QED BY <3>1, <3>2
  <2> QED BY <2>2, <2>3
<1>11. WriteOK(p)' /\ DeleteOK(p)'
  BY DEF WriteOK, DeleteOK
<1> QED BY <1>5, <1>6, <1>7, <1>9, <1>10, <1>11 DEF Inv

-----------------------------------------------------------------------------
(* file_write: taking blocks                                                *)

\* What the rest of a call leaves when it goes on
LEMMA GoFacts ==
    ASSUME TypeOK, NEW p \in Procs, NEW a \in Frame, NEW i \in Inode, NEW bm, Go(p, a, i, bm)
    PROVE  /\ at' \in [Procs -> Frame] /\ mem' \in [Files -> Inode] /\ bmap' = bm
           /\ at'[p] = a /\ mem'[FileOf[p]] = i
           /\ \A q \in Procs : q # p => at'[q] = at[q]
           /\ \A g \in Files : g # FileOf[p] => mem'[g] = mem[g]
<1>1. FileOf[p] \in Files
  BY Consts
<1>2. at' = [at EXCEPT ![p] = a] /\ mem' = [mem EXCEPT ![FileOf[p]] = i] /\ bmap' = bm
  BY DEF Go
<1>3. at \in [Procs -> Frame] /\ mem \in [Files -> Inode]
  BY DEF TypeOK
<1> QED BY <1>1, <1>2, <1>3

\* The call after a block has been taken
Took(a, b) == [a EXCEPT !.pc = "sync", !.bit = b, !.all[a.next] = b, !.next = @ + 1]

\* The fields of that call
LEMMA TookFacts ==
    ASSUME NEW a \in Frame, NEW b \in Bits, a.next \in Index
    PROVE  /\ Took(a, b) \in Frame
           /\ Took(a, b).pc = "sync" /\ Took(a, b).bit = b /\ Took(a, b).next = a.next + 1
           /\ Took(a, b).op = a.op /\ Took(a, b).left = a.left /\ Took(a, b).will = a.will
           /\ Took(a, b).tab = a.tab /\ Took(a, b).all \in [Index -> Nat]
           /\ Took(a, b).all[a.next] = b
           /\ \A k \in Index : k # a.next => Took(a, b).all[k] = a.all[k]
<1>1. b \in Nat /\ a.next + 1 \in Nat
  BY Ranges, Consts
<1>2. a.all \in [Index -> Nat]
  BY DEF Frame
<1>3. [a.all EXCEPT ![a.next] = b] \in [Index -> Nat]
  BY <1>1, <1>2
<1>4. /\ Took(a, b).pc = "sync" /\ Took(a, b).bit = b /\ Took(a, b).next = a.next + 1
      /\ Took(a, b).op = a.op /\ Took(a, b).left = a.left /\ Took(a, b).will = a.will
      /\ Took(a, b).tab = a.tab
  BY DEF Took, Frame
<1>5. Took(a, b).all = [a.all EXCEPT ![a.next] = b]
  BY DEF Took, Frame
<1>6. Took(a, b) \in Frame
  <2>1. "sync" \in Pcs
    BY DEF Pcs
  <2> QED BY <1>1, <1>3, <2>1 DEF Took, Frame
<1> QED BY <1>3, <1>4, <1>5, <1>6

\* The inode after a block has been taken
NextInode(a, i, b) == IF a.next < ND THEN [i EXCEPT !.sect[a.next] = b] ELSE i

\* The fields of that inode
LEMMA NextInodeFacts ==
    ASSUME NEW a \in Frame, NEW i \in Inode, NEW b \in Bits
    PROVE  /\ NextInode(a, i, b) \in Inode /\ NextInode(a, i, b).size = i.size
           /\ a.next < ND => NextInode(a, i, b).sect[a.next] = b
           /\ \A k \in 0..ND : k # a.next \/ k = ND => NextInode(a, i, b).sect[k] = i.sect[k]
<1>1. ND \in Nat /\ a.next \in Nat /\ i.sect \in [0..ND -> Bits]
  BY Consts DEF Frame, Inode
<1>2. CASE a.next < ND
  <2>1. NextInode(a, i, b) = [i EXCEPT !.sect[a.next] = b]
    BY <1>2 DEF NextInode
  <2>2. a.next \in 0..ND /\ a.next # ND
    BY <1>1, <1>2
  <2>3. NextInode(a, i, b).sect = [i.sect EXCEPT ![a.next] = b] /\ NextInode(a, i, b).size = i.size
    BY <2>1 DEF Inode
  <2>4. [i.sect EXCEPT ![a.next] = b] \in [0..ND -> Bits]
    BY <1>1, <2>2
  <2>5. NextInode(a, i, b) \in Inode
    BY <2>1, <2>4 DEF Inode
  <2> QED BY <1>1, <2>2, <2>3, <2>5
<1>3. CASE ~(a.next < ND)
  BY <1>3 DEF NextInode
<1> QED BY <1>2, <1>3

\* What a write holds while it collects blocks
FillClaim(a, i, k, b) == InInode(i, k, b) \/ (k \in TableSlots /\ b = a.all[k])

\* Taking a block adds it to what is held and, before the first loss of power,
\* takes nothing away.
LEMMA FillTook ==
    ASSUME NEW a \in Frame, NEW i \in Inode, NEW d \in Inode, NEW dk, NEW cr, NEW b \in Bits,
           a.next \in Index, Fill(a, i, d, dk, cr)
    PROVE  LET a2 == Took(a, b)  i2 == NextInode(a, i, b) IN
           /\ \A k, c : FillClaim(a2, i2, k, c) => FillClaim(a, i, k, c) \/ (k = a.next /\ c = b)
           /\ FillClaim(a2, i2, a.next, b)
           /\ cr = 0 => \A k, c : c # 0 /\ FillClaim(a, i, k, c) => FillClaim(a2, i2, k, c)
<1> DEFINE a2 == Took(a, b)
           i2 == NextInode(a, i, b)
<1>1. /\ ND \in Nat /\ ND > 0 /\ NI \in Nat /\ NI > 0 /\ a.next \in Nat /\ MaxBlk = ND + NI
      /\ Index = 0..(ND + NI - 1) /\ TableSlots = ND..(ND + NI - 1)
  BY Consts, Ranges DEF Frame
<1>2. /\ a2.all[a.next] = b
      /\ \A k \in Index : k # a.next => a2.all[k] = a.all[k]
  BY TookFacts
<1>3. /\ a.next < ND => i2.sect[a.next] = b
      /\ \A k \in 0..ND : k # a.next \/ k = ND => i2.sect[k] = i.sect[k]
  BY NextInodeFacts
<1> HIDE DEF a2, i2
<1>4. ASSUME NEW k, NEW c, FillClaim(a2, i2, k, c) PROVE FillClaim(a, i, k, c) \/ (k = a.next /\ c = b)
  <2>1. CASE k \in 0..(ND - 1) /\ c = i2.sect[k]
    BY <1>1, <1>3, <2>1 DEF FillClaim, InInode
  <2>2. CASE k = MaxBlk /\ c = i2.sect[ND]
    BY <1>1, <1>3, <2>2 DEF FillClaim, InInode
  <2>3. CASE k \in TableSlots /\ c = a2.all[k]
    BY <1>1, <1>2, <2>3 DEF FillClaim
  <2> QED BY <1>4, <2>1, <2>2, <2>3 DEF FillClaim, InInode
<1>5. FillClaim(a2, i2, a.next, b)
  <2>1. CASE a.next < ND
    BY <1>1, <1>3, <2>1 DEF FillClaim, InInode
  <2>2. CASE ~(a.next < ND)
    BY <1>1, <1>2, <2>2 DEF FillClaim
  <2> QED BY <2>1, <2>2
<1>6. ASSUME cr = 0, NEW k, NEW c, c # 0, FillClaim(a, i, k, c) PROVE FillClaim(a2, i2, k, c)
  <2>1. /\ \A j \in 0..(ND - 1) : i.sect[j] # 0 <=> j < a.next
        /\ \A j \in TableSlots : j >= a.next => a.all[j] = 0
    BY <1>6 DEF Fill, Shape
  <2>2. CASE k \in 0..(ND - 1) /\ c = i.sect[k]
    BY <1>1, <1>3, <1>6, <2>1, <2>2 DEF FillClaim, InInode
  <2>3. CASE k = MaxBlk /\ c = i.sect[ND]
    BY <1>1, <1>3, <2>3 DEF FillClaim, InInode
  <2>4. CASE k \in TableSlots /\ c = a.all[k]
    BY <1>1, <1>2, <1>6, <2>1, <2>4 DEF FillClaim
  <2> QED BY <1>6, <2>2, <2>3, <2>4 DEF FillClaim, InInode
<1> QED BY <1>4, <1>5, <1>6 DEF a2, i2

\* It is still collecting, one block further.
LEMMA FillNext ==
    ASSUME NEW a \in Frame, NEW i \in Inode, NEW d \in Inode, NEW dk, NEW cr, NEW m, NEW b \in Bits,
           b # 0, a.next \in Index, a.next < a.will, Fill(a, i, d, dk, cr), Grows(a, i, d, m)
    PROVE  LET a2 == Took(a, b)  i2 == NextInode(a, i, b) IN
           Step3(a2, i2, d, dk, cr) /\ Grows(a2, i2, d, m)
<1> DEFINE a2 == Took(a, b)
           i2 == NextInode(a, i, b)
           has == has_used(i.size)
<1>1. /\ ND \in Nat /\ ND > 0 /\ NI \in Nat /\ NI > 0 /\ a.next \in Nat /\ a.will \in Nat
      /\ Index = 0..(ND + NI - 1) /\ TableSlots = ND..(ND + NI - 1)
      /\ i.size \in Nat /\ a.left \in Nat /\ has \in Nat
  BY Consts, Ranges, HasFacts DEF Frame, Inode
<1>2. /\ a2.all[a.next] = b /\ a2.next = a.next + 1 /\ a2.will = a.will /\ a2.left = a.left
      /\ a2.tab = a.tab /\ a2.pc = "sync"
      /\ \A k \in Index : k # a.next => a2.all[k] = a.all[k]
  BY TookFacts
<1>3. /\ a.next < ND => i2.sect[a.next] = b
      /\ \A k \in 0..ND : k # a.next \/ k = ND => i2.sect[k] = i.sect[k]
      /\ i2.size = i.size
  BY NextInodeFacts
<1> HIDE DEF a2, i2
<1>4. /\ i.size = d.size /\ a.left > 0 /\ a.will = has_used(i.size + a.left) /\ has <= a.next
      /\ Shape(i, a.next, a.will)
      /\ \A k \in Index : has - 1 <= k /\ k < a.next => a.all[k] # 0 /\ (k < ND => a.all[k] = i.sect[k])
      /\ d.sect[ND] # 0 => \A k \in TableSlots : k < has => a.all[k] = dk[d.sect[ND]][k - ND]
      /\ d.sect[ND] # 0 /\ cr = 0 => \A k \in TableSlots : dk[d.sect[ND]][k - ND] \in {0, a.all[k]}
      /\ d.sect[ND] = 0 \/ cr = 0 => \A k \in TableSlots : k >= a.next => a.all[k] = 0
      /\ a.tab <=> a.will > ND /\ a.will > has
  BY DEF Fill
<1>5. Shape(i2, a.next + 1, a.will)
  <2>1. ASSUME NEW k \in 0..(ND - 1) PROVE i2.sect[k] # 0 <=> k < a.next + 1
    <3>1. k \in 0..ND /\ k < ND /\ (i.sect[k] # 0 <=> k < a.next)
      BY <1>1, <1>4 DEF Shape
    <3>2. CASE k = a.next
      BY <1>1, <1>3, <3>1, <3>2
    <3>3. CASE k # a.next
      BY <1>1, <1>3, <3>1, <3>3
    <3> QED BY <3>2, <3>3
  <2>2. i2.sect[ND] = i.sect[ND]
    BY <1>1, <1>3
  <2> QED BY <1>4, <2>1, <2>2 DEF Shape
<1>6. ASSUME NEW k \in Index, has - 1 <= k, k < a.next + 1
      PROVE  a2.all[k] # 0 /\ (k < ND => a2.all[k] = i2.sect[k])
  <2>1. CASE k = a.next
    BY <1>2, <1>3, <2>1
  <2>2. CASE k # a.next
    <3>1. k < a.next /\ (k < ND => k \in 0..ND)
      BY <1>1, <1>6, <2>2
    <3> QED BY <1>2, <1>3, <1>4, <1>6, <2>2, <3>1
  <2> QED BY <2>1, <2>2
<1>7. ASSUME d.sect[ND] # 0, NEW k \in TableSlots, k < has PROVE a2.all[k] = dk[d.sect[ND]][k - ND]
  <2>1. k \in Index /\ k # a.next
    BY <1>1, <1>4, <1>7
  <2> QED BY <1>2, <1>4, <1>7, <2>1
<1>8. ASSUME d.sect[ND] # 0, cr = 0, NEW k \in TableSlots
      PROVE  dk[d.sect[ND]][k - ND] \in {0, a2.all[k]}
  <2>1. k \in Index /\ dk[d.sect[ND]][k - ND] \in {0, a.all[k]} /\ (k >= a.next => a.all[k] = 0)
    BY <1>1, <1>4, <1>8
  <2>2. CASE k = a.next
    <3>1. k >= a.next
      BY <1>1, <2>2
    <3> QED BY <2>1, <3>1
  <2> QED BY <1>2, <2>1, <2>2
<1>9. ASSUME d.sect[ND] = 0 \/ cr = 0, NEW k \in TableSlots, k >= a.next + 1 PROVE a2.all[k] = 0
  <2>1. k \in Index /\ k # a.next /\ k >= a.next
    BY <1>1, <1>9, SMTT(30)
  <2> QED BY <1>2, <1>4, <1>9, <2>1
<1>10. has <= a.next + 1 /\ a.next + 1 <= a.will /\ a.next + 1 > has /\ a.will # 0
  BY <1>1, <1>4
<1>11. Fill(a2, i2, d, dk, cr)
  BY <1>2, <1>3, <1>4, <1>5, <1>6, <1>7, <1>8, <1>9, <1>10 DEF Fill, has
<1>12. Step3(a2, i2, d, dk, cr)
  BY <1>2, <1>3, <1>10, <1>11 DEF Step3, Filling, has
<1>13. Grows(a2, i2, d, m)
  <2>1. \A k \in 0..ND : d.sect[k] # 0 => d.sect[k] = i.sect[k]
    BY DEF Grows
  <2>2. ASSUME NEW k \in 0..ND, d.sect[k] # 0 PROVE d.sect[k] = i2.sect[k]
    <3>1. k = a.next /\ k # ND => k \in 0..(ND - 1) /\ i.sect[k] = 0
      BY <1>1, <1>4 DEF Shape
    <3> QED BY <1>3, <2>1, <2>2, <3>1
  <2> QED BY <1>2, <1>3, <2>2 DEF Grows
<1> QED BY <1>12, <1>13 DEF a2, i2

\* What a write holds is what the file owns, and the blocks N it has taken
\* since; nothing of it is forgotten before the first loss of power.
Holds(p, a, i, bm, N) ==
    /\ \A k, b : b # 0 /\ FillClaim(a, i, k, b) => Owns(FileOf[p], k, b) \/ <<k, b>> \in N
    /\ \A k, b : <<k, b>> \in N => /\ b \notin bmap /\ b \in bm /\ b \in InPartition
                                   /\ FillClaim(a, i, k, b)
    /\ \A j, k, b : <<j, b>> \in N /\ <<k, b>> \in N => j = k
    /\ bmap \subseteq bm /\ bm \subseteq Bits
    /\ \A b \in bm : b \notin bmap => \E k : <<k, b>> \in N
    /\ crashes = 0 => \A k, b : Owns(FileOf[p], k, b) =>
          FillClaim(a, i, k, b) \/ OnDisk(disk, dinode[FileOf[p]], k, b)

\* Nothing but the call, the inode and the bitmap changes.
OnlyCall(p) ==
    /\ \A q \in Procs : q # p => at'[q] = at[q] /\ pos'[q] = pos[q]
    /\ \A g \in Files : g # FileOf[p] => mem'[g] = mem[g]
    /\ UNCHANGED <<entry, dinode, disk, life, safe, crashes, panic>>

\* So no block changes.
LEMMA OnlyCallLocal ==
    ASSUME Inv, NEW p \in Procs, OnlyCall(p)
    PROVE  Local(p, 0)
BY DEF OnlyCall, Local, Owns

\* Inode i has every block that inode i0 has.
Keeps(i0, i) == i0.size <= i.size /\ \A k \in 0..ND : i0.sect[k] # 0 => i0.sect[k] = i.sect[k]

\* Then it continues the bytes of i0.
LEMMA KeepsExtends ==
    ASSUME Usual, NEW f \in Files, NEW dk, NEW i0 \in Inode, NEW i \in Inode,
           Covers(dk, i0), i0.size <= MaxSize[f], Keeps(i0, i)
    PROVE  Extends(dk, i0, dk, i)
<1>1. i0.size \in Nat /\ ND \in Nat /\ MaxSize[f] \in Nat
  BY Consts DEF Inode
<1>2. ASSUME NEW k \in Nat, k * BLOCK_SIZE < i0.size PROVE Blk(dk, i, k) = Blk(dk, i0, k)
  <2> DEFINE n == k * BLOCK_SIZE
  <2>1. n \in Nat
    BY Consts
  <2>2. n <= i0.size
    <3> HIDE DEF n
    <3> QED BY <1>1, <1>2, <2>1 DEF n
  <2>3. k \in Index /\ Blk(dk, i0, k) # 0
    <3>1. k \in Index
      BY <1>1, <2>2, InIndex
    <3> QED BY <1>2, <3>1 DEF Covers
  <2>4. CASE k < ND
    <3>1. k \in 0..ND
      BY <1>1, <2>4
    <3> QED BY <2>3, <2>4, <3>1 DEF Blk, Keeps
  <2>5. CASE ~(k < ND)
    <3>1. i0.sect[ND] # 0 /\ ND \in 0..ND
      BY <1>1, <2>3, <2>5 DEF Blk
    <3>2. i.sect[ND] = i0.sect[ND]
      BY <3>1 DEF Keeps
    <3> QED BY <2>5, <3>2 DEF Blk
  <2> QED BY <2>4, <2>5
<1>3. ASSUME NEW x \in Nat, x < i0.size PROVE Data(dk, i, x) = Data(dk, i0, x)
  <2> DEFINE k == x \div BLOCK_SIZE
             n == k * BLOCK_SIZE
  <2>1. k \in Nat /\ n <= x
    BY BlockStart
  <2>2. n < i0.size
    <3>1. n \in Nat
      BY <2>1, Consts
    <3> HIDE DEF n
    <3> QED BY <1>1, <1>3, <2>1, <3>1
  <2> QED BY <1>2, <2>1, <2>2 DEF Data
<1>4. i0.sect[ND] # 0 => i.sect[ND] # 0
  BY <1>1 DEF Keeps
<1> QED BY <1>2, <1>3, <1>4 DEF Extends, Keeps

\* What is known of a file before its writer goes on
LEMMA WriterFacts ==
    ASSUME Inv, Usual, NEW p \in Procs, ModeOf[p] = "w", pos[p] # Closed
    PROVE  LET f == FileOf[p] IN
           /\ Alone(p) /\ entry[f] /\ View(f) = mem[f]
           /\ Covers(disk, mem[f]) /\ mem[f].size <= MaxSize[f]
           /\ Whole(disk, dinode[f], MaxSize[f]) /\ safe[f] = dinode[f].size
<1> DEFINE f == FileOf[p]
<1>1. f \in Files
  BY Consts
<1>2. CallOK(p) /\ FileOK(f)
  BY MyFacts
<1>3. entry[f] /\ View(f) = mem[f]
  BY <1>2 DEF CallOK, View, Opened
<1>4. Covers(disk, mem[f]) /\ mem[f].size <= MaxSize[f]
  <2>1. Covers(disk, View(f)) /\ View(f).size <= MaxSize[f]
    BY <1>1, <1>3, ViewOwns
  <2> QED BY <1>3, <2>1
<1> QED BY <1>2, <1>3, <1>4, WriterAlone DEF FileOK

\* What a call that is collecting blocks starts from
CanFill(p, a, i, bm, N) ==
    /\ ModeOf[p] = "w" /\ pos[p] # Closed /\ at[p].op \in {"none", "write"}
    /\ a.op = "write" /\ Holds(p, a, i, bm, N) /\ Keeps(mem[FileOf[p]], i)
    /\ Fill(a, i, dinode[FileOf[p]], disk, crashes)
    /\ Grows(a, i, dinode[FileOf[p]], MaxSize[FileOf[p]])
    /\ \E x \in InPartition : x \notin bm

\* The last block has an index.
LEMMA FillRange ==
    ASSUME Usual, NEW f \in Files, NEW a \in Frame, NEW i \in Inode, NEW d \in Inode, NEW dk, NEW cr,
           Fill(a, i, d, dk, cr), Grows(a, i, d, MaxSize[f])
    PROVE  /\ i.size \in Nat /\ a.left \in Nat /\ i.size + a.left <= MaxSize[f]
           /\ a.will \in Nat /\ a.will >= 1 /\ a.will <= MaxBlk - 1
           /\ a.next \in Nat /\ (a.next < a.will => a.next \in Index)
<1>1. i.size \in Nat /\ a.left \in Nat /\ i.size + a.left <= MaxSize[f] /\ i.size + a.left \in Nat
  BY DEF Frame, Inode, Grows
<1>2. a.will = has_used(i.size + a.left)
  BY DEF Fill
<1>3. a.will \in Nat /\ a.will >= 1 /\ a.will <= MaxBlk - 1
  BY <1>1, <1>2, HasFacts, InIndex
<1>4. a.next \in Nat
  BY DEF Frame
<1>5. a.next < a.will => a.next \in Index
  BY <1>3, <1>4, Ranges, Consts
<1> QED BY <1>1, <1>3, <1>4, <1>5

\* One more block is taken.
LEMMA AllocOne ==
    ASSUME Inv, Usual, NEW p \in Procs, NEW a \in Frame, NEW i \in Inode, NEW bm, NEW N,
           CanFill(p, a, i, bm, N), a.next < a.will, AllocBlocks(p, a, i, bm),
           dmap' = dmap \/ dmap' = bmap, UNCHANGED <<entry, dinode, disk, life, safe, crashes>>
    PROVE  Inv' /\ Appends(p)
<1> DEFINE f == FileOf[p]
           d == dinode[f]
           b == FreeBit(bm)
           a2 == Took(a, b)
           i2 == NextInode(a, i, b)
           N2 == N \cup {<<a.next, b>>}
<1>1. f \in Files /\ at[p] \in Frame /\ mem[f] \in Inode /\ d \in Inode /\ 0 \in bmap /\ TypeOK
  BY MyFacts DEF Inv
<1>2. /\ ModeOf[p] = "w" /\ pos[p] # Closed /\ at[p].op \in {"none", "write"} /\ a.op = "write"
      /\ Holds(p, a, i, bm, N) /\ Keeps(mem[f], i) /\ Fill(a, i, d, disk, crashes)
      /\ Grows(a, i, d, MaxSize[f])
  BY DEF CanFill
<1>3. b \in InPartition /\ b \notin bm /\ b \in Bits /\ b # None /\ b # 0
  <2>1. PICK x \in InPartition : x \notin bm
    BY DEF CanFill
  <2>2. 0 \in bm
    BY <1>1, <1>2 DEF Holds
  <2> QED BY <2>1, <2>2, FreeInPartition
<1>4. a.next \in Index /\ a.next \in Nat /\ ND \in Nat
  BY <1>1, <1>2, FillRange, Consts
<1>5. ~(a.next < ND /\ i.sect[a.next] # 0)
  BY <1>2, <1>4 DEF Fill, Shape
<1>6. Go(p, a2, i2, bm \cup {b}) /\ pos' = pos /\ panic' = panic
  BY <1>3, <1>5 DEF AllocBlocks, Took, NextInode
<1>7. /\ Alone(p) /\ entry[f] /\ Covers(disk, mem[f]) /\ mem[f].size <= MaxSize[f]
      /\ Whole(disk, d, MaxSize[f])
  BY <1>2, WriterFacts
<1>8. /\ a2 \in Frame /\ a2.pc = "sync" /\ a2.bit = b /\ a2.op = "write" /\ a2.will = a.will
      /\ i2 \in Inode /\ i2.size = i.size
      /\ \A k \in 0..ND : k # a.next \/ k = ND => i2.sect[k] = i.sect[k]
  BY <1>2, <1>3, <1>4, TookFacts, NextInodeFacts
<1>9. Step3(a2, i2, d, disk, crashes) /\ Grows(a2, i2, d, MaxSize[f])
  BY <1>1, <1>2, <1>3, <1>4, FillNext
<1>10. /\ \A k, c : FillClaim(a2, i2, k, c) => FillClaim(a, i, k, c) \/ (k = a.next /\ c = b)
       /\ FillClaim(a2, i2, a.next, b)
       /\ crashes = 0 => \A k, c : c # 0 /\ FillClaim(a, i, k, c) => FillClaim(a2, i2, k, c)
  BY <1>1, <1>2, <1>3, <1>4, FillTook
<1> HIDE DEF b, a2, i2
<1>11. /\ at' \in [Procs -> Frame] /\ mem' \in [Files -> Inode] /\ bmap' = bm \cup {b}
       /\ at'[p] = a2 /\ mem'[f] = i2
       /\ \A q \in Procs : q # p => at'[q] = at[q]
       /\ \A g \in Files : g # f => mem'[g] = mem[g]
  BY <1>1, <1>6, <1>8, GoFacts
<1>12. TypeOK' /\ ~panic'
  <2>1. bmap' \subseteq Bits /\ 0 \in bmap'
    BY <1>1, <1>2, <1>3, <1>11 DEF Holds
  <2> QED BY <1>1, <1>6, <1>11, <2>1 DEF TypeOK, Inv
<1>13. Local(p, 0)
  <2>1. OnlyCall(p)
    BY <1>6, <1>11 DEF OnlyCall
  <2> QED BY <2>1, OnlyCallLocal
<1>14. \A k, c : InHand(disk, a2, i2, k, c) <=> FillClaim(a2, i2, k, c)
  <2>1. Filling(a2)
    BY <1>9 DEF Step3
  <2> QED BY <1>8, <2>1 DEF InHand, FillClaim
<1>15. \A k, c : Owns(f, k, c)' <=>
          c # 0 /\ (OnDisk(disk, d, k, c) \/ FillClaim(a2, i2, k, c))
  <2>1. \A k, c : Owns(f, k, c)' <=>
          /\ c # 0
          /\ (entry'[f] /\ OnDisk(disk', dinode'[f], k, c)) \/ InHand(disk', at'[p], mem'[f], k, c)
    BY <1>7, <1>11, OwnsMineNext
  <2> QED BY <1>7, <1>11, <1>14, <2>1
<1>16. \A k, c : c # 0 /\ OnDisk(disk, d, k, c) => Owns(f, k, c)
  BY <1>7 DEF Owns
<1>17. \A g \in Files : \A k, c : Owns(g, k, c) => c \in bmap /\ c \in InPartition
  BY DEF Inv, OwnedMarked
<1>18. Claims(f, N2)
  <2>1. \A k, c : Owns(f, k, c)' => Owns(f, k, c) \/ <<k, c>> \in N2
    BY <1>2, <1>10, <1>15, <1>16 DEF Holds
  <2>2. \A k, c : <<k, c>> \in N2 => c \notin bmap /\ c \in InPartition /\ c \in bmap'
    BY <1>2, <1>3, <1>11 DEF Holds
  <2>3. \A j, k, c : <<j, c>> \in N2 /\ <<k, c>> \in N2 => j = k
    BY <1>2, <1>3 DEF Holds
  <2>4. \A k, c : Owns(f, k, c)' => c \in bmap'
    BY <1>1, <1>2, <1>11, <1>17, <2>1, <2>2 DEF Holds
  <2>5. \A c \in bmap : c \in bmap'
    BY <1>2, <1>11 DEF Holds
  <2>6. ASSUME crashes = 0, NEW c \in bmap' \ {0}, c \notin bmap \/ \E k : Owns(f, k, c)
        PROVE  \E k : Owns(f, k, c)'
    <3>1. CASE c = b
      BY <1>3, <1>10, <1>15, <3>1
    <3>2. CASE c \in bm /\ c \notin bmap
      <4>1. PICK k : <<k, c>> \in N
        BY <1>2, <3>2 DEF Holds
      <4>2. FillClaim(a, i, k, c)
        BY <1>2, <4>1 DEF Holds
      <4> QED BY <1>10, <1>15, <2>6, <4>2
    <3>3. ASSUME NEW k, Owns(f, k, c) PROVE \E j : Owns(f, j, c)'
      <4>1. FillClaim(a, i, k, c) \/ OnDisk(disk, d, k, c)
        BY <1>2, <2>6, <3>3 DEF Holds
      <4> QED BY <1>10, <1>15, <2>6, <4>1
    <3> QED BY <1>11, <2>6, <3>1, <3>2, <3>3
  <2> QED BY <2>1, <2>2, <2>3, <2>4, <2>5, <2>6 DEF Claims
<1>19. Synced(p)
  <2>1. \A k, c : entry[f] /\ c # 0 /\ OnDisk(disk, d, k, c) => c \in dmap
    BY <1>1 DEF Inv, KnownOnDisk
  <2>2. \A k, c : entry[f] /\ c # 0 /\ OnDisk(disk, d, k, c) => c \in dmap'
    BY <1>1, <1>16, <1>17, <2>1
  <2> QED BY <1>8, <1>11, <2>2 DEF Synced
<1>20. Extends(disk, mem[f], disk', mem'[f])
  <2>1. \A k \in 0..ND : mem[f].sect[k] # 0 => mem[f].sect[k] = i2.sect[k]
    <3> SUFFICES ASSUME NEW k \in 0..ND, mem[f].sect[k] # 0 PROVE mem[f].sect[k] = i2.sect[k]
      OBVIOUS
    <3>1. mem[f].sect[k] = i.sect[k]
      BY <1>2 DEF Keeps
    <3>2. k # a.next \/ k = ND
      BY <1>4, <1>5, <3>1
    <3> QED BY <1>8, <3>1, <3>2
  <2>2. Keeps(mem[f], i2)
    BY <1>2, <1>8, <2>1 DEF Keeps
  <2>3. Extends(disk, mem[f], disk, i2)
    BY <1>1, <1>7, <1>8, <2>2, KeepsExtends
  <2> QED BY <1>11, <2>3
<1>21. Writing(a2, i2, d, disk, crashes, pos[p], MaxSize[f])
  BY <1>9 DEF Writing
<1> HIDE DEF N2
<1> QED BY <1>2, <1>3, <1>6, <1>7, <1>8, <1>11, <1>12, <1>13, <1>18, <1>19, <1>20, <1>21, WriteStep

\* When the blocks are there and no table has to be written, the call is ready
\* for the data.
LEMMA FillReady ==
    ASSUME NEW a \in Frame, NEW i \in Inode, NEW d \in Inode, NEW dk, NEW cr, NEW m, NEW ps,
           Fill(a, i, d, dk, cr), Grows(a, i, d, m), Whole(dk, d, m), ~a.tab, a.next >= a.will,
           ps = IF i.size = 0 THEN Word - 1 ELSE i.size - 1
    PROVE  /\ Ready(a, i, dk, cr, ps) /\ Listed(a, i, dk)
           /\ i.sect[ND] # 0 => d.sect[ND] = i.sect[ND]
           /\ cr = 0 => \A k \in TableSlots : a.all[k] # 0 =>
                 i.sect[ND] # 0 /\ a.all[k] = dk[i.sect[ND]][k - ND]
<1> DEFINE has == has_used(i.size)
<1>1. /\ ND \in Nat /\ ND > 0 /\ NI \in Nat /\ NI > 0 /\ a.next \in Nat /\ a.will \in Nat
      /\ Index = 0..(ND + NI - 1) /\ TableSlots = ND..(ND + NI - 1)
      /\ i.size \in Nat /\ a.left \in Nat /\ has \in Nat /\ has >= 1 /\ has - 1 = i.size \div BLOCK_SIZE
      /\ i.size \div BLOCK_SIZE \in Nat
  BY Consts, Ranges, HasFacts DEF Frame, Inode
<1>2. i.size = 0 => has = 1
  <2>1. i.size = 0 => i.size < BLOCK_SIZE
    BY Consts
  <2> QED BY <1>1, <2>1, HasFacts
<1> HIDE DEF has
<1>3. /\ i.size = d.size /\ a.left > 0 /\ a.will = has_used(i.size + a.left) /\ has <= a.next
      /\ a.next = a.will /\ Shape(i, a.will, a.will)
      /\ \A k \in Index : has - 1 <= k /\ k < a.will => a.all[k] # 0 /\ (k < ND => a.all[k] = i.sect[k])
      /\ d.sect[ND] # 0 => \A k \in TableSlots : k < has => a.all[k] = dk[d.sect[ND]][k - ND]
      /\ d.sect[ND] # 0 /\ cr = 0 => \A k \in TableSlots : dk[d.sect[ND]][k - ND] \in {0, a.all[k]}
      /\ cr = 0 => \A k \in TableSlots : k >= a.will => a.all[k] = 0
      /\ ~(a.will > ND /\ a.will > has)
  <2>1. a.next = a.will
    BY <1>1 DEF Fill
  <2> QED BY <2>1 DEF Fill, has
<1>4. a.will > ND => /\ a.will = has /\ i.sect[ND] # 0 /\ d.sect[ND] # 0 /\ d.sect[ND] = i.sect[ND]
                     /\ Count(d) = has
  <2> SUFFICES ASSUME a.will > ND
               PROVE  a.will = has /\ i.sect[ND] # 0 /\ d.sect[ND] # 0 /\ d.sect[ND] = i.sect[ND]
                      /\ Count(d) = has
    OBVIOUS
  <2>1. a.will = has /\ i.sect[ND] # 0 /\ i.size # 0
    BY <1>1, <1>2, <1>3 DEF Shape
  <2>2. Count(d) = has
    BY <1>3, <2>1 DEF Count, has
  <2>3. d.sect[ND] # 0
    BY <2>1, <2>2 DEF Whole, Shape
  <2>4. ND \in 0..ND
    BY <1>1
  <2> QED BY <2>1, <2>2, <2>3, <2>4 DEF Grows
<1>5. i.sect[ND] # 0 => a.will > ND
  BY <1>3 DEF Shape
<1>6. Full(dk, i, a.will)
  BY <1>4, <1>5 DEF Full, Whole
<1>7. NoMore(dk, i, a.will, cr)
  <2> SUFFICES ASSUME cr = 0, i.sect[ND] # 0, NEW k \in TableSlots, k >= a.will
               PROVE  dk[i.sect[ND]][k - ND] = 0
    BY DEF NoMore
  <2>1. dk[i.sect[ND]][k - ND] \in {0, a.all[k]} /\ a.all[k] = 0
    BY <1>3, <1>4, <1>5
  <2> QED BY <2>1
<1>8. Ready(a, i, dk, cr, ps)
  BY <1>3, <1>6, <1>7 DEF Ready
<1>9. Listed(a, i, dk)
  <2> SUFFICES ASSUME NEW k \in Index, i.size \div BLOCK_SIZE <= k, k < a.will
               PROVE  a.all[k] = Blk(dk, i, k)
    BY DEF Listed
  <2>1. CASE k < ND
    BY <1>1, <1>3, <2>1 DEF Blk
  <2>2. CASE ~(k < ND)
    <3>1. k \in TableSlots /\ a.will > ND
      BY <1>1, <2>2
    <3>2. a.all[k] = dk[d.sect[ND]][k - ND]
      BY <1>3, <1>4, <3>1
    <3> QED BY <1>4, <2>2, <3>1, <3>2 DEF Blk
  <2> QED BY <2>1, <2>2
<1>10. ASSUME cr = 0, NEW k \in TableSlots, a.all[k] # 0
       PROVE  i.sect[ND] # 0 /\ a.all[k] = dk[i.sect[ND]][k - ND]
  <2>1. k < a.will /\ a.will > ND
    BY <1>1, <1>3, <1>10
  <2> QED BY <1>3, <1>4, <1>10, <2>1
<1> QED BY <1>4, <1>5, <1>8, <1>9, <1>10

\* fd_pos is set and the first block is read.
LEMMA WriteDataFacts ==
    ASSUME Inv, Usual, NEW p \in Procs, NEW a \in Frame, NEW i \in Inode, NEW bm,
           a.left > 0, i.size < Word, WriteData(p, a, i, bm)
    PROVE  /\ Go(p, [a EXCEPT !.pc = "block_r"], i, bm) /\ panic' = panic
           /\ pos'[p] = IF i.size = 0 THEN Word - 1 ELSE i.size - 1
           /\ pos' \in [Procs -> Nat \cup {Closed}]
           /\ \A q \in Procs : q # p => pos'[q] = pos[q]
<1>1. /\ Go(p, [a EXCEPT !.pc = "block_r"], i, bm) /\ panic' = panic
      /\ pos' = [pos EXCEPT ![p] = (i.size - 1) % Word]
  <2>1. ~HeapFull /\ a.left # 0
    BY DEF Usual, Frame
  <2> QED BY <2>1 DEF WriteData
<1>2. i.size \in Nat /\ Word \in Nat /\ Word > 0 /\ pos \in [Procs -> Nat \cup {Closed}]
  <2>1. MaxBlk * BLOCK_SIZE \in Nat
    BY Consts
  <2> QED BY <2>1, Consts DEF Inode, Inv, TypeOK
<1>3. (i.size - 1) % Word = IF i.size = 0 THEN Word - 1 ELSE i.size - 1
  <2>1. CASE i.size = 0
    <3>1. (-1) % Word = Word - 1
      BY <1>2
    <3> QED BY <1>2, <2>1, <3>1
  <2>2. CASE i.size > 0
    BY <1>2, <2>2
  <2> QED BY <1>2, <2>1, <2>2
<1> QED BY <1>1, <1>2, <1>3

\* A call that only waits for something else
LEMMA PcFacts ==
    ASSUME NEW a \in Frame, NEW pc \in Pcs
    PROVE  LET a2 == [a EXCEPT !.pc = pc] IN
           /\ a2 \in Frame /\ a2.pc = pc /\ a2.op = a.op /\ a2.left = a.left /\ a2.will = a.will
           /\ a2.next = a.next /\ a2.all = a.all /\ a2.tab = a.tab /\ a2.buf = a.buf
           /\ a2.pure = a.pure /\ a2.start = a.start /\ a2.got = a.got /\ a2.bit = a.bit
BY DEF Frame

\* The blocks are there: the table is written, or the first block read.
LEMMA AllocRest ==
    ASSUME Inv, Usual, NEW p \in Procs, NEW a \in Frame, NEW i \in Inode,
           CanFill(p, a, i, bmap, {}), a.next >= a.will, AllocBlocks(p, a, i, bmap),
           \/ dmap' = bmap
           \/ dmap' = dmap /\ at[p].pc # "sync" /\ a.next = has_used(i.size) /\ i = dinode[FileOf[p]],
           UNCHANGED <<entry, dinode, disk, life, safe, crashes>>
    PROVE  Inv' /\ Appends(p)
<1> DEFINE f == FileOf[p]
           d == dinode[f]
           m == MaxSize[f]
<1>1. /\ f \in Files /\ at[p] \in Frame /\ mem[f] \in Inode /\ d \in Inode /\ 0 \in bmap /\ TypeOK
      /\ bmap \subseteq Bits /\ m \in Nat
  BY MyFacts DEF Inv
<1>2. /\ ModeOf[p] = "w" /\ pos[p] # Closed /\ at[p].op \in {"none", "write"} /\ a.op = "write"
      /\ Holds(p, a, i, bmap, {}) /\ Keeps(mem[f], i) /\ Fill(a, i, d, disk, crashes)
      /\ Grows(a, i, d, m)
  BY DEF CanFill
<1>3. /\ i.size \in Nat /\ a.left \in Nat /\ i.size + a.left <= m /\ a.left > 0
      /\ a.will \in Nat /\ a.will >= 1 /\ a.next \in Nat /\ a.next = a.will
  <2>1. a.left > 0 /\ a.next <= a.will
    BY <1>2 DEF Fill
  <2> QED BY <1>1, <1>2, <2>1, FillRange
<1>4. /\ Alone(p) /\ entry[f] /\ Covers(disk, mem[f]) /\ mem[f].size <= m /\ Whole(disk, d, m)
  BY <1>2, WriterFacts
<1>5. \A k, c : c # 0 /\ OnDisk(disk, d, k, c) => Owns(f, k, c) /\ c \in dmap
  BY <1>1, <1>4 DEF Owns, Inv, KnownOnDisk
<1>6. \A k, c : c # 0 /\ FillClaim(a, i, k, c) => Owns(f, k, c)
  BY <1>2 DEF Holds
<1>7. crashes = 0 => \A k, c : Owns(f, k, c) => FillClaim(a, i, k, c) \/ OnDisk(disk, d, k, c)
  BY <1>2 DEF Holds
<1>8. \A g \in Files : \A k, c : Owns(g, k, c) => c \in bmap /\ c \in InPartition
  BY DEF Inv, OwnedMarked
<1>9. Extends(disk, mem[f], disk, i)
  BY <1>1, <1>2, <1>4, KeepsExtends
<1>10. \A k, c : c # 0 /\ OnDisk(disk, d, k, c) => c \in dmap'
  BY <1>1, <1>5, <1>8
\* What the two cases have in common
<1>11. ASSUME NEW a2 \in Frame, NEW ps \in Nat \cup {Closed}, Go(p, a2, i, bmap), pos'[p] = ps,
              pos' \in [Procs -> Nat \cup {Closed}], \A q \in Procs : q # p => pos'[q] = pos[q],
              panic' = panic, a2.op = "write", a2.pc \in {"table_w", "block_r"}, ps # Closed,
              Writing(a2, i, d, disk, crashes, ps, m),
              \A k, c : c # 0 /\ InHand(disk, a2, i, k, c) =>
                 FillClaim(a, i, k, c) \/ OnDisk(disk, d, k, c),
              crashes = 0 => \A k, c : c # 0 /\ FillClaim(a, i, k, c) => InHand(disk, a2, i, k, c),
              dmap' # bmap => \A k, c : c # 0 /\ InHand(disk, a2, i, k, c) => OnDisk(disk, d, k, c)
       PROVE  Inv' /\ Appends(p)
  <2>1. /\ at' \in [Procs -> Frame] /\ mem' \in [Files -> Inode] /\ bmap' = bmap
        /\ at'[p] = a2 /\ mem'[f] = i
        /\ \A q \in Procs : q # p => at'[q] = at[q]
        /\ \A g \in Files : g # f => mem'[g] = mem[g]
    BY <1>1, <1>11, GoFacts
  <2>2. TypeOK' /\ ~panic'
    BY <1>1, <1>11, <2>1 DEF TypeOK, Inv
  <2>3. Local(p, 0)
    <3>1. OnlyCall(p)
      BY <1>11, <2>1 DEF OnlyCall
    <3> QED BY <3>1, OnlyCallLocal
  <2>4. \A k, c : Owns(f, k, c)' <=> c # 0 /\ (OnDisk(disk, d, k, c) \/ InHand(disk, a2, i, k, c))
    <3>1. \A k, c : Owns(f, k, c)' <=>
            /\ c # 0
            /\ (entry'[f] /\ OnDisk(disk', dinode'[f], k, c)) \/ InHand(disk', at'[p], mem'[f], k, c)
      BY <1>4, <2>1, OwnsMineNext
    <3> QED BY <1>4, <2>1, <3>1
  <2>5. Claims(f, {})
    <3>1. \A k, c : Owns(f, k, c)' => Owns(f, k, c)
      BY <1>5, <1>6, <1>11, <2>4
    <3>2. \A k, c : Owns(f, k, c)' => c \in bmap'
      BY <1>1, <1>8, <2>1, <3>1
    <3>3. crashes = 0 => \A k, c : Owns(f, k, c) => Owns(f, k, c)'
      <4> SUFFICES ASSUME crashes = 0, NEW k, NEW c, Owns(f, k, c) PROVE Owns(f, k, c)'
        OBVIOUS
      <4>1. c # 0
        BY DEF Owns
      <4> QED BY <1>7, <1>11, <2>4, <4>1
    <3> QED BY <2>1, <3>1, <3>2, <3>3 DEF Claims
  <2>6. Synced(p)
    <3>1. \A k, c : c # 0 /\ InHand(disk, a2, i, k, c) => c \in dmap'
      BY <1>1, <1>6, <1>8, <1>10, <1>11
    <3>2. dmap' = bmap' \/ (dmap' = dmap /\ bmap' = bmap /\ at[p].pc # "sync")
      BY <2>1
    <3> QED BY <1>10, <2>1, <3>1, <3>2 DEF Synced
  <2> QED BY <1>2, <1>4, <1>9, <1>11, <2>1, <2>2, <2>3, <2>5, <2>6, WriteStep
<1>12. CASE a.tab
  <2> DEFINE a2 == [a EXCEPT !.pc = "table_w"]
  <2>1. Go(p, a2, i, bmap) /\ pos' = pos /\ panic' = panic
    BY <1>3, <1>12 DEF AllocBlocks
  <2>2. /\ a2 \in Frame /\ a2.pc = "table_w" /\ a2.op = "write" /\ a2.left = a.left /\ a2.will = a.will
        /\ a2.next = a.next /\ a2.all = a.all /\ a2.tab = a.tab
    <3>1. a.op = "write" /\ "table_w" \in Pcs
      BY <1>2 DEF Pcs
    <3> QED BY <3>1, PcFacts
  <2> HIDE DEF a2
  <2>3. Filling(a2)
    BY <1>3, <2>2 DEF Filling
  <2>4. a.will > has_used(i.size)
    BY <1>2, <1>12 DEF Fill
  <2>5. Writing(a2, i, d, disk, crashes, pos[p], m)
    <3>1. Fill(a2, i, d, disk, crashes) /\ Grows(a2, i, d, m)
      BY <1>2, <2>2 DEF Fill, Grows
    <3>2. Step3(a2, i, d, disk, crashes)
      BY <1>3, <1>12, <2>2, <2>3, <2>4, <3>1 DEF Step3
    <3> QED BY <3>1, <3>2, SMTT(30) DEF Writing
  <2>6. \A k, c : InHand(disk, a2, i, k, c) <=> FillClaim(a, i, k, c)
    BY <2>2, <2>3 DEF InHand, FillClaim
  <2>7. dmap' = bmap
    <3>1. has_used(i.size) \in Nat
      BY <1>3, HasFacts
    <3> QED BY <1>3, <2>4, <3>1
  <2>8. pos \in [Procs -> Nat \cup {Closed}]
    BY <1>1 DEF TypeOK
  <2> QED BY <1>2, <1>11, <2>1, <2>2, <2>5, <2>6, <2>7, <2>8
<1>13. CASE ~a.tab
  <2> DEFINE a2 == [a EXCEPT !.pc = "block_r"]
             ps == IF i.size = 0 THEN Word - 1 ELSE i.size - 1
  <2>1. WriteData(p, a, i, bmap)
    BY <1>3, <1>13 DEF AllocBlocks
  <2>2. i.size < Word
    <3>1. i.size <= m
      BY <1>1, <1>3
    <3>2. i.size < MaxBlk * BLOCK_SIZE
      BY <1>1, <1>3, <3>1, InIndex
    <3>3. MaxBlk * BLOCK_SIZE \in Nat /\ Word \in Nat /\ MaxBlk * BLOCK_SIZE < Word
      BY Consts
    <3> QED BY <1>3, <3>2, <3>3
  <2>3. /\ Go(p, a2, i, bmap) /\ panic' = panic /\ pos'[p] = ps
        /\ pos' \in [Procs -> Nat \cup {Closed}] /\ \A q \in Procs : q # p => pos'[q] = pos[q]
    BY <1>3, <2>1, <2>2, WriteDataFacts
  <2>4. /\ a2 \in Frame /\ a2.pc = "block_r" /\ a2.op = "write" /\ a2.left = a.left /\ a2.will = a.will
        /\ a2.next = a.next /\ a2.all = a.all /\ a2.tab = a.tab
    <3>1. a.op = "write" /\ "block_r" \in Pcs
      BY <1>2 DEF Pcs
    <3> QED BY <3>1, PcFacts
  <2>5. /\ Ready(a, i, disk, crashes, ps) /\ Listed(a, i, disk)
        /\ i.sect[ND] # 0 => d.sect[ND] = i.sect[ND]
        /\ crashes = 0 => \A k \in TableSlots : a.all[k] # 0 =>
              i.sect[ND] # 0 /\ a.all[k] = disk[i.sect[ND]][k - ND]
    BY <1>1, <1>2, <1>3, <1>4, <1>13, FillReady
  <2>6. ps \in Nat \cup {Closed} /\ ps # Closed
    <3>1. Word \in Nat /\ Word > 0
      BY <1>3, <2>2, Consts
    <3> QED BY <1>3, <3>1 DEF Closed
  <2> HIDE DEF a2, ps
  <2>7. ~Filling(a2)
    BY <2>4 DEF Filling
  <2>8. Writing(a2, i, d, disk, crashes, ps, m)
    <3>1. Grows(a2, i, d, m)
      BY <1>2, <2>4 DEF Grows
    <3>2. i.size = d.size
      BY <1>2 DEF Fill
    <3>3. Step4(a2, i, d, disk, crashes, ps)
      BY <1>3, <2>4, <2>5, <3>2 DEF Step4, Ready, Listed
    <3> QED BY <3>1, <3>3 DEF Writing
  <2>9. \A k, c : InHand(disk, a2, i, k, c) <=> InInode(i, k, c) \/ InTable(disk, i, k, c)
    BY <2>4, <2>7 DEF InHand
  <2>10. \A k, c : InTable(disk, i, k, c) => InTable(disk, d, k, c)
    BY <2>5 DEF InTable
  <2>11. \A k, c : InHand(disk, a2, i, k, c) => FillClaim(a, i, k, c) \/ OnDisk(disk, d, k, c)
    BY <2>9, <2>10 DEF FillClaim, OnDisk
  <2>12. crashes = 0 => \A k, c : c # 0 /\ FillClaim(a, i, k, c) => InHand(disk, a2, i, k, c)
    BY <2>5, <2>9 DEF FillClaim, InTable
  <2>13. dmap' # bmap => \A k, c : InHand(disk, a2, i, k, c) => OnDisk(disk, d, k, c)
    BY <2>9 DEF OnDisk
  <2> QED BY <1>11, <2>3, <2>4, <2>6, <2>8, <2>11, <2>12, <2>13
<1> QED BY <1>12, <1>13

\* file_write has found out how many blocks it needs.
LEMMA TakeBlocks ==
    ASSUME Inv, Usual, Room, NEW p \in Procs, NEW a \in Frame, NEW i \in Inode, NEW bm, NEW N,
           CanFill(p, a, i, bm, N), AllocBlocks(p, a, i, bm),
           \/ a.next < a.will /\ (dmap' = dmap \/ dmap' = bmap)
           \/ bm = bmap /\ N = {} /\ dmap' = bmap
           \/ /\ bm = bmap /\ N = {} /\ dmap' = dmap /\ at[p].pc # "sync"
              /\ a.next = has_used(i.size) /\ i = dinode[FileOf[p]],
           UNCHANGED <<entry, dinode, disk, life, safe, crashes>>
    PROVE  Inv' /\ Appends(p)
<1>1. FileOf[p] \in Files /\ dinode[FileOf[p]] \in Inode
  BY MyFacts
<1>2. a.next \in Nat /\ a.will \in Nat
  BY <1>1, FillRange DEF CanFill
<1>3. CASE a.next < a.will
  BY <1>3, AllocOne
<1>4. CASE a.next >= a.will
  BY <1>2, <1>4, AllocRest
<1> QED BY <1>2, <1>3, <1>4

\* What a call that goes through the cases of file_write starts from
CanCollect(p, a, i) ==
    LET f == FileOf[p]  d == dinode[f]  has == has_used(i.size) IN
    /\ ModeOf[p] = "w" /\ pos[p] # Closed /\ at[p].op \in {"none", "write"}
    /\ a.op = "write" /\ a.left > 0 /\ ~a.tab
    /\ \A k, b : b # 0 /\ InInode(i, k, b) => Owns(f, k, b)
    /\ crashes = 0 => \A k, b : Owns(f, k, b) => InInode(i, k, b) \/ OnDisk(disk, d, k, b)
    /\ Keeps(mem[f], i) /\ Grows(a, i, d, MaxSize[f]) /\ i.size = d.size
    /\ Shape(i, has, has)
    /\ i.size > 0 => i = d /\ mem[f] = d /\ NoMore(disk, d, has, crashes)

\* The addresses collected so far: the block that the new bytes begin in
Old(i) == [k \in Index |-> IF k = has_used(i.size) - 1 /\ k < ND THEN i.sect[k] ELSE 0]

\* Numbers of blocks, before and after
LEMMA CollectRange ==
    ASSUME Usual, NEW f \in Files, NEW a \in Frame, NEW i \in Inode, NEW d \in Inode,
           a.left > 0, Grows(a, i, d, MaxSize[f])
    PROVE  LET has == has_used(i.size)  will == has_used(i.size + a.left) IN
           /\ i.size \in Nat /\ a.left \in Nat
           /\ has \in Nat /\ has >= 1 /\ will \in Nat /\ has <= will /\ will <= MaxBlk - 1
           /\ i.size = 0 => has = 1
<1>1. i.size \in Nat /\ a.left \in Nat /\ i.size + a.left <= MaxSize[f] /\ i.size + a.left \in Nat
      /\ i.size <= i.size + a.left
  BY DEF Frame, Inode, Grows
<1>2. has_used(i.size) \in Nat /\ has_used(i.size) >= 1 /\ has_used(i.size) <= has_used(i.size + a.left)
  BY <1>1, HasFacts
<1>3. has_used(i.size + a.left) \in Nat
  BY <1>1, HasFacts
<1>4. has_used(i.size + a.left) <= MaxBlk - 1
  BY <1>1, InIndex
<1>5. i.size = 0 => has_used(i.size) = 1
  <2>1. 0 < BLOCK_SIZE
    BY Consts
  <2> QED BY <1>1, <2>1, HasFacts
<1> QED BY <1>1, <1>2, <1>3, <1>4, <1>5

\* The first of the blocks to take is the one behind those of the old size.
LEMMA CollectFill ==
    ASSUME Usual, NEW f \in Files, NEW a \in Frame, NEW i \in Inode, NEW d \in Inode, NEW dk, NEW cr,
           NEW a2 \in Frame, NEW i2 \in Inode,
           a.left > 0, Grows(a, i, d, MaxSize[f]), i.size = d.size, Whole(dk, d, MaxSize[f]),
           Shape(i, has_used(i.size), has_used(i.size)), has_used(i.size) <= ND,
           a2.left = a.left, a2.will = has_used(i.size + a.left), a2.next = has_used(i.size),
           a2.all = Old(i), a2.tab <=> a2.will > ND,
           i2.size = i.size, \A k \in 0..(ND - 1) : i2.sect[k] = i.sect[k],
           i2.sect[ND] # 0 <=> a2.will > ND
    PROVE  Fill(a2, i2, d, dk, cr) /\ Grows(a2, i2, d, MaxSize[f]) /\ d.sect[ND] = 0
<1> DEFINE has == has_used(i.size)
           will == has_used(i.size + a.left)
<1>1. /\ i.size \in Nat /\ a.left \in Nat /\ has \in Nat /\ has >= 1 /\ will \in Nat /\ has <= will
      /\ i.size = 0 => has = 1
  BY CollectRange
<1>2. /\ ND \in Nat /\ ND > 0 /\ NI \in Nat /\ NI > 0
      /\ Index = 0..(ND + NI - 1) /\ TableSlots = ND..(ND + NI - 1)
  BY Consts, Ranges
<1>3. Count(d) = IF i.size = 0 THEN 0 ELSE has
  BY DEF Count
<1>4. \A k \in Index : a2.all[k] = IF k = has - 1 /\ k < ND THEN i.sect[k] ELSE 0
  BY DEF Old
<1>5. a2.left = a.left /\ a2.will = will /\ a2.next = has /\ has <= ND
  OBVIOUS
<1>6. \A k \in 0..(ND - 1) : i.sect[k] # 0 <=> k < has
  BY DEF Shape
<1> HIDE DEF has, will
<1>7. d.sect[ND] = 0
  <2>1. ~(Count(d) > ND)
    BY <1>1, <1>2, <1>3, <1>5
  <2> QED BY <2>1 DEF Whole, Shape
<1>8. Shape(i2, has, will)
  BY <1>5, <1>6 DEF Shape
<1>9. \A k \in Index : has - 1 <= k /\ k < has => a2.all[k] # 0 /\ (k < ND => a2.all[k] = i2.sect[k])
  <2> SUFFICES ASSUME NEW k \in Index, has - 1 <= k, k < has
               PROVE  a2.all[k] # 0 /\ a2.all[k] = i2.sect[k]
    OBVIOUS
  <2>1. k = has - 1 /\ k < ND /\ k \in 0..(ND - 1)
    BY <1>1, <1>2, <1>5
  <2> QED BY <1>4, <1>6, <2>1
<1>10. \A k \in TableSlots : k >= has => a2.all[k] = 0
  BY <1>1, <1>2, <1>4
<1>11. a2.tab <=> will > ND /\ will > has
  BY <1>1, <1>2, <1>5
<1>12. Fill(a2, i2, d, dk, cr)
  <2>1. has_used(i2.size) = has /\ has_used(i2.size + a2.left) = will
    BY <1>5 DEF has, will
  <2>2. has <= a2.next /\ a2.next <= a2.will /\ i2.size = d.size /\ a2.left > 0
    BY <1>1, <1>5
  <2> QED BY <1>5, <1>7, <1>8, <1>9, <1>10, <1>11, <2>1, <2>2 DEF Fill
<1>13. Grows(a2, i2, d, MaxSize[f])
  <2>1. \A k \in 0..ND : d.sect[k] # 0 => d.sect[k] = i.sect[k]
    BY DEF Grows
  <2>2. ASSUME NEW k \in 0..ND, d.sect[k] # 0 PROVE d.sect[k] = i2.sect[k]
    <3>1. k \in 0..(ND - 1)
      BY <1>2, <1>7, <2>2
    <3> QED BY <2>1, <2>2, <3>1
  <2> QED BY <1>5, <2>2 DEF Grows
<1> QED BY <1>7, <1>12, <1>13

\* The cases of file_write
LEMMA CollectStep ==
    ASSUME Inv, Usual, Room, NEW p \in Procs, NEW a \in Frame, NEW i \in Inode, CanCollect(p, a, i),
           Collect(p, a, i, bmap),
           dmap' = bmap \/ (dmap' = dmap /\ at[p].pc # "sync" /\ i.size > 0),
           UNCHANGED <<entry, dinode, disk, life, safe, crashes>>
    PROVE  Inv' /\ Appends(p)
<1> DEFINE f == FileOf[p]
           d == dinode[f]
           m == MaxSize[f]
           has == has_used(i.size)
           will == has_used(i.size + a.left)
           a1 == [a EXCEPT !.will = will, !.next = has]
           tb == FreeBit(bmap)
<1>1. /\ f \in Files /\ at[p] \in Frame /\ mem[f] \in Inode /\ d \in Inode /\ 0 \in bmap /\ TypeOK
      /\ bmap \subseteq Bits /\ m \in Nat
  BY MyFacts DEF Inv
<1>2. /\ ModeOf[p] = "w" /\ pos[p] # Closed /\ at[p].op \in {"none", "write"}
      /\ a.op = "write" /\ a.left > 0 /\ ~a.tab
      /\ \A k, b : b # 0 /\ InInode(i, k, b) => Owns(f, k, b)
      /\ crashes = 0 => \A k, b : Owns(f, k, b) => InInode(i, k, b) \/ OnDisk(disk, d, k, b)
      /\ Keeps(mem[f], i) /\ Grows(a, i, d, m) /\ i.size = d.size /\ Shape(i, has, has)
      /\ i.size > 0 => i = d /\ mem[f] = d /\ NoMore(disk, d, has, crashes)
  BY DEF CanCollect
<1>3. /\ i.size \in Nat /\ a.left \in Nat /\ has \in Nat /\ has >= 1 /\ will \in Nat /\ has <= will
      /\ will <= MaxBlk - 1 /\ (i.size = 0 => has = 1)
  BY <1>1, <1>2, CollectRange
<1>4. ND \in Nat /\ ND > 0 /\ NI \in Nat /\ NI > 0 /\ MaxBlk \in Nat
  BY Consts
<1>5. /\ Alone(p) /\ entry[f] /\ Covers(disk, mem[f]) /\ mem[f].size <= m /\ Whole(disk, d, m)
  BY <1>2, WriterFacts
<1>6. tb \in InPartition /\ tb \notin bmap /\ tb \in Bits /\ tb # None /\ tb # 0
      /\ \E x \in InPartition : x \notin bmap \cup {tb}
  BY <1>1, RoomFacts
<1>7. /\ a1 \in Frame /\ a1.op = a.op /\ a1.left = a.left /\ a1.will = will /\ a1.next = has
      /\ a1.tab = a.tab
  BY <1>3 DEF Frame
<1>8. Old(i) \in [Index -> Nat] /\ \A k \in TableSlots : Old(i)[k] = 0
  <2>1. \A k \in Index : k = has - 1 /\ k < ND => i.sect[k] \in Nat
    <3>1. \A k \in Index : k = has - 1 /\ k < ND => k \in 0..ND
      BY <1>3, <1>4
    <3>2. \A k \in 0..ND : i.sect[k] \in Nat
      BY Ranges, Consts DEF Inode
    <3> QED BY <3>1, <3>2
  <2>2. \A k \in TableSlots : k \in Index /\ ~(k < ND)
    BY Ranges, Consts
  <2> QED BY <2>1, <2>2 DEF Old
<1>9. CASE has > ND
  <2> DEFINE a2 == [a1 EXCEPT !.pc = "table_r", !.tab = will > has]
  <2>1. i.size > 0 /\ i = d /\ mem[f] = d /\ NoMore(disk, d, has, crashes) /\ i.sect[ND] # 0
    BY <1>2, <1>3, <1>4, <1>9 DEF Shape
  <2>2. Go(p, a2, i, bmap) /\ pos' = pos /\ panic' = panic
    BY <1>3, <1>4, <1>9, <2>1, SMTT(30) DEF Collect
  <2>3. /\ a2 \in Frame /\ a2.pc = "table_r" /\ a2.op = "write" /\ a2.left = a.left /\ a2.will = will
        /\ a2.next = has /\ (a2.tab <=> will > has)
    <3>1. "table_r" \in Pcs /\ (will > has) \in BOOLEAN
      BY DEF Pcs
    <3> QED BY <1>2, <1>7, <3>1 DEF Frame
  <2> HIDE DEF a2, a1
  <2>4. /\ at' \in [Procs -> Frame] /\ mem' \in [Files -> Inode] /\ bmap' = bmap
        /\ at'[p] = a2 /\ mem'[f] = i
        /\ \A q \in Procs : q # p => at'[q] = at[q]
        /\ \A g \in Files : g # f => mem'[g] = mem[g]
    BY <1>1, <2>2, <2>3, GoFacts
  <2>5. TypeOK' /\ ~panic'
    BY <1>1, <2>2, <2>4 DEF TypeOK, Inv
  <2>6. Local(p, 0)
    <3>1. OnlyCall(p)
      BY <2>2, <2>4 DEF OnlyCall
    <3> QED BY <3>1, OnlyCallLocal
  <2>7. \A k, c : InHand(disk, a2, i, k, c) <=> OnDisk(disk, d, k, c)
    BY <2>1, <2>3 DEF InHand, Filling, OnDisk
  <2>8. \A k, c : Owns(f, k, c)' <=> c # 0 /\ OnDisk(disk, d, k, c)
    <3>1. \A k, c : Owns(f, k, c)' <=>
            /\ c # 0
            /\ (entry'[f] /\ OnDisk(disk', dinode'[f], k, c)) \/ InHand(disk', at'[p], mem'[f], k, c)
      BY <1>5, <2>4, OwnsMineNext
    <3> QED BY <1>5, <2>4, <2>7, <3>1
  <2>9. \A k, c : c # 0 /\ OnDisk(disk, d, k, c) => Owns(f, k, c) /\ c \in bmap /\ c \in dmap
    BY <1>1, <1>5 DEF Owns, Inv, KnownOnDisk, OwnedMarked
  <2>10. Claims(f, {})
    <3>1. crashes = 0 => \A k, c : Owns(f, k, c) => Owns(f, k, c)'
      <4> SUFFICES ASSUME crashes = 0, NEW k, NEW c, Owns(f, k, c) PROVE Owns(f, k, c)'
        OBVIOUS
      <4>1. c # 0
        BY DEF Owns
      <4> QED BY <1>2, <2>1, <2>8, <4>1 DEF OnDisk
    <3> QED BY <2>4, <2>8, <2>9, <3>1 DEF Claims
  <2>11. Synced(p)
    <3>1. \A k, c : c # 0 /\ OnDisk(disk, d, k, c) => c \in dmap'
      BY <2>9
    <3> QED BY <2>4, <2>7, <3>1 DEF Synced
  <2>12. Extends(disk, mem[f], disk, i)
    BY <1>1, <1>2, <1>5, KeepsExtends
  <2>13. Writing(a2, i, d, disk, crashes, pos[p], m)
    <3>1. Grows(a2, i, d, m)
      BY <1>2, <2>3 DEF Grows
    <3>2. Step2(a2, i, d, disk, crashes)
      BY <1>2, <1>9, <2>1, <2>3 DEF Step2
    <3> QED BY <3>1, <3>2 DEF Writing
  <2> QED BY <1>2, <1>5, <2>2, <2>3, <2>4, <2>5, <2>6, <2>10, <2>11, <2>12, <2>13, WriteStep
<1>10. CASE has <= ND /\ will <= ND
  <2> DEFINE a2 == [a1 EXCEPT !.all = Old(i)]
  <2>1. AllocBlocks(p, a2, i, bmap)
    <3>1. i.sect[has - 1] # 0
      <4>1. has - 1 \in 0..(ND - 1) /\ has - 1 < has
        BY <1>3, <1>4, <1>10
      <4> QED BY <1>2, <4>1 DEF Shape
    <3>2. ~(will > MaxBlk) /\ ~(has > ND)
      BY <1>3, <1>4, <1>10, SMTT(30)
    <3> QED BY <1>10, <3>1, <3>2 DEF Collect, Old
  <2>2. /\ a2 \in Frame /\ a2.op = "write" /\ a2.left = a.left /\ a2.will = will
        /\ a2.next = has /\ ~a2.tab /\ a2.all = Old(i)
    BY <1>2, <1>7, <1>8 DEF Frame
  <2> HIDE DEF a2, a1
  <2>3. Fill(a2, i, d, disk, crashes) /\ Grows(a2, i, d, m)
    <3>1. (a2.tab <=> a2.will > ND) /\ (i.sect[ND] # 0 <=> a2.will > ND)
      BY <1>2, <1>3, <1>4, <1>10, <2>2 DEF Shape
    <3> QED BY <1>1, <1>2, <1>5, <1>10, <2>2, <3>1, CollectFill
  <2>4. \A k, b : b # 0 /\ FillClaim(a2, i, k, b) <=> b # 0 /\ InInode(i, k, b)
    BY <1>8, <2>2 DEF FillClaim
  <2>5. Holds(p, a2, i, bmap, {})
    BY <1>1, <1>2, <2>4 DEF Holds, Owns
  <2>6. CanFill(p, a2, i, bmap, {})
    BY <1>2, <1>6, <2>2, <2>3, <2>5 DEF CanFill
  <2> QED BY <1>2, <2>1, <2>2, <2>6, TakeBlocks
<1>11. CASE has <= ND /\ will > ND
  <2> DEFINE a2 == [a1 EXCEPT !.all = Old(i), !.tab = TRUE]
             i2 == [i EXCEPT !.sect[ND] = tb]
             N == {<<MaxBlk, tb>>}
  <2>1. i.sect[ND] = 0
    BY <1>2, <1>3, <1>4, <1>11 DEF Shape
  <2>2. AllocBlocks(p, a2, i2, bmap \cup {tb})
    <3>1. ~(will > MaxBlk) /\ ~(has > ND) /\ ~(will <= ND)
      BY <1>3, <1>4, <1>11, SMTT(30)
    <3> QED BY <1>6, <2>1, <3>1 DEF Collect, Old
  <2>3. /\ a2 \in Frame /\ a2.op = "write" /\ a2.left = a.left /\ a2.will = will
        /\ a2.next = has /\ a2.tab /\ a2.all = Old(i)
    BY <1>2, <1>7, <1>8 DEF Frame
  <2>4. /\ i2 \in Inode /\ i2.size = i.size /\ i2.sect[ND] = tb
        /\ \A k \in 0..(ND - 1) : i2.sect[k] = i.sect[k]
    <3>1. i2.sect = [i.sect EXCEPT ![ND] = tb] /\ i2.size = i.size
      BY DEF Inode
    <3>2. i.sect \in [0..ND -> Bits] /\ ND \in 0..ND
      BY <1>4 DEF Inode
    <3>3. [i.sect EXCEPT ![ND] = tb] \in [0..ND -> Bits]
      BY <1>6, <3>2
    <3>4. i2 \in Inode
      BY <3>3 DEF Inode
    <3>5. \A k \in 0..(ND - 1) : k \in 0..ND /\ k # ND
      BY <1>4
    <3> QED BY <3>1, <3>2, <3>4, <3>5
  <2> HIDE DEF a2, a1, i2, tb
  <2>5. Fill(a2, i2, d, disk, crashes) /\ Grows(a2, i2, d, m)
    <3>1. (a2.tab <=> a2.will > ND) /\ (i2.sect[ND] # 0 <=> a2.will > ND)
      BY <1>6, <1>11, <2>3, <2>4
    <3> QED BY <1>1, <1>2, <1>5, <1>11, <2>3, <2>4, <3>1, CollectFill, ZenonT(40)
  <2>6. \A k, b : b # 0 => (FillClaim(a2, i2, k, b) <=> InInode(i2, k, b))
    BY <1>8, <2>3 DEF FillClaim
  <2>7. \A k, b : b # 0 => (InInode(i2, k, b) <=> InInode(i, k, b) \/ <<k, b>> \in N)
    BY <2>1, <2>4 DEF InInode
  <2>8. Holds(p, a2, i2, bmap \cup {tb}, N)
    <3>1. \A k, b : b # 0 /\ FillClaim(a2, i2, k, b) => Owns(f, k, b) \/ <<k, b>> \in N
      BY <1>2, <2>6, <2>7
    <3>2. \A k, b : <<k, b>> \in N => /\ b \notin bmap /\ b \in bmap \cup {tb} /\ b \in InPartition
                                      /\ FillClaim(a2, i2, k, b)
      BY <1>6, <2>6, <2>7
    <3>3. crashes = 0 => \A k, b : Owns(f, k, b) => FillClaim(a2, i2, k, b) \/ OnDisk(disk, d, k, b)
      <4> SUFFICES ASSUME crashes = 0, NEW k, NEW b, Owns(f, k, b)
                   PROVE  FillClaim(a2, i2, k, b) \/ OnDisk(disk, d, k, b)
        OBVIOUS
      <4>1. b # 0
        BY DEF Owns
      <4> QED BY <1>2, <2>6, <2>7, <4>1
    <3> QED BY <1>1, <1>6, <3>1, <3>2, <3>3 DEF Holds
  <2>9. Keeps(mem[f], i2)
    <3>1. ASSUME NEW k \in 0..ND, mem[f].sect[k] # 0 PROVE mem[f].sect[k] = i2.sect[k]
      <4>1. mem[f].sect[k] = i.sect[k]
        BY <1>2, <3>1 DEF Keeps
      <4>2. k \in 0..(ND - 1)
        BY <1>4, <2>1, <3>1, <4>1
      <4> QED BY <2>4, <4>1, <4>2
    <3> QED BY <1>2, <2>4, <3>1 DEF Keeps
  <2>10. CanFill(p, a2, i2, bmap \cup {tb}, N)
    BY <1>2, <1>6, <2>3, <2>5, <2>8, <2>9 DEF CanFill
  <2>11. a2.next < a2.will
    BY <1>3, <1>4, <1>11, <2>3
  <2> QED BY <2>2, <2>3, <2>4, <2>10, <2>11, TakeBlocks
<1> QED BY <1>3, <1>4, <1>9, <1>10, <1>11

-----------------------------------------------------------------------------
(* file_write: the steps                                                    *)

\* While nobody changes a file it owns what the disk names, and the inode in
\* memory is the one on disk.
LEMMA AtRest ==
    ASSUME Inv, Usual, NEW p \in Procs, ModeOf[p] = "w", pos[p] # Closed, at[p].pc = "user"
    PROVE  LET f == FileOf[p]  d == dinode[f] IN
           /\ at[p] = User /\ mem[f] = d /\ NoMore(disk, d, Count(d), crashes)
           /\ Whole(disk, d, MaxSize[f]) /\ entry[f]
           /\ \A k, b : Owns(f, k, b) <=> b # 0 /\ OnDisk(disk, d, k, b)
<1> DEFINE f == FileOf[p]
           d == dinode[f]
<1>1. at[p] = User /\ at[p].op = "none" /\ entry[f] /\ FileOK(f)
  BY MyFacts DEF CallOK
<1>2. Alone(p)
  BY WriterAlone
<1>3. \A q \in Procs : FileOf[q] = f => ~Busy(q)
  BY <1>1, <1>2 DEF Alone, Busy
<1>4. Opened(f)
  BY DEF Opened
<1>5. mem[f] = d /\ NoMore(disk, d, Count(d), crashes) /\ Whole(disk, d, MaxSize[f])
  BY <1>1, <1>3, <1>4 DEF FileOK
<1>6. \A k, b : ~InHand(disk, at[p], mem[f], k, b)
  BY <1>1 DEF InHand
<1>7. \A k, b : Owns(f, k, b) <=> b # 0 /\ OnDisk(disk, d, k, b)
  <2>1. \A k, b : Owns(f, k, b) <=>
          b # 0 /\ ((entry[f] /\ OnDisk(disk, d, k, b)) \/ InHand(disk, at[p], mem[f], k, b))
    BY <1>2, OwnsMine
  <2> QED BY <1>1, <1>6, <2>1
<1> QED BY <1>1, <1>5, <1>7

\* The call before it waits for anything
LEMMA UserFacts ==
    /\ User \in Frame /\ User.op = "none" /\ User.pc = "user" /\ User.will = 0 /\ User.tab = FALSE
    /\ User.next = 0 /\ User.bit = 0 /\ User.left = 0
    /\ NoInode \in Inode /\ NoInode.size = 0 /\ \A k \in 0..ND : NoInode.sect[k] = 0
<1>1. NoInode \in Inode /\ NoInode.size = 0 /\ \A k \in 0..ND : NoInode.sect[k] = 0
  BY Ranges DEF NoInode, Inode
<1>2. Blank \in [Cell -> Nat] /\ [k \in Index |-> 0] \in [Index -> Nat]
  BY DEF Blank
<1>3. "user" \in Pcs /\ << >> \in Seq(Nat)
  BY DEF Pcs
<1> HIDE DEF NoInode, Blank
<1>4. User \in Frame
  BY <1>1, <1>2, <1>3 DEF User, Frame
<1> QED BY <1>1, <1>4 DEF User

\* write() takes the first block of an empty file, or goes on to the cases.
LEMMA SysWriteStep ==
    ASSUME Inv, Usual, Room, NEW p \in Procs, NEW n \in Writes[p], sys_write(p, n)
    PROVE  Inv' /\ Appends(p)
<1> DEFINE f == FileOf[p]
           d == dinode[f]
           m == MaxSize[f]
           i == mem[f]
           a == [User EXCEPT !.op = "write", !.left = n]
           b == FreeBit(bmap)
<1>1. /\ f \in Files /\ at[p] \in Frame /\ i \in Inode /\ d \in Inode /\ 0 \in bmap /\ TypeOK
      /\ bmap \subseteq Bits /\ m \in Nat
  BY MyFacts DEF Inv
<1>2. /\ at[p].pc = "user" /\ pos[p] # Closed /\ ModeOf[p] = "w" /\ i.size + n <= m
      /\ UNCHANGED <<entry, dinode, disk, dmap, life, safe, crashes>>
  BY DEF sys_write, At, device, history
<1>3. /\ at[p] = User /\ i = d /\ NoMore(disk, d, Count(d), crashes) /\ Whole(disk, d, m) /\ entry[f]
      /\ \A k, c : Owns(f, k, c) <=> c # 0 /\ OnDisk(disk, d, k, c)
  BY <1>2, AtRest
<1>4. n \in Nat /\ n > 0
  BY Consts DEF Usual
<1>5. a \in Frame /\ a.op = "write" /\ a.left = n /\ ~a.tab /\ a.pc = "user" /\ a.will = 0
  BY <1>4, UserFacts DEF Frame
<1>6. at[p].op = "none"
  BY <1>3, UserFacts
<1>7. i.size \in Nat /\ Grows(a, i, d, m) /\ Keeps(i, i)
  BY <1>1, <1>2, <1>3, <1>4, <1>5 DEF Inode, Grows, Keeps
<1>8. ND \in Nat /\ ND > 0
  BY Consts
<1>9. CASE i.sect[0] # 0
  <2>1. Collect(p, a, i, bmap)
    BY <1>9 DEF sys_write
  <2>2. i.size > 0 /\ Count(i) = has_used(i.size)
    <3>1. 0 \in 0..(ND - 1)
      BY <1>8
    <3>2. Count(i) # 0
      BY <1>3, <1>9, <3>1 DEF Whole, Shape
    <3> QED BY <1>7, <3>2 DEF Count
  <2>3. \A k, c : c # 0 /\ InInode(i, k, c) => Owns(f, k, c)
    BY <1>3 DEF OnDisk
  <2>4. CanCollect(p, a, i)
    <3>1. Shape(i, has_used(i.size), has_used(i.size)) /\ NoMore(disk, d, has_used(i.size), crashes)
      BY <1>3, <2>2 DEF Whole
    <3> HIDE DEF a
    <3> QED BY <1>2, <1>3, <1>4, <1>5, <1>6, <1>7, <2>2, <2>3, <3>1 DEF CanCollect
  <2> HIDE DEF a
  <2> QED BY <1>1, <1>2, <1>3, <1>5, <2>1, <2>2, <2>4, UserFacts, CollectStep
<1>10. CASE i.sect[0] = 0
  <2> DEFINE a2 == [a EXCEPT !.pc = "sync", !.bit = b]
             i2 == [i EXCEPT !.sect[0] = b]
             N == {<<0, b>>}
  <2>1. b \in InPartition /\ b \notin bmap /\ b \in Bits /\ b # None /\ b # 0
    BY <1>1, RoomFacts
  <2>2. Go(p, a2, i2, bmap \cup {b}) /\ pos' = pos /\ panic' = panic
    BY <1>10, <2>1 DEF sys_write
  <2>3. a2 \in Frame /\ a2.pc = "sync" /\ a2.bit = b /\ a2.op = "write" /\ a2.left = n /\ a2.will = 0
        /\ ~a2.tab
    <3>1. "sync" \in Pcs /\ b \in Nat
      BY <2>1, Ranges DEF Pcs
    <3> QED BY <1>5, <3>1 DEF Frame
  <2>4. /\ i2 \in Inode /\ i2.size = i.size /\ i2.sect[0] = b
        /\ \A k \in 0..ND : k # 0 => i2.sect[k] = i.sect[k]
    <3>1. i2.sect = [i.sect EXCEPT ![0] = b] /\ i2.size = i.size
      BY <1>1 DEF Inode
    <3>2. i.sect \in [0..ND -> Bits] /\ 0 \in 0..ND
      BY <1>1, <1>8 DEF Inode
    <3>3. [i.sect EXCEPT ![0] = b] \in [0..ND -> Bits]
      BY <2>1, <3>2
    <3>4. i2 \in Inode
      BY <1>1, <3>3 DEF Inode
    <3> QED BY <3>1, <3>2, <3>4
  <2> HIDE DEF a, a2, i2, b
  <2>5. i.size = 0 /\ Shape(i, 0, 0)
    <3>1. 0 \in 0..(ND - 1) /\ Shape(i, Count(i), Count(i))
      BY <1>3, <1>8 DEF Whole
    <3>2. Count(i) = 0
      <4>1. ~(0 < Count(i))
        BY <1>10, <3>1 DEF Shape
      <4>2. i.size = 0 \/ has_used(i.size) >= 1
        BY <1>7, HasFacts
      <4>3. has_used(i.size) \in Nat
        BY <1>7, HasFacts
      <4> QED BY <4>1, <4>2, <4>3 DEF Count
    <3>3. i.size = 0
      <4>1. i.size = 0 \/ has_used(i.size) >= 1
        BY <1>7, HasFacts
      <4> QED BY <3>2, <4>1 DEF Count
    <3> QED BY <3>1, <3>2, <3>3
  <2>6. i.sect[ND] = 0 /\ \A k \in 0..ND : i.sect[k] = 0
    BY <1>8, <2>5 DEF Shape
  <2>7. /\ at' \in [Procs -> Frame] /\ mem' \in [Files -> Inode] /\ bmap' = bmap \cup {b}
        /\ at'[p] = a2 /\ mem'[f] = i2
        /\ \A q \in Procs : q # p => at'[q] = at[q]
        /\ \A g \in Files : g # f => mem'[g] = mem[g]
    BY <1>1, <2>2, <2>3, <2>4, GoFacts
  <2>8. TypeOK' /\ ~panic'
    <3>1. bmap' \subseteq Bits /\ 0 \in bmap'
      BY <1>1, <2>1, <2>7
    <3> QED BY <1>1, <1>2, <2>2, <2>7, <3>1 DEF TypeOK, Inv
  <2>9. Local(p, 0)
    <3>1. OnlyCall(p)
      BY <1>2, <2>2, <2>7 DEF OnlyCall
    <3> QED BY <3>1, OnlyCallLocal
  <2>10. Alone(p)
    BY <1>2, WriterAlone
  <2>11. \A k, c : c # 0 => (InHand(disk, a2, i2, k, c) <=> k = 0 /\ c = b)
    <3>1. i2.sect[ND] = 0 /\ \A k \in 0..(ND - 1) : i2.sect[k] = IF k = 0 THEN b ELSE 0
      BY <1>8, <2>4, <2>6
    <3>2. ~Filling(a2)
      BY <2>3 DEF Filling
    <3> QED BY <1>8, <2>3, <3>1, <3>2 DEF InHand, InInode, InTable
  <2>12. \A k, c : ~(c # 0 /\ OnDisk(disk, d, k, c))
    BY <1>3, <1>8, <2>6 DEF OnDisk, InInode, InTable
  <2>13. \A k, c : Owns(f, k, c)' <=> k = 0 /\ c = b
    <3>1. \A k, c : Owns(f, k, c)' <=>
            /\ c # 0
            /\ (entry'[f] /\ OnDisk(disk', dinode'[f], k, c)) \/ InHand(disk', at'[p], mem'[f], k, c)
      BY <2>7, <2>10, OwnsMineNext
    <3> QED BY <1>2, <2>1, <2>7, <2>11, <2>12, <3>1
  <2>14. Claims(f, N)
    BY <1>3, <2>1, <2>7, <2>12, <2>13 DEF Claims
  <2>15. Synced(p)
    BY <1>2, <2>3, <2>7, <2>12 DEF Synced
  <2>16. Extends(disk, i, disk, i2)
    <3>1. Keeps(i, i2)
      BY <1>7, <2>4, <2>6 DEF Keeps
    <3>2. Covers(disk, i) /\ i.size <= m
      BY <1>2, WriterFacts
    <3> QED BY <1>1, <2>4, <3>1, <3>2, KeepsExtends
  <2>17. Writing(a2, i2, d, disk, crashes, pos[p], m)
    <3>1. Grows(a2, i2, d, m)
      BY <1>3, <1>7, <1>5, <2>3, <2>4, <2>6 DEF Grows
    <3>2. Shape(i2, 1, 0)
      BY <1>8, <2>1, <2>4, <2>6 DEF Shape
    <3>3. Step1(a2, i2, d)
      BY <1>3, <1>4, <2>3, <2>4, <2>5, <3>2 DEF Step1
    <3> QED BY <3>1, <3>3 DEF Writing
  <2> QED BY <1>2, <1>3, <2>1, <2>2, <2>3, <2>7, <2>8, <2>9, <2>14, <2>15, <2>16, <2>17, WriteStep
<1> QED BY <1>9, <1>10

\* What a call under way holds, and what is known of its file
LEMMA WriteFacts ==
    ASSUME Inv, Usual, NEW p \in Procs, at[p].op = "write"
    PROVE  LET f == FileOf[p]  d == dinode[f]  i == mem[f]  a == at[p] IN
           /\ ModeOf[p] = "w" /\ pos[p] # Closed /\ Alone(p) /\ entry[f]
           /\ Grows(a, i, d, MaxSize[f]) /\ Writing(a, i, d, disk, crashes, pos[p], MaxSize[f])
           /\ Covers(disk, i) /\ i.size <= MaxSize[f] /\ Whole(disk, d, MaxSize[f])
           /\ safe[f] = d.size /\ Keeps(i, i)
           /\ \A k, b : Owns(f, k, b) <=> b # 0 /\ (OnDisk(disk, d, k, b) \/ InHand(disk, a, i, k, b))
           /\ \A k, b : Owns(f, k, b) => b \in bmap /\ b \in InPartition /\ b \in Bits
<1> DEFINE f == FileOf[p]
           i == mem[f]
<1>1. ModeOf[p] = "w" /\ pos[p] # Closed
      /\ Writing(at[p], i, dinode[f], disk, crashes, pos[p], MaxSize[f])
  BY MyFacts DEF WriteOK
<1>2. /\ Alone(p) /\ entry[f] /\ Covers(disk, i) /\ i.size <= MaxSize[f]
      /\ Whole(disk, dinode[f], MaxSize[f]) /\ safe[f] = dinode[f].size
  BY <1>1, WriterFacts
<1>3. \A k, b : Owns(f, k, b) <=>
         b # 0 /\ (OnDisk(disk, dinode[f], k, b) \/ InHand(disk, at[p], i, k, b))
  <2>1. \A k, b : Owns(f, k, b) <=>
          b # 0 /\ ((entry[f] /\ OnDisk(disk, dinode[f], k, b)) \/ InHand(disk, at[p], i, k, b))
    BY <1>2, OwnsMine
  <2> QED BY <1>2, <2>1
<1>4. \A k, b : Owns(f, k, b) => b \in bmap /\ b \in InPartition /\ b \in Bits
  <2>1. f \in Files
    BY Consts
  <2> QED BY <2>1, Ranges DEF Inv, OwnedMarked
<1>5. Keeps(i, i)
  <2>1. i.size \in Nat
    BY MyFacts DEF Inode
  <2> QED BY <2>1 DEF Keeps
<1>6. Grows(at[p], i, dinode[f], MaxSize[f])
  BY <1>1 DEF Writing
<1> HIDE DEF f, i
<1> QED BY <1>1, <1>2, <1>3, <1>4, <1>5, <1>6 DEF f, i

\* bitmap_sync is done and file_write goes on.
LEMMA SyncedWrite ==
    ASSUME Inv, Usual, Room, NEW p \in Procs, at[p].op = "write", bitmap_synced(p)
    PROVE  Inv' /\ Appends(p)
<1> DEFINE f == FileOf[p]
           d == dinode[f]
           m == MaxSize[f]
           i == mem[f]
           a == at[p]
<1>1. /\ f \in Files /\ a \in Frame /\ i \in Inode /\ d \in Inode /\ 0 \in bmap /\ TypeOK
      /\ bmap \subseteq Bits /\ m \in Nat /\ CallOK(p)
  BY MyFacts DEF Inv
<1>2. /\ a.pc = "sync" /\ bitmap_sync(a.bit)
      /\ UNCHANGED <<entry, dinode, disk, life, safe, crashes>>
      /\ IF a.will = 0 THEN Collect(p, a, i, bmap) ELSE AllocBlocks(p, a, i, bmap)
  BY DEF bitmap_synced, At, history
<1>3. dmap' = bmap
  BY <1>1, <1>2, SyncAll DEF CallOK
<1>4. /\ ModeOf[p] = "w" /\ pos[p] # Closed /\ Grows(a, i, d, m)
      /\ Writing(a, i, d, disk, crashes, pos[p], m) /\ Whole(disk, d, m) /\ Keeps(i, i)
      /\ \A k, b : Owns(f, k, b) <=> b # 0 /\ (OnDisk(disk, d, k, b) \/ InHand(disk, a, i, k, b))
  BY WriteFacts
<1>5. Step1(a, i, d) \/ Step3(a, i, d, disk, crashes)
  BY <1>2, <1>4 DEF Writing, Step2, Step4, Step5
<1>6. CASE Step1(a, i, d)
  <2>1. a.will = 0 /\ ~a.tab /\ a.left > 0 /\ i.size = 0 /\ d.size = 0 /\ Shape(i, 1, 0)
    BY <1>6 DEF Step1
  <2>2. ND \in Nat /\ ND > 0 /\ 0 < BLOCK_SIZE
    BY Consts
  <2>3. has_used(i.size) = 1 /\ Shape(i, 1, 1)
    <3>1. has_used(i.size) = 1
      BY <2>1, <2>2, HasFacts
    <3> QED BY <2>1, <2>2, <3>1 DEF Shape
  <2>4. \A k, b : InHand(disk, a, i, k, b) => InInode(i, k, b)
    <3>1. i.sect[ND] = 0 /\ ~Filling(a)
      BY <2>1, <2>2 DEF Shape, Filling
    <3> QED BY <3>1 DEF InHand, InTable
  <2>5. \A k, b : b # 0 /\ InInode(i, k, b) => Owns(f, k, b)
    BY <1>4 DEF InHand
  <2>6. CanCollect(p, a, i)
    BY <1>4, <2>1, <2>3, <2>4, <2>5 DEF CanCollect
  <2> QED BY <1>1, <1>2, <1>3, <2>1, <2>6, CollectStep
<1>7. CASE Step3(a, i, d, disk, crashes)
  <2>1. Filling(a) /\ a.will # 0 /\ Fill(a, i, d, disk, crashes)
    BY <1>7 DEF Step3, Filling
  <2>2. \A k, b : InHand(disk, a, i, k, b) <=> FillClaim(a, i, k, b)
    BY <2>1 DEF InHand, FillClaim
  <2>3. Holds(p, a, i, bmap, {})
    BY <1>1, <1>4, <2>2 DEF Holds
  <2>4. \E x \in InPartition : x \notin bmap
    BY <1>1, RoomFacts
  <2>5. CanFill(p, a, i, bmap, {})
    BY <1>4, <2>1, <2>3, <2>4 DEF CanFill
  <2> QED BY <1>1, <1>2, <1>3, <2>1, <2>5, TakeBlocks
<1> QED BY <1>5, <1>6, <1>7

\* The table has been read; the blocks behind it are taken.
LEMMA TableReadWrite ==
    ASSUME Inv, Usual, Room, NEW p \in Procs, at[p].op = "write", table_read(p)
    PROVE  Inv' /\ Appends(p)
<1> DEFINE f == FileOf[p]
           d == dinode[f]
           m == MaxSize[f]
           i == mem[f]
           a == at[p]
           all == [k \in Index |-> IF k < ND THEN a.all[k] ELSE disk[i.sect[ND]][k - ND]]
           a2 == [a EXCEPT !.all = all]
<1>1. /\ f \in Files /\ a \in Frame /\ i \in Inode /\ d \in Inode /\ 0 \in bmap /\ TypeOK
      /\ bmap \subseteq Bits /\ m \in Nat
  BY MyFacts, SMTT(30) DEF Inv
<1>2. /\ a.pc = "table_r" /\ UNCHANGED <<entry, dinode, disk, dmap, life, safe, crashes>>
      /\ AllocBlocks(p, a2, i, bmap)
  <2>1. a2 = [at[p] EXCEPT !.all = [k \in Index |-> IF k < ND THEN @[k]
                                                    ELSE disk[i.sect[ND]][k - ND]]]
    BY <1>1 DEF Frame
  <2>2. a2.op = "write"
    BY <1>1 DEF Frame
  <2> HIDE DEF a2
  <2> QED BY <2>1, <2>2 DEF table_read, At, device, history
<1>3. /\ ModeOf[p] = "w" /\ pos[p] # Closed /\ Grows(a, i, d, m)
      /\ Writing(a, i, d, disk, crashes, pos[p], m) /\ Whole(disk, d, m) /\ Keeps(i, i)
      /\ \A k, b : Owns(f, k, b) <=> b # 0 /\ (OnDisk(disk, d, k, b) \/ InHand(disk, a, i, k, b))
  BY WriteFacts
<1>4. Step2(a, i, d, disk, crashes)
  BY <1>2, <1>3 DEF Writing, Step1, Step3, Step4, Step5, Filling
<1> DEFINE has == has_used(i.size)
<1>5. /\ a.left > 0 /\ i = d /\ a.next = has /\ has > ND /\ a.will = has_used(i.size + a.left)
      /\ (a.tab <=> a.will > has) /\ NoMore(disk, i, has, crashes)
  BY <1>4 DEF Step2
<1>6. /\ i.size \in Nat /\ has \in Nat /\ has >= 1 /\ a.will \in Nat /\ has <= a.will
      /\ (i.size = 0 => has = 1) /\ a.will <= MaxBlk - 1
  BY <1>1, <1>3, <1>5, CollectRange
<1>7. ND \in Nat /\ ND > 0 /\ NI \in Nat /\ NI > 0 /\ Index = 0..(ND + NI - 1)
      /\ TableSlots = ND..(ND + NI - 1) /\ MaxBlk = ND + NI
  BY Consts, Ranges
<1>8. Count(i) = has /\ i.sect[ND] # 0 /\ Shape(i, has, has) /\ Full(disk, i, has)
  <2>1. Count(i) = has
    BY <1>5, <1>6, <1>7 DEF Count
  <2> QED BY <1>3, <1>5, <2>1 DEF Whole, Shape
<1>9. all \in [Index -> Nat] /\ \A k \in TableSlots : all[k] = disk[i.sect[ND]][k - ND]
  <2>1. i.sect[ND] \in Bits /\ disk \in [Bits -> [Cell -> Nat]] /\ a.all \in [Index -> Nat]
    <3>1. ND \in 0..ND /\ i.sect \in [0..ND -> Bits]
      BY <1>1, <1>7 DEF Inode
    <3>2. disk \in [Bits -> [Cell -> Nat]]
      BY <1>1 DEF TypeOK
    <3>3. a.all \in [Index -> Nat]
      BY <1>1 DEF Frame
    <3> QED BY <3>1, <3>2, <3>3
  <2>2. \A k \in Index : ~(k < ND) => k - ND \in Cell
    BY <1>7, Ranges
  <2>3. \A k \in TableSlots : k \in Index /\ ~(k < ND)
    BY <1>7
  <2> QED BY <2>1, <2>2, <2>3
<1> HIDE DEF all
<1>10. /\ a2 \in Frame /\ a2.op = "write" /\ a2.left = a.left /\ a2.will = a.will /\ a2.next = a.next
       /\ a2.tab = a.tab /\ a2.all = all
  BY <1>1, <1>9 DEF Frame
<1> HIDE DEF a2, has
<1>11. Fill(a2, i, d, disk, crashes)
  <2>1. has_used(i.size) = has /\ i.size = d.size
    BY <1>5 DEF has
  <2>2. Shape(i, has, a.will)
    BY <1>5, <1>6, <1>8, <1>7 DEF Shape
  <2>3. \A k \in Index : has - 1 <= k /\ k < has => all[k] # 0 /\ ~(k < ND)
    <3> SUFFICES ASSUME NEW k \in Index, has - 1 <= k, k < has PROVE all[k] # 0 /\ ~(k < ND)
      OBVIOUS
    <3>1. k \in TableSlots
      BY <1>5, <1>6, <1>7
    <3>2. disk[i.sect[ND]][k - ND] # 0
      BY <1>8, <3>1 DEF Full
    <3>3. ~(k < ND)
      BY <1>7, <3>1
    <3> QED BY <1>9, <3>1, <3>2, <3>3
  <2>4. \A k \in TableSlots : k < has => all[k] = disk[d.sect[ND]][k - ND]
    BY <1>5, <1>9
  <2>5. \A k \in TableSlots : disk[d.sect[ND]][k - ND] \in {0, all[k]}
    BY <1>5, <1>9
  <2>6. crashes = 0 => \A k \in TableSlots : k >= has => all[k] = 0
    BY <1>8, <1>9, <1>5 DEF NoMore
  <2>7. a.tab <=> a.will > ND /\ a.will > has
    BY <1>5, <1>6, <1>7
  <2>8. d.sect[ND] # 0
    BY <1>5, <1>8
  <2>9. has <= a2.next /\ a2.next <= a2.will /\ a2.next = has
    BY <1>5, <1>6, <1>10
  <2> QED BY <1>5, <1>10, <2>1, <2>2, <2>3, <2>4, <2>5, <2>6, <2>7, <2>8, <2>9 DEF Fill
<1>12. \A k, b : b # 0 => (FillClaim(a2, i, k, b) <=> OnDisk(disk, d, k, b))
  BY <1>5, <1>8, <1>9, <1>10 DEF FillClaim, OnDisk, InTable
<1>13. \A k, b : InHand(disk, a, i, k, b) => OnDisk(disk, d, k, b)
  <2>1. ~Filling(a)
    BY <1>2 DEF Filling
  <2> QED BY <1>5, <2>1 DEF InHand, OnDisk
<1>14. Holds(p, a2, i, bmap, {})
  BY <1>1, <1>3, <1>12, <1>13 DEF Holds
<1>15. CanFill(p, a2, i, bmap, {})
  <2>1. Grows(a2, i, d, m)
    BY <1>3, <1>10 DEF Grows
  <2>2. \E x \in InPartition : x \notin bmap
    BY <1>1, RoomFacts
  <2> QED BY <1>3, <1>10, <1>11, <1>14, <2>1, <2>2 DEF CanFill
<1>16. a2.next < a2.will \/ a2.next = has_used(i.size)
  BY <1>5, <1>10 DEF has
<1> QED BY <1>1, <1>2, <1>5, <1>10, <1>15, <1>16, TakeBlocks

\* A size fits in a word.
LEMMA SizeWord ==
    ASSUME Usual, NEW f \in Files, NEW s \in Nat, s <= MaxSize[f]
    PROVE  s < Word /\ s + 1 < Word + 1
<1>1. s < MaxBlk * BLOCK_SIZE
  BY InIndex
<1>2. MaxBlk * BLOCK_SIZE \in Nat /\ Word \in Nat /\ MaxBlk * BLOCK_SIZE < Word
  BY Consts
<1> QED BY <1>1, <1>2

\* The new table holds the addresses that were collected.
LEMMA TableFacts ==
    ASSUME NEW a \in Frame, NEW i \in Inode, NEW d \in Inode, NEW dk, NEW dk2, NEW cr, NEW m, NEW ps,
           Fill(a, i, d, dk, cr), Grows(a, i, d, m), Whole(dk, d, m), a.tab, a.next = a.will,
           \A k \in TableSlots : dk2[i.sect[ND]][k - ND] = a.all[k],
           ps = IF i.size = 0 THEN Word - 1 ELSE i.size - 1
    PROVE  /\ i.sect[ND] # 0 /\ (d.sect[ND] # 0 => d.sect[ND] = i.sect[ND])
           /\ Whole(dk2, d, m) /\ Ready(a, i, dk2, cr, ps) /\ Listed(a, i, dk2)
           /\ \A k \in Nat : k < has_used(i.size) /\ k \in Index => Blk(dk2, i, k) = Blk(dk, i, k)
<1> DEFINE has == has_used(i.size)
           w == i.sect[ND]
<1>1. /\ ND \in Nat /\ ND > 0 /\ NI \in Nat /\ NI > 0 /\ a.next \in Nat /\ a.will \in Nat
      /\ Index = 0..(ND + NI - 1) /\ TableSlots = ND..(ND + NI - 1)
      /\ i.size \in Nat /\ a.left \in Nat /\ has \in Nat /\ has >= 1 /\ has - 1 = i.size \div BLOCK_SIZE
      /\ i.size \div BLOCK_SIZE \in Nat
  BY Consts, Ranges, HasFacts DEF Frame, Inode
<1>2. i.size = 0 => has = 1
  <2>1. i.size = 0 => i.size < BLOCK_SIZE
    BY Consts
  <2> QED BY <1>1, <2>1, HasFacts
<1>3. /\ i.size = d.size /\ a.will = has_used(i.size + a.left) /\ has <= a.will
      /\ Shape(i, a.will, a.will) /\ a.will > ND
      /\ \A k \in Index : has - 1 <= k /\ k < a.will => a.all[k] # 0 /\ (k < ND => a.all[k] = i.sect[k])
      /\ d.sect[ND] # 0 => \A k \in TableSlots : k < has => a.all[k] = dk[d.sect[ND]][k - ND]
      /\ cr = 0 => \A k \in TableSlots : k >= a.will => a.all[k] = 0
  BY DEF Fill
<1> HIDE DEF has
<1>4. w # 0
  BY <1>3 DEF Shape
<1>5. d.sect[ND] # 0 => d.sect[ND] = w
  <2>1. ND \in 0..ND
    BY <1>1
  <2> QED BY <2>1 DEF Grows
<1>6. has > ND => d.sect[ND] # 0 /\ Count(d) = has
  <2> SUFFICES ASSUME has > ND PROVE d.sect[ND] # 0 /\ Count(d) = has
    OBVIOUS
  <2>1. i.size # 0
    BY <1>1, <1>2
  <2>2. Count(d) = has
    BY <1>3, <2>1 DEF Count, has
  <2> QED BY <2>2 DEF Whole, Shape
<1>7. Count(d) \in Nat /\ Count(d) <= has
  BY <1>1, <1>3 DEF Count, has
<1>8. \A k \in TableSlots : k < has => a.all[k] = dk[w][k - ND] /\ a.all[k] # 0
  <2> SUFFICES ASSUME NEW k \in TableSlots, k < has PROVE a.all[k] = dk[w][k - ND] /\ a.all[k] # 0
    OBVIOUS
  <2>1. has > ND /\ d.sect[ND] # 0 /\ Count(d) = has /\ d.sect[ND] = w
    BY <1>1, <1>5, <1>6
  <2>2. a.all[k] = dk[w][k - ND]
    BY <1>3, <2>1
  <2>3. dk[w][k - ND] # 0
    BY <2>1 DEF Whole, Full
  <2> QED BY <2>2, <2>3
<1> HIDE DEF w
<1>9. Whole(dk2, d, m)
  <2>1. Full(dk2, d, Count(d))
    <3> SUFFICES ASSUME d.sect[ND] # 0, NEW k \in TableSlots, k < Count(d)
                 PROVE  dk2[d.sect[ND]][k - ND] # 0
      BY DEF Full
    <3>1. k < has
      BY <1>1, <1>7
    <3> QED BY <1>5, <1>8, <3>1 DEF w
  <2> QED BY <2>1 DEF Whole
<1>10. Full(dk2, i, a.will)
  <2> SUFFICES ASSUME NEW k \in TableSlots, k < a.will PROVE dk2[i.sect[ND]][k - ND] # 0
    BY DEF Full
  <2>1. k < has \/ has - 1 <= k
    BY <1>1
  <2>2. k \in Index
    BY <1>1
  <2> QED BY <1>3, <1>8, <2>1, <2>2
<1>11. NoMore(dk2, i, a.will, cr)
  BY <1>3 DEF NoMore
<1>12. Ready(a, i, dk2, cr, ps)
  BY <1>3, <1>10, <1>11 DEF Ready
<1>13. Listed(a, i, dk2)
  <2> SUFFICES ASSUME NEW k \in Index, i.size \div BLOCK_SIZE <= k, k < a.will
               PROVE  a.all[k] = Blk(dk2, i, k)
    BY DEF Listed
  <2>1. CASE k < ND
    BY <1>1, <1>3, <2>1 DEF Blk
  <2>2. CASE ~(k < ND)
    <3>1. k \in TableSlots
      BY <1>1, <2>2
    <3> QED BY <1>4, <2>2, <3>1 DEF Blk, w
  <2> QED BY <2>1, <2>2
<1>14. ASSUME NEW k \in Nat, k < has, k \in Index PROVE Blk(dk2, i, k) = Blk(dk, i, k)
  <2>1. CASE k < ND
    BY <2>1 DEF Blk
  <2>2. CASE ~(k < ND)
    <3>1. k \in TableSlots
      BY <1>1, <1>14, <2>2, SMTT(30)
    <3> QED BY <1>8, <1>14, <2>2, <3>1 DEF Blk, w
  <2> QED BY <2>1, <2>2
<1> QED BY <1>4, <1>5, <1>9, <1>12, <1>13, <1>14 DEF w, has

\* The table has been written.
LEMMA TableWrittenStep ==
    ASSUME Inv, Usual, NEW p \in Procs, at[p].op = "write", table_written(p)
    PROVE  Inv' /\ Appends(p)
<1> DEFINE f == FileOf[p]
           d == dinode[f]
           m == MaxSize[f]
           i == mem[f]
           a == at[p]
           w == i.sect[ND]
           a2 == [a EXCEPT !.pc = "block_r"]
           ps == IF i.size = 0 THEN Word - 1 ELSE i.size - 1
           T == [c \in Cell |-> IF c < NI THEN a.all[c + ND] ELSE 0]
<1>1. /\ f \in Files /\ a \in Frame /\ i \in Inode /\ d \in Inode /\ 0 \in bmap /\ TypeOK
      /\ bmap \subseteq Bits /\ m \in Nat
  BY MyFacts DEF Inv
<1>2. /\ a.pc = "table_w" /\ UNCHANGED <<entry, dinode, dmap, life, safe, crashes>>
      /\ disk' = [disk EXCEPT ![w] = T] /\ WriteData(p, a, i, bmap)
  BY DEF table_written, At, history
<1>3. /\ ModeOf[p] = "w" /\ pos[p] # Closed /\ Alone(p) /\ entry[f] /\ Grows(a, i, d, m)
      /\ Writing(a, i, d, disk, crashes, pos[p], m) /\ Whole(disk, d, m) /\ Keeps(i, i)
      /\ Covers(disk, i) /\ i.size <= m
      /\ \A k, b : Owns(f, k, b) <=> b # 0 /\ (OnDisk(disk, d, k, b) \/ InHand(disk, a, i, k, b))
      /\ \A k, b : Owns(f, k, b) => b \in bmap /\ b \in InPartition /\ b \in Bits
  BY WriteFacts
<1>4. Step3(a, i, d, disk, crashes) /\ Filling(a)
  BY <1>2, <1>3 DEF Writing, Step1, Step2, Step3, Step4, Step5
<1>5. Fill(a, i, d, disk, crashes) /\ a.tab /\ a.next = a.will /\ a.left > 0
  BY <1>2, <1>4 DEF Step3, Fill
<1>6. i.size \in Nat /\ i.size < Word /\ ps \in Nat /\ ps # Closed
  <2>1. i.size \in Nat
    BY <1>1 DEF Inode
  <2>2. i.size < Word /\ Word \in Nat
    BY <1>1, <1>3, <2>1, SizeWord, Consts
  <2> QED BY <2>1, <2>2 DEF Closed
<1>7. /\ ND \in Nat /\ ND > 0 /\ NI \in Nat /\ Index = 0..(ND + NI - 1)
      /\ TableSlots = ND..(ND + NI - 1) /\ MaxBlk = ND + NI
  BY Consts, Ranges
<1>8. \A k, b : InHand(disk, a, i, k, b) <=> FillClaim(a, i, k, b)
  BY <1>4 DEF InHand, FillClaim
<1>9. w \in Bits /\ w # 0 /\ Owns(f, MaxBlk, w)
  <2>1. ND \in 0..ND /\ i.sect \in [0..ND -> Bits]
    BY <1>1, <1>7 DEF Inode
  <2>2. w # 0
    BY <1>5 DEF Fill, Shape
  <2>3. InInode(i, MaxBlk, w)
    BY DEF InInode
  <2> QED BY <1>3, <1>8, <2>1, <2>2, <2>3 DEF FillClaim
<1>10. T \in [Cell -> Nat] /\ \A k \in TableSlots : T[k - ND] = a.all[k]
  <2>1. \A c \in Cell : c < NI => c + ND \in Index
    <3>1. \A c \in Cell : c \in Nat
      BY Ranges
    <3> QED BY <1>7, <3>1
  <2>2. a.all \in [Index -> Nat]
    BY <1>1 DEF Frame
  <2>3. \A k \in TableSlots : k - ND \in Cell /\ k - ND < NI /\ (k - ND) + ND = k
    BY <1>7, Ranges
  <2> QED BY <2>1, <2>2, <2>3
<1> HIDE DEF T
<1>11. disk \in [Bits -> [Cell -> Nat]] /\ disk' \in [Bits -> [Cell -> Nat]] /\ disk'[w] = T
       /\ \A b \in Bits : b # w => disk'[b] = disk[b]
  <2>1. disk \in [Bits -> [Cell -> Nat]]
    BY <1>1 DEF TypeOK
  <2> QED BY <1>2, <1>9, <1>10, <2>1
<1>12. /\ Go(p, a2, i, bmap) /\ panic' = panic /\ pos'[p] = ps
       /\ pos' \in [Procs -> Nat \cup {Closed}] /\ \A q \in Procs : q # p => pos'[q] = pos[q]
  BY <1>1, <1>2, <1>5, <1>6, WriteDataFacts
<1>13. /\ a2 \in Frame /\ a2.pc = "block_r" /\ a2.op = "write" /\ a2.left = a.left /\ a2.will = a.will
       /\ a2.next = a.next /\ a2.all = a.all /\ a2.tab = a.tab
  <2>1. a.op = "write" /\ "block_r" \in Pcs
    BY DEF Pcs
  <2> QED BY <1>1, <2>1, PcFacts
<1> HIDE DEF a2, ps
<1>14. /\ at' \in [Procs -> Frame] /\ mem' \in [Files -> Inode] /\ bmap' = bmap
       /\ at'[p] = a2 /\ mem'[f] = i
       /\ \A q \in Procs : q # p => at'[q] = at[q]
       /\ \A g \in Files : g # f => mem'[g] = mem[g]
  BY <1>1, <1>12, <1>13, GoFacts
<1>15. TypeOK' /\ ~panic'
  BY <1>1, <1>2, <1>11, <1>12, <1>14 DEF TypeOK, Inv
<1>16. \A g \in Files : \A k : g # f => ~Owns(g, k, w)
  BY <1>1, <1>9 DEF Inv, OwnedOnce
<1>17. Local(p, w)
  BY <1>2, <1>11, <1>12, <1>14, <1>16 DEF Local
<1>18. /\ d.sect[ND] # 0 => d.sect[ND] = w
       /\ Whole(disk', d, m) /\ Ready(a, i, disk', crashes, ps) /\ Listed(a, i, disk')
       /\ \A k \in Nat : k < has_used(i.size) /\ k \in Index => Blk(disk', i, k) = Blk(disk, i, k)
  <2>1. \A k \in TableSlots : disk'[i.sect[ND]][k - ND] = a.all[k]
    BY <1>10, <1>11
  <2> HIDE DEF a, i, d, m, w
  <2>2. ps = IF i.size = 0 THEN Word - 1 ELSE i.size - 1
    BY DEF ps
  <2> QED BY <1>1, <1>3, <1>5, <2>1, <2>2, TableFacts, SMTT(30) DEF w
<1>19. \A k, c : InTable(disk', i, k, c) <=> k \in TableSlots /\ c = a.all[k]
  BY <1>9, <1>10, <1>11 DEF InTable
<1>20. \A k, c : InTable(disk', d, k, c) => InTable(disk', i, k, c)
  BY <1>18 DEF InTable
<1>21. \A k, c : InHand(disk', a2, i, k, c) <=> FillClaim(a, i, k, c)
  <2>1. ~Filling(a2)
    BY <1>13 DEF Filling
  <2> QED BY <1>13, <1>19, <2>1 DEF InHand, FillClaim
<1>22. \A k, c : OnDisk(disk', d, k, c) => OnDisk(disk, d, k, c) \/ FillClaim(a, i, k, c)
  BY <1>19, <1>20 DEF OnDisk, FillClaim
<1>23. \A k, c : Owns(f, k, c)' <=> c # 0 /\ (OnDisk(disk', d, k, c) \/ FillClaim(a, i, k, c))
  <2>1. \A k, c : Owns(f, k, c)' <=>
          /\ c # 0
          /\ (entry'[f] /\ OnDisk(disk', dinode'[f], k, c)) \/ InHand(disk', at'[p], mem'[f], k, c)
    BY <1>3, <1>14, OwnsMineNext
  <2> QED BY <1>2, <1>3, <1>14, <1>21, <2>1
<1>24. crashes = 0 => \A k, c : c # 0 /\ OnDisk(disk, d, k, c) =>
          OnDisk(disk', d, k, c) \/ FillClaim(a, i, k, c)
  <2> SUFFICES ASSUME crashes = 0, NEW k, NEW c, c # 0, InTable(disk, d, k, c)
               PROVE  FillClaim(a, i, k, c)
    BY SMTT(30) DEF OnDisk
  <2>1. c \in {0, a.all[k]} /\ k \in TableSlots
    BY <1>5 DEF InTable, Fill
  <2> QED BY <2>1 DEF FillClaim
<1>25. Claims(f, {})
  <2>1. \A k, c : Owns(f, k, c)' => Owns(f, k, c)
    BY <1>3, <1>8, <1>22, <1>23
  <2>2. crashes = 0 => \A k, c : Owns(f, k, c) => Owns(f, k, c)'
    BY <1>3, <1>8, <1>23, <1>24
  <2> QED BY <1>3, <1>14, <2>1, <2>2 DEF Claims
<1>26. Synced(p)
  <2>1. \A k, c : c # 0 /\ OnDisk(disk, d, k, c) => c \in dmap
    BY <1>1, <1>3 DEF Inv, KnownOnDisk
  <2>2. \A k, c : c # 0 /\ FillClaim(a, i, k, c) => c \in dmap
    BY <1>2, <1>8 DEF Inv, KnownOnDisk
  <2>3. \A k, c : c # 0 /\ OnDisk(disk', d, k, c) => c \in dmap
    BY <1>22, <2>1, <2>2
  <2> QED BY <1>2, <1>14, <1>21, <2>2, <2>3 DEF Synced
<1>27. Extends(disk, i, disk', i)
  <2>1. /\ View(f) = i
        /\ \A k \in Nat : k * BLOCK_SIZE < i.size =>
              k \in Index /\ Blk(disk, i, k) # 0 /\ Owns(f, k, Blk(disk, i, k))
    <3>1. View(f) = i
      BY <1>3 DEF View, Opened
    <3> QED BY <1>1, <1>3, <3>1, ViewOwns
  <2>2. \A k \in Nat : k * BLOCK_SIZE < i.size => Blk(disk', i, k) = Blk(disk, i, k)
    <3> SUFFICES ASSUME NEW k \in Nat, k * BLOCK_SIZE < i.size
                 PROVE  Blk(disk', i, k) = Blk(disk, i, k)
      OBVIOUS
    <3> DEFINE n == k * BLOCK_SIZE
    <3>1. n \in Nat /\ n < i.size
      BY Consts
    <3>2. n <= i.size
      <4> HIDE DEF n
      <4> QED BY <1>6, <3>1
    <3>3. k < has_used(i.size)
      BY <1>6, <3>2, HasFacts
    <3> QED BY <1>18, <2>1, <3>3
  <2>3. \A k \in Nat : k * BLOCK_SIZE < i.size => disk'[Blk(disk, i, k)] = disk[Blk(disk, i, k)]
    <3> SUFFICES ASSUME NEW k \in Nat, k * BLOCK_SIZE < i.size
                 PROVE  disk'[Blk(disk, i, k)] = disk[Blk(disk, i, k)]
      OBVIOUS
    <3>1. k \in Index /\ Owns(f, k, Blk(disk, i, k))
      BY <2>1
    <3>2. k # MaxBlk
      BY <1>7, <3>1
    <3>3. Blk(disk, i, k) # w
      BY <1>1, <1>9, <3>1, <3>2 DEF Inv, OwnedOnce
    <3> QED BY <1>3, <1>11, <3>1, <3>3
  <2>4. ASSUME NEW x \in Nat, x < i.size PROVE Data(disk', i, x) = Data(disk, i, x)
    <3> DEFINE k == x \div BLOCK_SIZE
               n == k * BLOCK_SIZE
    <3>1. k \in Nat /\ n <= x
      BY BlockStart
    <3>2. n < i.size
      <4>1. n \in Nat
        BY <3>1, Consts
      <4> HIDE DEF n
      <4> QED BY <1>6, <2>4, <3>1, <4>1
    <3> QED BY <2>2, <2>3, <3>1, <3>2 DEF Data
  <2> QED BY <1>6, <2>2, <2>4 DEF Extends
<1>28. Writing(a2, i, d, disk', crashes, ps, m)
  <2>1. Grows(a2, i, d, m)
    BY <1>3, <1>13 DEF Grows
  <2>2. i.size = d.size
    BY <1>5 DEF Fill
  <2>3. Step4(a2, i, d, disk', crashes, ps)
    BY <1>5, <1>13, <1>18, <2>2 DEF Step4, Ready, Listed
  <2> QED BY <2>1, <2>3 DEF Writing
<1> QED BY <1>2, <1>3, <1>6, <1>12, <1>13, <1>14, <1>15, <1>17, <1>18, <1>25, <1>26, <1>27, <1>28, WriteStep

\* A write that goes on to wait for something else
LEMMA WaitStep ==
    ASSUME Inv, Usual, NEW p \in Procs, at[p].op = "write", NEW a2 \in Frame, a2.op = "write",
           at' = [at EXCEPT ![p] = a2], UNCHANGED <<mem, bmap, pos, panic, device, history>>,
           a2.pc \notin {"user", "sync", "table_w"}, at[p].pc \notin {"sync", "table_w"},
           Writing(a2, mem[FileOf[p]], dinode[FileOf[p]], disk, crashes, pos[p], MaxSize[FileOf[p]])
    PROVE  Inv' /\ Appends(p)
<1> DEFINE f == FileOf[p]
           d == dinode[f]
           m == MaxSize[f]
           i == mem[f]
           a == at[p]
<1>1. f \in Files /\ a \in Frame /\ i \in Inode /\ d \in Inode /\ TypeOK
  BY MyFacts DEF Inv
<1>2. /\ ModeOf[p] = "w" /\ pos[p] # Closed /\ Alone(p) /\ entry[f] /\ Whole(disk, d, m)
      /\ Covers(disk, i) /\ i.size <= m /\ Keeps(i, i)
      /\ \A k, b : Owns(f, k, b) <=> b # 0 /\ (OnDisk(disk, d, k, b) \/ InHand(disk, a, i, k, b))
      /\ \A k, b : Owns(f, k, b) => b \in bmap /\ b \in InPartition /\ b \in Bits
  BY WriteFacts
<1>3. UNCHANGED <<mem, bmap, pos, panic, entry, dinode, disk, dmap, life, safe, crashes>>
  BY DEF device, history
<1>4. at' \in [Procs -> Frame] /\ at'[p] = a2 /\ \A q \in Procs : q # p => at'[q] = at[q]
  BY <1>1 DEF TypeOK
<1>5. TypeOK' /\ ~panic'
  BY <1>1, <1>3, <1>4 DEF TypeOK, Inv
<1>6. Local(p, 0)
  <2>1. OnlyCall(p)
    BY <1>3, <1>4 DEF OnlyCall
  <2> QED BY <2>1, OnlyCallLocal
<1>7. \A k, b : InHand(disk, a2, i, k, b) <=> InHand(disk, a, i, k, b)
  <2>1. ~Filling(a) /\ ~Filling(a2)
    BY DEF Filling
  <2> QED BY <2>1 DEF InHand
<1>8. \A k, b : Owns(f, k, b)' <=> Owns(f, k, b)
  <2>1. \A k, c : Owns(f, k, c)' <=>
          /\ c # 0
          /\ (entry'[f] /\ OnDisk(disk', dinode'[f], k, c)) \/ InHand(disk', at'[p], mem'[f], k, c)
    BY <1>2, <1>4, OwnsMineNext
  <2> QED BY <1>2, <1>3, <1>4, <1>7, <2>1
<1>9. Claims(f, {})
  BY <1>2, <1>3, <1>8 DEF Claims
<1>10. Synced(p)
  BY <1>1, <1>3, <1>4, <1>7 DEF Synced, Inv, KnownOnDisk
<1>11. Extends(disk, i, disk, i)
  BY <1>1, <1>2, KeepsExtends
<1> QED BY <1>2, <1>3, <1>4, <1>5, <1>6, <1>9, <1>10, <1>11, WriteStep

\* The block that a write reads and writes next is one of its file.
LEMMA NextBlock ==
    ASSUME Inv, Usual, NEW p \in Procs, at[p].op = "write",
           at[p].pc \in {"block_r", "block_w"}
    PROVE  LET f == FileOf[p]  i == mem[f]  a == at[p]  q == i.size \div BLOCK_SIZE IN
           /\ Step4(a, i, dinode[f], disk, crashes, pos[p])
           /\ q \in Index /\ q # MaxBlk /\ q < a.will
           /\ a.all[q] = Blk(disk, i, q) /\ Owns(f, q, a.all[q]) /\ a.all[q] \in Bits
<1> DEFINE f == FileOf[p]
           d == dinode[f]
           i == mem[f]
           a == at[p]
           q == i.size \div BLOCK_SIZE
<1>1. f \in Files /\ a \in Frame /\ i \in Inode /\ d \in Inode
  BY MyFacts
<1>2. /\ Grows(a, i, d, MaxSize[f])
      /\ Writing(a, i, d, disk, crashes, pos[p], MaxSize[f])
      /\ \A k, b : Owns(f, k, b) <=> b # 0 /\ (OnDisk(disk, d, k, b) \/ InHand(disk, a, i, k, b))
      /\ \A k, b : Owns(f, k, b) => b \in Bits
  BY WriteFacts
<1>3. Step4(a, i, d, disk, crashes, pos[p])
  BY <1>2 DEF Writing, Step1, Step2, Step3, Step5, Filling
<1>4. a.left > 0 /\ Ready(a, i, disk, crashes, pos[p]) /\ Listed(a, i, disk)
  BY <1>3 DEF Step4
<1>5. /\ i.size \in Nat /\ a.left \in Nat /\ a.will \in Nat /\ has_used(i.size) \in Nat
      /\ has_used(i.size) <= a.will /\ a.will <= MaxBlk - 1
  BY <1>1, <1>2, <1>4, CollectRange DEF Ready
<1>6. /\ ND \in Nat /\ ND > 0 /\ NI \in Nat /\ NI > 0 /\ Index = 0..(ND + NI - 1)
      /\ TableSlots = ND..(ND + NI - 1) /\ MaxBlk = ND + NI
  BY Consts, Ranges
<1>7. q \in Nat /\ q = has_used(i.size) - 1
  BY <1>5, HasFacts
<1> HIDE DEF q
<1>8. q \in Index /\ q # MaxBlk /\ q < a.will
  BY <1>5, <1>6, <1>7
<1>9. a.all[q] = Blk(disk, i, q)
  <2>1. q <= q /\ q = i.size \div BLOCK_SIZE
    BY <1>7 DEF q
  <2>2. i.size \div BLOCK_SIZE <= q
    BY <2>1
  <2> QED BY <1>4, <1>8, <2>2 DEF Listed
<1>10. ~Filling(a)
  BY DEF Filling
<1>11. Blk(disk, i, q) # 0 /\ InHand(disk, a, i, q, Blk(disk, i, q))
  <2>1. CASE q < ND
    <3>1. q \in 0..(ND - 1)
      BY <1>6, <1>7, <2>1
    <3> QED BY <1>4, <1>8, <2>1, <3>1 DEF Blk, Ready, Shape, InHand, InInode
  <2>2. CASE ~(q < ND)
    <3>1. q \in TableSlots /\ a.will > ND
      BY <1>5, <1>6, <1>8, <2>2
    <3>2. i.sect[ND] # 0
      BY <1>4, <3>1 DEF Ready, Shape
    <3>3. disk[i.sect[ND]][q - ND] # 0
      BY <1>4, <1>8, <3>1, <3>2 DEF Ready, Full
    <3> QED BY <1>10, <2>2, <3>1, <3>2, <3>3 DEF Blk, InHand, InTable
  <2> QED BY <2>1, <2>2
<1>12. Owns(f, q, a.all[q]) /\ a.all[q] \in Bits
  BY <1>2, <1>9, <1>11, SMTT(30)
<1> QED BY <1>3, <1>8, <1>9, <1>12 DEF q

\* The last block has been read.
LEMMA BlockReadStep ==
    ASSUME Inv, Usual, NEW p \in Procs, at[p].op = "write", block_read(p)
    PROVE  Inv' /\ Appends(p)
<1> DEFINE f == FileOf[p]
           d == dinode[f]
           i == mem[f]
           a == at[p]
           q == i.size \div BLOCK_SIZE
           a2 == [a EXCEPT !.pc = "block_w", !.buf = disk[a.all[q]]]
<1>1. a.pc = "block_r" /\ at' = [at EXCEPT ![p] = a2]
      /\ UNCHANGED <<mem, bmap, pos, panic, device, history>>
  BY DEF block_read, At
<1>2. f \in Files /\ a \in Frame /\ i \in Inode /\ d \in Inode /\ TypeOK
  BY MyFacts, SMTT(30) DEF Inv
<1>3. /\ Step4(a, i, d, disk, crashes, pos[p]) /\ a.all[q] = Blk(disk, i, q) /\ a.all[q] \in Bits
  BY <1>1, NextBlock
<1>4. disk[a.all[q]] \in [Cell -> Nat]
  BY <1>2, <1>3, SMTT(30) DEF TypeOK
<1>5. /\ a2 \in Frame /\ a2.pc = "block_w" /\ a2.op = "write" /\ a2.left = a.left /\ a2.will = a.will
      /\ a2.next = a.next /\ a2.all = a.all /\ a2.tab = a.tab /\ a2.buf = disk[a.all[q]]
  <2>1. "block_w" \in Pcs
    BY DEF Pcs
  <2> QED BY <1>2, <1>4, <2>1 DEF Frame
<1> HIDE DEF a2
<1>6. Writing(a2, i, d, disk, crashes, pos[p], MaxSize[f])
  <2>1. Grows(a, i, d, MaxSize[f])
    BY WriteFacts, SMTT(30)
  <2>2. Grows(a2, i, d, MaxSize[f])
    BY <1>5, <2>1, ZenonT(40) DEF Grows
  <2>3. Step4(a2, i, d, disk, crashes, pos[p])
    BY <1>3, <1>5 DEF Step4, Ready, Listed
  <2> QED BY <2>2, <2>3 DEF Writing
<1> QED BY <1>1, <1>5, <1>6, WaitStep

\* The bytes that a write puts into one block
LEMMA ChunkFacts ==
    ASSUME NEW s \in Nat, NEW left \in Nat, left > 0
    PROVE  LET off == s % BLOCK_SIZE  chunk == Smaller(left, BLOCK_SIZE - off) IN
           /\ off \in Nat /\ off < BLOCK_SIZE /\ chunk \in Nat /\ chunk > 0 /\ chunk <= left
           /\ off + chunk <= BLOCK_SIZE /\ left - chunk \in Nat
           /\ left - chunk > 0 => off + chunk = BLOCK_SIZE /\ (s + chunk) % BLOCK_SIZE = 0
           /\ s \div BLOCK_SIZE <= (s + chunk) \div BLOCK_SIZE
<1> DEFINE off == s % BLOCK_SIZE
           chunk == Smaller(left, BLOCK_SIZE - off)
<1>1. off \in Nat /\ off < BLOCK_SIZE /\ BLOCK_SIZE \in Nat
  BY Div, Consts
<1> HIDE DEF off
<1>2. /\ chunk \in Nat /\ chunk > 0 /\ chunk <= left /\ off + chunk <= BLOCK_SIZE
      /\ left - chunk \in Nat /\ (left - chunk > 0 => off + chunk = BLOCK_SIZE)
  BY <1>1 DEF Smaller
<1> HIDE DEF chunk
<1>3. off + chunk = BLOCK_SIZE => (s + chunk) % BLOCK_SIZE = 0
  BY <1>2, DivAdd DEF off
<1>4. s \div BLOCK_SIZE <= (s + chunk) \div BLOCK_SIZE
  <2>1. s + chunk \in Nat /\ s <= s + chunk
    BY <1>2
  <2> QED BY <2>1, DivLe
<1> QED BY <1>1, <1>2, <1>3, <1>4 DEF off, chunk

\* A chunk has been written; the old bytes stay.
LEMMA BlockWrittenStep ==
    ASSUME Inv, Usual, NEW p \in Procs, at[p].op = "write", block_written(p)
    PROVE  Inv' /\ Appends(p)
<1> DEFINE f == FileOf[p]
           d == dinode[f]
           m == MaxSize[f]
           i == mem[f]
           a == at[p]
           q == i.size \div BLOCK_SIZE
           off == i.size % BLOCK_SIZE
           chunk == Smaller(a.left, BLOCK_SIZE - off)
           new == [i EXCEPT !.size = @ + chunk]
           a1 == [a EXCEPT !.left = @ - chunk, !.buf = Blank]
           a2 == IF a1.left > 0 THEN a1 ELSE [a1 EXCEPT !.pc = "inode_r", !.pure = new]
           w == a.all[q]
           T == [c \in Cell |-> IF c \in off..(off + chunk - 1) THEN Byte(f, i.size + c - off) ELSE a.buf[c]]
<1>1. /\ f \in Files /\ a \in Frame /\ i \in Inode /\ d \in Inode /\ 0 \in bmap /\ TypeOK
      /\ bmap \subseteq Bits /\ m \in Nat
  BY MyFacts DEF Inv
<1>2. /\ ModeOf[p] = "w" /\ pos[p] # Closed /\ Alone(p) /\ entry[f] /\ Grows(a, i, d, m)
      /\ Whole(disk, d, m) /\ Covers(disk, i) /\ i.size <= m /\ Keeps(i, i)
      /\ \A k, b : Owns(f, k, b) <=> b # 0 /\ (OnDisk(disk, d, k, b) \/ InHand(disk, a, i, k, b))
      /\ \A k, b : Owns(f, k, b) => b \in bmap /\ b \in InPartition /\ b \in Bits
  BY WriteFacts
<1>3. /\ a.pc = "block_w" /\ disk' = [disk EXCEPT ![w] = T]
      /\ pos' = [pos EXCEPT ![p] = (@ + chunk) % Word]
      /\ IF a1.left > 0 THEN Go(p, a1, new, bmap) ELSE SyncInode(p, a1, new, bmap)
      /\ safe' = IF at'[p] = User THEN [safe EXCEPT ![f] = new.size] ELSE safe
      /\ UNCHANGED <<panic, entry, dinode, dmap, life, crashes>>
  BY DEF block_written, At
<1>4. /\ Step4(a, i, d, disk, crashes, pos[p])
      /\ q \in Index /\ q # MaxBlk /\ w = Blk(disk, i, q) /\ Owns(f, q, w) /\ w \in Bits
  BY <1>3, NextBlock, ZenonT(40)
<1>5. /\ a.left > 0 /\ Ready(a, i, disk, crashes, pos[p]) /\ Listed(a, i, disk)
      /\ \A c \in Cell : c < off => a.buf[c] = disk[w][c]
  <2> HIDE DEF off, w
  <2>1. \A c \in Cell : c < off => a.buf[c] = disk[Blk(disk, i, q)][c]
    BY <1>3, <1>4 DEF Step4, off
  <2> QED BY <1>4, <2>1, SMTT(30) DEF Step4
<1>6. i.size \in Nat /\ a.left \in Nat /\ i.size + a.left <= m /\ q \in Nat
  BY <1>1, <1>2, Div DEF Inode, Frame, Grows
<1>7. /\ off \in Nat /\ off < BLOCK_SIZE /\ chunk \in Nat /\ chunk > 0 /\ chunk <= a.left
      /\ off + chunk <= BLOCK_SIZE /\ a.left - chunk \in Nat
      /\ a.left - chunk > 0 => (i.size + chunk) % BLOCK_SIZE = 0
      /\ q <= (i.size + chunk) \div BLOCK_SIZE
  BY <1>5, <1>6, ChunkFacts
<1> HIDE DEF off, chunk
<1>8. new \in Inode /\ new.size = i.size + chunk /\ new.sect = i.sect
  BY <1>1, <1>6, <1>7, SMTT(30) DEF Inode
<1> HIDE DEF new
<1>9. /\ a1 \in Frame /\ a1.left = a.left - chunk /\ a1.pc = a.pc /\ a1.op = "write" /\ a1.will = a.will
      /\ a1.all = a.all
  <2>1. Blank \in [Cell -> Nat]
    BY DEF Blank
  <2> HIDE DEF Blank
  <2> QED BY <1>1, <1>7, <2>1 DEF Frame
<1> HIDE DEF a1
<1>10. /\ a2 \in Frame /\ a2.left = a.left - chunk /\ a2.op = "write" /\ a2.will = a.will /\ a2.all = a.all
       /\ a.left - chunk > 0 => a2.pc = "block_w"
       /\ ~(a.left - chunk > 0) => a2.pc = "inode_r" /\ a2.pure = new
  <2>1. CASE a1.left > 0
    <3>1. a2 = a1
      BY <2>1
    <3> QED BY <1>3, <1>9, <2>1, <3>1
  <2>2. CASE ~(a1.left > 0)
    <3>1. a2 = [a1 EXCEPT !.pc = "inode_r", !.pure = new] /\ "inode_r" \in Pcs
      BY <2>2 DEF Pcs
    <3>2. [a1 EXCEPT !.pc = "inode_r", !.pure = new] \in Frame
      BY <1>8, <1>9, <3>1 DEF Frame
    <3>3. a2.pc = "inode_r" /\ a2.pure = new /\ a2.left = a1.left /\ a2.op = a1.op /\ a2.will = a1.will
          /\ a2.all = a1.all
      BY <1>9, <3>1 DEF Frame
    <3> QED BY <1>9, <2>2, <3>1, <3>2, <3>3
  <2> QED BY <2>1, <2>2
<1>11. Go(p, a2, new, bmap)
  BY <1>3 DEF SyncInode, inode_sync, Usual
<1> HIDE DEF a2
<1>12. /\ at' \in [Procs -> Frame] /\ mem' \in [Files -> Inode] /\ bmap' = bmap
       /\ at'[p] = a2 /\ mem'[f] = new
       /\ \A g \in Procs : g # p => at'[g] = at[g]
       /\ \A g \in Files : g # f => mem'[g] = mem[g]
  BY <1>1, <1>8, <1>10, <1>11, GoFacts
<1>13. safe' = safe
  <2>1. a2 # User
    BY <1>10, UserFacts
  <2> QED BY <1>3, <1>12, <2>1
<1>14. T \in [Cell -> Nat]
  <2>1. f \in Nat /\ life[f] \in Nat /\ a.buf \in [Cell -> Nat]
    BY <1>1, Consts DEF TypeOK, Frame
  <2>2. \A c \in off..(off + chunk - 1) : Byte(f, i.size + c - off) \in Nat
    <3> SUFFICES ASSUME NEW c \in off..(off + chunk - 1) PROVE Byte(f, i.size + c - off) \in Nat
      OBVIOUS
    <3>1. i.size + c - off \in Nat
      BY <1>6, <1>7, SMTT(30)
    <3> QED BY <2>1, <3>1 DEF Byte
  <2> QED BY <2>1, <2>2
<1>15. \A c \in Cell : c < off => T[c] = disk[w][c]
  <2> SUFFICES ASSUME NEW c \in Cell, c < off PROVE T[c] = disk[w][c]
    OBVIOUS
  <2>1. c \notin off..(off + chunk - 1)
    BY <1>7
  <2> QED BY <1>5, <2>1, SMTT(30)
<1> HIDE DEF T, w
<1>16. disk \in [Bits -> [Cell -> Nat]] /\ disk' \in [Bits -> [Cell -> Nat]] /\ disk'[w] = T
       /\ \A b \in Bits : b # w => disk'[b] = disk[b]
  <2>1. disk \in [Bits -> [Cell -> Nat]]
    BY <1>1 DEF TypeOK
  <2> QED BY <1>3, <1>4, <1>14, <2>1
<1>17. /\ pos'[p] = new.size - 1 /\ pos'[p] \in Nat /\ pos'[p] # Closed /\ new.size > 0
       /\ pos' \in [Procs -> Nat \cup {Closed}] /\ \A g \in Procs : g # p => pos'[g] = pos[g]
  <2>1. pos[p] = IF i.size = 0 THEN Word - 1 ELSE i.size - 1
    BY <1>5 DEF Ready
  <2>2. new.size < Word /\ Word \in Nat /\ new.size \in Nat /\ new.size > 0
    <3>1. i.size + chunk <= m /\ i.size + chunk \in Nat /\ i.size + chunk > 0
      BY <1>1, <1>6, <1>7
    <3> QED BY <1>1, <1>8, <3>1, SizeWord, Consts
  <2>3. (pos[p] + chunk) % Word = new.size - 1
    <3>1. CASE i.size = 0
      <4>1. pos[p] + chunk = Word + (new.size - 1)
        BY <1>7, <1>8, <2>1, <2>2, <3>1
      <4>2. (Word + (new.size - 1)) % Word = new.size - 1
        BY <2>2
      <4> QED BY <4>1, <4>2
    <3>2. CASE i.size # 0
      <4>1. pos[p] + chunk = new.size - 1
        BY <1>6, <1>7, <1>8, <2>1, <3>2
      <4> QED BY <2>2, <4>1
    <3> QED BY <3>1, <3>2
  <2>4. pos \in [Procs -> Nat \cup {Closed}]
    BY <1>1 DEF TypeOK
  <2>5. new.size - 1 \in Nat /\ new.size - 1 # Closed
    BY <2>2 DEF Closed
  <2> QED BY <1>3, <2>2, <2>3, <2>4, <2>5
<1>18. TypeOK' /\ ~panic'
  BY <1>1, <1>3, <1>12, <1>13, <1>16, <1>17 DEF TypeOK, Inv
<1>19. \A g \in Files : \A j, k : Owns(g, j, w) => g = f /\ j = q
  BY <1>1, <1>4 DEF Inv, OwnedOnce
<1>20. Local(p, w)
  BY <1>3, <1>12, <1>13, <1>16, <1>17, <1>19, SMTT(30) DEF Local
<1>21. /\ i.sect[ND] # 0 => disk'[i.sect[ND]] = disk[i.sect[ND]]
       /\ d.sect[ND] # 0 => disk'[d.sect[ND]] = disk[d.sect[ND]]
  <2>1. InInode(i, MaxBlk, i.sect[ND]) /\ InInode(d, MaxBlk, d.sect[ND])
    BY DEF InInode
  <2>2. i.sect[ND] # 0 => Owns(f, MaxBlk, i.sect[ND])
    BY <1>2, <2>1 DEF InHand
  <2>3. d.sect[ND] # 0 => Owns(f, MaxBlk, d.sect[ND])
    BY <1>2, <2>1 DEF OnDisk
  <2> QED BY <1>1, <1>2, <1>4, <1>16, <1>19, <2>2, <2>3
<1>22. \A k : Blk(disk', new, k) = Blk(disk, i, k)
  <2>1. \A k : Blk(disk', i, k) = Blk(disk, i, k)
    BY <1>21, BlkKept
  <2> QED BY <1>8, <2>1 DEF Blk
<1>23. \A k, c : /\ InTable(disk', new, k, c) <=> InTable(disk, i, k, c)
                 /\ OnDisk(disk', d, k, c) <=> OnDisk(disk, d, k, c)
                 /\ InInode(new, k, c) <=> InInode(i, k, c)
  BY <1>8, <1>21 DEF InTable, OnDisk, InInode
<1>24. \A k, c : InHand(disk', a2, new, k, c) <=> InHand(disk, a, i, k, c)
  <2>1. ~Filling(a) /\ ~Filling(a2)
    BY <1>3, <1>10 DEF Filling
  <2> QED BY <1>10, <1>23, <2>1 DEF InHand
<1>25. \A k, b : Owns(f, k, b)' <=> Owns(f, k, b)
  <2>1. \A k, c : Owns(f, k, c)' <=>
          /\ c # 0
          /\ (entry'[f] /\ OnDisk(disk', dinode'[f], k, c)) \/ InHand(disk', at'[p], mem'[f], k, c)
    BY <1>2, <1>12, OwnsMineNext
  <2> QED BY <1>2, <1>3, <1>12, <1>23, <1>24, <2>1
<1>26. Claims(f, {})
  BY <1>2, <1>12, <1>25 DEF Claims
<1>27. Synced(p)
  <2>1. \A k, c : c # 0 /\ OnDisk(disk, d, k, c) => c \in dmap
    BY <1>1, <1>2 DEF Inv, KnownOnDisk
  <2>2. \A k, c : c # 0 /\ InHand(disk, a, i, k, c) => c \in dmap
    BY <1>3 DEF Inv, KnownOnDisk
  <2> QED BY <1>3, <1>12, <1>23, <1>24, <2>1, <2>2 DEF Synced
<1>28. Whole(disk', d, m)
  BY <1>2, <1>21 DEF Whole, Full
<1>29. Extends(disk, i, disk', new)
  <2>1. \A k \in Nat : k * BLOCK_SIZE < i.size => k \in Index /\ Owns(f, k, Blk(disk, i, k))
    <3>1. View(f) = i
      BY <1>2 DEF View, Opened
    <3> QED BY <1>1, <1>2, <3>1, ViewOwns
  <2>2. ASSUME NEW x \in Nat, x < i.size PROVE Data(disk', new, x) = Data(disk, i, x)
    <3> DEFINE k == x \div BLOCK_SIZE
               r == x % BLOCK_SIZE
               n == k * BLOCK_SIZE
               b == Blk(disk, i, k)
    <3>1. k \in Nat /\ n <= x
      BY BlockStart
    <3>2. n < i.size
      <4>1. n \in Nat
        BY <3>1, Consts
      <4> HIDE DEF n
      <4> QED BY <1>6, <2>2, <3>1, <4>1
    <3>3. Owns(f, k, b) /\ b \in Bits
      BY <1>2, <2>1, <3>1, <3>2
    <3>4. Data(disk', new, x) = disk'[b][r] /\ Data(disk, i, x) = disk[b][r]
      BY <1>22 DEF Data
    <3>5. CASE b # w
      BY <1>16, <3>3, <3>4, <3>5
    <3>6. CASE b = w
      <4>1. k = q
        BY <1>1, <1>19, <3>3, <3>6
      <4>2. r < off
        BY <1>6, <2>2, <4>1, DivCell DEF off
      <4>3. r \in Cell
        <5>1. r \in Nat /\ r < BLOCK_SIZE
          BY Div
        <5> QED BY <5>1, Ranges
      <4> QED BY <1>15, <1>16, <3>4, <3>6, <4>2, <4>3
    <3> QED BY <3>5, <3>6
  <2>3. i.size <= new.size
    BY <1>6, <1>7, <1>8
  <2> QED BY <1>8, <1>22, <2>2, <2>3 DEF Extends
<1>30. Writing(a2, new, d, disk', crashes, pos'[p], m)
  <2>1. new.size + a2.left = i.size + a.left
    BY <1>6, <1>7, <1>8, <1>10
  <2>2. Grows(a2, new, d, m)
    <3>1. d.size <= new.size
      <4>1. d.size <= i.size /\ d.size \in Nat
        BY <1>1, <1>2 DEF Grows, Inode
      <4> QED BY <1>6, <1>7, <1>8, <4>1
    <3> QED BY <1>2, <1>8, <2>1, <3>1 DEF Grows
  <2>3. Ready(a2, new, disk', crashes, pos'[p])
    <3>1. a2.will = has_used(new.size + a2.left)
      BY <1>5, <1>10, <2>1, SMTT(30) DEF Ready
    <3>2. Shape(new, a2.will, a2.will) /\ Full(disk', new, a2.will) /\ NoMore(disk', new, a2.will, crashes)
      BY <1>5, <1>8, <1>10, <1>21 DEF Ready, Shape, Full, NoMore
    <3>3. pos'[p] = IF new.size = 0 THEN Word - 1 ELSE new.size - 1
      BY <1>8, <1>17
    <3> QED BY <3>1, <3>2, <3>3 DEF Ready
  <2>4. CASE a.left - chunk > 0
    <3>1. Listed(a2, new, disk')
      <4> SUFFICES ASSUME NEW k \in Index, new.size \div BLOCK_SIZE <= k, k < a2.will
                   PROVE  a2.all[k] = Blk(disk', new, k)
        BY DEF Listed
      <4>1. q <= k
        <5>1. k \in Nat
          BY Ranges, Consts
        <5>2. q <= new.size \div BLOCK_SIZE /\ new.size \div BLOCK_SIZE \in Nat
          <6>1. new.size \in Nat
            BY <1>8 DEF Inode
          <6> QED BY <1>7, <1>8, <6>1, Div
        <5> QED BY <1>6, <5>1, <5>2
      <4> QED BY <1>5, <1>10, <1>22, <4>1 DEF Listed
    <3>2. new.size % BLOCK_SIZE = 0
      BY <1>7, <1>8, <2>4
    <3>3. \A c \in Cell : ~(c < new.size % BLOCK_SIZE)
      BY <3>2, Ranges
    <3>4. Step4(a2, new, d, disk', crashes, pos'[p])
      BY <1>10, <2>3, <2>4, <3>1, <3>3 DEF Step4
    <3> QED BY <2>2, <3>4 DEF Writing
  <2>5. CASE ~(a.left - chunk > 0)
    <3>1. a2.left = 0
      BY <1>7, <1>10, <2>5
    <3>2. Step5(a2, new, disk', crashes, pos'[p])
      BY <1>10, <2>3, <2>5, <3>1 DEF Step5
    <3> QED BY <2>2, <3>2 DEF Writing
  <2> QED BY <2>4, <2>5
<1>31. a2.pc # "user" /\ a2.pc # "sync"
  BY <1>10
<1> QED BY <1>2, <1>3, <1>10, <1>12, <1>13, <1>17, <1>18, <1>20, <1>26, <1>27, <1>28, <1>29, <1>30, <1>31, WriteStep

\* Before the inode of a file is written, its sector is read.
LEMMA InodeReadFacts ==
    ASSUME Usual, NEW p \in Procs, TypeOK, inode_read(p)
    PROVE  \E a2 \in Frame :
              /\ at' = [at EXCEPT ![p] = a2] /\ a2.pc = "inode_w" /\ a2.op = at[p].op
              /\ a2.left = at[p].left /\ a2.will = at[p].will /\ a2.pure = at[p].pure
<1> DEFINE a2 == [at[p] EXCEPT !.pc = "inode_w"]
<1>1. at \in [Procs -> Frame]
  BY DEF TypeOK
<1>2. "inode_w" \in Pcs
  BY DEF Pcs
<1>3. at' = [at EXCEPT ![p] = a2]
  BY <1>1 DEF inode_read
<1>4. at[p] \in Frame
  BY <1>1
<1>5. a2 \in Frame
  BY <1>2, <1>4 DEF Frame
<1>6. a2.pc = "inode_w" /\ a2.op = at[p].op
      /\ a2.left = at[p].left /\ a2.will = at[p].will /\ a2.pure = at[p].pure
  BY <1>4 DEF Frame
<1> HIDE DEF a2
<1> QED BY <1>3, <1>5, <1>6

\* The sector has been read, and the copy of the inode is put into it.
LEMMA InodeReadWrite ==
    ASSUME Inv, Usual, NEW p \in Procs, at[p].op = "write", inode_read(p)
    PROVE  Inv' /\ Appends(p)
<1> DEFINE f == FileOf[p]
           d == dinode[f]
           m == MaxSize[f]
           i == mem[f]
           a == at[p]
<1>1. TypeOK
  BY DEF Inv
<1>2. PICK a2 \in Frame : /\ at' = [at EXCEPT ![p] = a2] /\ a2.pc = "inode_w" /\ a2.op = a.op
                          /\ a2.left = a.left /\ a2.will = a.will /\ a2.pure = a.pure
  BY <1>1, InodeReadFacts
<1>3. a.pc = "inode_r" /\ UNCHANGED <<mem, bmap, pos, panic, device, history>>
  BY DEF inode_read, At
<1>4. Grows(a, i, d, m) /\ Writing(a, i, d, disk, crashes, pos[p], m)
  BY WriteFacts
<1>5. Step5(a, i, disk, crashes, pos[p])
  BY <1>3, <1>4 DEF Writing, Step1, Step2, Step3, Step4, Filling
<1>6. Step5(a2, i, disk, crashes, pos[p]) /\ Grows(a2, i, d, m)
  BY <1>2, <1>4, <1>5 DEF Step5, Ready, Grows
<1>7. Writing(a2, i, d, disk, crashes, pos[p], m)
  BY <1>6 DEF Writing
<1> QED BY <1>2, <1>3, <1>7, WaitStep

-----------------------------------------------------------------------------
(* The release of a deleted file's blocks                                   *)

\* A step of an unlink
LEMMA DeleteStep ==
    ASSUME Inv, Usual, TypeOK', ~panic', NEW p \in Procs, Local(p, 0), Alone(p),
           Claims(FileOf[p], {}), \A q \in Procs : FileOf[q] = FileOf[p] => pos[q] = Closed,
           pos' = pos, ~entry'[FileOf[p]], safe'[FileOf[p]] = 0,
           \/ at'[p] = User
           \/ /\ at'[p].op = "unlink" /\ (at'[p].pc = "sync" => at'[p].bit \in Bits)
              /\ Deleting(at'[p], mem'[FileOf[p]]),
           dmap' = dmap \/ dmap' = bmap,
           at'[p].pc # "sync" => \/ dmap' = bmap'
                                 \/ dmap' = dmap /\ bmap' = bmap /\ at[p].pc # "sync"
    PROVE  Inv' /\ Promise!Delete(FileOf[p])
<1> DEFINE f == FileOf[p]
<1>1. Synced(p)
  <2>1. at'[p].op # "write"
    BY UserFacts
  <2> QED BY <2>1 DEF Synced
<1>2. Continued(p)
  BY DEF Continued
<1>3. FileOK(f)'
  <2>1. \A q \in Procs : FileOf[q] = f /\ Busy(q)' => q = p
    BY DEF Alone, Busy, Local
  <2> QED BY <2>1 DEF FileOK
<1>4. Promise!Delete(f)
  BY IsDelete
<1>5. CASE at'[p] = User
  <2>1. CallOK(p)' /\ WriteOK(p)' /\ DeleteOK(p)' /\ ReadOK(p)'
    BY <1>5, UserFacts DEF CallOK, WriteOK, DeleteOK, ReadOK
  <2> QED BY <1>1, <1>2, <1>3, <1>4, <2>1, StepInv
<1>6. CASE at'[p].op = "unlink" /\ (at'[p].pc = "sync" => at'[p].bit \in Bits)
           /\ Deleting(at'[p], mem'[f])
  <2>1. at'[p].pc # "user"
    BY <1>6 DEF Deleting
  <2>2. CallOK(p)'
    BY <1>6, <2>1 DEF CallOK
  <2>3. WriteOK(p)' /\ DeleteOK(p)' /\ ReadOK(p)'
    BY <1>6 DEF WriteOK, DeleteOK, ReadOK
  <2> QED BY <1>1, <1>2, <1>3, <1>4, <2>2, <2>3, StepInv
<1> QED BY <1>5, <1>6

\* What is known of a file that is being deleted
LEMMA DeleteFacts ==
    ASSUME Inv, Usual, NEW p \in Procs, at[p].op = "unlink"
    PROVE  LET f == FileOf[p] IN
           /\ Alone(p) /\ ~entry[f] /\ safe[f] = 0
           /\ \A q \in Procs : FileOf[q] = f => pos[q] = Closed
           /\ Deleting(at[p], mem[f])
           /\ \A k, b : Owns(f, k, b) <=> b # 0 /\ InHand(disk, at[p], mem[f], k, b)
<1> DEFINE f == FileOf[p]
<1>1. Alone(p)
  BY BusyAlone DEF Busy
<1>2. ~entry[f] /\ Deleting(at[p], mem[f]) /\ \A q \in Procs : FileOf[q] = f => pos[q] = Closed
  BY MyFacts DEF DeleteOK
<1>3. safe[f] = 0
  BY <1>2, MyFacts DEF FileOK
<1>4. \A k, b : Owns(f, k, b) <=> b # 0 /\ InHand(disk, at[p], mem[f], k, b)
  <2>1. \A k, b : Owns(f, k, b) <=>
          b # 0 /\ ((entry[f] /\ OnDisk(disk, dinode[f], k, b)) \/ InHand(disk, at[p], mem[f], k, b))
    BY <1>1, OwnsMine
  <2> QED BY <1>2, <2>1
<1> HIDE DEF f
<1> QED BY <1>1, <1>2, <1>3, <1>4 DEF f

\* The next block is freed, or the inode is written.
LEMMA FreeStep ==
    ASSUME Inv, Usual, NEW p \in Procs, NEW a \in Frame, NEW i \in Inode,
           FreeBlocks(p, a, i, bmap), a.op = "unlink",
           \A k, b : Owns(FileOf[p], k, b) <=> b # 0 /\ k \in Index /\ k >= a.next /\ b = a.all[k],
           Alone(p), \A q \in Procs : FileOf[q] = FileOf[p] => pos[q] = Closed,
           ~entry'[FileOf[p]], safe'[FileOf[p]] = 0,
           dmap' = bmap \/ (dmap' = dmap /\ at[p].pc # "sync"),
           \A g \in Files : g # FileOf[p] => entry'[g] = entry[g] /\ safe'[g] = safe[g],
           entry' \in [Files -> BOOLEAN], safe' \in [Files -> Nat],
           UNCHANGED <<pos, panic, dinode, disk, life, crashes>>
    PROVE  Inv' /\ Promise!Delete(FileOf[p])
<1> DEFINE f == FileOf[p]
           S == {j \in Index : j >= a.next /\ a.all[j] # 0}
           k == Least(S)
<1>1. /\ f \in Files /\ TypeOK /\ Index \subseteq Nat /\ None \notin Nat /\ a.next \in Nat
      /\ a.all \in [Index -> Nat]
  BY Consts, Ranges, SMTT(30) DEF Inv, Frame, None
<1>2. \A j, b : Owns(f, j, b) => b \in bmap /\ b \in InPartition /\ b \in Bits
  BY <1>1, Ranges DEF Inv, OwnedMarked
<1>3. \A g \in Files : \A j : ~Owns(g, j, 0)
  BY DEF Owns
<1>4. CASE k = None
  <2> DEFINE a2 == [a EXCEPT !.pc = "inode_r", !.pure = NoInode]
  <2>1. S = {}
    BY <1>1, <1>4, LeastFacts
  <2>2. a2 \in Frame /\ a2.pc = "inode_r" /\ a2.pure = NoInode /\ a2.op = "unlink"
    <3>1. "inode_r" \in Pcs
      BY DEF Pcs
    <3> QED BY <3>1, UserFacts DEF Frame
  <2>3. Go(p, a2, i, bmap)
    BY <1>4 DEF FreeBlocks, inode_sync
  <2> HIDE DEF a2
  <2>4. /\ at' \in [Procs -> Frame] /\ mem' \in [Files -> Inode] /\ bmap' = bmap
        /\ at'[p] = a2 /\ mem'[f] = i
        /\ \A q \in Procs : q # p => at'[q] = at[q]
        /\ \A g \in Files : g # f => mem'[g] = mem[g]
    BY <1>1, <2>2, <2>3, GoFacts
  <2>5. TypeOK' /\ ~panic'
    BY <1>1, <2>4 DEF TypeOK, Inv
  <2>6. Local(p, 0)
    BY <1>3, <2>4 DEF Local
  <2>7. \A j, b : ~Owns(f, j, b) /\ ~Owns(f, j, b)'
    <3>1. \A j, b : ~Owns(f, j, b)
      BY <2>1
    <3>2. \A j, b : ~InHand(disk', a2, i, j, b)
      BY <2>2 DEF InHand
    <3>3. \A j, b : Owns(f, j, b)' <=>
            b # 0 /\ ((entry'[f] /\ OnDisk(disk', dinode'[f], j, b)) \/ InHand(disk', at'[p], mem'[f], j, b))
      BY <2>4, OwnsMineNext
    <3> QED BY <2>4, <3>1, <3>2, <3>3
  <2>8. Claims(f, {})
    BY <2>4, <2>7 DEF Claims
  <2>9. Deleting(a2, i)
    BY <2>2 DEF Deleting
  <2> QED BY <2>2, <2>4, <2>5, <2>6, <2>8, <2>9, DeleteStep
<1>5. CASE k # None
  <2> DEFINE b0 == a.all[k]
             a2 == [a EXCEPT !.pc = "sync", !.bit = b0, !.next = k + 1]
  <2>1. k \in Index /\ k >= a.next /\ b0 # 0 /\ k \in Nat
        /\ \A j \in Index : j >= a.next /\ a.all[j] # 0 => k <= j
    <3>1. S # {} /\ S \subseteq Nat
      BY <1>1, <1>5 DEF Least
    <3>2. k \in S /\ \A j \in S : k <= j
      BY <3>1, LeastFacts
    <3> QED BY <1>1, <3>2
  <2>2. Go(p, a2, i, bmap \ {b0})
    BY <1>5 DEF FreeBlocks
  <2> HIDE DEF k
  <2>3. Owns(f, k, b0) /\ b0 \in bmap /\ b0 \in Bits
    BY <1>2, <2>1
  <2>4. a2 \in Frame /\ a2.pc = "sync" /\ a2.next = k + 1 /\ a2.op = "unlink" /\ a2.bit = b0
        /\ a2.all = a.all
    <3>1. "sync" \in Pcs /\ k + 1 \in Nat /\ b0 \in Nat
      BY <1>1, <2>1 DEF Pcs
    <3> HIDE DEF b0
    <3> QED BY <3>1 DEF Frame
  <2> HIDE DEF a2, b0
  <2>5. /\ at' \in [Procs -> Frame] /\ mem' \in [Files -> Inode] /\ bmap' = bmap \ {b0}
        /\ at'[p] = a2 /\ mem'[f] = i
        /\ \A q \in Procs : q # p => at'[q] = at[q]
        /\ \A g \in Files : g # f => mem'[g] = mem[g]
    BY <1>1, <2>2, <2>4, GoFacts
  <2>6. TypeOK' /\ ~panic'
    <3>1. b0 # 0
      BY <2>1 DEF b0
    <3> QED BY <1>1, <2>5, <3>1 DEF TypeOK, Inv
  <2>7. Local(p, 0)
    BY <1>3, <2>5 DEF Local
  <2>8. \A j, b : Owns(f, j, b)' <=> b # 0 /\ j \in Index /\ j >= k + 1 /\ b = a.all[j]
    <3>1. \A j, b : Owns(f, j, b)' <=>
            b # 0 /\ ((entry'[f] /\ OnDisk(disk', dinode'[f], j, b)) \/ InHand(disk', at'[p], mem'[f], j, b))
      BY <2>5, OwnsMineNext
    <3>2. \A j, b : InHand(disk', a2, i, j, b) <=> j \in Index /\ j >= k + 1 /\ b = a.all[j]
      BY <2>4 DEF InHand
    <3> QED BY <2>5, <3>1, <3>2
  <2>9. \A j, b : Owns(f, j, b)' <=> Owns(f, j, b) /\ j # k
    <3>1. \A j \in Index : a.all[j] # 0 => (j >= k + 1 <=> j >= a.next /\ j # k)
      BY <1>1, <2>1
    <3> QED BY <2>8, <3>1
  <2>10. \A j, b : Owns(f, j, b) /\ b = b0 => j = k
    BY <1>1, <2>3 DEF Inv, OwnedOnce
  <2>11. Claims(f, {})
    BY <1>2, <2>3, <2>5, <2>9, <2>10 DEF Claims
  <2>12. Deleting(a2, i)
    BY <2>4 DEF Deleting
  <2>13. dmap' = dmap \/ dmap' = bmap
    OBVIOUS
  <2> QED BY <2>3, <2>4, <2>5, <2>6, <2>7, <2>11, <2>12, <2>13, DeleteStep
<1> QED BY <1>4, <1>5

\* The directory entry is gone; the table is read, or the first block freed.
LEMMA UnlinkStep ==
    ASSUME Inv, Usual, NEW p \in Procs, sys_unlink(p)
    PROVE  Inv' /\ Promise!Delete(FileOf[p])
<1> DEFINE f == FileOf[p]
           i == dinode[f]
           A == [k \in Index |-> IF k < ND THEN i.sect[k] ELSE 0]
           a == [User EXCEPT !.op = "unlink", !.all = A]
           a2 == [a EXCEPT !.pc = "table_r"]
<1>1. /\ at[p].pc = "user" /\ entry[f] /\ ~Opened(f)
      /\ entry' = [entry EXCEPT ![f] = FALSE] /\ safe' = [safe EXCEPT ![f] = 0]
      /\ IF i.sect[ND] # 0 THEN Go(p, a2, i, bmap) ELSE FreeBlocks(p, a, i, bmap)
      /\ UNCHANGED <<dinode, disk, dmap, pos, panic, life, crashes>>
  BY DEF sys_unlink, At
<1>2. /\ f \in Files /\ i \in Inode /\ TypeOK /\ FileOK(f) /\ CallOK(p)
      /\ ND \in Nat /\ ND > 0 /\ Index = 0..(ND + NI - 1) /\ NI \in Nat /\ NI > 0 /\ MaxBlk = ND + NI
  BY MyFacts, Consts, Ranges DEF Inv
<1>3. A \in [Index -> Nat]
  <2>1. \A k \in Index : k < ND => k \in 0..ND /\ i.sect[k] \in Nat
    BY <1>2, Ranges DEF Inode
  <2> QED BY <2>1
<1> HIDE DEF A
<1>4. a \in Frame /\ a.op = "unlink" /\ a.next = 0 /\ a.all = A
  BY <1>3, UserFacts DEF Frame
<1> HIDE DEF a
<1>5. a2 \in Frame /\ a2.op = "unlink" /\ a2.next = 0 /\ a2.all = A /\ a2.pc = "table_r"
  <2>1. "table_r" \in Pcs
    BY DEF Pcs
  <2> QED BY <1>4, <2>1, PcFacts
<1> HIDE DEF a2
<1>6. \A q \in Procs : FileOf[q] = f => pos[q] = Closed /\ ~Busy(q)
  <2>1. \A q \in Procs : FileOf[q] = f => pos[q] = Closed /\ at[q].op # "unlink"
    BY <1>1 DEF Opened
  <2>2. \A q \in Procs : at[q].op = "write" => pos[q] # Closed
    BY DEF Inv, WriteOK
  <2> QED BY <2>1, <2>2 DEF Busy
<1>7. Alone(p)
  BY <1>6 DEF Alone
<1>8. \A k, b : Owns(f, k, b) <=> b # 0 /\ OnDisk(disk, i, k, b)
  <2>1. \A k, b : Owns(f, k, b) <=>
          b # 0 /\ ((entry[f] /\ OnDisk(disk, i, k, b)) \/ InHand(disk, at[p], mem[f], k, b))
    BY <1>7, OwnsMine
  <2>2. \A k, b : ~InHand(disk, at[p], mem[f], k, b)
    BY <1>6 DEF InHand, Busy
  <2> QED BY <1>1, <2>1, <2>2
<1>9. /\ ~entry'[f] /\ safe'[f] = 0 /\ entry' \in [Files -> BOOLEAN] /\ safe' \in [Files -> Nat]
      /\ \A g \in Files : g # f => entry'[g] = entry[g] /\ safe'[g] = safe[g]
  <2>1. entry \in [Files -> BOOLEAN] /\ safe \in [Files -> Nat]
    BY <1>2 DEF TypeOK
  <2> QED BY <1>1, <1>2, <2>1
<1>10. CASE i.sect[ND] # 0
  <2>1. /\ at' \in [Procs -> Frame] /\ mem' \in [Files -> Inode] /\ bmap' = bmap
        /\ at'[p] = a2 /\ mem'[f] = i
        /\ \A q \in Procs : q # p => at'[q] = at[q]
        /\ \A g \in Files : g # f => mem'[g] = mem[g]
    BY <1>1, <1>2, <1>5, <1>10, GoFacts
  <2>2. TypeOK' /\ ~panic'
    BY <1>1, <1>2, <1>9, <2>1 DEF TypeOK, Inv
  <2>3. Local(p, 0)
    BY <1>1, <1>9, <2>1 DEF Local, Owns
  <2>4. \A k, b : Owns(f, k, b)' <=> Owns(f, k, b)
    <3>1. \A k, b : Owns(f, k, b)' <=>
            b # 0 /\ ((entry'[f] /\ OnDisk(disk', dinode'[f], k, b)) \/ InHand(disk', at'[p], mem'[f], k, b))
      BY <1>7, <2>1, OwnsMineNext
    <3>2. \A k, b : InHand(disk, a2, i, k, b) <=> OnDisk(disk, i, k, b)
      BY <1>5 DEF InHand
    <3> QED BY <1>1, <1>8, <1>9, <2>1, <3>1, <3>2
  <2>5. Claims(f, {})
    <3>1. \A k, b : Owns(f, k, b) => b \in bmap
      BY <1>2 DEF Inv, OwnedMarked
    <3> QED BY <2>1, <2>4, <3>1 DEF Claims
  <2>6. Deleting(a2, i)
    BY <1>5, <1>10 DEF Deleting, A
  <2> QED BY <1>1, <1>5, <1>6, <1>7, <1>9, <2>1, <2>2, <2>3, <2>5, <2>6, DeleteStep
<1>11. CASE i.sect[ND] = 0
  <2>1. \A k, b : b # 0 => (OnDisk(disk, i, k, b) <=> k \in 0..(ND - 1) /\ b = i.sect[k])
    BY <1>11 DEF OnDisk, InInode, InTable
  <2>2. \A k, b : b # 0 => (k \in 0..(ND - 1) /\ b = i.sect[k] <=> k \in Index /\ k >= 0 /\ b = A[k])
    BY <1>2 DEF A
  <2>3. \A k, b : Owns(f, k, b) <=> b # 0 /\ k \in Index /\ k >= a.next /\ b = a.all[k]
    BY <1>4, <1>8, <2>1, <2>2
  <2>4. FreeBlocks(p, a, i, bmap) /\ UNCHANGED <<pos, panic, dinode, disk, life, crashes>>
    BY <1>1, <1>11
  <2>5. dmap' = dmap /\ at[p].pc # "sync"
    BY <1>1
  <2> HIDE DEF f, i
  <2> QED BY <1>2, <1>4, <1>6, <1>7, <1>9, <2>3, <2>4, <2>5, FreeStep DEF f
<1> QED BY <1>10, <1>11

\* A block has been freed, and the bitmap written.
LEMMA SyncedUnlink ==
    ASSUME Inv, Usual, NEW p \in Procs, at[p].op = "unlink", bitmap_synced(p)
    PROVE  Inv' /\ Promise!Delete(FileOf[p])
<1> DEFINE f == FileOf[p]
           i == mem[f]
           a == at[p]
<1>1. f \in Files /\ a \in Frame /\ i \in Inode /\ TypeOK /\ CallOK(p)
  BY MyFacts DEF Inv
<1>2. /\ a.pc = "sync" /\ bitmap_sync(a.bit) /\ FreeBlocks(p, a, i, bmap)
      /\ UNCHANGED <<pos, panic, entry, dinode, disk, life, safe, crashes>>
  BY DEF bitmap_synced, At, history
<1>3. dmap' = bmap
  BY <1>1, <1>2, SyncAll DEF CallOK
<1>4. /\ Alone(p) /\ ~entry[f] /\ safe[f] = 0
      /\ \A q \in Procs : FileOf[q] = f => pos[q] = Closed
      /\ \A k, b : Owns(f, k, b) <=> b # 0 /\ InHand(disk, a, i, k, b)
  BY DeleteFacts
<1>5. \A k, b : Owns(f, k, b) <=> b # 0 /\ k \in Index /\ k >= a.next /\ b = a.all[k]
  BY <1>2, <1>4 DEF InHand
<1>6. entry' \in [Files -> BOOLEAN] /\ safe' \in [Files -> Nat]
  BY <1>1, <1>2 DEF TypeOK
<1> QED BY <1>1, <1>2, <1>3, <1>4, <1>5, <1>6, FreeStep

\* The table has been read, and its own block is freed.
LEMMA TableReadUnlink ==
    ASSUME Inv, Usual, NEW p \in Procs, at[p].op = "unlink", table_read(p)
    PROVE  Inv' /\ Promise!Delete(FileOf[p])
<1> DEFINE f == FileOf[p]
           i == mem[f]
           a == at[p]
           tb == i.sect[ND]
           A == [k \in Index |-> IF k < ND THEN a.all[k] ELSE disk[tb][k - ND]]
           a1 == [a EXCEPT !.all = A]
           a2 == [a1 EXCEPT !.pc = "sync", !.bit = tb]
<1>1. /\ f \in Files /\ a \in Frame /\ i \in Inode /\ TypeOK
      /\ ND \in Nat /\ ND > 0 /\ Index = 0..(ND + NI - 1) /\ TableSlots = ND..(ND + NI - 1)
      /\ NI \in Nat /\ NI > 0 /\ MaxBlk = ND + NI
      /\ tb \in Bits /\ tb \in Nat
  <2>1. ND \in 0..ND
    BY Consts
  <2>2. mem[f] \in Inode
    BY MyFacts
  <2>3. tb \in Bits /\ tb \in Nat
    BY <2>1, <2>2, Ranges DEF Inode
  <2> QED BY <2>3, MyFacts, Consts, Ranges DEF Inv
<1>2. /\ Alone(p) /\ ~entry[f] /\ safe[f] = 0
      /\ \A q \in Procs : FileOf[q] = f => pos[q] = Closed
      /\ Deleting(a, i)
      /\ \A k, b : Owns(f, k, b) <=> b # 0 /\ InHand(disk, a, i, k, b)
  BY DeleteFacts
<1>3. /\ a.pc = "table_r" /\ a1.op = "unlink"
      /\ UNCHANGED <<pos, panic, entry, dinode, disk, dmap, life, safe, crashes>>
      /\ Go(p, a2, i, bmap \ {tb})
  <2>1. a1.op = "unlink"
    BY <1>1 DEF Frame
  <2> HIDE DEF A
  <2>2. a.pc = "table_r" /\ UNCHANGED <<entry, dinode, disk, dmap, life, safe, crashes>>
    BY DEF table_read, At, device, history
  <2>3. CASE a1.op = "write"
    BY <2>1, <2>3
  <2>4. CASE a1.op = "read"
    BY <2>1, <2>4
  <2>5. Go(p, a2, i, bmap \ {tb}) /\ UNCHANGED <<pos, panic>>
    BY <2>1 DEF table_read, A
  <2> QED BY <2>1, <2>2, <2>5
<1>4. tb # 0 /\ a.next = 0 /\ \A k \in Index : a.all[k] = IF k < ND THEN i.sect[k] ELSE 0
  BY <1>2, <1>3 DEF Deleting
<1>5. A \in [Index -> Nat] /\ \A k \in Index : A[k] = IF k < ND THEN i.sect[k] ELSE disk[tb][k - ND]
  <2>1. disk[tb] \in [Cell -> Nat] /\ a.all \in [Index -> Nat]
    BY <1>1 DEF TypeOK, Frame
  <2>2. \A k \in Index : ~(k < ND) => disk[tb][k - ND] \in Nat
    <3> HIDE DEF tb
    <3>1. \A k \in Index : ~(k < ND) => k \in TableSlots
      BY <1>1
    <3>2. \A k \in TableSlots : k - ND \in Cell
      BY Ranges
    <3> QED BY <2>1, <3>1, <3>2
  <2>3. \A k \in Index : A[k] \in Nat
    BY <2>1, <2>2
  <2> QED BY <1>4, <2>3
<1> HIDE DEF A
<1>6. a1 \in Frame /\ a1.all = A /\ a1.next = 0
  BY <1>1, <1>4, <1>5 DEF Frame
<1>7. a2 \in Frame /\ a2.all = A /\ a2.next = 0 /\ a2.pc = "sync" /\ a2.bit = tb /\ a2.op = "unlink"
  <2>1. "sync" \in Pcs
    BY DEF Pcs
  <2> HIDE DEF a1, tb
  <2> QED BY <1>1, <1>3, <1>6, <2>1 DEF Frame
<1> HIDE DEF a1, a2
<1>8. /\ at' \in [Procs -> Frame] /\ mem' \in [Files -> Inode] /\ bmap' = bmap \ {tb}
      /\ at'[p] = a2 /\ mem'[f] = i
      /\ \A q \in Procs : q # p => at'[q] = at[q]
      /\ \A g \in Files : g # f => mem'[g] = mem[g]
  BY <1>1, <1>3, <1>7, GoFacts
<1>9. TypeOK' /\ ~panic'
  BY <1>1, <1>3, <1>4, <1>8 DEF TypeOK, Inv
<1>10. Local(p, 0)
  BY <1>3, <1>8 DEF Local, Owns
<1>11. \A k, b : Owns(f, k, b) <=> b # 0 /\ OnDisk(disk, i, k, b)
  BY <1>2, <1>3 DEF InHand
<1>12. \A k, b : Owns(f, k, b)' <=> b # 0 /\ k \in Index /\ b = A[k]
  <2>1. \A k, b : Owns(f, k, b)' <=>
          b # 0 /\ ((entry'[f] /\ OnDisk(disk', dinode'[f], k, b)) \/ InHand(disk', at'[p], mem'[f], k, b))
    BY <1>2, <1>8, OwnsMineNext
  <2>2. \A k, b : InHand(disk', a2, i, k, b) <=> k \in Index /\ k >= 0 /\ b = A[k]
    BY <1>7 DEF InHand
  <2>3. \A k \in Index : k >= 0
    BY <1>1
  <2> QED BY <1>2, <1>3, <1>8, <2>1, <2>2, <2>3
<1>13. \A k, b : b # 0 => (OnDisk(disk, i, k, b) <=> (k \in Index /\ b = A[k]) \/ (k = MaxBlk /\ b = tb))
  <2>1. \A k : k \in Index <=> k \in 0..(ND - 1) \/ k \in TableSlots
    BY <1>1
  <2>2. \A k \in 0..(ND - 1) : k \in Index /\ A[k] = i.sect[k] /\ k \notin TableSlots
    BY <1>1, <1>5
  <2>3. \A k \in TableSlots : k \in Index /\ A[k] = disk[tb][k - ND]
    BY <1>1, <1>5, SMTT(30)
  <2> HIDE DEF tb
  <2> QED BY <1>4, <2>1, <2>2, <2>3 DEF OnDisk, InInode, InTable, tb
<1>14. MaxBlk \notin Index
  BY <1>1
<1>15. Owns(f, MaxBlk, tb)
  BY <1>4, <1>11, <1>13
<1>16. \A k, b : Owns(f, k, b)' <=> Owns(f, k, b) /\ k # MaxBlk
  BY <1>11, <1>12, <1>13, <1>14
<1>17. \A k, b : Owns(f, k, b) => b \in bmap /\ b \in InPartition
  BY <1>1 DEF Inv, OwnedMarked
<1>18. \A k : Owns(f, k, tb) => k = MaxBlk
  BY <1>1, <1>15 DEF Inv, OwnedOnce
<1>19. \A b : Owns(f, MaxBlk, b) => b = tb
  BY <1>11, <1>13, <1>14
<1> HIDE DEF tb, f, a, i
<1>20. Claims(f, {})
  <2>1. \A k, b : Owns(f, k, b)' => Owns(f, k, b) /\ b \in bmap'
    BY <1>8, <1>16, <1>17, <1>18
  <2>2. \A b \in bmap : b \notin bmap' => Owns(f, MaxBlk, b)
    BY <1>8, <1>15
  <2>3. \A b \in bmap' : b \in bmap /\ \A k : Owns(f, k, b) => Owns(f, k, b)'
    BY <1>8, <1>16, <1>19
  <2> QED BY <2>1, <2>2, <2>3 DEF Claims
<1>21. Deleting(a2, i)
  BY <1>7 DEF Deleting
<1> QED BY <1>1, <1>2, <1>3, <1>7, <1>8, <1>9, <1>10, <1>20, <1>21, DeleteStep DEF f, a, i

\* Every block is free; the sector of the inode is read.
LEMMA InodeReadUnlink ==
    ASSUME Inv, Usual, NEW p \in Procs, at[p].op = "unlink", inode_read(p)
    PROVE  Inv' /\ Promise!Delete(FileOf[p])
<1> DEFINE f == FileOf[p]
           i == mem[f]
           a == at[p]
<1>1. f \in Files /\ a \in Frame /\ i \in Inode /\ TypeOK
  BY MyFacts DEF Inv
<1>2. PICK a2 \in Frame : /\ at' = [at EXCEPT ![p] = a2] /\ a2.pc = "inode_w" /\ a2.op = a.op
                          /\ a2.left = a.left /\ a2.will = a.will /\ a2.pure = a.pure
  BY <1>1, InodeReadFacts
<1>3. a.pc = "inode_r"
      /\ UNCHANGED <<mem, bmap, pos, panic, entry, dinode, disk, dmap, life, safe, crashes>>
  BY DEF inode_read, At, device, history
<1>4. /\ Alone(p) /\ ~entry[f] /\ safe[f] = 0
      /\ \A q \in Procs : FileOf[q] = f => pos[q] = Closed
      /\ Deleting(a, i)
      /\ \A k, b : Owns(f, k, b) <=> b # 0 /\ InHand(disk, a, i, k, b)
  BY DeleteFacts
<1>5. at' \in [Procs -> Frame] /\ at'[p] = a2 /\ \A q \in Procs : q # p => at'[q] = at[q]
  BY <1>1, <1>2 DEF TypeOK
<1>6. TypeOK' /\ ~panic'
  BY <1>1, <1>3, <1>5 DEF TypeOK, Inv
<1>7. Local(p, 0)
  BY <1>3, <1>5 DEF Local, Owns
<1>8. \A k, b : ~Owns(f, k, b) /\ ~Owns(f, k, b)'
  <2>1. \A k, b : ~InHand(disk, a, i, k, b) /\ ~InHand(disk', a2, i, k, b)
    BY <1>2, <1>3 DEF InHand
  <2>2. \A k, b : Owns(f, k, b)' <=>
          b # 0 /\ ((entry'[f] /\ OnDisk(disk', dinode'[f], k, b)) \/ InHand(disk', at'[p], mem'[f], k, b))
    BY <1>4, <1>5, OwnsMineNext
  <2> QED BY <1>3, <1>4, <1>5, <2>1, <2>2
<1>9. Claims(f, {})
  BY <1>3, <1>8 DEF Claims
<1>10. Deleting(a2, i)
  BY <1>2, <1>3, <1>4 DEF Deleting
<1> QED BY <1>2, <1>3, <1>4, <1>5, <1>6, <1>7, <1>9, <1>10, DeleteStep

\* The sector of the inode is written, and the call returns.
LEMMA InodeWrittenFacts ==
    ASSUME Inv, Usual, NEW p \in Procs, inode_written(p)
    PROVE  LET f == FileOf[p] IN
           /\ at[p].pc = "inode_w" /\ TypeOK' /\ ~panic'
           /\ at'[p] = User /\ dinode'[f] = at[p].pure /\ safe'[f] = at[p].pure.size
           /\ \A q \in Procs : q # p => at'[q] = at[q]
           /\ \A g \in Files : g # f => dinode'[g] = dinode[g] /\ safe'[g] = safe[g]
           /\ UNCHANGED <<mem, bmap, pos, panic, entry, disk, dmap, life, crashes>>
           /\ Local(p, 0)
<1> DEFINE f == FileOf[p]
           a == at[p]
<1>1. f \in Files /\ a \in Frame /\ TypeOK /\ a.pure \in Inode /\ a.pure.size \in Nat
  BY MyFacts DEF Inv, Frame, Inode
<1>2. /\ a.pc = "inode_w"
      /\ dinode' = [dinode EXCEPT ![f] = a.pure]
      /\ safe' = [safe EXCEPT ![f] = a.pure.size] /\ at' = [at EXCEPT ![p] = User]
      /\ UNCHANGED <<mem, bmap, pos, panic, entry, disk, dmap, life, crashes>>
  BY DEF inode_written, At
<1>3. dinode \in [Files -> Inode]
  BY <1>1 DEF TypeOK
<1>4. dinode'[f] = a.pure /\ \A g \in Files : g # f => dinode'[g] = dinode[g]
  BY <1>1, <1>2, <1>3
<1>5. dinode' \in [Files -> Inode]
  BY <1>1, <1>2, <1>3
<1>6. at' \in [Procs -> Frame] /\ at'[p] = User /\ \A q \in Procs : q # p => at'[q] = at[q]
  BY <1>1, <1>2, UserFacts DEF TypeOK
<1>7. safe' \in [Files -> Nat] /\ safe'[f] = a.pure.size /\ \A g \in Files : g # f => safe'[g] = safe[g]
  BY <1>1, <1>2 DEF TypeOK
<1>8. TypeOK' /\ ~panic'
  BY <1>1, <1>2, <1>5, <1>6, <1>7 DEF TypeOK, Inv
<1>9. Local(p, 0)
  BY <1>2, <1>4, <1>6, <1>7 DEF Local, Owns
<1> QED BY <1>2, <1>4, <1>6, <1>7, <1>8, <1>9

\* A deleted file leaves zeros in the table of inodes.
LEMMA InodeWrittenUnlink ==
    ASSUME Inv, Usual, NEW p \in Procs, at[p].op = "unlink", inode_written(p)
    PROVE  Inv' /\ Promise!Delete(FileOf[p])
<1> DEFINE f == FileOf[p]
           i == mem[f]
           a == at[p]
<1>1. /\ a.pc = "inode_w" /\ TypeOK' /\ ~panic'
      /\ at'[p] = User /\ dinode'[f] = a.pure /\ safe'[f] = a.pure.size
      /\ \A q \in Procs : q # p => at'[q] = at[q]
      /\ UNCHANGED <<mem, bmap, pos, panic, entry, disk, dmap, life, crashes>>
      /\ Local(p, 0)
  BY InodeWrittenFacts
<1>2. /\ Alone(p) /\ ~entry[f] /\ safe[f] = 0
      /\ \A q \in Procs : FileOf[q] = f => pos[q] = Closed
      /\ Deleting(a, i)
      /\ \A k, b : Owns(f, k, b) <=> b # 0 /\ InHand(disk, a, i, k, b)
  BY DeleteFacts
<1>3. safe'[f] = 0
  BY <1>1, <1>2, UserFacts DEF Deleting
<1>4. \A k, b : ~Owns(f, k, b) /\ ~Owns(f, k, b)'
  <2>1. \A k, b : ~InHand(disk, a, i, k, b) /\ ~InHand(disk', User, i, k, b)
    BY <1>1, UserFacts DEF InHand
  <2>2. \A k, b : Owns(f, k, b)' <=>
          b # 0 /\ ((entry'[f] /\ OnDisk(disk', dinode'[f], k, b)) \/ InHand(disk', at'[p], mem'[f], k, b))
    BY <1>1, <1>2, OwnsMineNext
  <2> QED BY <1>1, <1>2, <2>1, <2>2
<1>5. Claims(f, {})
  BY <1>1, <1>4 DEF Claims
<1> QED BY <1>1, <1>2, <1>3, <1>5, DeleteStep

\* A write returns, and the file is whole on disk.
LEMMA InodeWrittenWrite ==
    ASSUME Inv, Usual, NEW p \in Procs, at[p].op = "write", inode_written(p)
    PROVE  Inv' /\ Promise!Write(FileOf[p])
<1> DEFINE f == FileOf[p]
           d == dinode[f]
           m == MaxSize[f]
           i == mem[f]
           a == at[p]
<1>1. /\ f \in Files /\ a \in Frame /\ i \in Inode /\ d \in Inode /\ i.size \in Nat /\ CallOK(p)
      /\ m \in Nat
  BY MyFacts DEF Inode
<1>2. /\ a.pc = "inode_w" /\ TypeOK' /\ ~panic'
      /\ at'[p] = User /\ dinode'[f] = a.pure /\ safe'[f] = a.pure.size
      /\ \A q \in Procs : q # p => at'[q] = at[q]
      /\ UNCHANGED <<mem, bmap, pos, panic, entry, disk, dmap, life, crashes>>
      /\ Local(p, 0)
  BY InodeWrittenFacts
<1>3. /\ pos[p] # Closed /\ Alone(p) /\ entry[f] /\ Grows(a, i, d, m)
      /\ Writing(a, i, d, disk, crashes, pos[p], m)
      /\ Covers(disk, i) /\ i.size <= m /\ Keeps(i, i)
      /\ \A k, b : Owns(f, k, b) <=> b # 0 /\ (OnDisk(disk, d, k, b) \/ InHand(disk, a, i, k, b))
      /\ \A k, b : Owns(f, k, b) => b \in bmap /\ b \in InPartition /\ b \in Bits
  BY WriteFacts
<1>4. a.left = 0 /\ a.pure = i /\ Ready(a, i, disk, crashes, pos[p])
  BY <1>2, <1>3 DEF Writing, Step1, Step2, Step3, Step4, Step5, Filling
<1>5. i.size > 0 /\ Count(i) = a.will
  BY <1>1, <1>3, <1>4 DEF Grows, Ready, Count
<1>6. Whole(disk, i, m) /\ NoMore(disk, i, Count(i), crashes) /\ pos[p] = i.size - 1
  BY <1>3, <1>4, <1>5 DEF Ready, Whole
<1>7. \A k, b : b # 0 /\ OnDisk(disk, d, k, b) => OnDisk(disk, i, k, b)
  <2>1. \A k \in 0..ND : d.sect[k] # 0 => d.sect[k] = i.sect[k]
    BY <1>3 DEF Grows
  <2>2. ND \in 0..ND /\ \A k \in 0..(ND - 1) : k \in 0..ND
    BY Consts
  <2>3. \A k, b : b # 0 /\ InInode(d, k, b) => InInode(i, k, b)
    BY <2>1, <2>2 DEF InInode
  <2>4. \A k, b : InTable(disk, d, k, b) => InTable(disk, i, k, b)
    BY <2>1, <2>2 DEF InTable
  <2> QED BY <2>3, <2>4 DEF OnDisk
<1>8. \A k, b : InHand(disk, a, i, k, b) <=> OnDisk(disk, i, k, b)
  BY <1>2 DEF InHand, Filling, OnDisk
<1>9. \A k, b : Owns(f, k, b) <=> b # 0 /\ OnDisk(disk, i, k, b)
  BY <1>3, <1>7, <1>8
<1>10. \A k, b : Owns(f, k, b)' <=> Owns(f, k, b)
  <2>1. \A k, b : ~InHand(disk', User, i, k, b)
    BY UserFacts DEF InHand
  <2>2. \A k, b : Owns(f, k, b)' <=>
          b # 0 /\ ((entry'[f] /\ OnDisk(disk', dinode'[f], k, b)) \/ InHand(disk', at'[p], mem'[f], k, b))
    BY <1>2, <1>3, OwnsMineNext
  <2> QED BY <1>2, <1>3, <1>4, <1>9, <2>1, <2>2
<1>11. Claims(f, {})
  BY <1>2, <1>3, <1>10 DEF Claims
<1>12. Synced(p)
  <2>1. \A k, c : c # 0 /\ InHand(disk, a, i, k, c) => c \in dmap
    BY <1>2 DEF Inv, KnownOnDisk
  <2> QED BY <1>2, <1>4, <1>8, <2>1, UserFacts DEF Synced
<1>13. Continued(p)
  <2>1. Extends(disk, i, disk, i)
    BY <1>1, <1>3, KeepsExtends
  <2> QED BY <1>2, <1>3, <2>1 DEF Continued
<1>14. FileOK(f)'
  <2>1. \A q \in Procs : FileOf[q] = f => ~Busy(q)'
    BY <1>2, <1>3, UserFacts DEF Busy, Alone
  <2>2. Whole(disk', dinode'[f], m) /\ NoMore(disk', dinode'[f], Count(dinode'[f]), crashes')
        /\ safe'[f] = dinode'[f].size /\ mem'[f] = dinode'[f] /\ entry'[f]
    BY <1>2, <1>3, <1>4, <1>6
  <2> QED BY <2>1, <2>2 DEF FileOK
<1>15. CallOK(p)' /\ WriteOK(p)' /\ DeleteOK(p)' /\ ReadOK(p)'
  <2>1. pos'[p] <= mem'[f].size
    BY <1>1, <1>2, <1>6
  <2> QED BY <1>2, <1>3, <2>1, UserFacts DEF CallOK, WriteOK, DeleteOK, ReadOK
<1>16. Promise!Write(f)
  <2>1. TypeOK /\ View(f) = i /\ View(f)' = i
    BY <1>2, <1>3 DEF View, Opened, Inv
  <2>2. /\ Content(f) = [n \in 1..i.size |-> Data(disk, i, n - 1)]
        /\ Content(f)' = [n \in 1..i.size |-> Data(disk', i, n - 1)]
    BY <1>1, <1>2, <1>3, <2>1, ContentNow, ContentNext
  <2>3. Extends(disk, i, disk', i)
    BY <1>1, <1>2, <1>3, KeepsExtends
  <2>4. Promise!Prefix(Content(f), Content(f)') /\ Len(Content(f)') = i.size
    BY <1>1, <2>2, <2>3, ExtendsPrefix
  <2>5. safe' = [safe EXCEPT ![f] = Len(Content(f)')]
    BY <1>4, <2>4 DEF inode_written
  <2> QED BY <1>1, <1>2, <2>4, <2>5, OthersSame, IsWrite
<1> QED BY <1>2, <1>3, <1>11, <1>12, <1>13, <1>14, <1>15, <1>16, StepInv

-----------------------------------------------------------------------------
(* file_read, lseek, open and close                                         *)

\* What a process finds that has its file open
LEMMA ReaderFacts ==
    ASSUME Inv, Usual, NEW p \in Procs, pos[p] # Closed
    PROVE  LET f == FileOf[p]  i == mem[f] IN
           /\ entry[f] /\ Opened(f) /\ View(f) = i /\ Covers(disk, i) /\ i.size \in Nat
           /\ i.size <= MaxSize[f]
           /\ \A k \in Nat : k * BLOCK_SIZE < i.size =>
                 k \in Index /\ Owns(f, k, Blk(disk, i, k)) /\ Blk(disk, i, k) \in Bits
<1> DEFINE f == FileOf[p]
<1>1. f \in Files /\ entry[f] /\ Opened(f)
  BY MyFacts DEF CallOK, Opened
<1>2. View(f) = mem[f]
  BY <1>1 DEF View
<1>3. \A k, b : Owns(f, k, b) => b \in Bits
  BY <1>1, Ranges DEF Inv, OwnedMarked
<1>4. /\ Covers(disk, View(f)) /\ View(f).size \in Nat /\ View(f).size <= MaxSize[f]
      /\ \A k \in Nat : k * BLOCK_SIZE < View(f).size =>
            k \in Index /\ Blk(disk, View(f), k) # 0 /\ Owns(f, k, Blk(disk, View(f), k))
  BY <1>1, ViewOwns
<1> HIDE DEF f
<1> QED BY <1>1, <1>2, <1>3, <1>4 DEF f

\* Which call a process is in follows from where it waits.
LEMMA PcOp ==
    ASSUME Inv, NEW p \in Procs
    PROVE  /\ at[p].pc = "chunk" => at[p].op = "read"
           /\ at[p].pc = "user" => at[p].op = "none" /\ at[p] = User
           /\ at[p].pc = "table_r" => at[p].op \in {"read", "write", "unlink"}
           /\ at[p].pc \in {"sync", "inode_r", "inode_w"} => at[p].op \in {"write", "unlink"}
           /\ at[p].pc \in {"table_w", "block_r", "block_w"} => at[p].op = "write"
<1>1. at[p].op \in {"none", "read", "write", "unlink"}
  BY MyFacts DEF Frame
<1>2. at[p].op = "none" <=> at[p].pc = "user"
  BY MyFacts DEF CallOK
<1>3. at[p].pc = "user" => at[p] = User
  BY MyFacts DEF CallOK
<1>4. at[p].op = "read" => at[p].pc \in {"table_r", "chunk"}
  BY MyFacts DEF ReadOK, Reading
<1>5. at[p].op = "unlink" => at[p].pc \in {"table_r", "sync", "inode_r", "inode_w"}
  BY MyFacts DEF DeleteOK, Deleting
<1>6. at[p].op = "write" => at[p].pc # "chunk"
  BY MyFacts DEF WriteOK, Writing, Step1, Step2, Step3, Step4, Step5, Filling
<1> QED BY <1>1, <1>2, <1>3, <1>4, <1>5, <1>6

\* A step of a read, or of a process outside of calls, that stays open
LEMMA ReadStep ==
    ASSUME Inv, Usual, NEW p \in Procs, pos[p] # Closed, at[p].op \in {"none", "read"},
           NEW a2 \in Frame, at' = [at EXCEPT ![p] = a2],
           NEW n \in Nat, pos' = [pos EXCEPT ![p] = n], n <= mem[FileOf[p]].size,
           \/ a2 = User
           \/ a2.op = "read" /\ Reading(a2, mem[FileOf[p]], disk, n),
           UNCHANGED <<mem, bmap, panic, entry, dinode, disk, dmap, life, safe, crashes>>
    PROVE  Inv' /\ Same
<1> DEFINE f == FileOf[p]
<1>1. TypeOK /\ entry[f] /\ CallOK(p) /\ at[p].pc # "sync"
  BY MyFacts, PcOp DEF Inv, CallOK
<1>2. /\ at' \in [Procs -> Frame] /\ at'[p] = a2 /\ \A q \in Procs : q # p => at'[q] = at[q]
      /\ pos' \in [Procs -> Nat \cup {Closed}] /\ pos'[p] = n
      /\ \A q \in Procs : q # p => pos'[q] = pos[q]
  BY <1>1 DEF TypeOK
<1>3. TypeOK' /\ ~panic'
  BY <1>1, <1>2 DEF TypeOK, Inv
<1>4. n # Closed
  BY DEF Closed
<1>5. Opened(f)' /\ Opened(f)
  BY <1>2, <1>4 DEF Opened
<1>6. a2.op \in {"none", "read"} /\ a2.pc # "sync"
  BY UserFacts DEF Reading
<1>7. CallOK(p)' /\ ReadOK(p)'
  <2>1. CASE a2 = User
    BY <1>1, <1>2, <1>4, <2>1, UserFacts DEF CallOK, ReadOK
  <2>2. CASE a2.op = "read" /\ Reading(a2, mem[f], disk, n)
    <3>1. a2.pc # "user" /\ a2.pc # "sync"
      BY <2>2 DEF Reading
    <3>2. CallOK(p)'
      BY <1>1, <1>2, <1>4, <2>2, <3>1 DEF CallOK
    <3>3. ReadOK(p)'
      BY <1>2, <2>2 DEF ReadOK
    <3> QED BY <3>2, <3>3
  <2> QED BY <2>1, <2>2
<1>8. Same
  BY <1>1, <1>2, <1>3, <1>4, ReaderSame
<1> QED BY <1>1, <1>2, <1>3, <1>5, <1>6, <1>7, <1>8, QuietStep

\* The table has been read, and the blocks behind the direct ones are known.
LEMMA TableReadRead ==
    ASSUME Inv, Usual, NEW p \in Procs, at[p].op = "read", table_read(p)
    PROVE  Inv' /\ Same
<1> DEFINE f == FileOf[p]
           i == mem[f]
           a == at[p]
           tb == i.sect[ND]
           A == [k \in Index |-> IF k < ND THEN a.all[k] ELSE disk[tb][k - ND]]
           a1 == [a EXCEPT !.all = A]
           a2 == [a1 EXCEPT !.pc = "chunk"]
<1>1. /\ f \in Files /\ a \in Frame /\ i \in Inode /\ TypeOK /\ CallOK(p) /\ ReadOK(p)
      /\ ND \in Nat /\ ND > 0 /\ Index = 0..(ND + NI - 1) /\ TableSlots = ND..(ND + NI - 1)
      /\ NI \in Nat /\ NI > 0
      /\ tb \in Bits /\ tb \in Nat
  <2>1. ND \in 0..ND
    BY Consts
  <2>2. mem[f] \in Inode
    BY MyFacts
  <2>3. tb \in Bits /\ tb \in Nat
    BY <2>1, <2>2, Ranges DEF Inode
  <2> QED BY <2>3, MyFacts, Consts, Ranges DEF Inv
<1>2. a.pc = "table_r" /\ a1.op = "read" /\ Go(p, a2, i, bmap)
      /\ UNCHANGED <<pos, panic, entry, dinode, disk, dmap, life, safe, crashes>>
  <2>1. a1.op = "read"
    BY <1>1, SMTT(30) DEF Frame
  <2> HIDE DEF A
  <2>2. a.pc = "table_r" /\ UNCHANGED <<entry, dinode, disk, dmap, life, safe, crashes>>
    BY DEF table_read, At, device, history
  <2>3. Go(p, a2, i, bmap) /\ UNCHANGED <<pos, panic>>
    BY <2>1 DEF table_read, A
  <2> QED BY <2>1, <2>2, <2>3
<1>3. pos[p] # Closed /\ pos[p] \in Nat
  BY <1>1, MyFacts DEF CallOK
<1>4. Reading(a, i, disk, pos[p]) /\ tb # 0
  BY <1>1, <1>2 DEF ReadOK, Reading
<1>5. A \in [Index -> Nat] /\ \A k \in Index : A[k] = IF k < ND THEN a.all[k] ELSE disk[tb][k - ND]
  <2>1. disk[tb] \in [Cell -> Nat] /\ a.all \in [Index -> Nat]
    BY <1>1 DEF TypeOK, Frame
  <2>2. \A k \in Index : ~(k < ND) => disk[tb][k - ND] \in Nat
    <3> HIDE DEF tb
    <3>1. \A k \in Index : ~(k < ND) => k \in TableSlots
      BY <1>1
    <3>2. \A k \in TableSlots : k - ND \in Cell
      BY Ranges
    <3> QED BY <2>1, <3>1, <3>2
  <2> HIDE DEF tb
  <2>3. \A k \in Index : A[k] \in Nat
    BY <2>1, <2>2
  <2> QED BY <2>3
<1> HIDE DEF A
<1>6. a1 \in Frame /\ a1.all = A /\ a1.left = a.left /\ a1.start = a.start /\ a1.got = a.got
  BY <1>1, <1>5 DEF Frame
<1> HIDE DEF a1
<1>7. /\ a2 \in Frame /\ a2.all = A /\ a2.pc = "chunk" /\ a2.op = "read" /\ a2.left = a.left
      /\ a2.start = a.start /\ a2.got = a.got
  <2>1. "chunk" \in Pcs
    BY DEF Pcs
  <2> QED BY <1>2, <1>6, <2>1, PcFacts
<1> HIDE DEF a2
<1>8. at' = [at EXCEPT ![p] = a2] /\ mem' = mem /\ bmap' = bmap /\ pos' = [pos EXCEPT ![p] = pos[p]]
  <2>1. mem' = [mem EXCEPT ![f] = mem[f]] /\ pos' = pos /\ bmap' = bmap /\ at' = [at EXCEPT ![p] = a2]
    BY <1>2 DEF Go
  <2>2. mem \in [Files -> Inode] /\ pos \in [Procs -> Nat \cup {Closed}]
    BY <1>1 DEF TypeOK
  <2> QED BY <2>1, <2>2
<1>9. pos[p] <= i.size /\ i.size \in Nat /\ i.size <= MaxSize[f] /\ a.left \in Nat
  BY <1>1, <1>3, <1>4, ReaderFacts DEF Reading, Frame, CallOK
<1>10. Reading(a2, i, disk, pos[p])
  <2> SUFFICES ASSUME NEW x \in pos[p]..(pos[p] + a.left - 1)
               PROVE  A[x \div BLOCK_SIZE] = Blk(disk, i, x \div BLOCK_SIZE)
    BY <1>4, <1>7 DEF Reading
  <2> DEFINE k == x \div BLOCK_SIZE
  <2>0. pos[p] + a.left <= i.size
    BY <1>4 DEF Reading
  <2> HIDE DEF a, i, f
  <2>1. x \in Nat /\ x < i.size
    BY <1>3, <1>9, <2>0
  <2>2. k \in Nat /\ k * BLOCK_SIZE <= x
    BY <2>1, BlockStart
  <2>3. k \in Index
    <3>1. x <= MaxSize[f] /\ MaxSize[f] \in Nat
      <4>1. MaxSize[f] \in Nat
        BY <1>1, Consts
      <4> QED BY <1>9, <2>1, <4>1
    <3> QED BY <1>1, <2>1, <2>2, <3>1, InIndex
  <2>4. k < ND => a.all[k] = Blk(disk, i, k)
    BY <1>4 DEF Reading
  <2>5. ~(k < ND) => A[k] = disk[tb][k - ND]
    BY <1>5, <2>3
  <2>6. k < ND => A[k] = a.all[k]
    BY <1>5, <2>3
  <2> HIDE DEF k
  <2> QED BY <1>4, <2>4, <2>5, <2>6 DEF Blk, k
<1> QED BY <1>2, <1>3, <1>7, <1>8, <1>9, <1>10, ReadStep

\* A chunk moves the position, and with it what is copied and what is left.
LEMMA ReadNumbers ==
    ASSUME NEW ps \in Nat, NEW left \in Nat, NEW size \in Nat, NEW chunk \in Nat, NEW start \in Nat,
           NEW n \in Nat, chunk <= left, ps + left <= size, ps = start + n
    PROVE  /\ ps + chunk \in Nat /\ ps + chunk <= size /\ ps + chunk = start + (n + chunk)
           /\ (ps + chunk) + (left - chunk) <= size
           /\ \A x \in (ps + chunk)..((ps + chunk) + (left - chunk) - 1) : x \in ps..(ps + left - 1)
           /\ \A m \in 1..(n + chunk) :
                 \/ m \in 1..n
                 \/ /\ m \in (n + 1)..(n + chunk) /\ m - n \in 1..chunk /\ (m - n) - 1 \in Nat
                    /\ start + m - 1 = ps + ((m - n) - 1)
OBVIOUS

\* One more block is copied.
LEMMA ReadChunkStep ==
    ASSUME Inv, Usual, NEW p \in Procs, read_chunk(p)
    PROVE  Inv' /\ Same
<1> DEFINE f == FileOf[p]
           i == mem[f]
           a == at[p]
           ps == pos[p]
           off == ps % BLOCK_SIZE
           k == ps \div BLOCK_SIZE
           chunk == Smaller(a.left, BLOCK_SIZE - off)
           data == disk[a.all[k]]
           new == [n \in 1..chunk |-> data[off + n - 1]]
           a2 == [a EXCEPT !.left = @ - chunk, !.got = @ \o new]
<1>1. /\ f \in Files /\ a \in Frame /\ i \in Inode /\ TypeOK /\ CallOK(p) /\ ReadOK(p)
      /\ a.left \in Nat /\ a.got \in Seq(Nat) /\ a.start \in Nat /\ i.size \in Nat
  BY MyFacts DEF Inv, Frame, Inode
<1>2. /\ a.pc = "chunk" /\ a.left > 0
      /\ at' = [at EXCEPT ![p].left = @ - chunk, ![p].got = @ \o new]
      /\ pos' = [pos EXCEPT ![p] = @ + chunk]
      /\ UNCHANGED <<mem, bmap, panic, entry, dinode, disk, dmap, life, safe, crashes>>
  BY SMTT(30) DEF read_chunk, At, device, history
<1>3. a.op = "read" /\ ps # Closed /\ ps \in Nat
  BY <1>1, <1>2, PcOp, MyFacts DEF CallOK
<1>4. Reading(a, i, disk, ps) /\ ps + a.left <= i.size /\ ps = a.start + Len(a.got)
  <2>1. Reading(a, i, disk, ps)
    BY <1>1, <1>3, Zenon DEF ReadOK
  <2> HIDE DEF a, i, ps
  <2> QED BY <2>1 DEF Reading
<1>5. /\ off \in Nat /\ off < BLOCK_SIZE /\ chunk \in Nat /\ chunk > 0 /\ chunk <= a.left
      /\ off + chunk <= BLOCK_SIZE /\ a.left - chunk \in Nat
  BY <1>1, <1>2, <1>3, ChunkFacts
<1> HIDE DEF off, k, chunk, ps, a, i, f
<1>6. a.all[k] = Blk(disk, i, k) /\ Blk(disk, i, k) \in Bits
  <2>1. ps \in ps..(ps + a.left - 1)
    BY <1>1, <1>2, <1>3, SMTT(30)
  <2>2. a.all[k] = Blk(disk, i, k)
    BY <1>2, <1>4, <2>1 DEF Reading, k
  <2>3. k \in Nat /\ k * BLOCK_SIZE <= ps
    BY <1>3, BlockStart DEF k
  <2>4. k * BLOCK_SIZE < i.size
    <3> DEFINE n == k * BLOCK_SIZE
    <3>1. n \in Nat /\ n <= ps
      BY <2>3, Consts
    <3> HIDE DEF n
    <3> QED BY <1>1, <1>2, <1>3, <1>4, <3>1 DEF n
  <2> QED BY <1>3, <2>2, <2>3, <2>4, ReaderFacts DEF ps, i, f
<1>7. \A n \in 1..chunk : data[off + n - 1] \in Nat
  <2>1. data \in [Cell -> Nat]
    BY <1>1, <1>6 DEF TypeOK
  <2>2. \A n \in 1..chunk : off + n - 1 \in Cell
    <3> SUFFICES ASSUME NEW n \in 1..chunk PROVE off + n - 1 \in Cell
      OBVIOUS
    <3>1. off + n - 1 \in Nat /\ off + n - 1 < BLOCK_SIZE
      BY <1>5, Consts
    <3> QED BY <3>1, Ranges
  <2> QED BY <2>1, <2>2
<1> HIDE DEF data
<1>8. new \in [1..chunk -> Nat] /\ \A n \in 1..chunk : new[n] = data[off + n - 1]
  BY <1>7
<1> DEFINE N == Len(a.got)
<1>9. N \in Nat
  BY <1>1
<1> HIDE DEF new
<1>10. new \in Seq(Nat) /\ Len(new) = chunk
  <2>1. chunk \in Nat
    BY <1>5
  <2> QED BY <1>8, <2>1
<1>11. /\ a.got \o new \in Seq(Nat) /\ Len(a.got \o new) = N + chunk
       /\ \A m \in 1..N : (a.got \o new)[m] = a.got[m]
       /\ \A m \in (N + 1)..(N + chunk) : (a.got \o new)[m] = new[m - N]
  <2>1. /\ a.got \o new \in Seq(Nat) /\ Len(a.got \o new) = N + chunk
        /\ \A m \in 1..(N + chunk) : (a.got \o new)[m] = IF m <= N THEN a.got[m] ELSE new[m - N]
    <3> HIDE DEF N
    <3>1. a.got \in Seq(Nat) /\ Len(a.got) = N
      BY <1>1 DEF N
    <3> QED BY <1>10, <3>1, ConcatProperties, ZenonT(40)
  <2>2. chunk \in Nat
    BY <1>5
  <2> HIDE DEF N
  <2>3. /\ \A m \in 1..N : m \in 1..(N + chunk) /\ m <= N
        /\ \A m \in (N + 1)..(N + chunk) : m \in 1..(N + chunk) /\ ~(m <= N)
    BY <1>9, <2>2
  <2> QED BY <2>1, <2>3
<1>12. /\ a2 \in Frame /\ a2.left = a.left - chunk /\ a2.got = a.got \o new /\ a2.op = "read"
       /\ a2.pc = "chunk" /\ a2.start = a.start /\ a2.all = a.all
  BY <1>1, <1>2, <1>3, <1>5, <1>11 DEF Frame
<1>13. at' = [at EXCEPT ![p] = a2]
  <2>1. at \in [Procs -> Frame]
    BY <1>1 DEF TypeOK
  <2> QED BY <1>2, <2>1 DEF a
<1> HIDE DEF a2, N
<1>14. /\ ps + chunk \in Nat /\ ps + chunk <= i.size /\ ps + chunk = a.start + (N + chunk)
       /\ (ps + chunk) + (a.left - chunk) <= i.size
       /\ \A x \in (ps + chunk)..((ps + chunk) + (a.left - chunk) - 1) : x \in ps..(ps + a.left - 1)
       /\ \A m \in 1..(N + chunk) :
             \/ m \in 1..N
             \/ /\ m \in (N + 1)..(N + chunk) /\ m - N \in 1..chunk /\ (m - N) - 1 \in Nat
                /\ a.start + m - 1 = ps + ((m - N) - 1)
  <2>1. ps = a.start + N
    BY <1>4 DEF N
  <2> DEFINE left == a.left
             size == i.size
             start == a.start
  <2>2. /\ ps \in Nat /\ left \in Nat /\ size \in Nat /\ chunk \in Nat /\ start \in Nat /\ N \in Nat
        /\ chunk <= left /\ ps + left <= size /\ ps = start + N
    BY <1>1, <1>3, <1>4, <1>5, <1>9, <2>1
  <2> HIDE DEF left, size, start
  <2>3. /\ ps + chunk \in Nat /\ ps + chunk <= size /\ ps + chunk = start + (N + chunk)
        /\ (ps + chunk) + (left - chunk) <= size
        /\ \A x \in (ps + chunk)..((ps + chunk) + (left - chunk) - 1) : x \in ps..(ps + left - 1)
        /\ \A m \in 1..(N + chunk) :
              \/ m \in 1..N
              \/ /\ m \in (N + 1)..(N + chunk) /\ m - N \in 1..chunk /\ (m - N) - 1 \in Nat
                 /\ start + m - 1 = ps + ((m - N) - 1)
    BY <2>2, ReadNumbers
  <2> QED BY <2>3 DEF left, size, start
<1>15. Reading(a2, i, disk, ps + chunk)
  <2>1. ps + chunk = a2.start + Len(a2.got) /\ (ps + chunk) + a2.left <= i.size
    BY <1>11, <1>12, <1>14
  <2>2. \A x \in (ps + chunk)..((ps + chunk) + a2.left - 1) :
          a2.all[x \div BLOCK_SIZE] = Blk(disk, i, x \div BLOCK_SIZE)
    <3> SUFFICES ASSUME NEW x \in (ps + chunk)..((ps + chunk) + (a.left - chunk) - 1)
                 PROVE  a.all[x \div BLOCK_SIZE] = Blk(disk, i, x \div BLOCK_SIZE)
      BY <1>12
    <3>1. x \in ps..(ps + a.left - 1)
      BY <1>14
    <3> QED BY <1>2, <1>4, <3>1 DEF Reading
  <2>3. ASSUME NEW m \in 1..(N + chunk)
        PROVE  (a.got \o new)[m] = Data(disk, i, a.start + m - 1)
    <3>1. CASE m \in 1..N
      BY <1>4, <1>11, <3>1 DEF Reading, N
    <3>2. CASE /\ m \in (N + 1)..(N + chunk) /\ m - N \in 1..chunk /\ (m - N) - 1 \in Nat
               /\ a.start + m - 1 = ps + ((m - N) - 1)
      <4> DEFINE n == m - N
      <4>1. n \in 1..chunk /\ n - 1 \in Nat /\ a.start + m - 1 = ps + (n - 1)
            /\ (a.got \o new)[m] = new[n]
        BY <1>11, <3>2
      <4> HIDE DEF n
      <4>2. off + (n - 1) < BLOCK_SIZE /\ off + (n - 1) <= BLOCK_SIZE /\ off + n - 1 = off + (n - 1)
        BY <1>5, <4>1, Consts
      <4>3. (ps + (n - 1)) \div BLOCK_SIZE = k /\ (ps + (n - 1)) % BLOCK_SIZE = off + (n - 1)
        BY <1>3, <4>1, <4>2, DivAdd DEF off, k
      <4>4. (a.got \o new)[m] = data[off + (n - 1)]
        BY <1>8, <4>1, <4>2
      <4>5. Data(disk, i, a.start + m - 1) = disk[Blk(disk, i, k)][off + (n - 1)]
        BY <4>1, <4>3 DEF Data
      <4> QED BY <1>6, <4>4, <4>5 DEF data
    <3> QED BY <1>14, <3>1, <3>2
  <2>4. \A m \in 1..Len(a2.got) : a2.got[m] = Data(disk, i, a2.start + m - 1)
    BY <1>11, <1>12, <2>3
  <2> QED BY <1>12, <2>1, <2>2, <2>4 DEF Reading
<1>16. pos' = [pos EXCEPT ![p] = ps + chunk]
  BY <1>2 DEF ps
<1> QED BY <1>2, <1>3, <1>12, <1>13, <1>14, <1>15, <1>16, ReadStep DEF ps, a, i, f

\* The read returns.
LEMMA ReadReturnStep ==
    ASSUME Inv, Usual, NEW p \in Procs, read_return(p)
    PROVE  Inv' /\ Same
<1>1. /\ at[p].pc = "chunk" /\ at[p].left = 0 /\ at' = [at EXCEPT ![p] = User]
      /\ UNCHANGED <<mem, bmap, pos, panic, entry, dinode, disk, dmap, life, safe, crashes>>
  BY DEF read_return, At, device, history
<1>2. at[p].op = "read" /\ pos[p] # Closed /\ pos[p] \in Nat
  BY <1>1, PcOp, MyFacts DEF CallOK
<1>3. pos[p] <= mem[FileOf[p]].size
  BY <1>2, MyFacts DEF CallOK
<1>4. pos' = [pos EXCEPT ![p] = pos[p]]
  <2>1. pos \in [Procs -> Nat \cup {Closed}]
    BY DEF Inv, TypeOK
  <2> QED BY <1>1, <2>1
<1> QED BY <1>1, <1>2, <1>3, <1>4, UserFacts, ReadStep

\* The number of bytes a read copies: those asked for, or those up to the end
LEMMA ReadSize ==
    ASSUME Usual, NEW f \in Files, NEW ps \in Nat, NEW size \in Nat, NEW count \in Nat,
           ps <= size, size <= MaxSize[f], count + MaxSize[f] < Word
    PROVE  LET n == IF (ps + count) % Word > size THEN (size - ps) % Word ELSE count IN
           /\ n \in Nat /\ ps + n <= size /\ (ps + n) % Word = ps + n
<1> DEFINE M == MaxSize[f]
<1>1. M \in Nat /\ Word \in Nat /\ Word > 0
  BY Consts
<1> HIDE DEF M
<1>2. ps + count < Word /\ ps + count \in Nat /\ size - ps \in Nat /\ size - ps < Word /\ size < Word
  BY <1>1 DEF M
<1>3. (ps + count) % Word = ps + count /\ (size - ps) % Word = size - ps
  BY <1>1, <1>2
<1> DEFINE n == IF ps + count > size THEN size - ps ELSE count
<1>4. n \in Nat /\ ps + n <= size
  BY <1>2
<1> HIDE DEF n
<1>5. (ps + n) % Word = ps + n
  BY <1>1, <1>2, <1>4
<1> QED BY <1>3, <1>4, <1>5 DEF n

\* A read finds the addresses of the blocks; no ASSERT fails.
LEMMA SysReadStep ==
    ASSUME Inv, Usual, NEW p \in Procs, NEW count \in Reads[p], sys_read(p, count)
    PROVE  Inv' /\ Same
<1> DEFINE f == FileOf[p]
           i == mem[f]
           ps == pos[p]
           size == IF (ps + count) % Word > i.size THEN (i.size - ps) % Word ELSE count
           start == ps \div BLOCK_SIZE
           end == ((ps + size) % Word) \div BLOCK_SIZE
           A == [k \in Index |-> IF k \in start..end /\ k < ND THEN i.sect[k] ELSE 0]
           a == [User EXCEPT !.op = "read", !.left = size, !.start = ps, !.all = A]
           pc == IF end < ND THEN "chunk" ELSE "table_r"
           a2 == [a EXCEPT !.pc = pc]
<1>1. /\ f \in Files /\ i \in Inode /\ TypeOK /\ CallOK(p) /\ i.size \in Nat /\ count \in Nat
      /\ count + MaxSize[f] < Word /\ MaxSize[f] \in Nat
      /\ ND \in Nat /\ ND > 0 /\ Index = 0..(ND + NI - 1) /\ NI \in Nat /\ NI > 0
  BY MyFacts, Consts, Ranges DEF Inv, Inode, Usual
<1>2. /\ at[p].pc = "user" /\ pos[p] # Closed /\ size > 0
      /\ IF start >= MaxBlk - 1 \/ end >= MaxBlk - 1 \/ (end >= ND /\ start < end /\ i.sect[ND] = 0)
         THEN Panic
         ELSE Go(p, a2, i, bmap) /\ UNCHANGED <<pos, panic>>
      /\ UNCHANGED <<entry, dinode, disk, dmap, life, safe, crashes>>
  BY DEF sys_read, At, device, history
<1>3. at[p].op = "none" /\ ps \in Nat /\ ps <= i.size
  BY <1>1, <1>2, MyFacts, PcOp DEF CallOK
<1>4. entry[f] /\ Covers(disk, i) /\ i.size <= MaxSize[f]
  BY <1>2, ReaderFacts
<1>5. size \in Nat /\ ps + size <= i.size /\ (ps + size) % Word = ps + size
  <2> HIDE DEF i, ps, f
  <2> QED BY <1>1, <1>3, <1>4, ReadSize
<1> DEFINE last == ps + size
<1> HIDE DEF size, ps, i, f
<1>6. last \in Nat /\ last <= i.size /\ ps <= last /\ last <= MaxSize[f] /\ ps <= MaxSize[f]
  <2>1. ps \in Nat /\ size \in Nat /\ i.size \in Nat /\ MaxSize[f] \in Nat
    BY <1>1, <1>3, <1>5
  <2>2. ps + size <= i.size /\ i.size <= MaxSize[f]
    BY <1>4, <1>5
  <2> QED BY <2>1, <2>2
<1>7. end = last \div BLOCK_SIZE
  BY <1>5
<1> HIDE DEF start, end, last
<1>8. /\ start \in Nat /\ end \in Nat /\ start <= end
      /\ start * BLOCK_SIZE <= ps /\ end * BLOCK_SIZE <= last
  BY <1>3, <1>6, <1>7, BlockStart, DivLe DEF start
<1>9. start < MaxBlk - 1 /\ end < MaxBlk - 1
  BY <1>1, <1>3, <1>6, <1>8, InIndex
<1>10. end >= ND => i.sect[ND] # 0
  <2> SUFFICES ASSUME end >= ND PROVE i.sect[ND] # 0
    OBVIOUS
  <2>1. ND * BLOCK_SIZE <= last
    <3>1. ND <= last \div BLOCK_SIZE
      BY <1>7, <1>8, <1>1
    <3> QED BY <1>1, <1>6, <3>1, DivBlock
  <2>2. ND * BLOCK_SIZE <= i.size
    <3> DEFINE n == ND * BLOCK_SIZE
    <3>1. n \in Nat
      BY <1>1, Consts
    <3> HIDE DEF n
    <3> QED BY <1>1, <1>6, <2>1, <3>1 DEF n
  <2> QED BY <1>4, <2>2 DEF Covers
<1>11. Go(p, a2, i, bmap) /\ UNCHANGED <<pos, panic>>
  <2>1. ~(start >= MaxBlk - 1) /\ ~(end >= MaxBlk - 1)
    BY <1>8, <1>9, Consts
  <2> QED BY <1>2, <1>10, <2>1
<1>12. A \in [Index -> Nat] /\ \A k \in Index : A[k] = IF k \in start..end /\ k < ND THEN i.sect[k] ELSE 0
  <2>1. \A k \in Index : k < ND => i.sect[k] \in Nat
    BY <1>1, Ranges DEF Inode
  <2>2. \A k \in Index : A[k] \in Nat
    BY <2>1
  <2> QED BY <2>2
<1> HIDE DEF A
<1>13. /\ a \in Frame /\ a.op = "read" /\ a.left = size /\ a.start = ps /\ a.all = A /\ a.got = << >>
  <2>1. User \in Frame /\ User.got = << >>
    BY UserFacts DEF User
  <2> QED BY <1>3, <1>5, <1>12, <2>1 DEF Frame
<1> HIDE DEF a
<1>14. /\ a2 \in Frame /\ a2.op = "read" /\ a2.left = size /\ a2.start = ps /\ a2.all = A
       /\ a2.got = << >> /\ a2.pc = pc
  <2>1. pc \in Pcs
    BY DEF Pcs
  <2> HIDE DEF pc
  <2> QED BY <1>13, <2>1, PcFacts
<1> HIDE DEF a2
<1>15. Reading(a2, i, disk, ps)
  <2>1. Len(a2.got) = 0
    BY <1>14
  <2>2. a2.pc \in {"table_r", "chunk"} /\ (a2.pc = "table_r" => i.sect[ND] # 0)
    BY <1>8, <1>10, <1>14, <1>1
  <2>3. ps = a2.start + Len(a2.got) /\ ps + a2.left <= i.size
    BY <1>3, <1>5, <1>14, <2>1
  <2>4. ASSUME NEW x \in ps..(ps + size - 1), a2.pc = "chunk" \/ x \div BLOCK_SIZE < ND
        PROVE  A[x \div BLOCK_SIZE] = Blk(disk, i, x \div BLOCK_SIZE)
    <3> DEFINE k == x \div BLOCK_SIZE
    <3>1. x \in Nat /\ ps <= x /\ x <= last
      BY <1>3, <1>5 DEF last
    <3>2. k \in Nat /\ start <= k /\ k <= end
      BY <1>3, <1>6, <1>7, <3>1, DivLe, BlockStart DEF start
    <3> HIDE DEF k
    <3>3. k < ND
      <4>1. CASE end < ND
        BY <1>1, <1>8, <3>2, <4>1
      <4>2. CASE ~(end < ND)
        <5>1. a2.pc # "chunk"
          BY <1>14, <4>2
        <5> QED BY <2>4, <5>1 DEF k
      <4> QED BY <4>1, <4>2
    <3>4. k \in Index /\ k \in start..end
      BY <1>1, <1>8, <3>2, <3>3
    <3> QED BY <1>12, <3>3, <3>4 DEF Blk, k
  <2>5. \A m \in 1..Len(a2.got) : a2.got[m] = Data(disk, i, a2.start + m - 1)
    BY <2>1
  <2> QED BY <1>14, <2>2, <2>3, <2>4, <2>5 DEF Reading
<1>16. /\ at' = [at EXCEPT ![p] = a2] /\ mem' = mem /\ bmap' = bmap /\ pos' = [pos EXCEPT ![p] = ps]
  <2>1. mem' = [mem EXCEPT ![f] = mem[f]] /\ pos' = pos /\ bmap' = bmap /\ at' = [at EXCEPT ![p] = a2]
    BY <1>11 DEF Go, f, i
  <2>2. mem \in [Files -> Inode] /\ pos \in [Procs -> Nat \cup {Closed}]
    BY <1>1 DEF TypeOK
  <2> QED BY <2>1, <2>2 DEF ps
<1> QED BY <1>2, <1>3, <1>11, <1>14, <1>15, <1>16, ReadStep DEF ps, i, f

\* lseek stays inside the file.
LEMMA IseekStep ==
    ASSUME Inv, Usual, NEW p \in Procs, NEW whence, NEW o, sys_Iseek(p, whence, o)
    PROVE  Inv' /\ Same
<1> DEFINE i == mem[FileOf[p]]
           new == o + CASE whence = "SET" -> 0 [] whence = "CUR" -> pos[p] [] whence = "END" -> i.size
<1>1. /\ at[p].pc = "user" /\ pos[p] # Closed /\ new \in 0..(i.size - 1)
      /\ pos' = [pos EXCEPT ![p] = new]
      /\ UNCHANGED <<at, mem, bmap, panic, entry, dinode, disk, dmap, life, safe, crashes>>
  BY DEF sys_Iseek, At, device, history
<1> HIDE DEF new
<1>2. at[p].op = "none" /\ at[p] = User /\ i.size \in Nat
  BY <1>1, PcOp, MyFacts DEF Inode
<1>3. new \in Nat /\ new <= i.size
  BY <1>1, <1>2
<1>4. at' = [at EXCEPT ![p] = User]
  <2>1. at \in [Procs -> Frame]
    BY DEF Inv, TypeOK
  <2> QED BY <1>1, <1>2, <2>1
<1> QED BY <1>1, <1>2, <1>3, <1>4, UserFacts, ReadStep

\* A file that nobody writes or deletes owns what the disk names.
LEMMA AtRestOwns ==
    ASSUME Inv, NEW f \in Files, \A q \in Procs : FileOf[q] = f => ~Busy(q)
    PROVE  \A k, b : Owns(f, k, b) <=> b # 0 /\ entry[f] /\ OnDisk(disk, dinode[f], k, b)
<1>1. \A q \in Procs : \A k, b : FileOf[q] = f => ~InHand(disk, at[q], mem[f], k, b)
  BY DEF Busy, InHand
<1> QED BY <1>1 DEF Owns

\* The same, after a step that changes no call.
LEMMA AtRestOwnsNext ==
    ASSUME NEW f \in Files, \A q \in Procs : FileOf[q] = f => ~Busy(q), at' = at
    PROVE  \A k, b : Owns(f, k, b)' <=> b # 0 /\ entry'[f] /\ OnDisk(disk', dinode'[f], k, b)
<1>1. \A q \in Procs : \A k, b : FileOf[q] = f => ~InHand(disk', at'[q], mem'[f], k, b)
  BY DEF Busy, InHand
<1> QED BY <1>1 DEF Owns

\* A step that opens a file or closes it for the last time
LEMMA EndsStep ==
    ASSUME Inv, Usual, TypeOK', ~panic', NEW p \in Procs, at[p].pc = "user", Local(p, 0),
           \A q \in Procs : FileOf[q] = FileOf[p] => ~Busy(q),
           \A q \in Procs : q # p /\ FileOf[q] = FileOf[p] => pos[q] = Closed,
           \A k, b : Owns(FileOf[p], k, b)' <=> Owns(FileOf[p], k, b),
           UNCHANGED <<at, bmap, dmap>>, entry'[FileOf[p]],
           Whole(disk', dinode'[FileOf[p]], MaxSize[FileOf[p]]),
           safe'[FileOf[p]] = dinode'[FileOf[p]].size,
           NoMore(disk', dinode'[FileOf[p]], Count(dinode'[FileOf[p]]), crashes'),
           \/ pos'[p] = Closed
           \/ pos'[p] = 0 /\ mem'[FileOf[p]] = dinode'[FileOf[p]]
    PROVE  Inv'
<1> DEFINE f == FileOf[p]
<1>1. f \in Files /\ TypeOK /\ at[p] = User /\ at[p].op = "none"
  BY MyFacts, PcOp DEF Inv
<1>2. Alone(p)
  BY DEF Alone
<1>3. \A k, b : Owns(f, k, b) => b \in bmap
  BY <1>1 DEF Inv, OwnedMarked
<1>4. Claims(f, {})
  BY <1>3 DEF Claims
<1>5. Synced(p)
  <2>1. \A k, b : entry'[f] /\ b # 0 /\ OnDisk(disk', dinode'[f], k, b) => Owns(f, k, b)
    BY DEF Owns
  <2>2. \A k, b : Owns(f, k, b) => b \in dmap
    <3>1. \A k, b : Owns(f, k, b) <=> b # 0 /\ entry[f] /\ OnDisk(disk, dinode[f], k, b)
      BY <1>1, AtRestOwns
    <3> QED BY <1>1, <3>1 DEF Inv, KnownOnDisk
  <2> QED BY <1>1, <2>1, <2>2 DEF Synced
<1>6. Continued(p)
  BY DEF Continued
<1>7. FileOK(f)'
  <2>1. \A q \in Procs : FileOf[q] = f => ~Busy(q)'
    BY DEF Busy
  <2>2. Opened(f)' => mem'[f] = dinode'[f]
    <3> SUFFICES ASSUME Opened(f)', pos'[p] = Closed PROVE FALSE
      OBVIOUS
    <3>1. PICK q \in Procs : FileOf[q] = f /\ pos'[q] # Closed
      BY <2>1 DEF Opened, Busy
    <3>2. q # p /\ pos'[q] = pos[q]
      BY <3>1 DEF Local
    <3> QED BY <3>1, <3>2
  <2> QED BY <2>1, <2>2 DEF FileOK
<1>8. CallOK(p)' /\ WriteOK(p)' /\ DeleteOK(p)' /\ ReadOK(p)'
  <2>1. CASE pos'[p] = Closed
    BY <1>1, <2>1, UserFacts DEF CallOK, WriteOK, DeleteOK, ReadOK
  <2>2. CASE pos'[p] = 0 /\ mem'[f] = dinode'[f]
    <3>1. mem'[f].size \in Nat
      BY <1>1 DEF TypeOK, Inode
    <3> QED BY <1>1, <2>2, <3>1, UserFacts DEF CallOK, WriteOK, DeleteOK, ReadOK
  <2> QED BY <2>1, <2>2
<1> QED BY <1>2, <1>4, <1>5, <1>6, <1>7, <1>8, StepInv

\* A file that nobody has open is in no call.
LEMMA NotOpen ==
    ASSUME Inv, NEW f \in Files, ~Opened(f)
    PROVE  \A q \in Procs : FileOf[q] = f => pos[q] = Closed /\ ~Busy(q)
<1>1. \A q \in Procs : FileOf[q] = f => pos[q] = Closed /\ at[q].op # "unlink"
  BY DEF Opened
<1>2. \A q \in Procs : at[q].op = "write" => pos[q] # Closed
  BY DEF Inv, WriteOK
<1> QED BY <1>1, <1>2 DEF Busy

\* open reads the inode, or finds it in memory, or makes a new file.
LEMMA OpenStep ==
    ASSUME Inv, Usual, NEW p \in Procs, Open(p)
    PROVE  Inv' /\ (Same \/ Promise!Write(FileOf[p]))
<1> DEFINE f == FileOf[p]
           m == MaxSize[f]
<1>1. f \in Files /\ TypeOK /\ CallOK(p) /\ FileOK(f) /\ m \in Nat
  BY MyFacts DEF Inv
<1>2. /\ at[p].pc = "user" /\ pos[p] = Closed /\ (entry[f] \/ ~Opened(f))
      /\ pos' = [pos EXCEPT ![p] = 0] /\ entry' = [entry EXCEPT ![f] = TRUE]
      /\ dinode' = IF entry[f] THEN dinode ELSE [dinode EXCEPT ![f] = NoInode]
      /\ life' = IF entry[f] THEN life ELSE [life EXCEPT ![f] = @ + 1]
      /\ mem' = IF Opened(f) THEN mem ELSE [mem EXCEPT ![f] = dinode'[f]]
      /\ UNCHANGED <<disk, dmap, bmap, at, panic, safe, crashes>>
  BY DEF Open, At
<1>3. at[p].op = "none" /\ at[p] = User
  BY <1>2, PcOp
<1>4. /\ pos' \in [Procs -> Nat \cup {Closed}] /\ pos'[p] = 0
      /\ \A q \in Procs : q # p => pos'[q] = pos[q]
  BY <1>1, <1>2 DEF TypeOK
<1>5. CASE Opened(f)
  <2>1. entry[f] /\ mem' = mem /\ dinode' = dinode /\ life' = life
    BY <1>2, <1>5
  <2>2. entry' = entry
    BY <1>1, <1>2, <2>1 DEF TypeOK
  <2>3. TypeOK' /\ ~panic'
    BY <1>1, <1>2, <1>4, <2>1, <2>2 DEF TypeOK, Inv
  <2>4. Opened(f)'
    <3>1. pos'[p] # Closed
      BY <1>4 DEF Closed
    <3> QED BY <3>1 DEF Opened
  <2>5. mem[f].size \in Nat
    BY <1>1 DEF TypeOK, Inode
  <2>6. CallOK(p)' /\ ReadOK(p)'
    BY <1>2, <1>3, <1>4, <2>1, <2>2, <2>5, UserFacts DEF CallOK, ReadOK
  <2>7. \A g \in Files : Opened(g)' <=> Opened(g)
    <3> SUFFICES ASSUME NEW g \in Files, g # f PROVE Opened(g)' <=> Opened(g)
      BY <1>5, <2>4
    <3>1. \A q \in Procs : FileOf[q] = g => at'[q] = at[q] /\ pos'[q] = pos[q]
      BY <1>2, <1>4
    <3> QED BY <3>1 DEF Opened
  <2>8. Same
    <3>1. \A g \in Files : View(g)' = View(g)
      BY <1>2, <2>1, <2>7 DEF View
    <3> QED BY <1>1, <1>2, <2>2, <2>3, <3>1, SameView
  <2> QED BY <1>2, <1>3, <1>4, <1>5, <2>1, <2>2, <2>3, <2>4, <2>6, <2>8, UserFacts, QuietStep
<1>6. CASE ~Opened(f)
  <2>1. \A q \in Procs : FileOf[q] = f => pos[q] = Closed /\ ~Busy(q)
    BY <1>1, <1>6, NotOpen
  <2>2. /\ dinode' \in [Files -> Inode] /\ life' \in [Files -> Nat] /\ entry' \in [Files -> BOOLEAN]
        /\ entry'[f] /\ dinode'[f] = IF entry[f] THEN dinode[f] ELSE NoInode
        /\ \A g \in Files : g # f => dinode'[g] = dinode[g] /\ entry'[g] = entry[g]
    <3>1. dinode \in [Files -> Inode] /\ entry \in [Files -> BOOLEAN] /\ life \in [Files -> Nat]
      BY <1>1 DEF TypeOK
    <3>2. NoInode \in Inode
      BY UserFacts
    <3> HIDE DEF f
    <3>3. dinode' \in [Files -> Inode] /\ dinode'[f] = (IF entry[f] THEN dinode[f] ELSE NoInode)
          /\ \A g \in Files : g # f => dinode'[g] = dinode[g]
      BY <1>1, <1>2, <3>1, <3>2 DEF f
    <3>4. life' \in [Files -> Nat]
      BY <1>1, <1>2, <3>1 DEF f
    <3>5. entry' \in [Files -> BOOLEAN] /\ entry'[f] /\ \A g \in Files : g # f => entry'[g] = entry[g]
      BY <1>1, <1>2, <3>1 DEF f
    <3> QED BY <3>3, <3>4, <3>5
  <2>3. mem' \in [Files -> Inode] /\ mem'[f] = dinode'[f] /\ \A g \in Files : g # f => mem'[g] = mem[g]
    BY <1>1, <1>2, <1>6, <2>2 DEF TypeOK
  <2>4. TypeOK' /\ ~panic'
    BY <1>1, <1>2, <1>4, <2>2, <2>3 DEF TypeOK, Inv
  <2>5. Local(p, 0)
    BY <1>2, <1>4, <2>2, <2>3 DEF Local, Owns
  <2>6. \A k, b : ~(b # 0 /\ OnDisk(disk, NoInode, k, b))
    <3>1. \A k \in 0..ND : NoInode.sect[k] = 0
      BY UserFacts
    <3>2. ND \in 0..ND /\ \A k \in 0..(ND - 1) : k \in 0..ND
      BY Consts
    <3> QED BY <3>1, <3>2 DEF OnDisk, InInode, InTable
  <2>7. \A k, b : Owns(f, k, b)' <=> Owns(f, k, b)
    <3>1. \A k, b : Owns(f, k, b) <=> b # 0 /\ entry[f] /\ OnDisk(disk, dinode[f], k, b)
      BY <1>1, <2>1, AtRestOwns
    <3>2. \A k, b : Owns(f, k, b)' <=> b # 0 /\ entry'[f] /\ OnDisk(disk', dinode'[f], k, b)
      BY <1>1, <1>2, <2>1, AtRestOwnsNext
    <3>3. CASE entry[f]
      BY <1>2, <2>2, <3>1, <3>2, <3>3
    <3>4. CASE ~entry[f]
      BY <1>2, <2>2, <2>6, <3>1, <3>2, <3>4
    <3> QED BY <3>3, <3>4
  <2>8. Whole(disk, NoInode, m) /\ NoMore(disk, NoInode, Count(NoInode), crashes)
    <3>1. ND \in Nat /\ ND > 0 /\ ND \in 0..ND /\ \A k \in 0..(ND - 1) : k \in 0..ND /\ ~(k < 0)
      BY Consts
    <3>2. NoInode.size = 0 /\ Count(NoInode) = 0 /\ NoInode.sect[ND] = 0
          /\ \A k \in 0..(ND - 1) : NoInode.sect[k] = 0
      BY <3>1, UserFacts DEF Count
    <3>3. Shape(NoInode, 0, 0)
      BY <3>1, <3>2 DEF Shape
    <3> QED BY <1>1, <3>1, <3>2, <3>3 DEF Whole, Full, NoMore
  <2>9. /\ Whole(disk', dinode'[f], m) /\ safe'[f] = dinode'[f].size
        /\ NoMore(disk', dinode'[f], Count(dinode'[f]), crashes')
    <3>1. CASE entry[f]
      BY <1>1, <1>2, <2>1, <2>2, <3>1 DEF FileOK
    <3>2. CASE ~entry[f]
      BY <1>1, <1>2, <2>2, <2>8, <3>2, UserFacts DEF FileOK
    <3> QED BY <3>1, <3>2
  <2>10. View(f)' = dinode'[f] /\ View(f) = dinode[f]
    <3>1. pos'[p] # Closed
      BY <1>4 DEF Closed
    <3> QED BY <1>6, <2>3, <3>1 DEF View, Opened
  <2>11. ASSUME entry[f] PROVE Same
    <3>1. \A g \in Files : View(g)' = View(g)
      BY <1>2, <2>5, <2>10, <2>11, OthersView
    <3>2. entry' = entry
      BY <1>1, <1>2, <2>11 DEF TypeOK
    <3> QED BY <1>1, <1>2, <2>4, <3>1, <3>2, SameView
  <2>12. ASSUME ~entry[f] PROVE Promise!Write(f)
    <3>1. Content(f) = << >> /\ Len(Content(f)') = 0
      <4>1. View(f)' = NoInode /\ NoInode.size = 0 /\ entry'[f]
        BY <2>2, <2>10, <2>12, UserFacts
      <4>2. Content(f)' = [n \in 1..0 |-> Data(disk', NoInode, n - 1)]
        BY <1>1, <2>4, <4>1, ContentNext
      <4> QED BY <1>1, <2>12, <4>2, ContentNow
    <3>2. Promise!Prefix(Content(f), Content(f)')
      BY <3>1, NothingIs
    <3>3. safe' \in {safe, [safe EXCEPT ![f] = Len(Content(f)')]}
      BY <1>2
    <3>4. \A g \in Files : g # f => Content(g)' = Content(g)
      BY <2>4, <2>5, OthersSame
    <3> QED BY <1>1, <3>2, <3>3, <3>4, IsWrite
  <2>13. Same \/ Promise!Write(f)
    BY <2>11, <2>12
  <2> QED BY <1>2, <1>4, <2>1, <2>2, <2>3, <2>4, <2>5, <2>7, <2>9, <2>13, EndsStep
<1> QED BY <1>5, <1>6

\* close, while others have the file open or as the last one
LEMMA CloseStep ==
    ASSUME Inv, Usual, NEW p \in Procs, Close(p)
    PROVE  Inv' /\ Same
<1> DEFINE f == FileOf[p]
<1>1. f \in Files /\ TypeOK /\ CallOK(p) /\ FileOK(f)
  BY MyFacts DEF Inv
<1>2. /\ at[p].pc = "user" /\ pos[p] # Closed /\ pos' = [pos EXCEPT ![p] = Closed]
      /\ mem' = IF \E q \in Procs \ {p} : FileOf[q] = f /\ pos[q] # Closed
                THEN mem ELSE [mem EXCEPT ![f] = NoInode]
      /\ UNCHANGED <<bmap, at, panic, entry, dinode, disk, dmap, life, safe, crashes>>
  BY DEF Close, At, device, history
<1>3. at[p].op = "none" /\ at[p] = User /\ entry[f]
  BY <1>1, <1>2, PcOp DEF CallOK
<1>4. /\ pos' \in [Procs -> Nat \cup {Closed}] /\ pos'[p] = Closed
      /\ \A q \in Procs : q # p => pos'[q] = pos[q]
  BY <1>1, <1>2 DEF TypeOK
<1>5. CASE \E q \in Procs \ {p} : FileOf[q] = f /\ pos[q] # Closed
  <2>1. mem' = mem
    BY <1>2, <1>5
  <2>2. TypeOK' /\ ~panic'
    BY <1>1, <1>2, <1>4, <2>1 DEF TypeOK, Inv
  <2>3. Opened(f) /\ Opened(f)'
    BY <1>2, <1>4, <1>5 DEF Opened
  <2>4. CallOK(p)' /\ ReadOK(p)'
    BY <1>2, <1>3, <1>4, UserFacts DEF CallOK, ReadOK
  <2>5. \A g \in Files : Opened(g)' <=> Opened(g)
    <3> SUFFICES ASSUME NEW g \in Files, g # f PROVE Opened(g)' <=> Opened(g)
      BY <2>3
    <3>1. \A q \in Procs : FileOf[q] = g => at'[q] = at[q] /\ pos'[q] = pos[q]
      BY <1>2, <1>4
    <3> QED BY <3>1 DEF Opened
  <2>6. Same
    <3>1. \A g \in Files : View(g)' = View(g)
      BY <1>2, <2>1, <2>5 DEF View
    <3> QED BY <1>1, <1>2, <2>2, <3>1, SameView
  <2> QED BY <1>2, <1>3, <1>4, <2>1, <2>2, <2>3, <2>4, <2>6, UserFacts, QuietStep
<1>6. CASE ~\E q \in Procs \ {p} : FileOf[q] = f /\ pos[q] # Closed
  <2>1. \A q \in Procs : q # p /\ FileOf[q] = f => pos[q] = Closed
    BY <1>6
  <2>2. \A q \in Procs : FileOf[q] = f => ~Busy(q)
    <3> SUFFICES ASSUME NEW q \in Procs, FileOf[q] = f, Busy(q) PROVE FALSE
      OBVIOUS
    <3>1. q # p
      BY <1>3 DEF Busy
    <3>2. CASE at[q].op = "write"
      <4>1. pos[q] # Closed
        BY <3>2 DEF Inv, WriteOK
      <4> QED BY <2>1, <3>1, <4>1
    <3>3. CASE at[q].op = "unlink"
      BY <1>3, <3>3 DEF Inv, DeleteOK
    <3> QED BY <3>2, <3>3 DEF Busy
  <2>3. mem' \in [Files -> Inode] /\ \A g \in Files : g # f => mem'[g] = mem[g]
    BY <1>1, <1>2, <1>6, UserFacts DEF TypeOK
  <2>4. TypeOK' /\ ~panic'
    BY <1>1, <1>2, <1>4, <2>3 DEF TypeOK, Inv
  <2>5. Local(p, 0)
    BY <1>2, <1>4, <2>3 DEF Local, Owns
  <2>6. \A k, b : Owns(f, k, b)' <=> Owns(f, k, b)
    <3>1. \A k, b : Owns(f, k, b) <=> b # 0 /\ entry[f] /\ OnDisk(disk, dinode[f], k, b)
      BY <1>1, <2>2, AtRestOwns
    <3>2. \A k, b : Owns(f, k, b)' <=> b # 0 /\ entry'[f] /\ OnDisk(disk', dinode'[f], k, b)
      BY <1>1, <1>2, <2>2, AtRestOwnsNext
    <3> QED BY <1>2, <3>1, <3>2
  <2>7. /\ Whole(disk', dinode'[f], MaxSize[f]) /\ safe'[f] = dinode'[f].size /\ entry'[f]
        /\ NoMore(disk', dinode'[f], Count(dinode'[f]), crashes')
    BY <1>1, <1>2, <1>3, <2>2 DEF FileOK
  <2>8. View(f) = dinode[f] /\ View(f)' = dinode[f]
    <3>1. Opened(f) /\ mem[f] = dinode[f]
      BY <1>1, <1>2, <1>3, <2>2 DEF FileOK, Opened
    <3>2. ~Opened(f)'
      <4>1. \A q \in Procs : FileOf[q] = f => pos'[q] = Closed /\ at'[q].op # "unlink"
        BY <1>2, <1>4, <2>1, <2>2 DEF Busy
      <4> QED BY <4>1 DEF Opened
    <3> QED BY <1>2, <3>1, <3>2 DEF View
  <2>9. Same
    <3>1. \A g \in Files : View(g)' = View(g)
      BY <2>5, <2>8, OthersView
    <3> QED BY <1>1, <1>2, <2>4, <3>1, SameView
  <2> QED BY <1>2, <1>4, <2>1, <2>2, <2>4, <2>5, <2>6, <2>7, <2>9, EndsStep
<1> QED BY <1>5, <1>6

-----------------------------------------------------------------------------
(* The invariant                                                            *)

\* The inode in use continues the one on disk.
LEMMA ViewKeeps ==
    ASSUME Inv, NEW f \in Files, entry[f]
    PROVE  Keeps(dinode[f], View(f))
<1>1. FileOK(f) /\ dinode[f].size \in Nat
  BY DEF Inv, TypeOK, Inode
<1>2. CASE \E p \in Procs : FileOf[p] = f /\ Busy(p)
  <2>1. PICK p \in Procs : FileOf[p] = f /\ Busy(p)
    BY <1>2
  <2>2. at[p].op = "write"
    BY <2>1 DEF Busy, Inv, DeleteOK
  <2>3. pos[p] # Closed /\ Grows(at[p], mem[f], dinode[f], MaxSize[f])
    BY <2>1, <2>2 DEF Inv, WriteOK, Writing
  <2>4. View(f) = mem[f]
    BY <2>1, <2>3 DEF View, Opened
  <2> QED BY <2>3, <2>4 DEF Grows, Keeps
<1>3. CASE ~\E p \in Procs : FileOf[p] = f /\ Busy(p)
  <2>1. View(f) = dinode[f]
    BY <1>1, <1>3 DEF FileOK, View
  <2> QED BY <1>1, <2>1 DEF Keeps
<1> QED BY <1>2, <1>3

\* After a loss of power the disk is as it was, and nobody has a file open.
LEMMA PowerLossStep ==
    ASSUME Inv, Usual, PowerLoss
    PROVE  Inv' /\ Promise!PowerLoss
<1>1. /\ crashes' = crashes + 1 /\ bmap' = dmap /\ mem' = [f \in Files |-> NoInode]
      /\ pos' = [p \in Procs |-> Closed] /\ at' = [p \in Procs |-> User] /\ ~panic'
      /\ UNCHANGED <<entry, dinode, disk, dmap, life, safe>>
  <2>1. \A p \in Procs : ~TwoSec(p)
    <3> TAKE p \in Procs
    <3>1. FileOf[p] \in Files /\ ND \in Nat
      BY Consts
    <3>2. Cut[FileOf[p]] = ND + 1
      BY <3>1 DEF Usual
    <3> QED BY <3>1, <3>2 DEF TwoSec
  <2> QED BY <2>1 DEF PowerLoss
<1>2. TypeOK /\ crashes \in Nat
  BY DEF Inv, TypeOK
<1>3. TypeOK'
  <2>1. crashes' \in Nat
    BY <1>1, <1>2
  <2>2. mem' \in [Files -> Inode] /\ at' \in [Procs -> Frame] /\ pos' \in [Procs -> Nat \cup {Closed}]
    BY <1>1, UserFacts
  <2>3. ~panic' /\ panic' \in BOOLEAN
    BY DEF PowerLoss
  <2> QED BY <1>1, <1>2, <2>1, <2>2, <2>3 DEF TypeOK
<1>4. crashes' # 0
  BY <1>1, <1>2
<1>5. \A p \in Procs : at'[p] = User /\ pos'[p] = Closed
  BY <1>1
<1>6. \A f \in Files : \A k, b : Owns(f, k, b)' => b # 0 /\ entry[f] /\ OnDisk(disk, dinode[f], k, b)
  <2>1. \A p \in Procs : \A i, k, b : ~InHand(disk', at'[p], i, k, b)
    BY <1>5, UserFacts DEF InHand
  <2> QED BY <1>1, <2>1 DEF Owns
<1>7. \A f \in Files : \A k, b : Owns(f, k, b)' => Owns(f, k, b)
  BY <1>6 DEF Owns
<1>8. OwnedOnce'
  BY <1>7 DEF Inv, OwnedOnce
<1>9. OwnedMarked'
  BY <1>1, <1>6, <1>7 DEF Inv, OwnedMarked, KnownOnDisk
<1>10. KnownOnDisk' /\ MapsAgree' /\ AllOwned'
  <2>1. \A p \in Procs : at'[p].op # "write"
    BY <1>5, UserFacts
  <2> QED BY <1>1, <1>4, <2>1 DEF Inv, KnownOnDisk, MapsAgree, AllOwned
<1>11. \A f \in Files : FileOK(f)'
  <2>1. \A f \in Files : ~Opened(f)'
    BY <1>5, UserFacts DEF Opened
  <2>2. \A p \in Procs : ~Busy(p)'
    BY <1>5, UserFacts DEF Busy
  <2>3. \A f \in Files : NoMore(disk', dinode'[f], Count(dinode'[f]), crashes')
    BY <1>4 DEF NoMore
  <2> QED BY <1>1, <2>1, <2>2, <2>3 DEF Inv, FileOK
<1>12. \A p \in Procs : CallOK(p)' /\ WriteOK(p)' /\ DeleteOK(p)' /\ ReadOK(p)'
  BY <1>5, UserFacts DEF CallOK, WriteOK, DeleteOK, ReadOK
<1>13. ASSUME NEW f \in Files
       PROVE  Promise!Prefix(Content(f)', Content(f)) /\ Len(Content(f)') >= safe[f]
  <2> DEFINE d == dinode[f]
  <2>1. f \in Files /\ FileOK(f) /\ View(f)' = d /\ View(f) \in Inode /\ d \in Inode /\ d.size \in Nat
    <3>1. View(f)' = d
      BY <1>1, <1>5, UserFacts DEF View, Opened
    <3> QED BY <1>2, <3>1, ContentNow DEF Inv, TypeOK, Inode
  <2>2. CASE entry[f]
    <3>1. Keeps(d, View(f))
      BY <1>2, <2>1, <2>2, ViewKeeps
    <3>2. Extends(disk, d, disk, View(f))
      <4>1. Covers(disk, d) /\ d.size <= MaxSize[f]
        BY <2>1, <2>2, WholeCovers DEF FileOK, Whole
      <4> QED BY <2>1, <3>1, <4>1, KeepsExtends
    <3>3. /\ Content(f)' = [n \in 1..d.size |-> Data(disk, d, n - 1)]
          /\ Content(f) = [n \in 1..View(f).size |-> Data(disk, View(f), n - 1)]
      BY <1>1, <1>2, <1>3, <2>1, <2>2, ContentNow, ContentNext
    <3>4. Promise!Prefix(Content(f)', Content(f)) /\ Len(Content(f)') = d.size
      BY <2>1, <3>2, <3>3, ExtendsPrefix
    <3>5. safe[f] = d.size
      BY <2>1, <2>2 DEF FileOK
    <3> QED BY <2>1, <3>4, <3>5
  <2>3. CASE ~entry[f]
    <3>1. Content(f)' = << >> /\ Content(f) = << >> /\ Len(<< >>) = 0 /\ safe[f] = 0
      BY <1>1, <1>2, <1>3, <2>1, <2>3, ContentNow, ContentNext DEF FileOK
    <3>2. Promise!Prefix(<< >>, << >>)
      BY <3>1, NothingIs
    <3> QED BY <3>1, <3>2
  <2> QED BY <2>2, <2>3
<1>14. Promise!PowerLoss
  BY <1>1, <1>13 DEF Promise!PowerLoss
<1> QED BY <1>1, <1>3, <1>8, <1>9, <1>10, <1>11, <1>12, <1>14 DEF Inv

\* At first there are no files.
LEMMA InitInv == Init => Inv
<1> SUFFICES ASSUME Init PROVE Inv
  OBVIOUS
<1>1. \A p \in Procs : at[p] = User /\ pos[p] = Closed
  BY DEF Init
<1>2. \A f \in Files : ~entry[f] /\ safe[f] = 0
  BY DEF Init
<1>3. TypeOK
  <2>1. 0 \in Bits /\ Blank \in [Cell -> Nat]
    BY Ranges DEF Blank
  <2>2. NoInode \in Inode /\ User \in Frame
    BY UserFacts
  <2> QED BY <2>1, <2>2 DEF Init, TypeOK
<1>4. \A f \in Files : \A k, b : ~Owns(f, k, b)
  <2>1. \A p \in Procs : \A i, k, b : ~InHand(disk, at[p], i, k, b)
    BY <1>1, UserFacts DEF InHand
  <2> QED BY <1>2, <2>1 DEF Owns
<1>5. OwnedOnce /\ OwnedMarked
  BY <1>4 DEF OwnedOnce, OwnedMarked
<1>6. KnownOnDisk /\ MapsAgree /\ AllOwned
  <2>1. \A p \in Procs : at[p].op # "write"
    BY <1>1, UserFacts
  <2> QED BY <1>2, <2>1 DEF Init, KnownOnDisk, MapsAgree, AllOwned
<1>7. \A f \in Files : FileOK(f)
  <2>1. \A p \in Procs : ~Busy(p)
    BY <1>1, UserFacts DEF Busy
  <2> QED BY <1>2, <2>1 DEF FileOK
<1>8. \A p \in Procs : CallOK(p) /\ WriteOK(p) /\ DeleteOK(p) /\ ReadOK(p)
  BY <1>1, UserFacts DEF CallOK, WriteOK, DeleteOK, ReadOK
<1>9. ~panic
  BY DEF Init
<1> QED BY <1>3, <1>5, <1>6, <1>7, <1>8, <1>9 DEF Inv

\* Every step keeps the invariant.
LEMMA NextInv ==
    ASSUME Inv, Usual, Room, [Next]_vars
    PROVE  Inv'
<1>1. CASE UNCHANGED vars
  BY <1>1 DEF vars, Inv, TypeOK, OwnedOnce, OwnedMarked, KnownOnDisk, MapsAgree, AllOwned, FileOK,
              CallOK, WriteOK, DeleteOK, ReadOK, Owns, Busy, Opened
<1>2. CASE PowerLoss
  BY <1>2, PowerLossStep
<1>3. ASSUME NEW p \in Procs, Open(p) PROVE Inv'
  BY <1>3, OpenStep
<1>4. ASSUME NEW p \in Procs, Close(p) PROVE Inv'
  BY <1>4, CloseStep
<1>5. ASSUME NEW p \in Procs, sys_unlink(p) PROVE Inv'
  BY <1>5, UnlinkStep
<1>6. ASSUME NEW p \in Procs, NEW n \in Writes[p], sys_write(p, n) PROVE Inv'
  BY <1>6, SysWriteStep
<1>7. ASSUME NEW p \in Procs, NEW n \in Reads[p], sys_read(p, n) PROVE Inv'
  BY <1>7, SysReadStep
<1>8. ASSUME NEW p \in Procs, NEW w \in {"SET", "CUR", "END"}, NEW o \in Offsets[p], sys_Iseek(p, w, o)
      PROVE  Inv'
  BY <1>8, IseekStep
<1>9. ASSUME NEW p \in Procs, bitmap_synced(p) PROVE Inv'
  <2>1. at[p].op \in {"write", "unlink"}
    BY <1>9, PcOp DEF bitmap_synced, At
  <2> QED BY <1>9, <2>1, SyncedWrite, SyncedUnlink
<1>10. ASSUME NEW p \in Procs, table_read(p) PROVE Inv'
  <2>1. at[p].op \in {"read", "write", "unlink"}
    BY <1>10, PcOp DEF table_read, At
  <2> QED BY <1>10, <2>1, TableReadRead, TableReadWrite, TableReadUnlink, SMTT(30)
<1>11. ASSUME NEW p \in Procs, table_written(p) PROVE Inv'
  <2>1. at[p].op = "write"
    BY <1>11, PcOp DEF table_written, At
  <2> QED BY <1>11, <2>1, TableWrittenStep
<1>12. ASSUME NEW p \in Procs, block_read(p) PROVE Inv'
  <2>1. at[p].op = "write"
    BY <1>12, PcOp, SMTT(30) DEF block_read, At
  <2> QED BY <1>12, <2>1, BlockReadStep
<1>13. ASSUME NEW p \in Procs, block_written(p) PROVE Inv'
  <2>1. at[p].op = "write"
    BY <1>13, PcOp DEF block_written, At
  <2> QED BY <1>13, <2>1, BlockWrittenStep
<1>14. ASSUME NEW p \in Procs, inode_read(p) PROVE Inv'
  <2>1. at[p].op \in {"write", "unlink"}
    BY <1>14, PcOp DEF inode_read, At
  <2> QED BY <1>14, <2>1, InodeReadWrite, InodeReadUnlink
<1>15. ASSUME NEW p \in Procs, inode_written(p) PROVE Inv'
  <2>1. at[p].op \in {"write", "unlink"}
    BY <1>15, PcOp DEF inode_written, At
  <2> QED BY <1>15, <2>1, InodeWrittenWrite, InodeWrittenUnlink
<1>16. ASSUME NEW p \in Procs, read_chunk(p) PROVE Inv'
  BY <1>16, ReadChunkStep
<1>17. ASSUME NEW p \in Procs, read_return(p) PROVE Inv'
  BY <1>17, ReadReturnStep
<1> QED BY <1>1, <1>2, <1>3, <1>4, <1>5, <1>6, <1>7, <1>8, <1>9, <1>10, <1>11, <1>12, <1>13, <1>14,
          <1>15, <1>16, <1>17 DEF Next

-----------------------------------------------------------------------------
(* The theorems                                                             *)

\* Two free blocks are enough for a call to go on, so while there are two the
\* invariant holds.
THEOREM Invariance ==
    ASSUME Usual
    PROVE  Spec /\ []Room => []Inv
<1>1. Init => Inv
  BY InitInv
<1>2. Inv /\ Room /\ [Next]_vars => Inv'
  BY NextInv
<1> QED BY <1>1, <1>2, PTL DEF Spec

\* No ASSERT of file_write, file_read or bitmap_scan fails.
THEOREM NeverPanics ==
    ASSUME Usual
    PROVE  Spec /\ []Room => []NoPanic
<1>1. Inv => NoPanic
  BY DEF Inv, NoPanic
<1>2. Spec /\ []Room => []Inv
  BY Invariance
<1> QED BY <1>1, <1>2, PTL

\* What a block is used for decides which slot it is in.
LEMMA UsesOwn ==
    ASSUME Inv, Usual, NEW f \in Files, entry[f]
    PROVE  /\ \A k \in Uses(f) : k \in Index /\ Owns(f, k, BlockOf(View(f), k))
           /\ View(f).sect[ND] # 0 => Owns(f, MaxBlk, View(f).sect[ND])
<1> DEFINE i == View(f)
<1>1. /\ ND \in Nat /\ ND > 0 /\ NI \in Nat /\ Index = 0..(ND + NI - 1)
      /\ TableSlots = ND..(ND + NI - 1)
  BY Consts, Ranges
<1>2. /\ \A k, b : b # 0 /\ InInode(i, k, b) => Owns(f, k, b)
      /\ \A k \in TableSlots :
            /\ Blk(disk, i, k) # 0
            /\ \/ k * BLOCK_SIZE < i.size
               \/ \A p \in Procs : FileOf[p] = f => at[p].op # "write"
            => Owns(f, k, Blk(disk, i, k))
  BY ViewOwns
<1>3. \A k : BlockOf(i, k) = Blk(disk, i, k)
  BY DEF BlockOf, Blk
<1>4. ASSUME NEW k \in Uses(f) PROVE k \in Index /\ Owns(f, k, BlockOf(i, k))
  <2>1. /\ k \in Index /\ Blk(disk, i, k) # 0
        /\ \/ k * BLOCK_SIZE < i.size
           \/ k < ND
           \/ \A p \in Procs : FileOf[p] = f => at[p].op # "write"
    BY <1>3 DEF Uses
  <2>2. CASE k < ND
    <3>1. k \in 0..(ND - 1) /\ Blk(disk, i, k) = i.sect[k]
      BY <1>1, <2>1, <2>2 DEF Blk
    <3> QED BY <1>2, <1>3, <2>1, <3>1 DEF InInode
  <2>3. CASE ~(k < ND)
    <3>1. k \in TableSlots
      BY <1>1, <2>1, <2>3
    <3> QED BY <1>2, <1>3, <2>1, <2>3, <3>1
  <2> QED BY <2>2, <2>3
<1>5. i.sect[ND] # 0 => Owns(f, MaxBlk, i.sect[ND])
  BY <1>2 DEF InInode
<1> QED BY <1>4, <1>5

\* A file has as many blocks as it uses: no address is there twice.
LEMMA BlocksCounted ==
    ASSUME Inv, Usual, NEW f \in Files, entry[f]
    PROVE  Cardinality(Blocks(f)) =
              Cardinality(Uses(f)) + (IF View(f).sect[ND] = 0 THEN 0 ELSE 1)
<1> DEFINE i == View(f)
           U == Uses(f)
           S == U \cup (IF i.sect[ND] = 0 THEN {} ELSE {MaxBlk})
           g == [k \in S |-> IF k = MaxBlk THEN i.sect[ND] ELSE BlockOf(i, k)]
<1>1. /\ \A k \in U : k \in Index /\ Owns(f, k, BlockOf(i, k))
      /\ i.sect[ND] # 0 => Owns(f, MaxBlk, i.sect[ND])
  BY UsesOwn
<1>2. MaxBlk \notin Index /\ IsFiniteSet(Index)
  <2>1. /\ ND \in Nat /\ NI \in Nat /\ Index = 0..(ND + NI - 1) /\ MaxBlk = ND + NI
        /\ 0 \in Int /\ ND + NI - 1 \in Int
    BY Consts, Ranges
  <2>2. IsFiniteSet(0..(ND + NI - 1))
    BY <2>1, FS_Interval
  <2> QED BY <2>1, <2>2
<1>3. IsFiniteSet(U) /\ MaxBlk \notin U
  BY <1>1, <1>2, FS_Subset
<1>4. Blocks(f) = {BlockOf(i, k) : k \in U} \cup ({i.sect[ND]} \ {0})
  BY DEF Blocks
<1> HIDE DEF U, i
<1>5. IsFiniteSet(S) /\ Cardinality(S) = Cardinality(U) + (IF i.sect[ND] = 0 THEN 0 ELSE 1)
  <2>1. CASE i.sect[ND] = 0
    <3>1. Cardinality(U) \in Nat
      BY <1>3, FS_CardinalityType
    <3>2. S = U
      BY <2>1
    <3> QED BY <1>3, <2>1, <3>1, <3>2
  <2>2. CASE i.sect[ND] # 0
    <3>1. S = U \cup {MaxBlk}
      BY <2>2
    <3> QED BY <1>3, <2>2, <3>1, FS_AddElement
  <2> QED BY <2>1, <2>2
<1>6. \A k \in S : Owns(f, k, g[k])
  BY <1>1, <1>3
<1>7. \A b : b \in Blocks(f) <=> \E k \in S : b = g[k]
  BY <1>1, <1>3, <1>4
<1>8. \A k \in S : g[k] \in Blocks(f)
  BY <1>7
<1>9. g \in [S -> Blocks(f)]
  BY <1>8
<1> HIDE DEF g, S
<1>10. g \in Bijection(S, Blocks(f))
  <2>1. \A j, k \in S : g[j] = g[k] => j = k
    BY <1>6 DEF Inv, OwnedOnce
  <2>2. g \in Injection(S, Blocks(f))
    BY <1>9, <2>1 DEF Injection, IsInjective
  <2>3. g \in Surjection(S, Blocks(f))
    BY <1>7, <1>9 DEF Surjection
  <2> QED BY <2>2, <2>3 DEF Bijection
<1>11. Cardinality(Blocks(f)) = Cardinality(S)
  BY <1>5, <1>10, FS_Bijection DEF ExistsBijection
<1> QED BY <1>5, <1>11 DEF i, U

\* The bitmap says which blocks belong to files.
LEMMA ExactBlocks ==
    ASSUME Inv, Usual
    PROVE  BlocksExact
<1> DEFINE there == {f \in Files : entry[f]}
<1>1. ASSUME NEW f \in there, NEW b \in Blocks(f)
      PROVE  \E k : Owns(f, k, b)
  <2>1. f \in Files /\ entry[f]
    OBVIOUS
  <2>2. CASE b \in {BlockOf(View(f), k) : k \in Uses(f)}
    BY <2>1, <2>2, UsesOwn
  <2>3. CASE b \in {View(f).sect[ND]} \ {0}
    BY <2>1, <2>3, UsesOwn
  <2> QED BY <2>2, <2>3 DEF Blocks
<1>2. \A f \in there : Blocks(f) \subseteq bmap \cap 1..(NBlocks - 1)
  BY <1>1 DEF Inv, OwnedMarked, InPartition
<1>3. \A f \in there : Cardinality(Blocks(f)) =
                          Cardinality(Uses(f)) + (IF View(f).sect[ND] = 0 THEN 0 ELSE 1)
  BY BlocksCounted
<1>4. \A f, g \in there : f # g => Blocks(f) \cap Blocks(g) = {}
  BY <1>1 DEF Inv, OwnedOnce
<1>5. Resting => dmap = bmap
  <2>1. Resting => \A p \in Procs : at[p].pc # "sync"
    BY PcOp DEF Resting
  <2> QED BY <2>1 DEF Inv, MapsAgree
<1>6. ASSUME Resting, crashes = 0
      PROVE  bmap = {0} \cup UNION {Blocks(f) : f \in there}
  <2>1. 0 \in bmap
    BY DEF Inv, TypeOK
  <2>2. ASSUME NEW b \in bmap, b # 0 PROVE \E f \in there : b \in Blocks(f)
    <3>0. PICK f \in Files : \E k : Owns(f, k, b)
      BY <1>6, <2>2 DEF Inv, AllOwned
    <3>1. PICK k : Owns(f, k, b)
      BY <3>0
    <3>2. \A q \in Procs : FileOf[q] = f => ~Busy(q) /\ at[q].op # "write"
      BY <1>6 DEF Resting, Busy
    <3>3. entry[f] /\ OnDisk(disk, dinode[f], k, b)
      BY <3>1, <3>2, AtRestOwns
    <3>4. View(f) = dinode[f]
      BY <3>2, <3>3 DEF View, Inv, FileOK
    <3>5. /\ ND \in Nat /\ ND > 0 /\ NI \in Nat /\ NI > 0 /\ Index = 0..(ND + NI - 1)
          /\ TableSlots = ND..(ND + NI - 1)
      BY Consts, Ranges
    <3>6. CASE k \in 0..(ND - 1) /\ b = dinode[f].sect[k]
      <4>1. k \in Index /\ k < ND /\ BlockOf(View(f), k) = b
        BY <3>4, <3>5, <3>6 DEF BlockOf
      <4>2. k \in Uses(f)
        BY <2>2, <4>1 DEF Uses
      <4> QED BY <3>3, <4>1, <4>2 DEF Blocks
    <3>7. CASE k = MaxBlk /\ b = dinode[f].sect[ND]
      BY <2>2, <3>3, <3>4, <3>7 DEF Blocks
    <3>8. CASE dinode[f].sect[ND] # 0 /\ k \in TableSlots /\ b = disk[dinode[f].sect[ND]][k - ND]
      <4>1. k \in Index /\ ~(k < ND) /\ BlockOf(View(f), k) = b
        BY <3>4, <3>5, <3>8 DEF BlockOf
      <4>2. k \in Uses(f)
        BY <2>2, <3>2, <4>1 DEF Uses
      <4> QED BY <3>3, <4>1, <4>2 DEF Blocks
    <3> QED BY <3>3, <3>6, <3>7, <3>8 DEF OnDisk, InInode, InTable
  <2> QED BY <1>2, <2>1, <2>2
<1> QED BY <1>2, <1>3, <1>4, <1>5, <1>6 DEF BlocksExact

\* A block belongs to one file, once, and is marked in the bitmap; while no
\* call is under way and the power has not gone no other block is marked.
THEOREM BlocksAreExact ==
    ASSUME Usual
    PROVE  Spec /\ []Room => []BlocksExact
<1>1. Inv => BlocksExact
  BY ExactBlocks
<1>2. Spec /\ []Room => []Inv
  BY Invariance
<1> QED BY <1>1, <1>2, PTL

-----------------------------------------------------------------------------
(* The bytes of a file                                                      *)

\* The contents are the bytes of the inode in use.
LEMMA ContentIs ==
    ASSUME Inv, Usual, NEW f \in Files
    PROVE  /\ ~entry[f] => Content(f) = << >>
           /\ entry[f] => /\ View(f).size \in Nat /\ Len(Content(f)) = View(f).size
                          /\ Content(f) = [n \in 1..View(f).size |-> Data(disk, View(f), n - 1)]
                          /\ \A n \in 1..View(f).size : Content(f)[n] = Data(disk, View(f), n - 1)
<1>1. CASE entry[f]
  <2>1. View(f).size \in Nat
    BY <1>1, ViewOwns
  <2>2. Content(f) = [n \in 1..View(f).size |-> Data(disk, View(f), n - 1)]
    BY <1>1 DEF Content, Data, Blk, BlockOf
  <2>3. Len(Content(f)) = View(f).size
    BY <2>1, <2>2
  <2> QED BY <1>1, <2>1, <2>2, <2>3
<1>2. CASE ~entry[f]
  BY <1>2 DEF Content
<1> QED BY <1>1, <1>2

\* A read returns the bytes of the file from the position on.
LEMMA ReadIsContent ==
    ASSUME Inv, Usual, NEW p \in Procs, at[p].op = "read"
    PROVE  LET a == at[p] IN
           a.got = SubSeq(Content(FileOf[p]), a.start + 1, a.start + Len(a.got))
<1> DEFINE f == FileOf[p]
           i == mem[f]
           a == at[p]
           n == Len(a.got)
           got == a.got
           start == a.start
<1>1. f \in Files /\ pos[p] # Closed /\ Reading(a, i, disk, pos[p]) /\ start \in Nat
      /\ got \in Seq(Nat) /\ n \in Nat /\ a.left \in Nat
  BY MyFacts DEF CallOK, ReadOK, Frame
<1>2. entry[f] /\ View(f) = i /\ i.size \in Nat
  BY <1>1, ReaderFacts
<1>3. start + n <= i.size
  <2>1. pos[p] = start + n /\ pos[p] + a.left <= i.size
    BY <1>1 DEF Reading
  <2> QED BY <1>1, <1>2, <2>1, SMTT(30)
<1>4. \A m \in 1..n : got[m] = Data(disk, i, start + m - 1)
  BY <1>1 DEF Reading
<1>5. got = [m \in 1..n |-> got[m]] /\ DOMAIN got = 1..n
  BY <1>1
<1> HIDE DEF n, got, start
<1>6. \A m \in 1..n : got[m] = Content(f)[start + m]
  <2> SUFFICES ASSUME NEW m \in 1..n PROVE got[m] = Content(f)[start + m]
    OBVIOUS
  <2>1. start + m \in 1..i.size /\ start + m - 1 = (start + m) - 1
    BY <1>1, <1>2, <1>3
  <2>2. \A x \in 1..View(f).size : Content(f)[x] = Data(disk, View(f), x - 1)
    BY <1>1, <1>2, ContentIs
  <2>3. Content(f)[start + m] = Data(disk, i, (start + m) - 1)
    BY <1>2, <2>1, <2>2
  <2> QED BY <1>4, <2>1, <2>3
<1>7. got = SubSeq(Content(f), start + 1, start + n)
  BY <1>1, <1>5, <1>6, PartIs
<1> QED BY <1>7 DEF n, got, start

\* A read returns what was written at its position, also while another
\* process appends to the file.
THEOREM ReadsReturnWritten ==
    ASSUME Usual
    PROVE  Spec /\ []Room => []ReadReturnsWritten
<1>1. Inv => ReadReturnsWritten
  BY ReadIsContent DEF ReadReturnsWritten
<1>2. Spec /\ []Room => []Inv
  BY Invariance
<1> QED BY <1>1, <1>2, PTL

-----------------------------------------------------------------------------
(* The promise about the bytes                                              *)

\* Every step is one of the promise, or changes no bytes.
LEMMA NextPromise ==
    ASSUME Inv, Usual, Room, Next
    PROVE  Same \/ Promise!Next
<1>1. Promise!Next <=> Promise!PowerLoss \/ \E f \in Files : Promise!Write(f) \/ Promise!Delete(f)
  BY DEF Promise!Next
<1>2. Inv' /\ TypeOK /\ TypeOK'
  BY NextInv DEF Inv
<1>3. \A p \in Procs : FileOf[p] \in Files
  BY Consts
<1>4. \A p \in Procs : Promise!Write(FileOf[p]) \/ Promise!Delete(FileOf[p]) => Promise!Next
  BY <1>1, <1>3
<1>5. \A p \in Procs : Appends(p) => Promise!Next
  BY <1>2, <1>3, <1>4, AppendsWrite
<1>6. CASE PowerLoss
  BY <1>1, <1>6, PowerLossStep
<1>7. ASSUME NEW p \in Procs, Open(p) \/ Close(p) \/ sys_unlink(p)
      PROVE  Same \/ Promise!Next
  BY <1>4, <1>7, OpenStep, CloseStep, UnlinkStep
<1>8. ASSUME NEW p \in Procs, NEW n \in Writes[p], sys_write(p, n) PROVE Promise!Next
  BY <1>5, <1>8, SysWriteStep
<1>9. ASSUME NEW p \in Procs, NEW n \in Reads[p], sys_read(p, n) PROVE Same
  BY <1>9, SysReadStep
<1>10. ASSUME NEW p \in Procs, NEW w \in {"SET", "CUR", "END"}, NEW o \in Offsets[p], sys_Iseek(p, w, o)
       PROVE  Same
  BY <1>10, IseekStep
<1>11. ASSUME NEW p \in Procs, bitmap_synced(p) PROVE Promise!Next
  <2>1. at[p].op \in {"write", "unlink"}
    BY <1>11, PcOp DEF bitmap_synced, At
  <2> QED BY <1>4, <1>5, <1>11, <2>1, SyncedWrite, SyncedUnlink
<1>12. ASSUME NEW p \in Procs, table_read(p) PROVE Same \/ Promise!Next
  <2>1. at[p].op \in {"read", "write", "unlink"}
    BY <1>12, PcOp DEF table_read, At
  <2> QED BY <1>4, <1>5, <1>12, <2>1, TableReadRead, TableReadWrite, TableReadUnlink, SMTT(30)
<1>13. ASSUME NEW p \in Procs, table_written(p) \/ block_read(p) \/ block_written(p) PROVE Promise!Next
  <2>1. at[p].pc \in {"table_w", "block_r", "block_w"}
    BY <1>13 DEF table_written, block_read, block_written, At
  <2>2. at[p].op = "write"
    BY <2>1, PcOp
  <2> QED BY <1>5, <1>13, <2>2, TableWrittenStep, BlockReadStep, BlockWrittenStep, SMTT(30)
<1>14. ASSUME NEW p \in Procs, inode_read(p) \/ inode_written(p) PROVE Promise!Next
  <2>1. at[p].op \in {"write", "unlink"}
    BY <1>14, PcOp DEF inode_read, inode_written, At
  <2> QED BY <1>4, <1>5, <1>14, <2>1, InodeReadWrite, InodeReadUnlink, InodeWrittenWrite, InodeWrittenUnlink
<1>15. ASSUME NEW p \in Procs, read_chunk(p) \/ read_return(p) PROVE Same
  BY <1>15, ReadChunkStep, ReadReturnStep
<1> QED BY <1>6, <1>7, <1>8, <1>9, <1>10, <1>11, <1>12, <1>13, <1>14, <1>15 DEF Next

\* The blocks, the tables and the inodes of all files behave as append-only
\* sequences of bytes, also when the power goes between two writes to the disk
\* of one call.
THEOREM KeepsPromise ==
    ASSUME Usual
    PROVE  Spec /\ []Room => ImplementsAppendFile
<1>1. Init => Promise!Init
  <2> SUFFICES ASSUME Init PROVE Promise!Init
    OBVIOUS
  <2>1. \A f \in Files : Content(f) = << >>
    BY DEF Init, Content
  <2>2. [f \in Files |-> Content(f)] = [f \in Files |-> << >>]
    BY <2>1
  <2> QED BY <2>2 DEF Init, Promise!Init
<1>2. Inv /\ Room /\ [Next]_vars => [Promise!Next]_(Promise!vars)
  <2> SUFFICES ASSUME Inv, Room, [Next]_vars PROVE Promise!Next \/ UNCHANGED Promise!vars
    OBVIOUS
  <2>1. CASE Next
    BY <2>1, NextPromise, SameStutters
  <2>2. CASE UNCHANGED vars
    <3>1. Same
      BY <2>2 DEF vars, Same, Content, View, Opened, BlockOf
    <3> QED BY <3>1, SameStutters
  <2> QED BY <2>1, <2>2
<1>3. Spec /\ []Room => []Inv
  BY Invariance
<1> QED BY <1>1, <1>2, <1>3, PTL DEF Spec, ImplementsAppendFile, Promise!Spec

-----------------------------------------------------------------------------
(* A partition that is large enough                                         *)

\* The slots of all files: each has its blocks and its table.
AllSlots == Files \X (0..MaxBlk)

\* The partition has two blocks more than the files have slots, and the power
\* stays on: what a loss of power leaves marked and without an owner nobody
\* takes back.
Roomy ==
    /\ IsFiniteSet(Files) /\ NBlocks - 1 >= Cardinality(Files) * (MaxBlk + 1) + 2
    /\ MaxCrashes = 0

\* While the power stays on, there is no more than one block for a slot: a
\* write that has the addresses in its hands keeps those that are on the disk.
LEMMA OneBlockInSlot ==
    ASSUME Inv, crashes = 0, NEW f \in Files, NEW k, NEW b, NEW c, Owns(f, k, b), Owns(f, k, c)
    PROVE  b = c
<1>1. /\ ND \in Nat /\ ND > 0 /\ NI \in Nat /\ NI > 0 /\ MaxBlk = ND + NI
      /\ TableSlots = ND..(ND + NI - 1)
  BY Consts, Ranges
<1>2. k \in TableSlots => k \notin 0..(ND - 1) /\ k # MaxBlk
  BY <1>1
<1>3. \A i, x, y : InInode(i, k, x) /\ InInode(i, k, y) => x = y
  <2>1. k = MaxBlk => k \notin 0..(ND - 1)
    BY <1>1
  <2> QED BY <2>1 DEF InInode
<1>4. k \in TableSlots => \A i, x : ~InInode(i, k, x)
  BY <1>2 DEF InInode
<1>5. \A dk, i, x, y : OnDisk(dk, i, k, x) /\ OnDisk(dk, i, k, y) => x = y
  BY <1>3, <1>4 DEF OnDisk, InTable
<1>6. \A dk, a, i, x, y : InHand(dk, a, i, k, x) /\ InHand(dk, a, i, k, y) => x = y
  <2> SUFFICES ASSUME NEW dk, NEW a, NEW i, NEW x, NEW y,
                      InHand(dk, a, i, k, x), InHand(dk, a, i, k, y)
               PROVE  x = y
    OBVIOUS
  <2>1. CASE a.op = "write"
    BY <2>1, <1>3, <1>4 DEF InHand, InTable
  <2>2. CASE a.op = "unlink"
    <3>1. a.op # "write"
      BY <2>2
    <3> QED BY <2>2, <3>1, <1>5 DEF InHand
  <2> QED BY <2>1, <2>2 DEF InHand
<1>7. \A p \in Procs : FileOf[p] = f =>
        \A dk, x : InHand(dk, at[p], mem[f], k, x) => Busy(p)
  BY DEF InHand, Busy
<1>8. \A p, q \in Procs : FileOf[p] = f /\ FileOf[q] = f /\ Busy(p) /\ Busy(q) => p = q
  BY DEF Inv, FileOK
<1>9. \A p \in Procs : \A x, y :
        FileOf[p] = f /\ x # 0 /\ y # 0 /\ entry[f] /\ OnDisk(disk, dinode[f], k, x)
        /\ InHand(disk, at[p], mem[f], k, y) => x = y
  <2> SUFFICES ASSUME NEW p \in Procs, NEW x, NEW y, FileOf[p] = f, x # 0, y # 0, entry[f],
                      OnDisk(disk, dinode[f], k, x), InHand(disk, at[p], mem[f], k, y)
               PROVE  x = y
    OBVIOUS
  <2> DEFINE a == at[p]
             i == mem[f]
             d == dinode[f]
  <2>1. a.op = "write"
    <3>1. a.op # "unlink"
      BY DEF Inv, DeleteOK
    <3> QED BY <3>1 DEF InHand
  <2>2. Writing(a, i, d, disk, crashes, pos[p], MaxSize[f])
    BY <2>1 DEF Inv, WriteOK
  <2>3. \A j \in 0..ND : d.sect[j] # 0 => d.sect[j] = i.sect[j]
    BY <2>2 DEF Writing, Grows
  <2>4. CASE InInode(d, k, x)
    <3>1. k \notin TableSlots
      BY <2>4, <1>4
    <3>2. InInode(i, k, y)
      BY <2>1, <3>1 DEF InHand, InTable
    <3>3. InInode(i, k, x)
      <4>1. \A j \in 0..(ND - 1) : j \in 0..ND
        BY <1>1
      <4>2. ND \in 0..ND
        BY <1>1
      <4> QED BY <2>3, <2>4, <4>1, <4>2 DEF InInode
    <3> QED BY <3>2, <3>3, <1>3
  <2>5. CASE InTable(disk, d, k, x)
    <3>1. d.sect[ND] # 0 /\ k \in TableSlots /\ x = disk[d.sect[ND]][k - ND]
      BY <2>5 DEF InTable
    <3>2. d.sect[ND] = i.sect[ND]
      BY <2>3, <3>1, <1>1
    <3>3. CASE Filling(a)
      <4>1. y = a.all[k]
        BY <2>1, <3>1, <3>3, <1>4 DEF InHand
      <4>2. Fill(a, i, d, disk, crashes)
        BY <2>2, <3>3, SMTT(30) DEF Writing, Filling, Step1, Step2, Step3, Step4, Step5
      <4>3. disk[d.sect[ND]][k - ND] \in {0, a.all[k]}
        BY <4>2, <3>1 DEF Fill
      <4> QED BY <3>1, <4>1, <4>3
    <3>4. CASE ~Filling(a)
      <4>1. InTable(disk, i, k, y)
        BY <2>1, <3>1, <3>4, <1>4 DEF InHand
      <4> QED BY <3>1, <3>2, <4>1 DEF InTable
    <3> QED BY <3>3, <3>4
  <2> QED BY <2>4, <2>5 DEF OnDisk
<1>10. b # 0 /\ c # 0
  BY DEF Owns
<1>11. CASE entry[f] /\ OnDisk(disk, dinode[f], k, b)
  BY <1>11, <1>5, <1>9, <1>10 DEF Owns
<1>12. CASE \E p \in Procs : FileOf[p] = f /\ InHand(disk, at[p], mem[f], k, b)
  <2>1. PICK p \in Procs : FileOf[p] = f /\ InHand(disk, at[p], mem[f], k, b)
    BY <1>12
  <2>2. CASE entry[f] /\ OnDisk(disk, dinode[f], k, c)
    BY <2>1, <2>2, <1>9, <1>10
  <2>3. CASE \E q \in Procs : FileOf[q] = f /\ InHand(disk, at[q], mem[f], k, c)
    <3>1. PICK q \in Procs : FileOf[q] = f /\ InHand(disk, at[q], mem[f], k, c)
      BY <2>3
    <3>2. p = q
      BY <2>1, <3>1, <1>7, <1>8
    <3> QED BY <2>1, <3>1, <3>2, <1>6
  <2> QED BY <2>2, <2>3 DEF Owns
<1> QED BY <1>11, <1>12 DEF Owns

\* A slot that owns a block is one of the slots of its file.
LEMMA SlotOfBlock ==
    ASSUME Inv, NEW f \in Files, NEW k, NEW b, Owns(f, k, b)
    PROVE  k \in 0..MaxBlk
<1>1. /\ ND \in Nat /\ NI \in Nat /\ MaxBlk = ND + NI
      /\ TableSlots = ND..(ND + NI - 1) /\ Index = 0..(ND + NI - 1)
  BY Consts, Ranges
<1>2. 0..(ND - 1) \subseteq 0..MaxBlk /\ MaxBlk \in 0..MaxBlk
  BY <1>1
<1>3. TableSlots \subseteq 0..MaxBlk /\ Index \subseteq 0..MaxBlk
  BY <1>1
<1> QED BY <1>2, <1>3 DEF Owns, OnDisk, InHand, InInode, InTable

\* The number of slots
LEMMA SlotsCounted ==
    ASSUME IsFiniteSet(Files)
    PROVE  IsFiniteSet(AllSlots) /\ Cardinality(AllSlots) = Cardinality(Files) * (MaxBlk + 1)
<1>1. MaxBlk \in Nat
  BY Consts
<1>2. IsFiniteSet(0..MaxBlk) /\ Cardinality(0..MaxBlk) = MaxBlk + 1
  <2>1. IsFiniteSet(0..MaxBlk) /\ Cardinality(0..MaxBlk) = IF 0 > MaxBlk THEN 0 ELSE MaxBlk - 0 + 1
    BY <1>1, FS_Interval
  <2> QED BY <1>1, <2>1
<1> QED BY <1>2, FS_Product DEF AllSlots

\* Two blocks stay free: every block in use is owned, in a slot of its own.
LEMMA RoomThere ==
    ASSUME Roomy, Inv, crashes = 0
    PROVE  Room
<1> DEFINE used == bmap \cap InPartition
           rest == InPartition \ bmap
           fk(b) == CHOOSE s \in AllSlots : Owns(s[1], s[2], b)
           F == [b \in used |-> fk(b)]
<1>1. \A b \in used : fk(b) \in AllSlots /\ Owns(fk(b)[1], fk(b)[2], b)
  <2> SUFFICES ASSUME NEW b \in used PROVE \E s \in AllSlots : Owns(s[1], s[2], b)
    OBVIOUS
  <2>1. b # 0
    BY Consts DEF InPartition
  <2>2. PICK f \in Files : \E k : Owns(f, k, b)
    BY <2>1 DEF Inv, AllOwned
  <2>3. PICK k : Owns(f, k, b)
    BY <2>2
  <2>4. <<f, k>> \in AllSlots
    BY <2>3, SlotOfBlock DEF AllSlots
  <2> QED BY <2>3, <2>4
<1>2. F \in Injection(used, AllSlots)
  <2>1. F \in [used -> AllSlots]
    BY <1>1
  <2>2. \A b, c \in used : F[b] = F[c] => b = c
    <3> SUFFICES ASSUME NEW b \in used, NEW c \in used, F[b] = F[c] PROVE b = c
      OBVIOUS
    <3>1. fk(b) = fk(c)
      OBVIOUS
    <3>2. fk(b)[1] \in Files
      BY <1>1 DEF AllSlots
    <3>3. Owns(fk(b)[1], fk(b)[2], b) /\ Owns(fk(b)[1], fk(b)[2], c)
      BY <1>1, <3>1
    <3> HIDE DEF fk
    <3> QED BY <3>2, <3>3, OneBlockInSlot
  <2> HIDE DEF F
  <2> QED BY <2>1, <2>2 DEF Injection, IsInjective
<1>3. IsFiniteSet(used) /\ Cardinality(used) <= Cardinality(AllSlots)
  <2> HIDE DEF F, used
  <2> QED BY <1>2, SlotsCounted, FS_Injection DEF Roomy
<1>4. IsFiniteSet(InPartition) /\ Cardinality(InPartition) = NBlocks - 1
  <2>1. NBlocks \in Nat /\ NBlocks > 0
    BY Consts
  <2>2. IsFiniteSet(1..(NBlocks - 1))
        /\ Cardinality(1..(NBlocks - 1)) = IF 1 > NBlocks - 1 THEN 0 ELSE NBlocks - 1 - 1 + 1
    BY <2>1, FS_Interval
  <2> QED BY <2>1, <2>2 DEF InPartition
<1>5. IsFiniteSet(rest) /\ Cardinality(rest) >= 2
  <2>1. IsFiniteSet(rest)
    BY <1>4, FS_Subset
  <2>2. used \cup rest = InPartition /\ used \cap rest = {}
    OBVIOUS
  <2>3. Cardinality({}) = 0
    BY FS_EmptySet
  <2> HIDE DEF used, rest
  <2>4. Cardinality(used \cup rest) = Cardinality(used) + Cardinality(rest) - Cardinality(used \cap rest)
    BY <1>3, <2>1, FS_Union
  <2>5. Cardinality(used) \in Nat /\ Cardinality(rest) \in Nat /\ Cardinality(AllSlots) \in Nat
    BY <1>3, <2>1, SlotsCounted, FS_CardinalityType DEF Roomy
  <2>6. NBlocks - 1 >= Cardinality(AllSlots) + 2 /\ NBlocks \in Nat
    BY Consts, SlotsCounted DEF Roomy
  <2>7. Cardinality(used \cup rest) = NBlocks - 1
    BY <1>4, <2>2
  <2>8. Cardinality(used \cap rest) = 0
    BY <2>2, <2>3
  <2>9. Cardinality(used) <= Cardinality(AllSlots)
    BY <1>3
  <2> DEFINE u == Cardinality(used)
             r == Cardinality(rest)
             m == Cardinality(AllSlots)
  <2>10. NBlocks - 1 = u + r /\ u <= m /\ u \in Nat /\ r \in Nat /\ m \in Nat /\ NBlocks - 1 >= m + 2
    BY <2>4, <2>5, <2>6, <2>7, <2>8, <2>9
  <2> HIDE DEF u, r, m
  <2>11. r >= 2
    BY ONLY <2>6, <2>10
  <2> QED BY <2>1, <2>11 DEF r
<1> HIDE DEF rest
<1>6. rest # {}
  BY <1>5, FS_EmptySet
<1>7. PICK b : b \in rest
  BY <1>6
<1>8. rest # {b}
  BY <1>5, FS_Singleton
<1>9. PICK c \in rest : c # b
  BY <1>7, <1>8
<1> QED BY <1>7, <1>9 DEF rest, Room

\* Only a loss of power is counted as one.
LEMMA PowerStays ==
    ASSUME Next, ~PowerLoss
    PROVE  crashes' = crashes
<1>1. ASSUME NEW p \in Procs, Open(p) PROVE crashes' = crashes
  BY <1>1, Zenon DEF Open, history
<1>2. ASSUME NEW p \in Procs, Close(p) PROVE crashes' = crashes
  BY <1>2, Zenon DEF Close, history
<1>3. ASSUME NEW p \in Procs, sys_unlink(p) PROVE crashes' = crashes
  BY <1>3, Zenon DEF sys_unlink, history
<1>4. ASSUME NEW p \in Procs, NEW n, sys_write(p, n) PROVE crashes' = crashes
  BY <1>4, Zenon DEF sys_write, history
<1>5. ASSUME NEW p \in Procs, NEW n, sys_read(p, n) PROVE crashes' = crashes
  BY <1>5, Zenon DEF sys_read, history
<1>6. ASSUME NEW p \in Procs, NEW w, NEW o, sys_Iseek(p, w, o) PROVE crashes' = crashes
  BY <1>6, Zenon DEF sys_Iseek, history
<1>7. ASSUME NEW p \in Procs, bitmap_synced(p) PROVE crashes' = crashes
  BY <1>7, Zenon DEF bitmap_synced, history
<1>8. ASSUME NEW p \in Procs, table_read(p) PROVE crashes' = crashes
  BY <1>8, Zenon DEF table_read, history
<1>9. ASSUME NEW p \in Procs, table_written(p) PROVE crashes' = crashes
  BY <1>9, Zenon DEF table_written, history
<1>10. ASSUME NEW p \in Procs, block_read(p) PROVE crashes' = crashes
  BY <1>10, Zenon DEF block_read, history
<1>11. ASSUME NEW p \in Procs, block_written(p) PROVE crashes' = crashes
  BY <1>11, Zenon DEF block_written, history
<1>12. ASSUME NEW p \in Procs, inode_read(p) PROVE crashes' = crashes
  BY <1>12, Zenon DEF inode_read, history
<1>13. ASSUME NEW p \in Procs, inode_written(p) PROVE crashes' = crashes
  BY <1>13, Zenon DEF inode_written, history
<1>14. ASSUME NEW p \in Procs, read_chunk(p) PROVE crashes' = crashes
  BY <1>14, Zenon DEF read_chunk, history
<1>15. ASSUME NEW p \in Procs, read_return(p) PROVE crashes' = crashes
  BY <1>15, Zenon DEF read_return, history
<1> QED BY <1>1, <1>2, <1>3, <1>4, <1>5, <1>6, <1>7, <1>8, <1>9, <1>10, <1>11, <1>12, <1>13, <1>14, <1>15 DEF Next

\* On such a partition nothing is assumed of the steps.
THEOREM RoomStays ==
    ASSUME Usual, Roomy
    PROVE  Spec => []Room
<1> DEFINE J == Inv /\ crashes = 0
<1>1. Init => J
  BY InitInv DEF Init
<1>2. J /\ [Next]_vars => J'
  <2> SUFFICES ASSUME J, [Next]_vars PROVE J'
    OBVIOUS
  <2>1. Inv'
    BY RoomThere, NextInv
  <2>2. crashes' = 0
    <3>1. CASE UNCHANGED vars
      BY <3>1 DEF vars
    <3>2. CASE PowerLoss
      BY <3>2 DEF PowerLoss, Roomy
    <3>3. CASE Next /\ ~PowerLoss
      BY <3>3, PowerStays
    <3> QED BY <3>1, <3>2, <3>3
  <2> QED BY <2>1, <2>2
<1>3. J => Room
  BY RoomThere
<1> QED BY <1>1, <1>2, <1>3, PTL DEF Spec

\* The four properties, from the constants alone.
THEOREM SafeWithRoom ==
    ASSUME Usual, Roomy
    PROVE  Spec => [](NoPanic /\ BlocksExact /\ ReadReturnsWritten) /\ ImplementsAppendFile
<1>1. Spec => []Room
  BY RoomStays
<1>2. Spec /\ []Room => []NoPanic
  BY NeverPanics
<1>3. Spec /\ []Room => []BlocksExact
  BY BlocksAreExact
<1>4. Spec /\ []Room => []ReadReturnsWritten
  BY ReadsReturnWritten
<1>5. Spec /\ []Room => ImplementsAppendFile
  BY KeepsPromise
<1> QED BY <1>1, <1>2, <1>3, <1>4, <1>5, PTL
=============================================================================
