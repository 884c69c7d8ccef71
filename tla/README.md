# Enix: TLA+ models, checks and proofs

Enix is a 32-bit x86 teaching kernel: one CPU, preemptive threads, user
processes with copy-on-write memory, an ATA disk with its own file system,
pipes, a keyboard and a shell. This directory models the parts of it whose
correctness depends on the order in which things happen. TLC checks the models
on small instances; TLAPS proves what matters most about the scheduler with its
locks, the ring queue, the disk driver, the keyboard, processes, copy on write, the
heap, `bitmap_scan`, the open files and the contents of files for instances of
every size.

`PROJECT.json` maps every definition to the lines it models, and lists the
runs, a mutant for every checked property, the hazards of the code and the
theorems.

    tlc -workers 2 -config MCSched.cfg MCSched      # one run
    tlapm SchedProofs.tla                           # proofs: also CowProofs, DeviceProofs,
                                                    # FileDataProofs, FileTableProofs,
                                                    # IoQueueProofs, KernelFacts, ProcessProofs

## The system

| Part | State | Operations | What must be right |
|---|---|---|---|
| Scheduler and timer (`thread/thread.c`, `device/timer.c`) | running thread, `status` and `ticks` of each PCB, `thread_ready_list` | `schedule`, `thread_block`, `thread_unblock`, `thread_yield`, `idle`, timer interrupt, `mtime_sleep` | the ready list holds exactly the READY threads; one list per `general_tag`; nobody starves; sleeping ends |
| Semaphores, locks (`thread/sync.c`) | `value`, `waiters`, `holder`, `holder_repeat_nr` | `sema_down/up`, `lock_acquire/release` | exclusion, recursion, no lost wakeup |
| Ring queue, pipes (`device/ioqueue.c`, `shell/pipe.c`) | ring, `head`, `tail`, sleeping producer and consumer, lock | `ioq_getchar/putchar`, `pipe_read/write` | bounded FIFO; sleep only if empty or full; a blocked call goes on |
| Keyboard (`device/keyboard.c`) | four modifier flags, prefix flag | `intr_keyboard_handler`, one byte per interrupt | the character meant is stored; flags follow the keys |
| Processes (`userprog/fork.c`, `wait_exit.c`, `process.c`, `exec.c`) | PCBs, `thread_all_list`, pid pool, kernel pages | `fork`, `exec`, `exit`, `wait` | unique pids, a living parent, no missed exit, separate pages |
| User memory (`kernel/memory.c`) | page tables, `mem[]`, frame pools | allocation, release, write fault, fork, exit | isolation, exact reference counts |
| Heap (`kernel/memory.c`) | arenas, free lists | `sys_malloc`, `sys_free` | a held block is not handed out again and stays mapped |
| Bitmaps (`lib/bitmap.c`) | bits | `bitmap_scan` | first fit |
| Files (`fs/file.c`, `inode.c`, `dir.c`, `fs.c`) | `file_table`, fd tables, `open_inodes`, inode bitmap, directory sector | open, create, close, unlink, pipe, fork, exit | descriptors valid, counts exact, one inode per file, no lost entry |
| Disk driver (`device/ide.c`) | channel lock, `expecting_intr`, `disk_done` | `ide_read/write`, `intr_hd_handler` | commands do not overlap; requests complete; the machine does not stop |
| File contents (`fs/file.c`, `inode.c`) | data blocks, indirect table, inode table, `block_bitmap`, each in memory and on disk | `file_write`, `file_read`, lseek, release of blocks, power loss | a block belongs to one file; reads return what was written; what a write stored survives |
| Directories, paths (`fs/dir.c`, `fs.c`, `shell/buildin_cmd.c`) | directory blocks, inodes, bitmaps, working directory, directory streams | `mkdir`, `rmdir`, create, open, `unlink`, `chdir`, `getcwd`, `opendir` to `closedir`, `stat`, format, mount | the directories are a tree; memory and disk agree; listings are complete; path forms agree |
| Console, command line of the shell, strings, boot, tss | - | - | not modelled (below) |

**How they interact.** Every gate of the IDT is an interrupt gate, so a system
call runs with interrupts off until it blocks, yields or returns; user mode and
the boot thread run with interrupts on. Everything that waits (locks, queues,
the disk, `wait`) ends in `thread_block` and `thread_unblock`. `fork` touches
process, memory, heap and files at once: each of these modules has its own fork
action.

The file system has no lock of its own. It waits in the disk driver, with the
channel's lock held, and between two requests of one call interrupts are off and
nothing yields; `lock_release` does not hand the lock over, so the call takes it
again before a waiter runs. From its first request to its return a call thus keeps
every other call off the disk. What runs in its waits is what needs no disk:
close, exit, pipe, fork, and the part of another call before its first request.

**What is hard.** Preemption between the steps of lock operations; wakeups from
interrupts; state read before a disk wait and used after it; exit of parent and
child in either order; reuse of pids, frames, arenas and table entries; scan
codes that arrive in pieces; tables that are full.

## Modules

- `KList`, `KernelFacts`: the kernel's linked lists as sequences (append, push
  to the front, pop, `list_remove`), with the lemmas the proofs use, and the least
  element of a set of naturals.
- `Sched`: scheduler, timer, semaphores, locks. `cur` is the only task that
  acts. `pc` is the point inside a primitive, `base` whether the task's own code
  runs with interrupts on. With interrupts on, the timer may cut the steps of
  `lock_acquire` (test the holder, `sema_down`, set the holder) and of
  `lock_release` (clear the holder, `sema_up`). `held` is a history variable:
  acquires returned minus releases made. Device waits, `wait`, `exit` and `fork`
  appear as the status changes they make: a device or the other end of a pipe
  wakes a sleeper (`DeviceIrq`, `WakePeer`).
- `RecursiveLock`: what a lock promises, with atomic operations. `Sched`
  instantiates it with `held`.
- `SchedProofs`, `IoQueueProofs`, `CowProofs`, `FileTableProofs`,
  `FileDataProofs`: the theorems about the module in the name; `ProcessProofs`:
  those about `Bitmap`, `Process` and `Arena`; `DeviceProofs`: those about `Ide`
  and `Keyboard`.
- `Fifo`, `IoQueue`: the abstract bounded queue and the ring with its one
  producer pointer, one consumer pointer and lock. `use` says whether the ring
  is the keyboard buffer or a pipe.
- `Keyboard`: keys go down, repeat and come up and put bytes on the wire; the
  handler takes them later, one by one. Each byte carries the character meant
  when its key went down (history), which `CharAsMeant` compares with the one
  stored. The definitions are `KbdInit` to `KbdSpec`, so that `DeviceProofs` can
  extend this module and `Ide`.
- `Bitmap`: the three loops of `bitmap_scan` and, next to them, the reference
  `FirstFit`.
- `Process`: a task is named by the page of its PCB. `sys_fork` is cut at its
  three page allocations and `sys_exit` where it closes files, because both
  can wait for a lock there. Pages come from `Bitmap`'s scan.
- `FileTable`: open files, in-memory inodes and the root directory (one
  sector), cut wherever the code waits for the disk. `buf` in `at[p]` is the
  sector a call has read and will write back. `ChannelFree` is what the channel's
  lock does for calls that use the disk; close, exit, pipe and fork need none and
  come at any wait.
- `FileData`: the bytes of files. A block is a row of cells, a cell a byte or an
  address of the indirect table. `at[p]` holds the local variables of the call a
  process is in; the call is cut at every wait for the disk, and what the disk was
  told to do happens in the step that goes on from there. `PowerLoss` keeps
  `entry`, `dinode`, `disk` and `dmap` (the device) and resets the rest as a mount
  does. Calls on different files are let loose at every wait, which is more than
  the channel's lock allows: what holds here holds with it. Only the read and the
  write of an inode's sectors stay together. An inode may cross two sectors
  (`Cut`), and the power may go between them (`Torn`). `life` and `safe` are
  history: they make the bytes of different files, lives and offsets different,
  and record what a returned write promised.
- `AppendFile`: what `FileData` promises: contents grow at the end, vanish
  whole, and lose no byte of a write that returned.
- `Directory`: the tree. The file system is one record `fs`, so a call is the
  composition of the functions it calls, under their names in the source. A path
  is the sequence of its components; an argument is absolute or relative, and
  a call is made both with what the program typed and with what the shell's
  `make_clear_abs_path` makes of it. `fs.bad` records a failed ASSERT or a loop
  that does not end. `Reboot` mounts what is on the disk. The stream of the root
  is one object that keeps its position (`root_pos`).
- `Cow`: page tables, `mem[]`, frames and their contents; `image` (history) is
  what each process wrote last.
- `Arena`: arenas, block lists and large blocks, of a parent and one child. The
  definitions are `HeapInit` to `HeapSpec`, so that `ProcessProofs` can extend
  this module and `Process`.
- `Ide`: the driver, its interrupt handler and an ATA device. The device is
  external: it is modelled from how the driver uses it. The driver runs with
  interrupts off, so `busy_wait`'s sleep ("nap") ends only if another thread is
  outside the kernel and lets the clock tick, and idle, which takes interrupts too,
  does not run beside a READY thread. A thread may also be blocked elsewhere
  ("away").

Sched's results are what the other modules take for granted: they use a lock as
one step (`MutualExclusion`, `WaiterIsWoken`), and their fairness is
`ReadyGetsCpu`.

Definitions named `X_Y` after a comment `Mutant:` are deliberately wrong
variants of `X`; replacing `X` by one of them must violate the property that
`PROJECT.json` names.

## Runs

| Run | Instance | What it shows |
|---|---|---|
| `MCSched` | 2 process slots, main, idle; 1 lock, depth 2; time slices 0 and 1 | no ASSERT fails (`NoPanic`), `ReadyListExact`, `MutualExclusion`, `NoLostWakeup`, `ImplementsRecursiveLock`. Three threads are needed for a woken waiter to lose the lock to a third one while a second sleeps. |
| `MCSchedLive` | 1 process, main, idle; sleeps of 2 ticks | `ReadyGetsCpu`, `WaiterIsWoken`, `SleepEnds` |
| `MCIoQueue` | ring of 4; keyboard with 1 reader, or pipe with 1 writer and 2 readers; calls of up to 3 bytes | `SleepsOnlyWhenStuck`, refinement of `Fifo`, `BlockedCallResumes` |
| `MCProcess` | 3 forks, 24 kernel pages in bytes of 4 bits, bitmaps of 3 pages of which exit frees 2, 6 pids | `NoPanic`, `PidsUnique`, `ParentAlive`, `NoMissedExit`, `PagesDisjoint`, `ScanIsFirstFit`. Three forks give grandchildren, orphans and reuse of pids and pages. |
| `MCFile` | 2 processes, 3 names, 2 table entries, 2 descriptors each, a directory of 2 entries; pipes, closes, exits and forks at every wait for the disk, but no pipe in that of `file_open`; forks without regular files open | `FdsValid`, `CountsExact`, `PipeRingLive`, `EntryKept`. `file_table`, fd tables and directory all run full. Names are symmetric. |
| `MCFilePipeRace` (violation) | the same with a pipe also in that wait (`PipeRace`) | `FdsValid` fails: a file and a pipe share a `file_table` entry |
| `MCFileData` | 2 files, a writer of each and a reader of the first; blocks of 2 bytes, 2 direct blocks and 3 addresses in the table, 15 blocks; writes of 1, 5 and 2 bytes, reads of 3; one power loss, one file created twice | `NoPanic`, `BlocksExact`, `ReadReturnsWritten`, `ImplementsAppendFile`. A write of 5 bytes to a file of 1 byte takes the second direct block, the table and a first block in it at once; one of 1 byte crosses each boundary by itself; the power goes at every wait. |
| `MCDir` | 3 names, 5 inodes of which 4 are used at a time, 8 blocks, 3 entries in a sector, 2 direct blocks and 2 table addresses; paths `/`, `/a`, `/a/b`, `/a/../b`, `/c` and `../b` | `NoPanic`, `TreeSound`, `MountSeesSame`, `ListingComplete`, `PathsAgree`. "." and ".." leave one place in a first block: a second name takes a second block, and its removal gives the block back. |
| `MCCow` | 3 processes, 1 page, 3 user and 4 kernel frames, 2 values | `Isolation`, `RefExact`: a frame with three users, written, freed and inherited in every order |
| `MCArena` | 2 processes, 3 pages, arenas of 2 blocks, large blocks of 2 pages | `HeldNotFree`, `HeldMapped` |
| `MCIde` | 2 threads; reads of 1, 2, 3 and 5 sectors, writes of 1, 2 and 3; commands of at most 2; a limit of 2 tests in `busy_wait` | `OnlySlowDiskPanics`, `OnlyLongWritesOverlap`, `Complete`, `RequestReturns`. 2 stands for 256: it is written to the register as 0. Five sectors take three commands. |
| `MCKeyboard` | 6 keys, one of each kind, two of them repeating; 4 bytes on the wire; buffer of 1 | `CharAsMeant` |

The modules define some properties that no run lists, for the disagreements below
and for further checks by hand: `PipeReadNeverBlocks` and `NoPanic` of `IoQueue`,
`NoPanic`, `OneInode` and `OpenFileExists` of `FileTable` (the last two are
theorems), `WritableNotShared` of `Cow`, `FreeCountExact` of `Arena`, `StatusIsHeld`
of `Keyboard`. They hold on the instances of the table.

Deadlock is checked except in the file and disk runs: in `MCFile` all processes may have
exited, and there the system stops for good; in `MCIde` the machine stops after a
PANIC and in a sleep that nobody can end (`Hung`); in `MCFileData` and `MCDir` the
bounds on sizes, lives, power losses and inodes are used up.

Two constraints keep the file instances small. `OneThingAtATime` (MCFileData)
follows a power loss, a second life and the reader without the second file, whose
part is to take blocks and to write the bitmap in between. `OneThingOpen` (MCDir)
allows one open file or stream, reads a stream with the working directory at the
root, and looks at the largest trees from there. `MCDir` has a VIEW that leaves
out what is in free blocks, which nothing reads before it is written.

Bounds are constants with names: `MaxDepth`, `MaxSleep`, `MaxCount`, `MaxForks`,
`MaxName`, `MaxPid`, `MaxPos`, `MaxWire`, `MaxSize`, `MaxLives`, `MaxCrashes`,
`MaxFiles`, `TimeLimit`. Some constants narrow what processes
do, so that a property which fails for a known reason can be checked outside
that reason: `PipeRace`, `Forking` and `FullPipe` (FileTable), `SharedWrites`
(Cow), `Inherited` (Arena), `HeapFull` and `Cut` (FileData), `Careless`
(Directory). The failing cases are under Disagreements.

**Fairness.** `Sched`: the interrupt controller latches the timer interrupt, hence
strong fairness of `Tick`; a thread that gets the CPU again and again executes its
next instruction; system calls return and release their locks; devices answer. It
does not assume that user programs make calls. `IoQueue` also assumes that keys
are typed and that pipe readers keep reading, without which a blocked caller
rightly waits. `Ide`: the device answers, the interrupt is delivered where
interrupts are on, and a thread that has the channel goes on when it can; nothing
makes a thread outside the kernel, or blocked elsewhere, do anything, so a sleep
in `busy_wait` may never end. `Process`: a process inside a system call goes on,
and init, whose program is a loop around `wait`, calls it.

## Proofs

Every theorem holds for all values of the constants that satisfy the named
assumption of its module (`TaskAssumption` and `BoundAssumption` of `Sched`,
`QueueAssumption`, `IdeAssumption`, `KeyboardAssumption`, `BitmapAssumption`,
`ProcessAssumption`, `CowAssumption`, `ArenaAssumption`, `TableAssumption`,
`DataAssumption`). Where a theorem has a further hypothesis,
the code needs it: without it the property fails, and the table of Disagreements
says how. None of the properties is inductive by itself. Each proof module
states an inductive invariant and proves it in `Invariance`, one lemma per
action; TLC checked each on the instance of its run, except the keyboard's, which
speaks of an unbounded row of states. That of `FileData` quantifies over all numbers:
TLC checked it with the slots and blocks that exist, and one life of each file.

| Module | Theorems | Hypothesis |
|---|---|---|
| `SchedProofs` | `TypeCorrect`, `NoPanicEver`, `ReadyListAlwaysExact`, `LocksExclude`, `WakeupsNotLost`, `TagInOneList`, `HolderSteps`, `Refinement` (of `RecursiveLock`) | - |
| `IoQueueProofs` | `TypeCorrect`, `NoPanicEver`, `Refinement` (of `Fifo`), `PipeReadersNeverBlock` | - |
| | `NoNeedlessSleep` | `Alone` |
| `DeviceProofs` | `TypeCorrect`, `PanicsOnlyWhenSlow`, `RequestsComplete`, `CommandsOverlapOnlyAfterLongWrites` | - |
| | `CharsAsMeant`, `NoStuckModifier` | `OneOfEach` |
| `ProcessProofs` | `ScanFindsFirstFit` | the map is not full |
| | `ScanAlwaysFirstFit` | - |
| | `TypeCorrect`, `PidsNeverShared`, `NoOrphans`, `ExitsNotMissed`, `PagesNeverShared`, `OnlyForkPanics` | `[]BitmapFound` |
| | `NoPanicWithRoom`, `SafeWithRoom` | `Roomy` |
| | `NeverHandedOutTwice`, `HeldStaysMapped`, `NoBlockLost` (of `Arena`) | `~Inherited` |
| `CowProofs` | `TypeCorrect`, `CountsExact`, `NeverWritableAndShared`, `OnlyMixedBlocksPanic` | - |
| | `ProcessesIsolated` | `SharedWrites = FALSE` |
| `FileTableProofs` | `TypeCorrect`, `DescriptorsValid`, `CountsAlwaysExact`, `OneInodePerFile`, `OpenFilesExist`, `PipeRingsLive`, `EntriesKept`, `OnlyFullTablesPanic` | `Unraced` |
| `FileDataProofs` | `NeverPanics`, `BlocksAreExact`, `ReadsReturnWritten`, `KeepsPromise` (refinement of `AppendFile`) | `Usual`, `[]Room` |
| | `RoomStays`, `SafeWithRoom` | `Usual`, `Roomy` |

**Scheduler.** `IInv` adds to the type invariant and to `NoPanic`:

- `Queues`: the ready list is exact, and idle is never in a status the
  scheduler would not choose it from;
- `SemaInv`: the waiters of a semaphore are, without repetition, exactly the
  BLOCKED threads inside its `sema_down`. This is what makes the ASSERTs of
  `thread_unblock` hold and what keeps a `general_tag` in one list;
- `LockInv`: a task between the decrement in `sema_down` and the increment in
  `sema_up` is alone there, and the value is 0 exactly then; holder and depth
  agree with what the task has acquired except at the two points where the code
  is between the assignments;
- `NoLostWakeup`.

**Ring queue.** `Inv` says that the thread in `ioq_wait` holds the lock, that
`consumer` and `producer` name only it, and that a thread inside a call has the
CPU. `LengthFacts` and `ContentIsBytes` read the ring as a sequence; with them
every step is a put, a get or a stutter of `Fifo`. `ReadersCovered` (a pipe reader
asks for no more than the ring holds) is why `pipe_read` never sleeps. `Alone` is
at most one thread on each side: a second one sleeps on the lock of the first.

**Disk.** `Handshake` says, for every point of the driver, what the device does,
whether the interrupt is expected and how `disk_done` stands; `Progress` ties
`secs_done` to the sectors moved. A write of several sectors (an inode that crosses
two, `inode.c:76` and `211`, or a format, `fs.c:213` and `236`) interrupts once per
sector, and the first ends the wait: the next command may find the device at work,
and `Handshake` says that this is the only case and that no wakeup is left over.
Requests of any size, read or written, are complete.

**Keyboard.** What the handler does with a byte depends on flags that earlier
bytes set, and these may still be on the wire. The invariant, `Replayable`, says
that there is a row of handler states, one per byte under way, that starts with
the flags as they are, goes on as the handler would, stores what was meant
at every byte that completes a make code, and ends with the flags the keys
held now call for. A key that goes down or comes up appends its bytes and, by
`Extend`, their states; an interrupt takes the first of both. This holds however
many bytes are under way, with the fake shifts of the padded keys among them.
`OneOfEach` says that no modifier has two keys and that Caps Lock does not repeat;
both exceptions are in the table of Disagreements. `KeyboardAssumption` says that the
break code of no key is the prefix byte, which the code takes for granted.

**Bitmap.** A wrong result has a least counterexample: the bit where the counting
loop stops. `LeastNat` gives it, so that the loop, written as a recursive function,
needs no induction over the map. A full map is excluded because there the code
fails an ASSERT.

**Processes.** `Inv` has the tasks that a fork has made and not yet listed
(`ForksWhole`), what a task has at each point of its life (`TasksWhole`), pids and
parents, and that every page of the heap is one task's for one purpose
(`PagesExact`). `BitmapFound` says that a fork that takes its address bitmap
finds one: the code does not notice when it does not, and both processes free
the pages they then share. `Roomy` is a condition on the constants alone: a heap of
(`MaxForks` + 1) * (`BitmapPages` + 2) + 1 pages, `MaxForks` + 3 pids, and a name
that is not lengthened past its buffer. It implies `BitmapFound`: `FilledFromBelow`
says that, as the scan takes the lowest run, each fork adds at most what it takes.
The instance of `MCProcess` satisfies it.

**Copy on write.** `Inv` has `RefExact`, `WritableNotShared` and `Tables` (a
process maps a frame once, blocks of the heap are mapped and disjoint, a dead
process maps nothing). Isolation is inductive together with it if no system
call writes into a shared frame, which the missing CR0.WP would let through.

**Heap.** `IInv` ties together what `sys_malloc` and `sys_free` keep in three
places: headers, lists and what is held. `ListsOwn`: a block on a list lies in an
arena of that size class which names that list, once; `HeldOwn`: a held block lies in
an arena of its class and on no list of it, or is a large block; `CountsExact`:
`free_cnt` is the number of the arena's blocks on the list, which is why an arena is
unmapped only when nothing in it is held; `RunsWhole`: no header lies inside a
large block. `SharedAlike`, `OldHeld` and `Unborn` say what remains of the fork:
parent and child see the same headers in the pages they share, and the child
keeps what it inherited. Without `~Inherited` the child's `sys_free` puts such a
block on its own list and counts it in the header that belongs to its
parent's, which the invariant, and the code, does not survive.

**Open files.** `Inv` of `FileTableProofs` says:

- `InodeOK`: an inode in `open_inodes` has a count of exactly its `file_table`
  entries and deletions; any other is free or of a file being created;
- `SlotOK`: an occupied entry is of a pipe with at least as many uses as
  descriptors, or of an inode whose number is allocated and whose name is in the
  directory, unless the call that creates the file is still under way;
- `FdOK`: a descriptor of a file has its entry for itself;
- `CallOK`: at each wait for the disk the local variables still describe the
  tables: the inode read is not in `open_inodes`, the entry chosen is free, the
  sector in the buffer is the one on the disk, the file being deleted is closed.
  This is what the channel's lock is needed for.

A close, an exit, a pipe or a fork of another process may come at each of these
waits (`CallSurvivesClose`). `Unraced` excludes a pipe while `file_open` waits, which
takes the entry that was chosen (`MCFilePipeRace`), and a fork with a regular file
open. `TableAssumption` asks for more
blocks for inodes than `file_table` entries, that is, that `sys_malloc` finds one;
`FreeObjFacts` needs it, by the pigeonhole principle.

**File contents.** The argument is about who owns a block. A file owns what its
inode and its table on the disk name, and what a call has taken for it or has
still to free; each block has a slot there, an index or the table's (`Owns`). `Inv`
of `FileDataProofs` says:

- `OwnedOnce`, `OwnedMarked`: no block has two slots, and an owned one is in the
  partition and marked. What is written for one file therefore changes no
  byte, table or inode of another;
- `KnownOnDisk`, `MapsAgree`: the bitmap on the disk knows every block the disk
  names, so that a mount does not hand out one that is in use. This is what the order
  of the writes (bitmap, table, data, inode) is for, and it must hold at every
  wait, because the power may go there;
- `AllOwned`: before the first loss of power nothing is marked that has no
  owner;
- `FileOK`: a file is whole on the disk up to its size, whatever a call under way has
  done, and one call at a time changes it;
- `WriteOK`, `DeleteOK`, `ReadOK`: at each wait the local variables of the call
  fit the inode in memory, the one on the disk and the table. `Writing` has five
  forms, one for each part of `file_write`; in `Fill`, the blocks up to `next` are
  collected, and those past the old size are not on the disk yet.

The refinement follows from the same facts: `Content` of a file changes only when
the inode reaches the disk, and then by the bytes at its end. A read that runs
beside a write holds addresses that stay right, because a file only grows
while it is open.

`Usual` excludes, one by one, what the code fails on: a second writer of a file
(`write_deny` can be cleared by any close, a row of the table below), writes of 0
bytes, a file that reaches the last block, positions near 2^32, an inode that
crosses two sectors, a bitmap of more than one sector, and a heap that is
exhausted. `Room` says that two blocks are free: on a full partition `bitmap_scan`
fails its ASSERT or hands out the block behind the partition, before `file_write`
could report it. `Roomy` is a condition on the constants alone that implies it
while the power stays on: a partition of two blocks more than the files have slots
(`OneBlockInSlot`, `RoomThere`, by the pigeonhole principle). The instance of
`MCFileData` satisfies it, its one loss of power aside; after that, a block that
was marked for a call that never finished stays marked, so no size is enough for
every number of losses, and `[]Room` is the hypothesis.

**Only model-checked.** The invariants of `Directory`. What it does with paths and
with the chain of ".." entries is induction over them, and its invariants, that
the directories are a tree above all, need it. Also out of the prover's reach are
the liveness properties (`ReadyGetsCpu`, `WaiterIsWoken`, `SleepEnds`,
`BlockedCallResumes`, `RequestReturns`), which rest on fairness and ENABLED.

## Disagreements

One is a run that TLC must find violated, with its finding in `PROJECT.json`:
`MCFilePipeRace`. The others were met while modelling; each can be reproduced
by checking the property with the constants given.

| Where | The code says | The code does | Reproduce |
|---|---|---|---|
| `device/ide.c:175` | `ide.c:165`: busy_wait waits 30 ms and returns true or false | with interrupts off and every other thread blocked `mtime_sleep` yields to itself and no tick is counted | `MCIde`: `WaitEnds`; also `MCSchedLive`, `SleepIF = {FALSE}`: `SleepEnds` |
| `device/ioqueue.c:88` | `ioqueue.h:17`: the producer that sleeps is woken when there is room | a second writer sleeps on the lock the first holds asleep | `MCIoQueue`, `PipeWriters = {w1, w2}`: `BlockedCallResumes` |
| `device/ioqueue.c:62` | `ioqueue.h:21`: a consumer goes on while there is data | a second reader sleeps on the lock the first holds asleep, although keys have arrived | `MCIoQueue`, two `StdinReaders`: `BlockedCallResumes` |
| `shell/pipe.c:91` | `pipe.c:90`: choose the smaller amount, avoid blocking | the free space is one too large (the ring holds bufsize - 1), so a write may block | `MCIoQueue`: `PipeWriteNeverBlocks` |
| `fs/fs.c:663` | `fs.c:647`: sys_read reads into buf | on a standard input redirected to a pipe it calls `pipe_write` | `MCIoQueue`, non-empty `PipeStdin`: `ReadOnlyRemoves` |
| `userprog/wait_exit.c:68` | `wait_exit.c:15`: the pages of the address pool are released | one page fewer than fork took (quotient against quotient rounded up) | `MCProcess`: `NoPageLeak` |
| `userprog/wait_exit.c:138` | `main.c:58`: init collects orphans | a zombie adopted while init already sleeps in `wait` is not noticed until another child exits | `MCProcess` with `FairSpec`, `ByteBits = 3`, `Bytes = 6`, `BitmapPages = 2`, `FreedPages = 1`, `MaxPid = 6`: `AdoptedReaped` |
| `userprog/fork.c:216` | `fork.c:35`: address spaces are independent, so the bitmap is copied | a failed allocation (-1) is tested for 1; the child goes on with its parent's bitmap | `MCProcess`, fewer `Bytes`: `PagesDisjoint` |
| `userprog/wait_exit.c:161` | `wait_exit.c:143`: the child's return value is stored | its `status` (TASK_HANGING) is stored | `MCProcess`: `WaitDeliversStatus` |
| `userprog/fork.c:50` | `fork.c:49`: ASSERT that the name is shorter than 16 | `_fork` is appended after the test | `MCProcess`: `NameFits` |
| `lib/bitmap.c:72` | `bitmap.c:34`: cnt bits in the bitmap | the last loop also tests the bit behind the map and may return a run that ends there | the second case of `ScanIsFirstFit` |
| `lib/bitmap.c:48` | `bitmap.c:34`: -1 on failure | the ASSERT fails first on a full map | `MCProcess`, fewer `Bytes`: `NoPanic` |
| `fs/file.c:300` | `fork.c:179`: fork updates the count of every open file | a close in either process clears the shared `file_table` entry | `MCFile`, `Forking = "files"`: `FdsValid` |
| `fs/file.c:298` | `inode.h:17`: a file is not written in parallel | any close clears `write_deny`, and create never sets it | `MCFile`: `OneWriter` |
| `fs/file.c:277` | `file.c:19`: a free entry is found if there is one | a refused open leaves its entry occupied | `MCFile`: `SlotsReachable` |
| `fs/file.c:255` | `file.c:17`: the entry found is free | `file_open` fills it after a disk read; `pipe()` of another process takes it meanwhile | `MCFilePipeRace` |
| `shell/pipe.c:38` | `pipe.c:33`: -1 on failure | with `file_table` full, index -1 is used | `FullPipe = TRUE`: `NoPanic` |
| `fs/file.c:537` | `file.c:537`: fd_pos is left at the size minus one | after a write of 0 bytes to an empty file fd_pos is 2^32 - 1 and a read from there fails the ASSERT | `MCFileData`, writes of 0 and 5 and a read of 1 by `w1`: `NoPanic` |
| `fs/file.c:391` | `file.c:355`: up to max_bytes, 140 blocks, a write is accepted | a write that ends exactly at the limit counts a block more and fails the ASSERT | `MCFileData`, `MaxSize` 10, writes of 5: `NoPanic` |
| `fs/file.c:644` | `file.c:353`: a file has up to 140 blocks | a read that reaches block 139 fails the ASSERT | `MCFileData`, `NBlocks = 22`, `MaxSize` 9, writes and reads of 9: `NoPanic` |
| `fs/file.c:456` | `file.c:440`: the bitmap is synchronised whenever a block is allocated | the sector with the bit of the table's own block is not written | `MCFileData`, `BitsPerSec = 2`: `BlocksExact` |
| `fs/file.c:585` | `file.c:347`: -1 means that the write failed | when the heap is exhausted the call returns with blocks taken and the inode not written; a later write fails the ASSERT of `file.c:437` | `MCFileData`, `HeapFull = TRUE`: `BlocksExact`, `NoPanic` |
| `fs/inode.c:76` | `inode.c:46`: writes the inode to its partition | an inode that crosses two sectors is torn if the power goes between them: size without blocks | `MCFileData`, `Cut <- Split`: `ImplementsAppendFile` |
| `fs/fs.c:210` | `fs.c:208`: the valid bits of the last byte are cleared | one bit too many: the block behind the partition is given out | `MCFileData`, `NBlocks = 4`: `BlocksExact`; `MCDir`, `NBlocks = 3`: `MountSeesSame` |
| `fs/fs.c:467` | the other paths of sys_open close the parent directory (`fs.c:426` to `462`) | opening an existing file does not, so its parent stays in `open_inodes`, also when it is removed | `MCDir`, `Careless = {"open_sub"}` and the file argument `/a/b`: `MountSeesSame` |
| `fs/fs.c:1043` | `dir.c:579`: the directory to remove is empty, nothing else is asked | also one that is a working directory or has an open stream, whose inode then no longer exists | `MCDir`, `Careless = {"remove_used"}`: `MountSeesSame` |
| `fs/fs.c:1021`, `744` | `fs.c:1012`: -1 on failure | rmdir or unlink of the root fails the ASSERT; rmdir of `/a/.` removes the directory from itself and leaves its entry in the parent | `MCDir`, `Careless = {"dots"}` with the argument `/`: `NoPanic`; with `/a/.`: `TreeSound` |
| `fs/dir.c:433` | `dir.c:430`: counts the indirect blocks | the index is never advanced, so the loop does not end | `MCDir`, `ND = 1`: `NoPanic` |
| `fs/dir.c:247` | `dir.c:245`: the addresses in the table are loaded | also if there is no table yet: sector 0 of the disk is read as one | `MCDir`, `ND = 1` and a `Boot` of other values: `TreeSound` |
| `fs/inode.c:50` | `inode.c:46`: writes the inode to its place | its number is kept in 8 bits: inode 256 is written over inode 0 | `MCDir`, `NoWidth = 2`: `TreeSound` |
| `fs/fs.c:940` | `fs.c:936`: NULL on failure | the length of the whole path is compared with that of one name, in an ASSERT | `MCDir`, `OpendirMax = 1`: `NoPanic` |
| `fs/fs.c:946` | `dir.c:40`: a directory that is opened is read from its start | the static stream of the root goes on where the last reader of it stopped | `MCDir`, directory argument `/.`: `ListingComplete` |
| `boot/loader.s:193` | `fork.c:35`: the memory of every process is independent | CR0.WP is never set: a system call writes into a shared frame | `MCCow`, `SharedWrites = TRUE`: `Isolation` |
| `kernel/memory.c:926` | `memory.c:846`: sys_free releases what sys_malloc allocated | a block of two pages, one of them copied, has frames of two pools: the ASSERT of `mfree_page` fails | Cow, `NPages = 2`, `Sizes = {2}`: `NoPanic` |
| `kernel/memory.c:887` | `fork.c:32`: the child's descriptors manage its heap | the header of an inherited arena names the parent's list | `MCArena`, `Inherited = TRUE`: `HeldNotFree` |
| `device/ide.c:264` | `ide.c:279`: the lock guarantees that the interrupt belongs to this request | a write of several sectors interrupts once per sector, and the first ends it | `MCIde`: `CommandsSeparate` |
| `device/keyboard.c:150` | `keyboard.c:40`: the flags say whether the key is pressed | with both Shift keys held, releasing one clears the flag | `MCKeyboard`, `Keys <- TwoShifts`, no `Padded` or `Repeating` keys: `StatusIsHeld` |
| `device/keyboard.c:241` | `keyboard.c:239`: toggles when pressed again | a held Caps Lock toggles with every repetition | `MCKeyboard`, `Keys <- Caps`, `Repeating <- Caps`, no `Padded` keys: `StatusIsHeld` |

Found by reading, with no property of their own:

- `unlink("/c/x")` with a file `/c` deletes `/c` (`fs/fs.c:743`): `search_file`
  stops at the file and nobody compares how much of the path it walked.
- `opendir` of any path that starts with `/0` or `/.` returns the root
  (`fs/fs.c:945`).
- `buildin_touch` keeps its descriptor open; the model's "shell" holder of an
  inode is this descriptor.
- `sys_getcwd` in the root directory returns without releasing `io_buf`.
- `shell/shell.c:149` clears 512 bytes of the 64 of `cwd_cache`; `buildin_pwd` gives
  16 as the size of a longer buffer.
- `cmd_parse` stores the word that is one too many before it counts it
  (`shell/shell.c:106`), and a blank line is compared with commands through
  `argv[0] == NULL`. `readline` may store one byte behind the line
  (`shell/shell.c:34`).

## Not modelled

- The TLB. Page table entries are changed without `invlpg`, or with the address
  of a local variable; whether a stale entry is still cached is not visible in
  the source.
- `mem[]` is a `uint8_t`; the instances never have 256 sharers of a frame.
- A lost disk interrupt: the driver has no path for it.
- `partition_scan`, the layout of the superblock and the names of disks. Format and
  mount are modelled by the file system they leave.
- A power loss inside a call on directories: each call of `Directory` is one step.
  The channel's lock keeps two such calls from interleaving on the disk, which
  `FileTable` shows for one directory sector.
- What a device does with a command sent while it is busy: `Ide` lets it take the
  command and drop the earlier one.
- Boot order: init may run before `filesys_init` (`kernel/init.c:26`); the file
  modules start with a formatted, mounted partition.
- In the shell: line editing, splitting a line into words, `ps`, `clear`, `echo`.
- Console (a lock round output to video memory), strings and formatted output
  (sequential, no state), mbr, loader, tss, 8259 set-up.

## Plan

1. Done: `Sched` first, because every other part blocks and wakes through it;
   then the parts that wait (`IoQueue`, `Ide`, `FileTable`, `Process`), the
   memory they share (`Cow`, `Arena`, `Bitmap`), the keyboard; then the
   contents of files (`FileData`, `AppendFile`) and the tree (`Directory`).
2. Done: the proofs above.
3. Later: boot order, a loss of power inside a call on directories, and how many
blocks a loss of power can leave without an owner.
