------------------------------- MODULE Process -------------------------------
(***************************************************************************)
(* The life of a process: sys_fork (userprog/fork.c), sys_exit and         *)
(* sys_wait (userprog/wait_exit.c), thread_exit, the pid pool and          *)
(* thread_all_list (thread/thread.c), and the pages of the kernel heap     *)
(* these calls take and give back.                                         *)
(*                                                                         *)
(* A task is named by the page its PCB lies in.  System calls run with     *)
(* interrupts off and are split where they can block on a lock (the page   *)
(* pools in sys_fork, closing files in sys_exit); between two steps any    *)
(* process that is not asleep may go on.                                   *)
(***************************************************************************)
EXTENDS FiniteSets, KList, Bitmap

CONSTANTS
    BitmapPages, \* pages of a user address bitmap: DIV_ROUND_UP(len, PG_SIZE)
    FreedPages,  \* pages release_prog_resource frees of it: len / PG_SIZE
    MaxPid,      \* bits of the pid pool
    ExitCodes,   \* arguments of exit()
    MaxForks,    \* bound on calls of fork()
    MaxName      \* bound on the length of the names fork() makes

NPages == Size           \* pages of the kernel heap: bits of kernel_vaddr
Pages == 0..NPages       \* a scan for several bits also tests bit NPages
Main  == NPages + 1      \* the boot thread's PCB is not in the heap
Pcbs  == Pages \cup {Main}
None  == -1
Pids  == 1..MaxPid
HANGING == 4             \* enum task_status
NameLen == 16            \* sizeof(task_struct.name)

ASSUME ProcessAssumption ==
    /\ MaxPid \in Nat /\ MaxForks \in Nat /\ MaxName \in Nat
    /\ BitmapPages \in Nat /\ FreedPages \in Nat \ {0}
    /\ BitmapPages >= FreedPages /\ BitmapPages > 1
    /\ NPages >= BitmapPages + 3 /\ MaxPid >= 3
    /\ ExitCodes \subseteq Int

VARIABLES
    task,   \* the PCB in every page; Empty where there is none
    all,    \* thread_all_list
    pids,   \* pid_pool: the pids in use
    used,   \* kernel_vaddr: the pages in use
    ret,    \* what the last sys_wait stored through its status argument
    forks,  \* calls of fork() so far
    panic   \* an ASSERT or PANIC failed, or a NULL PCB was dereferenced

vars == <<task, all, pids, used, ret, forks, panic>>

(* status is "RUN" for RUNNING, READY and BLOCKED (Sched tells them apart). *)
(* at: user mode, or the point of the system call the task goes on from.    *)
Empty == [pid |-> None, ppid |-> None, status |-> "NONE", at |-> "user",
          bits |-> None, dir |-> None, code |-> 0, len |-> 0, child |-> None]

Kernel(id) == [Empty EXCEPT !.pid = id, !.status = "RUN", !.len = 4]

\* vaddr_get(PF_KERNEL, cnt): the lowest run of cnt free pages, or -1
Run(cnt) == bitmap_scan(used, cnt)

\* allocate_pid takes the lowest free bit.
FreePid == CHOOSE i \in Pids \ pids : \A j \in Pids \ pids : i <= j

Block(s, n) == s..s + n - 1

\* The first listed task that satisfies P: list_traversal
First(P(_)) ==
    LET hits == {i \in 1..Len(all) : P(all[i])}
    IN  IF hits = {} THEN None
        ELSE all[CHOOSE i \in hits : \A j \in hits : i <= j]

pid2thread(id) == First(LAMBDA t : task[t].pid = id)
find_child(id) == First(LAMBDA t : task[t].ppid = id)
find_hanging_child(id) ==
    First(LAMBDA t : task[t].ppid = id /\ task[t].status = "HANGING")

Proc(p) == ~panic /\ InList(p, all) /\ task[p].status = "RUN" /\ task[p].dir # None
IsInit(p) == task[p].pid = 1

-----------------------------------------------------------------------------
(* sys_fork, up to each call of get_kernel_pages. *)

\* The PCB page; but for the pids it is the parent's copy.
ForkPcb(p) ==
    /\ Proc(p) /\ task[p].at = "user"
    /\ forks < MaxForks /\ task[p].len + 5 <= MaxName
    /\ IsInit(p) => forks = 0       \* init() forks the shell and then waits
    /\ forks' = forks + 1
    /\ IF MapFull(used) \/ pids = Pids
       THEN panic' = TRUE /\ UNCHANGED <<task, pids, used>>
       ELSE LET c == Run(1) IN
            /\ used' = used \cup {c}
            /\ pids' = pids \cup {FreePid}
            /\ task' = [task EXCEPT
                  ![p].at = "fork1", ![p].child = c,
                  ![c] = [task[p] EXCEPT !.pid = FreePid, !.ppid = task[p].pid]]
            /\ UNCHANGED panic
    /\ UNCHANGED <<all, ret>>

\* Mutant: the child keeps the parent's bitmap.
ForkBitmap_Shared(p) ==
    /\ ~panic /\ task[p].at = "fork1" /\ task[p].child # None
    /\ task' = [task EXCEPT ![p].at = "fork2"]
    /\ UNCHANGED <<used, all, pids, ret, forks, panic>>

\* The address bitmap, then the name, still the parent's, grows by "_fork".
\* copy_process tests for 1, so a failure goes unnoticed and the child keeps the
\* copied pointer to the parent's bitmap.
ForkBitmap(p) ==
    /\ ~panic /\ task[p].at = "fork1" /\ task[p].child # None
    /\ LET b == Run(BitmapPages) IN
       IF MapFull(used) \/ b = None
       THEN /\ panic' = MapFull(used)
            /\ task' = [task EXCEPT ![p].at = "fork2"]
            /\ UNCHANGED used
       ELSE /\ panic' = (task[p].len >= NameLen)
            /\ task' = [task EXCEPT ![p].at = "fork2", ![task[p].child].bits = b,
                                    ![task[p].child].len = task[p].len + 5]
            /\ used' = used \cup Block(b, BitmapPages)
    /\ UNCHANGED <<all, pids, ret, forks>>

\* The page directory, then the child is complete and enters the lists.
ForkDir(p) ==
    /\ ~panic /\ task[p].at = "fork2" /\ task[p].child # None
    /\ LET c == task[p].child IN
       IF MapFull(used) \/ InList(c, all)
       THEN panic' = TRUE /\ UNCHANGED <<task, all, used>>
       ELSE /\ used' = used \cup {Run(1)}
            /\ task' = [task EXCEPT ![p].at = "user", ![p].child = None,
                                    ![c].dir = Run(1)]
            /\ all' = Append(all, c)
            /\ UNCHANGED panic
    /\ UNCHANGED <<pids, ret, forks>>

\* sys_exec names the process after the program (here of 4 characters).
Exec(p) ==
    /\ Proc(p) /\ task[p].at = "user" /\ ~IsInit(p) /\ task[p].len # 4
    /\ task' = [task EXCEPT ![p].len = 4]
    /\ UNCHANGED <<all, pids, used, ret, forks, panic>>

-----------------------------------------------------------------------------
\* Mutant: nobody is adopted.
Adopt_None(id) == task

\* Mutant: dead children are not adopted.
Adopt_Living(id) ==
    [t \in Pcbs |-> IF InList(t, all) /\ task[t].ppid = id /\ task[t].status # "HANGING"
                    THEN [task[t] EXCEPT !.ppid = 1] ELSE task[t]]

\* init_adopt_achild on every listed task
Adopt(id) ==
    [t \in Pcbs |-> IF InList(t, all) /\ task[t].ppid = id
                    THEN [task[t] EXCEPT !.ppid = 1] ELSE task[t]]

\* sys_exit: children go to init, then release_prog_resource
ExitBegin(p, code) ==
    /\ Proc(p) /\ task[p].at = "user" /\ ~IsInit(p)
    /\ panic' = (task[p].ppid = None)
    /\ task' = [Adopt(task[p].pid) EXCEPT ![p].at = "exit", ![p].code = code]
    /\ used' = used \ Block(task[p].bits, FreedPages)
    /\ UNCHANGED <<all, pids, ret, forks>>

\* Mutant: the waiting parent is not woken.
ExitEnd_NoWake(p) ==
    /\ Proc(p) /\ task[p].at = "exit"
    /\ task' = [task EXCEPT ![p].status = "HANGING"]
    /\ UNCHANGED <<all, pids, used, ret, forks, panic>>

\* ... and once the files are closed: wake the parent, hang
ExitEnd(p) ==
    /\ Proc(p) /\ task[p].at = "exit"
    /\ LET q == pid2thread(task[p].ppid) IN
       IF q = None
       THEN panic' = TRUE /\ UNCHANGED task
       ELSE /\ task' = [task EXCEPT
                  ![q].status = IF @ = "WAITING" THEN "RUN" ELSE @,
                  ![p].status = "HANGING"]
            /\ UNCHANGED panic
    /\ UNCHANGED <<all, pids, used, ret, forks>>

\* Mutant: release_pid is not called.
ThreadExit_KeepPid(c) ==
    /\ used' = used \ {task[c].dir, c}
    /\ all' = list_remove(c, all)
    /\ UNCHANGED pids

\* thread_exit(c, FALSE): page directory, PCB and pid are given back
ThreadExit(c) ==
    /\ used' = used \ {task[c].dir, c}
    /\ all' = list_remove(c, all)
    /\ pids' = pids \ {task[c].pid}

\* One turn of the loop of sys_wait
Wait(p) ==
    /\ Proc(p) /\ task[p].at \in {"user", "wait"}
    /\ IsInit(p) => forks > 0
    /\ LET c == find_hanging_child(task[p].pid) IN
       \/ /\ c # None
          /\ ret' = HANGING     \* *status = child_pcb->status
          /\ ThreadExit(c)
          /\ task' = [task EXCEPT ![p].at = "user", ![c] = Empty]
       \/ /\ c = None /\ find_child(task[p].pid) = None
          /\ task' = [task EXCEPT ![p].at = "user"]
          /\ UNCHANGED <<ret, all, pids, used>>
       \/ /\ c = None /\ find_child(task[p].pid) # None
          /\ task' = [task EXCEPT ![p].at = "wait", ![p].status = "WAITING"]
          /\ UNCHANGED <<ret, all, pids, used>>
    /\ UNCHANGED <<forks, panic>>

\* thread_exit(main, TRUE) at the end of main()
MainExit ==
    /\ ~panic /\ InList(Main, all)
    /\ all' = list_remove(Main, all)
    /\ pids' = pids \ {task[Main].pid}
    /\ task' = [task EXCEPT ![Main] = Empty]
    /\ UNCHANGED <<used, ret, forks, panic>>

-----------------------------------------------------------------------------
\* thread_init: init (process_execute), main and idle, with pids 1, 2 and 3
Init ==
    LET dir == BitmapPages + 1
        idle == BitmapPages + 2
    IN  /\ task = [t \in Pcbs |->
                      CASE t = 0    -> [Kernel(1) EXCEPT !.bits = 1, !.dir = dir]
                        [] t = Main -> Kernel(2)
                        [] t = idle -> Kernel(3)
                        [] OTHER    -> Empty]
        /\ all = <<0, Main, idle>>
        /\ pids = 1..3
        /\ used = 0..idle
        /\ ret = 0 /\ forks = 0 /\ panic = FALSE

\* What a process does without a choice: go on inside a system call, and init,
\* whose program is a loop, calls wait
Resume(p) ==
    \/ ForkBitmap(p) \/ ForkDir(p) \/ ExitEnd(p)
    \/ (task[p].at = "wait" \/ IsInit(p)) /\ Wait(p)

Next ==
    \/ MainExit
    \/ \E p \in Pages : \/ ForkPcb(p) \/ ForkBitmap(p) \/ ForkDir(p) \/ Exec(p)
                        \/ \E code \in ExitCodes : ExitBegin(p, code)
                        \/ ExitEnd(p) \/ Wait(p)

Spec == Init /\ [][Next]_vars

(* The scheduler does not starve (Sched, ReadyGetsCpu).                     *)
FairSpec == Spec /\ \A p \in Pages : WF_vars(Resume(p))

-----------------------------------------------------------------------------
(* Properties *)

Listed == {t \in Pcbs : InList(t, all)}

TaskType == [pid : Pids \cup {None}, ppid : Pids \cup {None},
             status : {"NONE", "RUN", "WAITING", "HANGING"},
             at : {"user", "fork1", "fork2", "exit", "wait"},
             bits : Pages \cup {None}, dir : Pages \cup {None},
             code : Int, len : Nat, child : Pages \cup {None}]

\* Every variable holds a value of the C type it stands for (task_struct,
\* pid_pool, thread_all_list).
TypeOK ==
    /\ task \in [Pcbs -> TaskType]
    /\ all \in Seq(Pcbs) /\ NoRepeat(all)
    /\ pids \subseteq Pids /\ used \subseteq Pages
    /\ ret \in {0, HANGING} /\ forks \in 0..MaxForks /\ panic \in BOOLEAN

\* The parent sys_exit looks up with pid2thread exists and is not NULL, a
\* process that exits has a parent, and no heap or pid request fails.
NoPanic == ~panic

\* A pid names one task: two PCBs in thread_all_list never share a pid, and a
\* pid is marked in the pool exactly while its task is listed or being forked,
\* across any number of exits and reuses of the lowest pid.
PidsUnique ==
    /\ \A s, t \in Listed : task[s].pid = task[t].pid => s = t
    /\ pids = {task[t].pid : t \in Listed}
              \cup {task[task[p].child].pid :
                        p \in {q \in Listed : task[q].child # None}}

\* Nobody is an orphan: the parent of every process is listed and has not
\* called exit, even if it called exit while the child was itself blocked in
\* exit (init_adopt_achild).
ParentAlive ==
    \A t \in Listed : task[t].ppid # None =>
        \E q \in Listed : /\ task[q].pid = task[t].ppid
                          /\ task[q].status # "HANGING" /\ task[q].at # "exit"

\* No exit is missed: a process asleep in sys_wait has a child left, and none
\* that is dead (sys_exit wakes the parent before it hangs).  init is the
\* exception that AdoptedReaped is about.
NoMissedExit ==
    \A p \in Listed : task[p].status = "WAITING" =>
        /\ \E c \in Listed : task[c].ppid = task[p].pid
        /\ ~IsInit(p) => \A c \in Listed :
               task[c].ppid = task[p].pid => task[c].status # "HANGING"

\* The listed task with this pid, dead, with a parent in Q
Zombie(id, Q) ==
    \E c \in Listed : /\ task[c].pid = id /\ task[c].status = "HANGING"
                      /\ \E p \in Q : task[p].pid = task[c].ppid

\* The pages a task owns: its PCB, its page directory, its address bitmap.
Owned(t) ==
    ({t} \cap Pages)
    \cup (IF task[t].dir = None THEN {} ELSE {task[t].dir})
    \cup (IF task[t].bits = None \/ task[t].at = "exit" THEN {}
          ELSE Block(task[t].bits, BitmapPages))

\* The pages of two tasks are disjoint and marked as used: no process keeps
\* another one's page directory, PCB or address bitmap (fork.c copies the
\* bitmap because address spaces are independent).
PagesDisjoint ==
    \A s \in Listed :
        /\ Owned(s) \subseteq used
        /\ \A t \in Listed \ {s} : Owned(s) \cap Owned(t) = {}

\* The three loops of bitmap_scan find the lowest run that fits, in every state
\* of the heap that fork, exit and wait leave behind.  If none fits the scan may
\* still return one that ends in the bit after the map.
ScanIsFirstFit ==
    ~MapFull(used) => \A cnt \in {1, 2, BitmapPages} :
        \/ bitmap_scan(used, cnt) = FirstFit(used, cnt)
        \/ FirstFit(used, cnt) = None /\ bitmap_scan(used, cnt) = Size + 1 - cnt

\* The pages in use are those of tasks that exist: when nobody is inside a
\* system call, exit and wait have given back all that fork took.
\* (The code does not have this property: README, "Disagreements".)
NoPageLeak ==
    (\A t \in Listed : task[t].at \in {"user", "wait", "exit"}) =>
        used = UNION {Owned(t) : t \in Listed}

\* init collects the zombies it adopted (main.c: init reaps without end).
\* (The code does not have this property: README, "Disagreements".)
AdoptedReaped ==
    \A id \in Pids :
        Zombie(id, {p \in Listed : IsInit(p)}) ~> ~Zombie(id, Listed)

\* sys_wait stores the exit status of the child it collects.
\* (The code does not have this property: README, "Disagreements".)
WaitDeliversStatus ==
    [][\A c \in Pages : InList(c, all) /\ Len(all') < Len(all)
                        /\ task[c].status = "HANGING" /\ task'[c] = Empty
                        => ret' = task[c].code]_vars

\* The name fits its buffer, which sys_fork asserts for the parent's name.
\* (The code does not have this property: README, "Disagreements".)
NameFits == \A t \in Listed : task[t].len < NameLen
=============================================================================
