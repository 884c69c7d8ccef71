-------------------------------- MODULE Sched --------------------------------
(***************************************************************************)
(* The single-CPU scheduler of thread/thread.c, the timer interrupt that   *)
(* drives it (device/timer.c) and the semaphores and recursive locks of    *)
(* thread/sync.c built on it.                                              *)
(*                                                                         *)
(* Only the running thread `cur' acts.  Code that runs with interrupts off *)
(* is one step up to the point where it gives up the CPU; code that runs   *)
(* with interrupts on (kernel threads, user mode) can be cut by the timer  *)
(* between any two steps.  Every gate of the IDT is an interrupt gate, so  *)
(* a system call runs with interrupts off (base[t] = FALSE) until it       *)
(* returns, blocks or yields.                                              *)
(***************************************************************************)
EXTENDS Naturals, KList

CONSTANTS
    Procs,      \* PCB slots of user processes
    KThreads,   \* kernel threads (the boot thread main): interrupts on
    Idle,       \* idle_thread
    Locks,      \* the kernel's locks (pool, console, disk, pid...)
    Nobody,     \* NULL in lock.holder
    Priority,   \* task_struct.priority of every task
    MaxDepth,   \* bound on nested acquires of one lock
    MaxSleep,   \* bound on sleep_ticks
    SleepIF     \* interrupt states in which mtime_sleep is called

Threads == Procs \cup KThreads
Tasks   == Threads \cup {Idle}

ASSUME TaskAssumption ==
    /\ Idle \notin Threads
    /\ Procs \cap KThreads = {}
    /\ Nobody \notin Tasks
    /\ KThreads # {}
ASSUME BoundAssumption ==
    /\ Priority \in [Tasks -> Nat]
    /\ MaxDepth \in Nat
    /\ MaxSleep \in Nat
    /\ SleepIF \subseteq BOOLEAN

VARIABLES
    cur,        \* running_thread()
    status,     \* task_struct.status; DIED also stands for "no PCB"
    ready,      \* thread_ready_list
    ticks,      \* task_struct.ticks, what is left of the time slice
    pc,         \* where the task is inside the primitives below
    base,       \* does the task's own code run with interrupts on?
    left,       \* sleep_ticks - (ticks - Old_ticks) of ticks_to_sleep
    want,       \* the lock a task at down, sema, got or up works on
    value,      \* semaphore.value
    waiters,    \* semaphore.waiters
    holder,     \* lock.holder
    repeat,     \* lock.holder_repeat_nr
    held,       \* lock_acquire calls returned minus lock_release calls made
    panic       \* an ASSERT or PANIC was hit: the machine spins

schedVars == <<cur, status, ready, ticks, panic>>
lockVars  == <<value, waiters, holder, repeat, held, want>>
vars == <<cur, status, ready, ticks, pc, base, left, want,
          value, waiters, holder, repeat, held, panic>>

Statuses == {"RUNNING", "READY", "BLOCKED", "WAITING", "HANGING", "DIED"}
Asleep   == {"BLOCKED", "WAITING", "HANGING"}
Points   == {"code", "down", "sema", "got", "up", "sleep", "hlt"}

\* A thread resumed inside sema_down still has interrupts off.
IntrOn == base[cur] /\ pc[cur] # "sema"

-----------------------------------------------------------------------------
\* Mutant: the preempted thread goes to the front of the ready list.
Schedule_Front(st, rd, tk, bad) ==
    LET run == st[cur] = "RUNNING"
        rd1 == IF run THEN <<cur>> \o rd ELSE rd
        st1 == IF run THEN [st EXCEPT ![cur] = "READY"] ELSE st
        none == rd1 = << >>
        rd2 == IF none THEN <<Idle>> ELSE rd1
    IN  /\ panic' = bad
        /\ ticks' = IF run THEN [tk EXCEPT ![cur] = Priority[cur]] ELSE tk
        /\ cur' = Head(rd2)
        /\ ready' = Tail(rd2)
        /\ status' = [st1 EXCEPT ![Head(rd2)] = "RUNNING"]

(* schedule(), called with the status, ready list and time slices its       *)
(* caller has just written; bad says whether an ASSERT before it failed.    *)
Schedule(st, rd, tk, bad) ==
    LET run == st[cur] = "RUNNING"
        rd1 == IF run THEN Append(rd, cur) ELSE rd
        st1 == IF run THEN [st EXCEPT ![cur] = "READY"] ELSE st
        none == rd1 = << >>
        rd2 == IF none THEN <<Idle>> ELSE rd1
        st2 == IF none THEN [st1 EXCEPT ![Idle] = "READY"] ELSE st1
    IN  /\ panic' = (\/ bad
                     \/ run /\ InList(cur, rd)
                     \/ none /\ st1[Idle] \notin Asleep)
        /\ ticks' = IF run THEN [tk EXCEPT ![cur] = Priority[cur]] ELSE tk
        /\ cur' = Head(rd2)
        /\ ready' = Tail(rd2)
        /\ status' = [st2 EXCEPT ![Head(rd2)] = "RUNNING"]

\* thread_block(stat)
ThreadBlock(stat, bad) ==
    Schedule([status EXCEPT ![cur] = stat], ready, ticks, bad)

\* Mutant: the status of the woken thread is not set to READY.
ThreadUnblock_KeepStatus(t, bad) ==
    /\ panic' = (bad \/ status[t] \notin Asleep \/ InList(t, ready))
    /\ ready' = <<t>> \o ready
    /\ UNCHANGED <<cur, ticks, status>>

\* thread_unblock(t): to the front of the ready list
ThreadUnblock(t, bad) ==
    /\ panic' = (bad \/ status[t] \notin Asleep \/ InList(t, ready))
    /\ status' = [status EXCEPT ![t] = "READY"]
    /\ ready' = <<t>> \o ready
    /\ UNCHANGED <<cur, ticks>>

\* Mutant: the thread is queued but left RUNNING, so schedule queues it again.
ThreadYield_Running ==
    Schedule(status, Append(ready, cur), ticks, InList(cur, ready))

\* thread_yield()
ThreadYield ==
    Schedule([status EXCEPT ![cur] = "READY"], Append(ready, cur), ticks,
             InList(cur, ready))

-----------------------------------------------------------------------------
(* The timer interrupt.  hlt ends with the interrupt.                       *)
AfterHlt == [pc EXCEPT ![cur] = IF @ = "hlt" THEN "code" ELSE @]

\* Mutant: the slice is decremented before it is tested.
Tick_DecrementFirst ==
    /\ ~panic /\ IntrOn
    /\ left' = [t \in Tasks |-> IF left[t] = 0 THEN 0 ELSE left[t] - 1]
    /\ pc' = AfterHlt
    /\ IF ticks[cur] - 1 = 0
       THEN Schedule(status, ready, ticks, FALSE)
       ELSE /\ ticks' = [ticks EXCEPT ![cur] = @ - 1]
            /\ UNCHANGED <<cur, status, ready, panic>>
    /\ UNCHANGED <<base, lockVars>>

\* Mutant: the global tick count is not advanced.
Tick_NoCount ==
    /\ ~panic /\ IntrOn
    /\ pc' = AfterHlt
    /\ IF ticks[cur] = 0
       THEN Schedule(status, ready, ticks, FALSE)
       ELSE /\ ticks' = [ticks EXCEPT ![cur] = @ - 1]
            /\ UNCHANGED <<cur, status, ready, panic>>
    /\ UNCHANGED <<base, left, lockVars>>

Tick ==
    /\ ~panic /\ IntrOn
    /\ left' = [t \in Tasks |-> IF left[t] = 0 THEN 0 ELSE left[t] - 1]
    /\ pc' = AfterHlt
    /\ IF ticks[cur] = 0
       THEN Schedule(status, ready, ticks, FALSE)
       ELSE /\ ticks' = [ticks EXCEPT ![cur] = @ - 1]
            /\ UNCHANGED <<cur, status, ready, panic>>
    /\ UNCHANGED <<base, lockVars>>

(* A device interrupt whose handler wakes the thread that waits for it      *)
(* (disk_done, or ioq_putchar from the keyboard).                           *)
DeviceIrq(t) ==
    /\ ~panic /\ IntrOn
    /\ t # Idle /\ status[t] = "BLOCKED" /\ pc[t] = "code"
    /\ ThreadUnblock(t, FALSE)
    /\ pc' = AfterHlt
    /\ UNCHANGED <<base, left, lockVars>>

-----------------------------------------------------------------------------
AtCode(t) == ~panic /\ cur = t /\ t # Idle /\ pc[t] = "code"

\* Kernel code: a kernel thread, or a process inside a system call.
InKernel(t) == AtCode(t) /\ (t \in KThreads \/ ~base[t])

HoldsNone(t) == \A l \in Locks : held[t][l] = 0

SysEnter(t) ==
    /\ AtCode(t) /\ t \in Procs /\ base[t]
    /\ base' = [base EXCEPT ![t] = FALSE]
    /\ UNCHANGED <<schedVars, lockVars, pc, left>>

SysReturn(t) ==
    /\ AtCode(t) /\ t \in Procs /\ ~base[t] /\ HoldsNone(t)
    /\ base' = [base EXCEPT ![t] = TRUE]
    /\ UNCHANGED <<schedVars, lockVars, pc, left>>

\* Mutant: any holder counts as the caller.
LockAcquire_AnyHolder(t, l) ==
    /\ InKernel(t) /\ held[t][l] < MaxDepth
    /\ IF holder[l] = Nobody
       THEN /\ pc' = [pc EXCEPT ![t] = "down"]
            /\ want' = [want EXCEPT ![t] = l]
            /\ UNCHANGED <<repeat, held>>
       ELSE /\ repeat' = [repeat EXCEPT ![l] = @ + 1]
            /\ held' = [held EXCEPT ![t][l] = @ + 1]
            /\ UNCHANGED <<pc, want>>
    /\ UNCHANGED <<schedVars, base, left, value, waiters, holder>>

(* lock_acquire: the test of holder, sema_down and the two assignments are  *)
(* three steps, because kernel threads run them with interrupts on.         *)
LockAcquire(t, l) ==
    /\ InKernel(t) /\ held[t][l] < MaxDepth
    /\ IF holder[l] # t
       THEN /\ pc' = [pc EXCEPT ![t] = "down"]
            /\ want' = [want EXCEPT ![t] = l]
            /\ UNCHANGED <<repeat, held>>
       ELSE /\ repeat' = [repeat EXCEPT ![l] = @ + 1]
            /\ held' = [held EXCEPT ![t][l] = @ + 1]
            /\ UNCHANGED <<pc, want>>
    /\ UNCHANGED <<schedVars, base, left, value, waiters, holder>>

(* One turn of the while loop of sema_down: the first ("down") or the one   *)
(* after a wake-up ("sema").                                                *)
SemaDown(t) ==
    /\ ~panic /\ cur = t /\ pc[t] \in {"down", "sema"}
    /\ LET l == want[t] IN
       IF value[l] = 0
       THEN /\ waiters' = [waiters EXCEPT ![l] = Append(@, t)]
            /\ pc' = [pc EXCEPT ![t] = "sema"]
            /\ ThreadBlock("BLOCKED", InList(t, waiters[l]))
            /\ UNCHANGED value
       ELSE /\ value' = [value EXCEPT ![l] = @ - 1]
            /\ panic' = (value[l] # 1)
            /\ pc' = [pc EXCEPT ![t] = "got"]
            /\ UNCHANGED <<cur, status, ready, ticks, waiters>>
    /\ UNCHANGED <<base, left, want, holder, repeat, held>>

SetHolder(t) ==
    /\ ~panic /\ cur = t /\ pc[t] = "got"
    /\ LET l == want[t] IN
       /\ holder' = [holder EXCEPT ![l] = t]
       /\ panic' = (repeat[l] # 0)
       /\ repeat' = [repeat EXCEPT ![l] = 1]
       /\ held' = [held EXCEPT ![t][l] = @ + 1]
    /\ pc' = [pc EXCEPT ![t] = "code"]
    /\ UNCHANGED <<cur, status, ready, ticks, base, left, want, value, waiters>>

\* Mutant: the depth is not tested, the first release frees the lock.
LockRelease_NoDepth(t, l) ==
    /\ InKernel(t) /\ held[t][l] > 0
    /\ held' = [held EXCEPT ![t][l] = @ - 1]
    /\ panic' = (holder[l] # t \/ repeat[l] = 0)
    /\ holder' = [holder EXCEPT ![l] = Nobody]
    /\ repeat' = [repeat EXCEPT ![l] = 0]
    /\ pc' = [pc EXCEPT ![t] = "up"]
    /\ want' = [want EXCEPT ![t] = l]
    /\ UNCHANGED <<cur, status, ready, ticks, base, left, value, waiters>>

(* lock_release by a caller that has an acquire outstanding: the holder is  *)
(* cleared first, the semaphore is raised in a later step.                  *)
LockRelease(t, l) ==
    /\ InKernel(t) /\ held[t][l] > 0
    /\ held' = [held EXCEPT ![t][l] = @ - 1]
    /\ panic' = (holder[l] # t \/ repeat[l] = 0)
    /\ IF repeat[l] > 1
       THEN /\ repeat' = [repeat EXCEPT ![l] = @ - 1]
            /\ UNCHANGED <<holder, pc, want>>
       ELSE /\ holder' = [holder EXCEPT ![l] = Nobody]
            /\ repeat' = [repeat EXCEPT ![l] = 0]
            /\ pc' = [pc EXCEPT ![t] = "up"]
            /\ want' = [want EXCEPT ![t] = l]
    /\ UNCHANGED <<cur, status, ready, ticks, base, left, value, waiters>>

\* Mutant: nobody is woken.
SemaUp_NoWake(t) ==
    /\ ~panic /\ cur = t /\ pc[t] = "up"
    /\ value' = [value EXCEPT ![want[t]] = @ + 1]
    /\ pc' = [pc EXCEPT ![t] = "code"]
    /\ UNCHANGED <<schedVars, waiters, base, left, want, holder, repeat, held>>

SemaUp(t) ==
    /\ ~panic /\ cur = t /\ pc[t] = "up"
    /\ LET l == want[t] IN
       /\ value' = [value EXCEPT ![l] = @ + 1]
       /\ IF waiters[l] = << >>
          THEN /\ panic' = (value[l] # 0)
               /\ UNCHANGED <<cur, status, ready, ticks, waiters>>
          ELSE /\ ThreadUnblock(Head(waiters[l]), value[l] # 0)
               /\ waiters' = [waiters EXCEPT ![l] = Tail(@)]
    /\ pc' = [pc EXCEPT ![t] = "code"]
    /\ UNCHANGED <<base, left, want, holder, repeat, held>>

-----------------------------------------------------------------------------
\* mtime_sleep, called by busy_wait of the disk driver
Sleep(t, n) ==
    /\ InKernel(t) /\ base[t] \in SleepIF
    /\ left' = [left EXCEPT ![t] = n]
    /\ pc' = [pc EXCEPT ![t] = "sleep"]
    /\ UNCHANGED <<schedVars, lockVars, base>>

\* One turn of the loop of ticks_to_sleep
SleepLoop(t) ==
    /\ ~panic /\ cur = t /\ pc[t] = "sleep"
    /\ IF left[t] = 0
       THEN pc' = [pc EXCEPT ![t] = "code"] /\ UNCHANGED schedVars
       ELSE ThreadYield /\ UNCHANGED pc
    /\ UNCHANGED <<lockVars, base, left>>

\* Blocking for a device: ioq_wait, or sema_down(disk_done); locks may be held.
BlockForDevice(t) ==
    /\ InKernel(t)
    /\ ThreadBlock("BLOCKED", FALSE)
    /\ UNCHANGED <<lockVars, pc, base, left>>

\* sys_wait without a dead child (WAITING), the end of sys_exit (HANGING)
BlockInSyscall(t, stat) ==
    /\ InKernel(t) /\ t \in Procs /\ HoldsNone(t)
    /\ ThreadBlock(stat, FALSE)
    /\ UNCHANGED <<lockVars, pc, base, left>>

\* pipe_read or pipe_write wakes the thread that waits at the other end of the
\* pipe (wakeup in ioqueue.c)
WakePeer(t, u) ==
    /\ InKernel(t) /\ t \in Procs /\ status[u] = "BLOCKED" /\ pc[u] = "code"
    /\ ThreadUnblock(u, FALSE)
    /\ UNCHANGED <<lockVars, pc, base, left>>

\* sys_exit wakes the parent that waits
WakeParent(t, p) ==
    /\ InKernel(t) /\ t \in Procs /\ status[p] = "WAITING"
    /\ ThreadUnblock(p, FALSE)
    /\ UNCHANGED <<lockVars, pc, base, left>>

\* sys_fork: a new process at the end of the ready list
StartProcess(t, c) ==
    /\ InKernel(t) /\ t \in Procs /\ c \in Procs /\ status[c] = "DIED"
    /\ status' = [status EXCEPT ![c] = "READY"]
    /\ ready' = Append(ready, c)
    /\ ticks' = [ticks EXCEPT ![c] = Priority[c]]
    /\ base' = [base EXCEPT ![c] = TRUE]
    /\ panic' = InList(c, ready)
    /\ UNCHANGED <<cur, lockVars, pc, left>>

\* thread_exit(child, false) from sys_wait
Reap(t, c) ==
    /\ InKernel(t) /\ t \in Procs /\ status[c] = "HANGING"
    /\ status' = [status EXCEPT ![c] = "DIED"]
    /\ ready' = IF InList(c, ready) THEN list_remove(c, ready) ELSE ready
    /\ UNCHANGED <<cur, ticks, panic, lockVars, pc, base, left>>

\* thread_exit(main, true) at the end of main()
ExitMain(t) ==
    /\ InKernel(t) /\ t \in KThreads /\ HoldsNone(t)
    /\ Schedule([status EXCEPT ![t] = "DIED"], ready, ticks, FALSE)
    /\ UNCHANGED <<lockVars, pc, base, left>>

\* The loop of idle(): block, and once woken hlt until an interrupt
IdleBlock ==
    /\ ~panic /\ cur = Idle /\ pc[Idle] = "code"
    /\ pc' = [pc EXCEPT ![Idle] = "hlt"]
    /\ ThreadBlock("BLOCKED", FALSE)
    /\ UNCHANGED <<lockVars, base, left>>

-----------------------------------------------------------------------------
(* After thread_init: main runs, init and idle are ready, and no other PCB  *)
(* exists.                                                                  *)
Init ==
    /\ cur \in KThreads
    /\ \E p \in Procs :
          /\ ready = <<p, Idle>>
          /\ status = [t \in Tasks |-> IF t = cur THEN "RUNNING"
                                       ELSE IF t \in {p, Idle} THEN "READY"
                                       ELSE "DIED"]
    /\ ticks = Priority
    /\ pc = [t \in Tasks |-> "code"]
    /\ base = [t \in Tasks |-> TRUE]
    /\ left = [t \in Tasks |-> 0]
    /\ want \in [Tasks -> Locks]
    /\ \A t, u \in Tasks : want[t] = want[u]
    /\ value = [l \in Locks |-> 1]
    /\ waiters = [l \in Locks |-> << >>]
    /\ holder = [l \in Locks |-> Nobody]
    /\ repeat = [l \in Locks |-> 0]
    /\ held = [t \in Tasks |-> [l \in Locks |-> 0]]
    /\ panic = FALSE

\* Steps a task that is on the CPU takes without a choice
Continue(t) == SemaDown(t) \/ SetHolder(t) \/ SemaUp(t) \/ SleepLoop(t)

Next ==
    \/ Tick
    \/ IdleBlock
    \/ \E t \in Threads :
          \/ DeviceIrq(t)
          \/ Continue(t)
          \/ SysEnter(t)
          \/ SysReturn(t)
          \/ \E l \in Locks : LockAcquire(t, l) \/ LockRelease(t, l)
          \/ \E n \in 1..MaxSleep : Sleep(t, n)
          \/ BlockForDevice(t)
          \/ \E stat \in {"WAITING", "HANGING"} : BlockInSyscall(t, stat)
          \/ \E u \in Procs : \/ WakePeer(t, u) \/ WakeParent(t, u)
                              \/ StartProcess(t, u) \/ Reap(t, u)
          \/ ExitMain(t)

Spec == Init /\ [][Next]_vars

(***************************************************************************)
(* Fairness.  The 8259 latches IRQ0, so the timer interrupt is delivered   *)
(* if interrupts are enabled again and again (SF).  A thread that gets the *)
(* CPU again and again executes its next instruction (SF per thread), code *)
(* inside a system call ends, releases what it acquired, and devices       *)
(* answer.                                                                 *)
(***************************************************************************)
Fairness ==
    /\ SF_vars(Tick)
    /\ WF_vars(IdleBlock)
    /\ \A t \in Threads :
          /\ SF_vars(Continue(t))
          /\ SF_vars(SysReturn(t))
          /\ SF_vars(\E l \in Locks : LockRelease(t, l))
          /\ SF_vars(DeviceIrq(t))

FairSpec == Spec /\ Fairness

-----------------------------------------------------------------------------
(* Properties *)

\* Every variable holds a value of the C type it stands for; a semaphore used
\* by a lock stays in {0, 1} (struct task_struct, lock and semaphore).
TypeOK ==
    /\ cur \in Tasks
    /\ status \in [Tasks -> Statuses]
    /\ ready \in Seq(Tasks)
    /\ ticks \in [Tasks -> Nat]
    /\ pc \in [Tasks -> Points]
    /\ base \in [Tasks -> BOOLEAN]
    /\ left \in [Tasks -> Nat]
    /\ want \in [Tasks -> Locks]
    /\ value \in [Locks -> {0, 1}]
    /\ waiters \in [Locks -> Seq(Tasks)]
    /\ holder \in [Locks -> Tasks \cup {Nobody}]
    /\ repeat \in [Locks -> Nat]
    /\ held \in [Tasks -> [Locks -> Nat]]
    /\ panic \in BOOLEAN

\* No ASSERT or PANIC of schedule, thread_block, thread_unblock, thread_yield,
\* thread_start, sema_down, sema_up, lock_acquire or lock_release fails:
\* nobody is queued twice, idle is asleep whenever schedule needs it, a woken
\* thread was asleep, a lock is released by its holder only.
NoPanic == ~panic

\* thread_ready_list holds exactly the READY tasks, each once, and the CPU
\* belongs to the only RUNNING task: no runnable task is ever forgotten and
\* no sleeping or dead one can be dispatched.
ReadyListExact ==
    /\ NoRepeat(ready)
    /\ \A t \in Tasks : InList(t, ready) <=> status[t] = "READY"
    /\ \A t \in Tasks : status[t] = "RUNNING" <=> t = cur

\* Mutual exclusion and recursion of lock_acquire / lock_release: when a
\* thread has acquires of l outstanding, it is the recorded holder, the
\* recorded depth is its own, and no other thread is inside.
MutualExclusion ==
    \A l \in Locks : \A t \in Tasks :
        held[t][l] > 0 => /\ holder[l] = t
                          /\ repeat[l] = held[t][l]
                          /\ \A u \in Tasks \ {t} : held[u][l] = 0

\* sema_up wakes one waiter and raises the value, and the woken thread has to
\* win the value again: if a lock is free while threads sleep in its waiters,
\* a woken thread is on its way to take it (no lost wake-up).
NoLostWakeup ==
    \A l \in Locks :
        value[l] = 1 /\ waiters[l] # << >> =>
            \E t \in Tasks : /\ pc[t] = "sema" /\ want[t] = l
                             /\ status[t] \in {"READY", "RUNNING"}

\* The list nodes are shared: general_tag links a task into the ready list or
\* into one waiters list, never into two lists at once (task_struct has one
\* general_tag).
OneListPerTask ==
    \A t \in Tasks : \A l \in Locks : InList(t, waiters[l]) =>
        /\ ~InList(t, ready)
        /\ \A m \in Locks \ {l} : ~InList(t, waiters[m])

\* A step of one thread never takes a lock away from another: the holder of
\* lock l changes only through NULL, and only by the holder's own step.
HolderChangesThroughNobody ==
    [][\A l \in Locks : holder'[l] # holder[l] =>
          \/ holder[l] = Nobody /\ holder'[l] = cur
          \/ holder[l] = cur /\ holder'[l] = Nobody]_vars

\* The locks of sync.c, with their non-atomic acquire and release, implement
\* recursive mutual-exclusion locks whose operations are atomic.
RL == INSTANCE RecursiveLock
ImplementsRecursiveLock == RL!Spec

\* Round robin with wake-ups pushed to the front does not starve: a READY
\* thread gets the CPU (schedule, thread_unblock, intr_timer_handler).
ReadyGetsCpu ==
    \A t \in Threads : (status[t] = "READY") ~> (status[t] # "READY")

\* A thread queued on a lock is taken off the queue again: sema_up pops the
\* waiters in order.
WaiterIsWoken ==
    \A t \in Threads : \A l \in Locks :
        InList(t, waiters[l]) ~> ~InList(t, waiters[l])

\* mtime_sleep ends: the disk driver's busy_wait relies on ticks passing while
\* ticks_to_sleep yields.
SleepEnds ==
    \A t \in Threads : (pc[t] = "sleep") ~> (pc[t] # "sleep")
=============================================================================
