--------------------------------- MODULE Ide ---------------------------------
(***************************************************************************)
(* The disk driver of device/ide.c: requests that are cut into commands of *)
(* at most 256 sectors, the channel's lock, the flag expecting_intr, the   *)
(* semaphore disk_done and the interrupt handler, against an ATA device.   *)
(*                                                                         *)
(* The driver runs inside system calls with interrupts off: the thread     *)
(* `run' keeps the CPU until it blocks or yields, and interrupts are taken *)
(* while another thread is outside the kernel or idle has the CPU.  A      *)
(* thread that is "away" is blocked for a reason that is not the disk's.   *)
(* The lock is one step here (Sched shows that it excludes and that a      *)
(* waiter is woken).                                                       *)
(*                                                                         *)
(* The device asserts INTRQ after every sector (a read: when the sector    *)
(* can be taken; a write: when it is stored) and takes or hands out all    *)
(* sectors of a command at once, as the driver transfers them.  Reading    *)
(* the status register or writing a command clears INTRQ.  A command given *)
(* to a busy device is taken, and the earlier one abandoned.               *)
(***************************************************************************)
EXTENDS Integers, FiniteSets

CONSTANTS
    Threads,    \* threads that use the channel
    Reads,      \* values of sec_cnt in ide_read
    Writes,     \* values of sec_cnt in ide_write
    MaxOp,      \* sectors of one command: 256, 0 in the 8-bit register
    TimeLimit,  \* tests of the status in one busy_wait: 31999
    Nobody      \* NULL

ASSUME IdeAssumption ==
    /\ Reads \cup Writes \subseteq Nat \ {0}
    /\ {MaxOp, TimeLimit} \subseteq Nat \ {0} /\ Nobody \notin Threads

VARIABLES
    pc,         \* where a thread is in ide_read or ide_write
    op,         \* "read" or "write"
    cnt,        \* sec_cnt
    done,       \* secs_done
    tries,      \* tests busy_wait has made
    moved,      \* sectors the call has transferred (history)
    holder,     \* the channel's lock
    run,        \* the thread that has the CPU inside the driver
    expecting,  \* channel->expecting_intr
    value,      \* disk_done.value
    dev,        \* the device: idle, busy, or data (DRQ)
    todo,       \* sectors of the command the device has not finished
    wrote,      \* sectors of the last command, if it was a write (history)
    intrq,      \* the device's interrupt line
    irr,        \* the interrupt controller has an edge to deliver
    panic       \* an ASSERT or PANIC was hit

thread == <<pc, op, cnt, done, tries, moved>>
device == <<dev, todo, wrote, intrq, irr>>
vars == <<pc, op, cnt, done, tries, moved, holder, run, expecting, value,
          dev, todo, wrote, intrq, irr, panic>>

Less(m, n) == IF m < n THEN m ELSE n

\* Mutant: a request is not cut into commands.
SecsOp_Uncut(t) == cnt[t] - done[t]

\* secs_op, what the 8-bit register keeps of it, and what 0 stands for
SecsOp(t) == Less(cnt[t] - done[t], MaxOp)
Register(n) == n % MaxOp
Sectors(r) == IF r = 0 THEN MaxOp ELSE r

At(t, p) == ~panic /\ pc[t] = p /\ run \in {t, Nobody}
Go(t, p) == pc' = [pc EXCEPT ![t] = p]

\* A thread asleep in busy_wait is READY and keeps idle from running: then
\* interrupts are taken, and ticks counted, only while another one is outside.
SomeoneOut == \E t \in Threads : pc[t] = "out"
InterruptsOn == /\ ~panic /\ run = Nobody
                /\ SomeoneOut \/ \A t \in Threads : pc[t] # "nap"

-----------------------------------------------------------------------------
\* A thread blocks elsewhere (wait, a pipe, the keyboard) and is woken.
Leave(t) ==
    /\ ~panic /\ run = Nobody /\ pc[t] = "out"
    /\ Go(t, "away")
    /\ UNCHANGED <<op, cnt, done, tries, moved, holder, run, expecting, value, device, panic>>

Back(t) ==
    /\ InterruptsOn /\ pc[t] = "away"
    /\ Go(t, "out")
    /\ UNCHANGED <<op, cnt, done, tries, moved, holder, run, expecting, value, device, panic>>

Call(t, o, n) ==
    /\ ~panic /\ run = Nobody /\ pc[t] = "out"
    /\ Go(t, "lock")
    /\ op' = [op EXCEPT ![t] = o]
    /\ cnt' = [cnt EXCEPT ![t] = n]
    /\ done' = [done EXCEPT ![t] = 0]
    /\ moved' = [moved EXCEPT ![t] = 0]
    /\ UNCHANGED <<tries, holder, run, expecting, value, device, panic>>

Acquire(t) ==
    /\ At(t, "lock") /\ holder = Nobody
    /\ holder' = t /\ run' = t
    /\ Go(t, "issue")
    /\ UNCHANGED <<op, cnt, done, tries, moved, expecting, value, device, panic>>

\* Mutant: expecting_intr is not set.
Issue_NotExpecting(t) ==
    /\ At(t, "issue") /\ done[t] < cnt[t]
    /\ dev' = "busy"
    /\ todo' = Sectors(Register(SecsOp(t)))
    /\ wrote' = IF op[t] = "read" THEN 0 ELSE SecsOp(t)
    /\ intrq' = FALSE /\ irr' = FALSE
    /\ tries' = [tries EXCEPT ![t] = 0]
    /\ Go(t, IF op[t] = "read" THEN "sema" ELSE "poll")
    /\ UNCHANGED <<op, cnt, done, moved, holder, run, expecting, value, panic>>

\* select_sector and cmd_out
Issue(t) ==
    /\ At(t, "issue") /\ done[t] < cnt[t]
    /\ expecting' = TRUE
    /\ dev' = "busy"
    /\ todo' = Sectors(Register(SecsOp(t)))
    /\ wrote' = IF op[t] = "read" THEN 0 ELSE SecsOp(t)
    /\ intrq' = FALSE /\ irr' = FALSE
    /\ tries' = [tries EXCEPT ![t] = 0]
    /\ Go(t, IF op[t] = "read" THEN "sema" ELSE "poll")
    /\ UNCHANGED <<op, cnt, done, moved, holder, run, value, panic>>

\* Mutant: the driver polls and does not wait for the interrupt.
SemaDown_Skip(t) ==
    /\ At(t, "sema")
    /\ run' = t
    /\ Go(t, IF op[t] = "read" THEN "poll" ELSE "issue")
    /\ done' = [done EXCEPT ![t] = IF op[t] = "read" THEN @ ELSE @ + SecsOp(t)]
    /\ UNCHANGED <<op, cnt, tries, moved, holder, expecting, value, device, panic>>

\* sema_down(&disk_done)
SemaDown(t) ==
    /\ At(t, "sema")
    /\ IF value = 0
       THEN run' = Nobody /\ UNCHANGED <<value, pc, done>>
       ELSE /\ value' = 0 /\ run' = t
            /\ Go(t, IF op[t] = "read" THEN "poll" ELSE "issue")
            /\ done' = [done EXCEPT ![t] = IF op[t] = "read" THEN @ ELSE @ + SecsOp(t)]
    /\ UNCHANGED <<op, cnt, tries, moved, holder, expecting, device, panic>>

\* busy_wait tests the status; if the device is busy it sleeps for a tick.
Poll(t) ==
    /\ At(t, "poll")
    /\ intrq' = FALSE /\ irr' = FALSE
    /\ IF dev = "busy"
       THEN /\ run' = Nobody
            /\ tries' = [tries EXCEPT ![t] = @ + 1]
            /\ Go(t, "nap")
            /\ UNCHANGED panic
       ELSE /\ panic' = (dev # "data")
            /\ run' = t
            /\ Go(t, "data")
            /\ UNCHANGED tries
    /\ UNCHANGED <<op, cnt, done, moved, holder, expecting, value, dev, todo, wrote>>

\* mtime_sleep in busy_wait returns once another thread has run with
\* interrupts on; after the last turn the request ends in PANIC.
Wake(t) ==
    /\ At(t, "nap") /\ SomeoneOut
    /\ IF tries[t] >= TimeLimit
       THEN panic' = TRUE /\ UNCHANGED pc
       ELSE Go(t, "poll") /\ UNCHANGED panic
    /\ UNCHANGED <<op, cnt, done, tries, moved, holder, run, expecting, value, device>>

\* read_from_sector, write2sector
Transfer(t) ==
    /\ At(t, "data")
    /\ moved' = [moved EXCEPT ![t] = @ + Sectors(Register(SecsOp(t)))]
    /\ IF op[t] = "read"
       THEN /\ dev' = "idle" /\ todo' = 0
            /\ intrq' = (todo > 1) /\ irr' = (todo > 1)
            /\ done' = [done EXCEPT ![t] = @ + SecsOp(t)]
            /\ Go(t, "issue")
       ELSE /\ dev' = "busy"
            /\ Go(t, "sema")
            /\ UNCHANGED <<done, todo, intrq, irr>>
    /\ UNCHANGED <<op, cnt, tries, holder, run, expecting, value, wrote, panic>>

Return(t) ==
    /\ At(t, "issue") /\ done[t] >= cnt[t]
    /\ holder' = Nobody /\ run' = Nobody
    /\ Go(t, "out")
    /\ UNCHANGED <<op, cnt, done, tries, moved, expecting, value, device, panic>>

\* Mutant: expecting_intr is not cleared.
intr_hd_handler_Again ==
    /\ InterruptsOn /\ irr
    /\ IF expecting
       THEN /\ value' = value + 1 /\ panic' = (value # 0)
            /\ intrq' = FALSE
       ELSE UNCHANGED <<value, panic, intrq>>
    /\ irr' = FALSE
    /\ UNCHANGED <<thread, holder, run, expecting, dev, todo, wrote>>

intr_hd_handler ==
    /\ InterruptsOn /\ irr
    /\ IF expecting
       THEN /\ expecting' = FALSE
            /\ value' = value + 1 /\ panic' = (value # 0)
            /\ intrq' = FALSE
       ELSE UNCHANGED <<expecting, value, panic, intrq>>
    /\ irr' = FALSE
    /\ UNCHANGED <<thread, holder, run, dev, todo, wrote>>

-----------------------------------------------------------------------------
(* The device. *)
Assert == intrq' = TRUE /\ irr' = (irr \/ ~intrq)

\* The thread whose command the device works on
Owner == {t \in Threads : pc[t] \in {"sema", "poll", "nap", "data"} /\ holder = t}

\* The first sector can be taken.
ReadReady ==
    /\ ~panic /\ dev = "busy" /\ \E t \in Owner : op[t] = "read"
    /\ dev' = "data" /\ Assert
    /\ UNCHANGED <<thread, holder, run, expecting, value, todo, wrote, panic>>

\* The device asks for data; no interrupt comes with it.
WriteReady ==
    /\ ~panic /\ dev = "busy" /\ \E t \in Owner : op[t] = "write" /\ pc[t] \in {"poll", "nap"}
    /\ dev' = "data"
    /\ UNCHANGED <<thread, holder, run, expecting, value, todo, wrote, intrq, irr, panic>>

\* A sector is stored.
Stored ==
    /\ ~panic /\ dev = "busy" /\ todo > 0
    /\ \A t \in Owner : op[t] = "write" /\ pc[t] = "sema"
    /\ todo' = todo - 1
    /\ dev' = IF todo = 1 THEN "idle" ELSE "busy"
    /\ Assert
    /\ UNCHANGED <<thread, holder, run, expecting, value, wrote, panic>>

-----------------------------------------------------------------------------
Init ==
    /\ pc = [t \in Threads |-> "out"]
    /\ op = [t \in Threads |-> "read"]
    /\ cnt = [t \in Threads |-> 0] /\ done = [t \in Threads |-> 0]
    /\ tries = [t \in Threads |-> 0] /\ moved = [t \in Threads |-> 0]
    /\ holder = Nobody /\ run = Nobody
    /\ expecting = FALSE /\ value = 0
    /\ dev = "idle" /\ todo = 0 /\ wrote = 0 /\ intrq = FALSE /\ irr = FALSE
    /\ panic = FALSE

Continue(t) ==
    Issue(t) \/ SemaDown(t) \/ Poll(t) \/ Wake(t) \/ Transfer(t) \/ Return(t)

Device == ReadReady \/ WriteReady \/ Stored

Next ==
    \/ intr_hd_handler
    \/ Device
    \/ \E t \in Threads : \/ \E n \in Reads : Call(t, "read", n)
                          \/ \E n \in Writes : Call(t, "write", n)
                          \/ Leave(t) \/ Back(t)
                          \/ Acquire(t)
                          \/ Continue(t)

Spec == Init /\ [][Next]_vars

(* The device answers, the interrupt is taken where interrupts are on, and  *)
(* a thread that has the lock and can go on does (Sched, ReadyGetsCpu).      *)
(* Nothing makes a thread that is outside or away do anything.               *)
FairSpec ==
    /\ Spec
    /\ SF_vars(Device) /\ SF_vars(intr_hd_handler)
    /\ \A t \in Threads : SF_vars(Continue(t))

-----------------------------------------------------------------------------
(* Properties *)

PCs == {"out", "away", "lock", "issue", "sema", "poll", "nap", "data"}

\* Every variable holds a value of its type; disk_done is 0 or 1 (struct
\* ide_channel).
TypeOK ==
    /\ pc \in [Threads -> PCs]
    /\ op \in [Threads -> {"read", "write"}]
    /\ cnt \in [Threads -> Nat] /\ done \in [Threads -> Nat]
    /\ tries \in [Threads -> 0..TimeLimit] /\ moved \in [Threads -> Nat]
    /\ holder \in Threads \cup {Nobody} /\ run \in Threads \cup {Nobody}
    /\ expecting \in BOOLEAN /\ value \in {0, 1}
    /\ dev \in {"idle", "busy", "data"} /\ {todo, wrote} \subseteq 0..MaxOp
    /\ intrq \in BOOLEAN /\ irr \in BOOLEAN /\ panic \in BOOLEAN

\* Only a disk that stays busy for all the turns of busy_wait makes a request
\* fail: the device asks for or has data when busy_wait ends otherwise, and
\* sema_up never finds disk_done raised.
OnlySlowDiskPanics ==
    panic => \E t \in Threads : pc[t] = "nap" /\ tries[t] = TimeLimit

\* The interrupt that wakes a thread belongs to its command (intr_hd_handler
\* relies on the channel's lock for it): a command is issued only to a device
\* that has finished the one before.
\* (The code does not have this property: README, "Disagreements".)
CommandsSeparate == \A t \in Threads : pc[t] = "issue" => dev = "idle" /\ value = 0

\* What of it holds whatever the requests: no wakeup of an earlier command is
\* left over, and only after a write of several sectors, whose first interrupt
\* ends it, may the device still be at work (ide_write, intr_hd_handler).
OnlyLongWritesOverlap ==
    \A t \in Threads : pc[t] = "issue" =>
        /\ value = 0
        /\ dev = "idle" \/ (dev = "busy" /\ wrote > 1)

\* A request moves exactly the sectors it was asked for, in as many commands as
\* that takes, also when a command moves 256 sectors and the register holds 0.
Complete ==
    \A t \in Threads : pc[t] \in {"out", "away"} => moved[t] = cnt[t]

\* The only thread that could run sleeps in busy_wait with interrupts off: it
\* yields to itself, no tick is counted and nothing else happens any more.
Hung == ~InterruptsOn /\ run = Nobody /\ ~panic

\* A request that has the channel ends, or the machine stops in one of two
\* ways, PANIC for a disk that is too slow and a sleep that nobody can end: the
\* interrupt that completes a command is not lost between cmd_out, busy_wait
\* and sema_down, also with another thread asking for the disk meanwhile.
RequestReturns == \A t \in Threads : holder = t ~> (holder # t \/ panic \/ Hung)

\* busy_wait ends with an answer.
\* (The code does not have this property: README, "Disagreements".)
WaitEnds == \A t \in Threads : pc[t] = "nap" ~> (pc[t] # "nap" \/ panic)
=============================================================================
