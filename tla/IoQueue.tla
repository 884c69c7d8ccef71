------------------------------- MODULE IoQueue -------------------------------
(***************************************************************************)
(* The bounded byte queue of device/ioqueue.c in its two uses: the         *)
(* keyboard buffer, filled by the keyboard interrupt and read by sys_read  *)
(* of standard input, and a pipe (shell/pipe.c), written by pipe_write and *)
(* read by pipe_read.                                                      *)
(*                                                                         *)
(* All of it runs with interrupts off, so the thread `run' keeps the CPU   *)
(* until it blocks or its system call returns; then any thread that is not *)
(* asleep may go on, and an interrupt may come.                            *)
(***************************************************************************)
EXTENDS Naturals, KList

CONSTANTS
    StdinReaders,   \* threads in sys_read of the keyboard
    PipeReaders,    \* threads in pipe_read
    PipeWriters,    \* threads in pipe_write
    PipeStdin,      \* threads whose standard input was redirected to the pipe
    Keys,           \* bytes the keyboard interrupt delivers
    Chars,          \* bytes
    Nobody,         \* NULL
    bufsize,        \* slots of the ring
    MaxCount        \* bound on count in sys_read, pipe_read and pipe_write

Consumers == StdinReaders \cup PipeReaders
Producers == PipeWriters \cup PipeStdin
Threads   == Consumers \cup Producers

ASSUME QueueAssumption ==
    /\ bufsize \in Nat /\ bufsize > 1
    /\ MaxCount \in Nat \ {0}
    /\ Keys \subseteq Chars /\ Chars # {}
    /\ Consumers \cap Producers = {}
    /\ StdinReaders \cap PipeReaders = {}
    /\ PipeWriters \cap PipeStdin = {}
    /\ Nobody \notin Threads

VARIABLES
    buf, head, tail,        \* the ring: written at head, read at tail
    consumer, producer,     \* the thread that sleeps in ioq_wait, or NULL
    holder,                 \* holder of ioq->lock
    waiters,                \* waiters of ioq->lock's semaphore
    pc,                     \* out | call | lock (in lock_acquire) | wait (in ioq_wait)
    todo,                   \* size - bytes_read, size - bytes_write
    run,                    \* the thread that has the CPU inside a call
    panic,                  \* an ASSERT failed
    use                     \* what the queue is: the keyboard buffer or a pipe

ring == <<buf, head, tail>>
vars == <<buf, head, tail, consumer, producer, holder, waiters, pc, todo, run, panic, use>>

next_pos(pos) == (pos + 1) % bufsize
ioq_full  == next_pos(head) = tail
ioq_empty == head = tail
ioq_length == IF head >= tail THEN head - tail ELSE bufsize - (tail - head)

-----------------------------------------------------------------------------
\* ioq_wait(&consumer) or ioq_wait(&producer), with the lock just acquired
EnterWait(t) ==
    /\ holder' = t
    /\ IF t \in Consumers
       THEN /\ panic' = (consumer # Nobody) /\ consumer' = t
            /\ UNCHANGED producer
       ELSE /\ panic' = (producer # Nobody) /\ producer' = t
            /\ UNCHANGED consumer
    /\ pc' = [pc EXCEPT ![t] = "wait"]
    /\ run' = Nobody
    /\ UNCHANGED waiters

\* The loop of sema_down inside lock_acquire, then ioq_wait
LockAndWait(t) ==
    IF holder # Nobody
    THEN /\ waiters' = Append(waiters, t)
         /\ pc' = [pc EXCEPT ![t] = "lock"]
         /\ run' = Nobody
         /\ UNCHANGED <<holder, consumer, producer, panic>>
    ELSE EnterWait(t)

\* The thread woken by sema_up goes on in sema_down.
ResumeLock(t) ==
    /\ ~panic /\ run = Nobody /\ pc[t] = "lock" /\ ~InList(t, waiters)
    /\ LockAndWait(t)
    /\ UNCHANGED <<ring, todo>>

\* The thread woken by wakeup() releases the lock and tests the queue again.
ResumeWait(t) ==
    /\ ~panic /\ run = Nobody /\ pc[t] = "wait" /\ t \notin {consumer, producer}
    /\ panic' = (holder # t)
    /\ holder' = Nobody
    /\ waiters' = IF waiters = << >> THEN waiters ELSE Tail(waiters)
    /\ pc' = [pc EXCEPT ![t] = "call"]
    /\ run' = t
    /\ UNCHANGED <<ring, todo, consumer, producer>>

-----------------------------------------------------------------------------
\* What ioq_putchar does once there is room
Store(c) ==
    /\ buf' = [buf EXCEPT ![head] = c]
    /\ head' = next_pos(head)
    /\ consumer' = Nobody       \* wakeup(&ioq->consumer)
    /\ UNCHANGED <<tail, producer, holder, waiters, pc, panic>>

\* Mutant: a full queue is written to.
ioq_putchar_NoFull(t, c) ==
    /\ ~panic /\ run = t /\ pc[t] = "call" /\ todo[t] > 0
    /\ Store(c)
    /\ todo' = [todo EXCEPT ![t] = @ - 1]
    /\ UNCHANGED run

ioq_putchar(t, c) ==
    /\ ~panic /\ run = t /\ pc[t] = "call" /\ todo[t] > 0
    /\ IF ioq_full
       THEN LockAndWait(t) /\ UNCHANGED <<ring, todo>>
       ELSE /\ Store(c)
            /\ todo' = [todo EXCEPT ![t] = @ - 1]
            /\ UNCHANGED run

\* Mutant: the sleeping producer is not woken.
Take_NoWake ==
    /\ tail' = next_pos(tail)
    /\ UNCHANGED <<producer, buf, head, consumer, holder, waiters, pc, panic>>

Take ==
    /\ tail' = next_pos(tail)
    /\ producer' = Nobody       \* wakeup(&ioq->producer)
    /\ UNCHANGED <<buf, head, consumer, holder, waiters, pc, panic>>

ioq_getchar(t) ==
    /\ ~panic /\ run = t /\ pc[t] = "call" /\ todo[t] > 0
    /\ IF ioq_empty
       THEN LockAndWait(t) /\ UNCHANGED <<ring, todo>>
       ELSE /\ Take
            /\ todo' = [todo EXCEPT ![t] = @ - 1]
            /\ UNCHANGED run

\* The keyboard interrupt: a byte that does not fit is dropped.
KeyIrq(c) ==
    /\ ~panic /\ run = Nobody /\ use = "keyboard"
    /\ ~ioq_full
    /\ Store(c)
    /\ UNCHANGED <<todo, run>>

-----------------------------------------------------------------------------
SmallerOf(m, n) == IF m > n THEN n ELSE m

\* How many bytes the call moves: sys_read(stdin) all it was asked for,
\* pipe_read and pipe_write what they think fits.
Size(t, count) ==
    CASE t \in StdinReaders -> count
      [] t \in PipeReaders  -> SmallerOf(ioq_length, count)
      [] OTHER              -> SmallerOf(bufsize - ioq_length, count)

Call(t, count) ==
    /\ ~panic /\ run = Nobody /\ pc[t] = "out"
    /\ use = IF t \in StdinReaders THEN "keyboard" ELSE "pipe"
    /\ pc' = [pc EXCEPT ![t] = "call"]
    /\ todo' = [todo EXCEPT ![t] = Size(t, count)]
    /\ run' = t
    /\ UNCHANGED <<ring, consumer, producer, holder, waiters, panic>>

Return(t) ==
    /\ ~panic /\ run = t /\ pc[t] = "call" /\ todo[t] = 0
    /\ pc' = [pc EXCEPT ![t] = "out"]
    /\ run' = Nobody
    /\ UNCHANGED <<ring, todo, consumer, producer, holder, waiters, panic>>

-----------------------------------------------------------------------------
Init ==
    /\ buf \in [0..bufsize - 1 -> {CHOOSE c \in Chars : TRUE}]
    /\ head = 0 /\ tail = 0
    /\ consumer = Nobody /\ producer = Nobody
    /\ holder = Nobody /\ waiters = << >>
    /\ pc = [t \in Threads |-> "out"]
    /\ todo = [t \in Threads |-> 0]
    /\ run = Nobody
    /\ panic = FALSE
    /\ use \in {"keyboard", "pipe"}

Step(t) ==
    \/ ResumeLock(t) \/ ResumeWait(t) \/ Return(t)
    \/ t \in Consumers /\ ioq_getchar(t)
    \/ t \in Producers /\ \E c \in Chars : ioq_putchar(t, c)

Next ==
    /\ \/ \E c \in Keys : KeyIrq(c)
       \/ \E t \in Threads : \/ Step(t)
                             \/ \E n \in 1..MaxCount : Call(t, n)
    /\ UNCHANGED use

Spec == Init /\ [][Next]_vars

(* A thread that can go on does (the scheduler does not starve, Sched), the *)
(* user keeps typing, and pipe readers keep reading.                        *)
FairSpec ==
    /\ Spec
    /\ \A t \in Threads : SF_vars(UNCHANGED use /\ Step(t))
    /\ SF_vars(UNCHANGED use /\ \E c \in Keys : KeyIrq(c))
    /\ \A t \in PipeReaders : SF_vars(UNCHANGED use /\ \E n \in 1..MaxCount : Call(t, n))

-----------------------------------------------------------------------------
(* Properties *)

\* Every variable holds a value of its C type and the ring indices stay in the
\* buffer (struct ioqueue).
TypeOK ==
    /\ buf \in [0..bufsize - 1 -> Chars]
    /\ head \in 0..bufsize - 1 /\ tail \in 0..bufsize - 1
    /\ consumer \in Consumers \cup {Nobody}
    /\ producer \in Producers \cup {Nobody}
    /\ holder \in Threads \cup {Nobody}
    /\ waiters \in Seq(Threads)
    /\ pc \in [Threads -> {"out", "call", "lock", "wait"}]
    /\ todo \in [Threads -> Nat]
    /\ run \in Threads \cup {Nobody}
    /\ panic \in BOOLEAN

\* The ASSERTs of ioq_wait and lock_release hold: one consumer and one producer
\* pointer are enough because whoever sleeps in ioq_wait keeps the lock.
NoPanic == ~panic

\* What is in the ring, oldest byte first.
Content == [i \in 1..ioq_length |-> buf[(tail + i - 1) % bufsize]]

\* The ring with its two indices is a first-in first-out queue of bufsize - 1
\* bytes, whoever reads, writes or sleeps (ioq_putchar, ioq_getchar).
Abstract == INSTANCE Fifo WITH q <- Content, Capacity <- bufsize - 1
ImplementsFifo == Abstract!Spec

\* A consumer sleeps in ioq_wait only while the queue is empty, a producer only
\* while it is full (struct ioqueue: keep going while there is data or room,
\* otherwise sleep).
SleepsOnlyWhenStuck ==
    /\ consumer # Nobody => ioq_empty
    /\ producer # Nobody => ioq_full

\* pipe_read never blocks: it takes no more than is there.
PipeReadNeverBlocks == \A t \in PipeReaders : pc[t] \in {"out", "call"}

\* pipe_write never blocks: it writes no more than fits.
\* (The code does not have this property: README, "Disagreements".)
PipeWriteNeverBlocks == \A t \in PipeWriters : pc[t] \in {"out", "call"}

\* A blocked call goes on: no reader of the keyboard sleeps for ever while keys
\* arrive, no writer of a pipe while it is read.
BlockedCallResumes ==
    \A t \in Threads : (pc[t] \in {"lock", "wait"}) ~> (pc[t] = "call")

\* A step of a thread inside sys_read never adds bytes to a queue.
\* (The code does not have this property: README, "Disagreements".)
ReadOnlyRemoves ==
    [][(run \in Consumers \cup PipeStdin) => head' = head]_vars
=============================================================================
