---------------------------- MODULE IoQueueProofs ----------------------------
(***************************************************************************)
(* Proofs about IoQueue for every buffer size and every set of threads:    *)
(* the ring is a first-in first-out queue, no ASSERT of ioq_wait or        *)
(* lock_release fails, and, when one thread at a time blocks on each side, *)
(* nobody sleeps while there is something to do.                           *)
(***************************************************************************)
EXTENDS IoQueue, Integers, SequenceTheorems, KernelFacts

-----------------------------------------------------------------------------
(* The ring as a sequence of bytes. *)

Length(h, t) == IF h >= t THEN h - t ELSE bufsize - (t - h)
Bytes(b, h, t) == [i \in 1..Length(h, t) |-> b[(t + i - 1) % bufsize]]
Slots == 0..bufsize - 1

\* next_pos stays in the buffer and wraps at its end.
LEMMA NextPos ==
    ASSUME NEW i \in Slots
    PROVE  next_pos(i) \in Slots /\ next_pos(i) = IF i + 1 = bufsize THEN 0 ELSE i + 1
<1>1. bufsize \in Nat /\ bufsize > 1
  BY QueueAssumption
<1>2. CASE i + 1 = bufsize
  <2>1. bufsize % bufsize = 0
    BY <1>1
  <2> QED BY <2>1, <1>1, <1>2 DEF next_pos, Slots
<1>3. CASE i + 1 # bufsize
  <2>1. i + 1 \in Nat /\ i + 1 < bufsize
    BY <1>1, <1>3 DEF Slots
  <2>2. (i + 1) % bufsize = i + 1
    BY <1>1, <2>1
  <2> QED BY <2>1, <2>2, <1>1, <1>3 DEF next_pos, Slots
<1> QED BY <1>2, <1>3

\* Positions up to twice the buffer size wrap once.
LEMMA WrapOnce ==
    ASSUME NEW a \in Nat, a < 2 * bufsize
    PROVE  /\ a % bufsize \in Slots
           /\ a % bufsize = IF a < bufsize THEN a ELSE a - bufsize
<1>1. bufsize \in Nat /\ bufsize > 1
  BY QueueAssumption
<1>2. a < bufsize => a % bufsize = a
  BY <1>1
<1>3. a >= bufsize => a % bufsize = a - bufsize
  BY <1>1
<1>4. a % bufsize = IF a < bufsize THEN a ELSE a - bufsize
  BY <1>1, <1>2, <1>3
<1>5. a % bufsize \in Slots
  BY <1>1, <1>4 DEF Slots
<1> QED BY <1>4, <1>5

\* The slot of the i-th byte.
LEMMA SlotOf ==
    ASSUME NEW t \in Slots, NEW i \in 1..bufsize
    PROVE  /\ (t + i - 1) % bufsize \in Slots
           /\ (t + i - 1) % bufsize = IF t + i - 1 < bufsize THEN t + i - 1
                                      ELSE t + i - 1 - bufsize
<1>1. t + i - 1 \in Nat /\ t + i - 1 < 2 * bufsize
  BY QueueAssumption DEF Slots
<1>2. t \in Nat /\ i \in Nat /\ bufsize \in Nat
  BY QueueAssumption DEF Slots
<1> QED BY <1>1, <1>2, WrapOnce

\* The number of bytes decides when the ring is empty and when it is full.
LEMMA LengthFacts ==
    ASSUME NEW h \in Slots, NEW t \in Slots
    PROVE  /\ Length(h, t) \in 0..bufsize - 1
           /\ Length(h, t) = 0 <=> h = t
           /\ Length(h, t) = bufsize - 1 <=> next_pos(h) = t
           /\ next_pos(h) # t => Length(next_pos(h), t) = Length(h, t) + 1
           /\ h # t => Length(h, next_pos(t)) = Length(h, t) - 1
<1>1. bufsize \in Nat /\ bufsize > 1
  BY QueueAssumption
<1>2. /\ next_pos(h) = IF h + 1 = bufsize THEN 0 ELSE h + 1
      /\ next_pos(t) = IF t + 1 = bufsize THEN 0 ELSE t + 1
  BY NextPos
<1> QED BY <1>1, <1>2 DEF Length, Slots

\* The bytes form a sequence.
LEMMA BytesFacts ==
    ASSUME NEW b \in [Slots -> Chars], NEW h \in Slots, NEW t \in Slots
    PROVE  /\ Bytes(b, h, t) \in Seq(Chars)
           /\ Len(Bytes(b, h, t)) = Length(h, t)
           /\ \A i \in 1..Length(h, t) : Bytes(b, h, t)[i] = b[(t + i - 1) % bufsize]
<1>1. bufsize \in Nat /\ Length(h, t) \in 0..bufsize - 1
  BY LengthFacts, QueueAssumption
<1>2. \A i \in 1..Length(h, t) : b[(t + i - 1) % bufsize] \in Chars
  <2> TAKE i \in 1..Length(h, t)
  <2>1. i \in 1..bufsize
    BY <1>1
  <2> QED BY <2>1, SlotOf
<1>3. Bytes(b, h, t) \in Seq(Chars)
  BY <1>1, <1>2 DEF Bytes
<1>4. DOMAIN Bytes(b, h, t) = 1..Length(h, t)
  BY DEF Bytes
<1>5. Len(Bytes(b, h, t)) = Length(h, t)
  <2>1. DOMAIN Bytes(b, h, t) = 1..Len(Bytes(b, h, t)) /\ Len(Bytes(b, h, t)) \in Nat
    BY <1>3, LenProperties
  <2> QED BY <2>1, <1>4, <1>1
<1> QED BY <1>3, <1>5 DEF Bytes

\* Storing at head appends a byte.
LEMMA StoreAppends ==
    ASSUME NEW b \in [Slots -> Chars], NEW h \in Slots, NEW t \in Slots,
           NEW c \in Chars, next_pos(h) # t
    PROVE  Bytes([b EXCEPT ![h] = c], next_pos(h), t) = Append(Bytes(b, h, t), c)
<1> DEFINE b2 == [b EXCEPT ![h] = c]
           s  == Append(Bytes(b, h, t), c)
           n  == Length(h, t)
<1>1. bufsize \in Nat /\ bufsize > 1
  BY QueueAssumption
<1>2. b2 \in [Slots -> Chars] /\ next_pos(h) \in Slots
  BY NextPos
<1>3. /\ n \in 0..bufsize - 1 /\ Length(next_pos(h), t) = n + 1
      /\ n # bufsize - 1
  BY LengthFacts
<1>4. /\ Bytes(b2, next_pos(h), t) \in Seq(Chars)
      /\ Len(Bytes(b2, next_pos(h), t)) = n + 1
      /\ \A i \in 1..n + 1 : Bytes(b2, next_pos(h), t)[i] = b2[(t + i - 1) % bufsize]
  <2> HIDE DEF b2, n
  <2>1. /\ Bytes(b2, next_pos(h), t) \in Seq(Chars)
        /\ Len(Bytes(b2, next_pos(h), t)) = Length(next_pos(h), t)
        /\ \A i \in 1..Length(next_pos(h), t) :
              Bytes(b2, next_pos(h), t)[i] = b2[(t + i - 1) % bufsize]
    BY <1>2, BytesFacts
  <2> QED BY <2>1, <1>3
<1>5. /\ Bytes(b, h, t) \in Seq(Chars) /\ Len(Bytes(b, h, t)) = n
      /\ \A i \in 1..n : Bytes(b, h, t)[i] = b[(t + i - 1) % bufsize]
  BY BytesFacts
<1>6. /\ s \in Seq(Chars) /\ Len(s) = n + 1 /\ s[n + 1] = c
      /\ \A i \in 1..n : s[i] = b[(t + i - 1) % bufsize]
  BY <1>5, AppendProperties
<1>7. (t + (n + 1) - 1) % bufsize = h
  <2>1. n + 1 \in 1..bufsize
    BY <1>1, <1>3
  <2>2. (t + (n + 1) - 1) % bufsize = IF t + (n + 1) - 1 < bufsize THEN t + (n + 1) - 1
                                      ELSE t + (n + 1) - 1 - bufsize
    BY <2>1, SlotOf
  <2> QED BY <2>2, <1>1 DEF Slots, Length
<1>8. ASSUME NEW i \in 1..n PROVE (t + i - 1) % bufsize \in Slots \ {h}
  <2>1. i \in 1..bufsize
    BY <1>1, <1>3
  <2>2. /\ (t + i - 1) % bufsize = IF t + i - 1 < bufsize THEN t + i - 1
                                   ELSE t + i - 1 - bufsize
        /\ (t + i - 1) % bufsize \in Slots
    BY <2>1, SlotOf
  <2>3. (IF t + i - 1 < bufsize THEN t + i - 1 ELSE t + i - 1 - bufsize) # h
    BY <1>1 DEF Slots, Length
  <2> QED BY <2>2, <2>3
<1> HIDE DEF n, s
<1>9. ASSUME NEW i \in 1..n + 1 PROVE Bytes(b2, next_pos(h), t)[i] = s[i]
  <2>1. Bytes(b2, next_pos(h), t)[i] = b2[(t + i - 1) % bufsize]
    BY <1>4
  <2>2. CASE i = n + 1
    <3>1. b2[h] = c
      OBVIOUS
    <3> QED BY <2>1, <2>2, <3>1, <1>6, <1>7
  <2>3. CASE i # n + 1
    <3>1. i \in 1..n
      BY <2>3, <1>3
    <3>2. b2[(t + i - 1) % bufsize] = b[(t + i - 1) % bufsize]
      BY <3>1, <1>8
    <3> QED BY <2>1, <3>1, <3>2, <1>6
  <2> QED BY <2>2, <2>3
<1> HIDE DEF b2
<1>10. Bytes(b2, next_pos(h), t) = s
  BY <1>4, <1>6, <1>9, SeqEqual
<1> QED BY <1>10 DEF s, b2

\* Taking at tail removes the oldest byte.
LEMMA TakeDrops ==
    ASSUME NEW b \in [Slots -> Chars], NEW h \in Slots, NEW t \in Slots, h # t
    PROVE  /\ Bytes(b, h, t) # << >>
           /\ Bytes(b, h, next_pos(t)) = Tail(Bytes(b, h, t))
<1> DEFINE s == Bytes(b, h, t)
           r == Bytes(b, h, next_pos(t))
           n == Length(h, t)
<1>1. bufsize \in Nat /\ bufsize > 1
  BY QueueAssumption
<1>2. next_pos(t) \in Slots /\ next_pos(t) = IF t + 1 = bufsize THEN 0 ELSE t + 1
  BY NextPos
<1>3. n \in 0..bufsize - 1 /\ n # 0 /\ Length(h, next_pos(t)) = n - 1
  BY LengthFacts
<1>4. /\ s \in Seq(Chars) /\ Len(s) = n
      /\ \A i \in 1..n : s[i] = b[(t + i - 1) % bufsize]
  BY BytesFacts
<1>5. /\ r \in Seq(Chars) /\ Len(r) = n - 1
      /\ \A i \in 1..n - 1 : r[i] = b[(next_pos(t) + i - 1) % bufsize]
  BY <1>2, <1>3, BytesFacts
<1> HIDE DEF s, r, n
<1>6. s # << >>
  <2>1. Len(<< >>) = 0
    BY EmptySeq
  <2> QED BY <2>1, <1>3, <1>4
<1>7. /\ Tail(s) \in Seq(Chars) /\ Len(Tail(s)) = n - 1
      /\ \A i \in 1..n - 1 : Tail(s)[i] = s[i + 1]
  BY <1>4, <1>6, HeadTailProperties
<1>8. ASSUME NEW i \in 1..n - 1 PROVE r[i] = Tail(s)[i]
  <2>1. i \in 1..bufsize /\ i + 1 \in 1..bufsize /\ i + 1 \in 1..n
    BY <1>1, <1>3
  <2>2. (next_pos(t) + i - 1) % bufsize = IF next_pos(t) + i - 1 < bufsize
                                          THEN next_pos(t) + i - 1
                                          ELSE next_pos(t) + i - 1 - bufsize
    BY <2>1, <1>2, SlotOf
  <2>3. (t + (i + 1) - 1) % bufsize = IF t + (i + 1) - 1 < bufsize THEN t + (i + 1) - 1
                                      ELSE t + (i + 1) - 1 - bufsize
    BY <2>1, SlotOf
  <2>4. (next_pos(t) + i - 1) % bufsize = (t + (i + 1) - 1) % bufsize
    BY <2>1, <2>2, <2>3, <1>1, <1>2 DEF Slots
  <2>5. Tail(s)[i] = b[(t + (i + 1) - 1) % bufsize]
    BY <2>1, <1>4, <1>7
  <2> QED BY <2>4, <2>5, <1>5
<1>9. r = Tail(s)
  BY <1>5, <1>7, <1>8, SeqEqual
<1> QED BY <1>6, <1>9 DEF s, r

-----------------------------------------------------------------------------
(* The inductive invariant. *)

\* Whoever is in ioq_wait holds ioq->lock, and only such a thread is named by
\* consumer or producer.
WaitHoldsLock ==
    /\ \A t \in Threads : pc[t] = "wait" <=> holder = t
    /\ consumer # Nobody => pc[consumer] = "wait"
    /\ producer # Nobody => pc[producer] = "wait"

\* A thread inside a call has the CPU.
CallHasCpu == \A t \in Threads : pc[t] = "call" <=> run = t

Inv == TypeOK /\ NoPanic /\ WaitHoldsLock /\ CallHasCpu

\* A thread that blocks, on the lock or in ioq_wait, keeps the invariant.
LEMMA LockAndWaitFacts ==
    ASSUME Inv, NEW t \in Threads, pc[t] \in {"call", "lock"},
           run = t \/ run = Nobody, LockAndWait(t), UNCHANGED <<ring, todo>>
    PROVE  Inv'
<1> USE DEF Inv
<1>0. Nobody \notin Threads /\ buf' = buf /\ head' = head /\ tail' = tail /\ todo' = todo
  BY QueueAssumption DEF ring
<1>1. CASE holder # Nobody
  <2>1. /\ waiters' = Append(waiters, t)
        /\ pc' = [pc EXCEPT ![t] = "lock"]
        /\ run' = Nobody
        /\ UNCHANGED <<holder, consumer, producer, panic>>
    BY <1>1 DEF LockAndWait
  <2>2. TypeOK'
    <3>1. waiters' \in Seq(Threads)
      BY <2>1, AppendFacts DEF TypeOK
    <3>2. pc' \in [Threads -> {"out", "call", "lock", "wait"}]
      BY <2>1 DEF TypeOK
    <3> QED BY <3>1, <3>2, <2>1, <1>0 DEF TypeOK
  <2>3. WaitHoldsLock' /\ CallHasCpu' /\ NoPanic'
    BY <2>1, <1>0 DEF WaitHoldsLock, CallHasCpu, NoPanic, TypeOK, Threads
  <2> QED BY <2>2, <2>3
<1>2. CASE holder = Nobody
  <2>1. EnterWait(t)
    BY <1>2 DEF LockAndWait
  <2>2. consumer = Nobody /\ producer = Nobody
    BY <1>0, <1>2 DEF WaitHoldsLock, TypeOK, Threads
  <2>3. /\ holder' = t /\ pc' = [pc EXCEPT ![t] = "wait"]
        /\ run' = Nobody /\ waiters' = waiters /\ panic' = FALSE
        /\ consumer' = IF t \in Consumers THEN t ELSE Nobody
        /\ producer' = IF t \in Consumers THEN Nobody ELSE t
    BY <2>1, <2>2 DEF EnterWait
  <2>4. TypeOK'
    <3>1. pc' \in [Threads -> {"out", "call", "lock", "wait"}]
      BY <2>3 DEF TypeOK
    <3>2. /\ consumer' \in Consumers \cup {Nobody}
          /\ producer' \in Producers \cup {Nobody}
          /\ holder' \in Threads \cup {Nobody}
      BY <2>3 DEF Threads
    <3> QED BY <3>1, <3>2, <2>3, <1>0 DEF TypeOK
  <2>5. WaitHoldsLock' /\ CallHasCpu' /\ NoPanic'
    BY <2>3, <1>0, <1>2 DEF WaitHoldsLock, CallHasCpu, NoPanic, TypeOK
  <2> QED BY <2>4, <2>5
<1> QED BY <1>1, <1>2

\* A byte stored or taken keeps the invariant; wakeup() clears a pointer.
LEMMA StoreFacts ==
    ASSUME Inv, NEW c \in Chars, Store(c), todo' \in [Threads -> Nat], run' = run
    PROVE  Inv'
<1> USE DEF Inv
<1>1. head' \in Slots /\ buf' \in [Slots -> Chars]
  BY NextPos DEF Store, TypeOK, Slots
<1>2. TypeOK'
  BY <1>1 DEF Store, TypeOK, Slots
<1>3. WaitHoldsLock' /\ CallHasCpu' /\ NoPanic'
  BY DEF Store, WaitHoldsLock, CallHasCpu, NoPanic
<1> QED BY <1>2, <1>3

(* ioq_getchar taking a character from the ring. *)
LEMMA TakeFacts ==
    ASSUME Inv, Take, todo' \in [Threads -> Nat], run' = run
    PROVE  Inv'
<1> USE DEF Inv
<1>1. tail' \in Slots
  BY NextPos DEF Take, TypeOK, Slots
<1>2. TypeOK'
  BY <1>1 DEF Take, TypeOK, Slots
<1>3. WaitHoldsLock' /\ CallHasCpu' /\ NoPanic'
  BY DEF Take, WaitHoldsLock, CallHasCpu, NoPanic
<1> QED BY <1>2, <1>3

\* Every step keeps the invariant.
LEMMA NextInv ==
    ASSUME Inv, [Next]_vars PROVE Inv'
<1> USE DEF Inv
<1>0. Nobody \notin Threads
  BY QueueAssumption
<1>1. ASSUME NEW c \in Keys, KeyIrq(c) PROVE Inv'
  BY <1>1, StoreFacts, QueueAssumption DEF KeyIrq, TypeOK
<1>2. ASSUME NEW t \in Threads, ResumeLock(t) PROVE Inv'
  BY <1>2, LockAndWaitFacts DEF ResumeLock
<1>3. ASSUME NEW t \in Threads, ResumeWait(t) PROVE Inv'
  <2>1. /\ run = Nobody /\ pc[t] = "wait" /\ t \notin {consumer, producer}
        /\ panic' = (holder # t) /\ holder' = Nobody
        /\ waiters' = IF waiters = << >> THEN waiters ELSE Tail(waiters)
        /\ pc' = [pc EXCEPT ![t] = "call"] /\ run' = t
        /\ UNCHANGED <<buf, head, tail, todo, consumer, producer>>
    BY <1>3 DEF ResumeWait, ring
  <2>2. holder = t /\ consumer = Nobody /\ producer = Nobody
    BY <2>1, <1>0 DEF WaitHoldsLock, TypeOK, Threads
  <2>3. TypeOK'
    <3>1. waiters' \in Seq(Threads)
      BY <2>1, PopFacts DEF TypeOK
    <3>2. pc' \in [Threads -> {"out", "call", "lock", "wait"}]
      BY <2>1 DEF TypeOK
    <3> QED BY <3>1, <3>2, <2>1, <2>2 DEF TypeOK
  <2>4. WaitHoldsLock'
    BY <2>1, <2>2, <1>0 DEF WaitHoldsLock, TypeOK
  <2>5. CallHasCpu' /\ NoPanic'
    BY <2>1, <2>2, <1>0 DEF CallHasCpu, NoPanic, TypeOK
  <2> QED BY <2>3, <2>4, <2>5
<1>4. ASSUME NEW t \in Threads, Return(t) PROVE Inv'
  <2>1. /\ run = t /\ pc[t] = "call"
        /\ pc' = [pc EXCEPT ![t] = "out"] /\ run' = Nobody
        /\ UNCHANGED <<buf, head, tail, todo, consumer, producer, holder, waiters, panic>>
    BY <1>4 DEF Return, ring
  <2>2. TypeOK'
    BY <2>1 DEF TypeOK
  <2>3. WaitHoldsLock' /\ CallHasCpu' /\ NoPanic'
    BY <2>1, <1>0 DEF WaitHoldsLock, CallHasCpu, NoPanic, TypeOK, Threads
  <2> QED BY <2>2, <2>3
<1>5. ASSUME NEW t \in Threads, ioq_getchar(t) PROVE Inv'
  <2>1. run = t /\ pc[t] = "call" /\ todo[t] > 0 /\ todo[t] \in Nat
    BY <1>5 DEF ioq_getchar, TypeOK
  <2>2. CASE ioq_empty
    BY <2>1, <2>2, <1>5, LockAndWaitFacts DEF ioq_getchar
  <2>3. CASE ~ioq_empty
    <3>1. Take /\ todo' = [todo EXCEPT ![t] = @ - 1] /\ run' = run
      BY <2>3, <1>5 DEF ioq_getchar
    <3>2. todo' \in [Threads -> Nat]
      BY <3>1, <2>1 DEF TypeOK
    <3> QED BY <3>1, <3>2, TakeFacts
  <2> QED BY <2>2, <2>3
<1>6. ASSUME NEW t \in Threads, NEW c \in Chars, ioq_putchar(t, c) PROVE Inv'
  <2>1. run = t /\ pc[t] = "call" /\ todo[t] > 0 /\ todo[t] \in Nat
    BY <1>6 DEF ioq_putchar, TypeOK
  <2>2. CASE ioq_full
    BY <2>1, <2>2, <1>6, LockAndWaitFacts DEF ioq_putchar
  <2>3. CASE ~ioq_full
    <3>1. Store(c) /\ todo' = [todo EXCEPT ![t] = @ - 1] /\ run' = run
      BY <2>3, <1>6 DEF ioq_putchar
    <3>2. todo' \in [Threads -> Nat]
      BY <3>1, <2>1 DEF TypeOK
    <3> QED BY <3>1, <3>2, StoreFacts
  <2> QED BY <2>2, <2>3
<1>7. ASSUME NEW t \in Threads, NEW n \in 1..MaxCount, Call(t, n) PROVE Inv'
  <2>1. /\ run = Nobody /\ pc[t] = "out"
        /\ pc' = [pc EXCEPT ![t] = "call"] /\ run' = t
        /\ todo' = [todo EXCEPT ![t] = Size(t, n)]
        /\ UNCHANGED <<buf, head, tail, consumer, producer, holder, waiters, panic>>
    BY <1>7 DEF Call, ring
  <2>2. Size(t, n) \in Nat
    <3>1. ioq_length \in 0..bufsize - 1 /\ bufsize \in Nat
      BY LengthFacts, QueueAssumption DEF ioq_length, Length, TypeOK, Slots
    <3>2. \A a, b \in Nat : SmallerOf(a, b) \in Nat
      BY DEF SmallerOf
    <3> QED BY <3>1, <3>2 DEF Size
  <2>3. TypeOK'
    BY <2>1, <2>2 DEF TypeOK
  <2>4. WaitHoldsLock' /\ CallHasCpu' /\ NoPanic'
    BY <2>1, <1>0 DEF WaitHoldsLock, CallHasCpu, NoPanic, TypeOK, Threads
  <2> QED BY <2>3, <2>4
<1>8. CASE UNCHANGED vars
  BY <1>8 DEF vars, TypeOK, NoPanic, WaitHoldsLock, CallHasCpu
<1> QED BY <1>1, <1>2, <1>3, <1>4, <1>5, <1>6, <1>7, <1>8 DEF Next, Step

\* The inductive invariant holds in every reachable state.
THEOREM Invariance == Spec => []Inv
<1>1. Init => Inv
  <2> SUFFICES ASSUME Init PROVE Inv
    OBVIOUS
  <2>1. buf \in [Slots -> Chars]
    BY QueueAssumption DEF Init, Slots
  <2>2. 0 \in Slots
    BY QueueAssumption DEF Slots
  <2>3. TypeOK
    <3>1. head \in Slots /\ tail \in Slots /\ waiters \in Seq(Threads)
      BY <2>2 DEF Init
    <3>2. /\ pc \in [Threads -> {"out", "call", "lock", "wait"}]
          /\ todo \in [Threads -> Nat]
      BY DEF Init
    <3>3. /\ consumer = Nobody /\ producer = Nobody /\ holder = Nobody
          /\ run = Nobody /\ panic = FALSE
      BY DEF Init
    <3> QED BY <2>1, <3>1, <3>2, <3>3 DEF TypeOK, Slots
  <2> QED BY <2>3, QueueAssumption DEF Init, Inv, NoPanic, WaitHoldsLock, CallHasCpu
<1>2. Inv /\ [Next]_vars => Inv'
  BY NextInv
<1> QED BY <1>1, <1>2, PTL DEF Spec

\* The ring indices stay in the buffer and every variable keeps its type.
THEOREM TypeCorrect == Spec => []TypeOK
BY Invariance, PTL DEF Inv

\* However many threads read and write, ioq_wait never finds the consumer or
\* producer pointer taken, and lock_release is called by the lock's holder.
THEOREM NoPanicEver == Spec => []NoPanic
BY Invariance, PTL DEF Inv

-----------------------------------------------------------------------------
(* The refinement: every step of the kernel is a step of the queue, or none. *)

\* ioq_length counts the bytes; Content lists them.
LEMMA ContentIsBytes ==
    /\ ioq_length = Length(head, tail)
    /\ Content = Bytes(buf, head, tail)
BY DEF ioq_length, Length, Content, Bytes

\* A byte that is stored enters the queue at its end, and there is room for it.
LEMMA StoreIsPut ==
    ASSUME TypeOK, ~ioq_full, NEW c \in Chars, Store(c)
    PROVE  Abstract!Put(c)
<1>1. buf \in [Slots -> Chars] /\ head \in Slots /\ tail \in Slots
  BY DEF TypeOK, Slots
<1>2. next_pos(head) # tail
  BY DEF ioq_full
<1>3. buf' = [buf EXCEPT ![head] = c] /\ head' = next_pos(head) /\ tail' = tail
  BY DEF Store
<1>4. Content' = Bytes(buf', head', tail')
  BY DEF ioq_length, Length, Content, Bytes
<1>5. Content' = Append(Content, c)
  BY <1>1, <1>2, <1>3, <1>4, StoreAppends, ContentIsBytes
<1>6. Len(Content) < bufsize - 1
  <2>1. /\ Length(head, tail) \in 0..bufsize - 1 /\ Length(head, tail) # bufsize - 1
        /\ bufsize \in Nat
    BY <1>1, <1>2, LengthFacts, QueueAssumption
  <2>2. Len(Content) = Length(head, tail)
    BY <1>1, ContentIsBytes, BytesFacts
  <2> QED BY <2>1, <2>2
<1> QED BY <1>5, <1>6 DEF Abstract!Put

\* A byte that is taken is the oldest one.
LEMMA TakeIsGet ==
    ASSUME TypeOK, ~ioq_empty, Take
    PROVE  Abstract!Get
<1>1. buf \in [Slots -> Chars] /\ head \in Slots /\ tail \in Slots
  BY DEF TypeOK, Slots
<1>2. head # tail
  BY DEF ioq_empty
<1>3. buf' = buf /\ head' = head /\ tail' = next_pos(tail)
  BY DEF Take
<1>4. Content' = Bytes(buf', head', tail')
  BY DEF ioq_length, Length, Content, Bytes
<1>5. Content # << >> /\ Content' = Tail(Content)
  BY <1>1, <1>2, <1>3, <1>4, TakeDrops, ContentIsBytes
<1> QED BY <1>5 DEF Abstract!Get

\* The io queue implements a bounded first-in first-out queue of bufsize - 1
\* bytes, for every buffer size and any number of readers and writers.
THEOREM Refinement == Spec => ImplementsFifo
<1>1. Init => Abstract!Init
  <2> SUFFICES ASSUME Init PROVE Content = << >>
    BY DEF Abstract!Init
  <2>1. ioq_length = 0
    BY DEF Init, ioq_length
  <2> QED BY <2>1 DEF Content
<1>2. Inv /\ [Next]_vars => [Abstract!Next]_Content
  <2> SUFFICES ASSUME Inv, [Next]_vars PROVE Abstract!Next \/ UNCHANGED Content
    OBVIOUS
  <2>0. ASSUME UNCHANGED ring PROVE UNCHANGED Content
    BY <2>0 DEF ring, Content, ioq_length
  <2>1. ASSUME NEW c \in Keys, KeyIrq(c) PROVE Abstract!Next
    <3>1. c \in Chars
      BY QueueAssumption
    <3> QED BY <2>1, <3>1, StoreIsPut DEF KeyIrq, Inv, Abstract!Next
  <2>2. ASSUME NEW t \in Threads, ResumeLock(t) \/ ResumeWait(t) \/ Return(t)
        PROVE  UNCHANGED Content
    BY <2>0, <2>2 DEF ResumeLock, ResumeWait, Return
  <2>3. ASSUME NEW t \in Threads, ioq_getchar(t)
        PROVE  Abstract!Next \/ UNCHANGED Content
    <3>1. CASE ioq_empty
      BY <2>0, <2>3, <3>1 DEF ioq_getchar
    <3>2. CASE ~ioq_empty
      BY <2>3, <3>2, TakeIsGet DEF ioq_getchar, Inv, Abstract!Next
    <3> QED BY <3>1, <3>2
  <2>4. ASSUME NEW t \in Threads, NEW c \in Chars, ioq_putchar(t, c)
        PROVE  Abstract!Next \/ UNCHANGED Content
    <3>1. CASE ioq_full
      BY <2>0, <2>4, <3>1 DEF ioq_putchar
    <3>2. CASE ~ioq_full
      BY <2>4, <3>2, StoreIsPut DEF ioq_putchar, Inv, Abstract!Next
    <3> QED BY <3>1, <3>2
  <2>5. ASSUME NEW t \in Threads, NEW n \in 1..MaxCount, Call(t, n)
        PROVE  UNCHANGED Content
    BY <2>0, <2>5 DEF Call
  <2>6. CASE UNCHANGED vars
    BY <2>0, <2>6 DEF vars, ring
  <2> QED BY <2>1, <2>2, <2>3, <2>4, <2>5, <2>6 DEF Next, Step
<1> QED BY <1>1, <1>2, Invariance, PTL DEF Spec, ImplementsFifo, Abstract!Spec

-----------------------------------------------------------------------------
(* Who may sleep, and when. *)

\* A pipe reader inside its call never asks for more than the queue holds.
ReadersCovered ==
    \A t \in PipeReaders : /\ pc[t] \in {"out", "call"}
                           /\ pc[t] = "call" => todo[t] <= ioq_length

\* Only the threads of the queue's own use are inside a call.
UsersOnly ==
    /\ use \in {"keyboard", "pipe"}
    /\ \A t \in Threads : pc[t] # "out" =>
          (t \in StdinReaders <=> use = "keyboard")

\* The number of bytes after a byte went in or out.
LEMMA LengthSteps ==
    ASSUME TypeOK
    PROVE  /\ ioq_length \in Nat
           /\ ioq_length = 0 <=> ioq_empty
           /\ Take /\ ~ioq_empty => ioq_length' = ioq_length - 1
<1>1. head \in Slots /\ tail \in Slots
  BY DEF TypeOK, Slots
<1>2. ioq_length \in Nat /\ (ioq_length = 0 <=> ioq_empty)
  BY <1>1, LengthFacts, ContentIsBytes DEF ioq_empty
<1>3. ASSUME Take, ~ioq_empty PROVE ioq_length' = ioq_length - 1
  <2>1. head' = head /\ tail' = next_pos(tail) /\ head # tail
    BY <1>3 DEF Take, ioq_empty
  <2>2. ioq_length' = Length(head', tail')
    BY DEF ioq_length, Length
  <2> QED BY <2>1, <2>2, <1>1, LengthFacts, ContentIsBytes
<1> QED BY <1>2, <1>3

\* Since nothing runs in between, a pipe reader finds every byte it counted.
LEMMA ReadersStep ==
    ASSUME Inv, ReadersCovered, [Next]_vars
    PROVE  ReadersCovered'
<1> USE DEF Inv
<1>0. /\ Nobody \notin Threads /\ PipeReaders \subseteq Consumers
      /\ PipeReaders \subseteq Threads
      /\ PipeReaders \cap Producers = {} /\ PipeReaders \cap StdinReaders = {}
  BY QueueAssumption DEF Consumers, Threads
<1>1. ASSUME run = Nobody, NEW t \in PipeReaders PROVE pc[t] = "out"
  BY <1>0, <1>1 DEF CallHasCpu, ReadersCovered
<1>2. ASSUME NEW c \in Keys, KeyIrq(c) PROVE ReadersCovered'
  BY <1>1, <1>2 DEF KeyIrq, Store, ReadersCovered
<1>3. ASSUME NEW t \in Threads, ResumeLock(t) PROVE ReadersCovered'
  <2>1. run = Nobody /\ pc[t] = "lock"
    BY <1>3 DEF ResumeLock
  <2>2. \A u \in Threads \ {t} : pc'[u] = pc[u]
    BY <1>3 DEF ResumeLock, LockAndWait, EnterWait, TypeOK
  <2> QED BY <2>1, <2>2, <1>0, <1>1 DEF ReadersCovered
<1>4. ASSUME NEW t \in Threads, ResumeWait(t) PROVE ReadersCovered'
  <2>1. run = Nobody /\ pc[t] = "wait" /\ pc' = [pc EXCEPT ![t] = "call"]
    BY <1>4 DEF ResumeWait
  <2> QED BY <2>1, <1>0, <1>1 DEF ReadersCovered, TypeOK
<1>5. ASSUME NEW t \in Threads, Return(t) PROVE ReadersCovered'
  <2>1. /\ pc' = [pc EXCEPT ![t] = "out"] /\ todo' = todo
        /\ ioq_length' = ioq_length
    BY <1>5 DEF Return, ring, ioq_length
  <2> QED BY <2>1, <1>0 DEF ReadersCovered, TypeOK
<1>6. ASSUME NEW t \in Threads, ioq_getchar(t) PROVE ReadersCovered'
  <2>1. /\ run = t /\ pc[t] = "call" /\ todo[t] > 0 /\ todo[t] \in Nat
        /\ \A u \in PipeReaders \ {t} : pc[u] = "out"
    BY <1>6, <1>0 DEF ioq_getchar, TypeOK, CallHasCpu, ReadersCovered
  <2>2. CASE ioq_empty
    <3>1. t \notin PipeReaders
      BY <2>1, <2>2, LengthSteps DEF ReadersCovered
    <3>2. \A u \in Threads \ {t} : pc'[u] = pc[u]
      BY <1>6, <2>2 DEF ioq_getchar, LockAndWait, EnterWait, TypeOK
    <3> QED BY <3>1, <3>2, <2>1, <1>0 DEF ReadersCovered
  <2>3. CASE ~ioq_empty
    <3>1. Take /\ todo' = [todo EXCEPT ![t] = @ - 1] /\ pc' = pc
      BY <1>6, <2>3 DEF ioq_getchar, Take
    <3>2. ioq_length' = ioq_length - 1 /\ ioq_length \in Nat
      BY <3>1, <2>3, LengthSteps
    <3>3. t \in PipeReaders => todo'[t] = todo[t] - 1 /\ todo[t] <= ioq_length
      BY <3>1, <2>1 DEF TypeOK, ReadersCovered
    <3> QED BY <3>1, <3>2, <3>3, <2>1 DEF ReadersCovered
  <2> QED BY <2>2, <2>3
<1>7. ASSUME NEW t \in Threads, t \in Producers, NEW c \in Chars, ioq_putchar(t, c)
      PROVE  ReadersCovered'
  <2>1. /\ run = t /\ t \notin PipeReaders
        /\ \A u \in PipeReaders : pc[u] = "out"
    BY <1>7, <1>0 DEF ioq_putchar, CallHasCpu, ReadersCovered
  <2>2. \A u \in Threads \ {t} : pc'[u] = pc[u]
    BY <1>7 DEF ioq_putchar, Store, LockAndWait, EnterWait, TypeOK
  <2> QED BY <2>1, <2>2, <1>0 DEF ReadersCovered
<1>8. ASSUME NEW t \in Threads, NEW n \in 1..MaxCount, Call(t, n)
      PROVE  ReadersCovered'
  <2>1. /\ run = Nobody /\ pc' = [pc EXCEPT ![t] = "call"]
        /\ todo' = [todo EXCEPT ![t] = Size(t, n)]
        /\ ioq_length' = ioq_length /\ ioq_length \in Nat
    BY <1>8, LengthSteps DEF Call, ring, ioq_length
  <2>2. t \in PipeReaders => Size(t, n) <= ioq_length
    <3> SUFFICES ASSUME t \in PipeReaders PROVE Size(t, n) <= ioq_length
      OBVIOUS
    <3>1. Size(t, n) = SmallerOf(ioq_length, n)
      BY <1>0 DEF Size
    <3> QED BY <3>1, <2>1 DEF SmallerOf
  <2> QED BY <2>1, <2>2, <1>0, <1>1 DEF ReadersCovered, TypeOK
<1>9. CASE UNCHANGED vars
  BY <1>9 DEF vars, ReadersCovered, ioq_length
<1> QED BY <1>2, <1>3, <1>4, <1>5, <1>6, <1>7, <1>8, <1>9 DEF Next, Step

\* pipe_read never blocks, however many threads use the pipe.
THEOREM PipeReadersNeverBlock == Spec => []PipeReadNeverBlocks
<1>1. Init => ReadersCovered
  BY DEF Init, ReadersCovered, Threads, Consumers
<1>2. Inv /\ ReadersCovered /\ [Next]_vars => ReadersCovered'
  BY ReadersStep
<1>3. ReadersCovered => PipeReadNeverBlocks
  BY DEF ReadersCovered, PipeReadNeverBlocks
<1> QED BY <1>1, <1>2, <1>3, Invariance, PTL DEF Spec

\* One reader of the keyboard, one writer of the pipe: nobody queues on the
\* lock, and the queue is empty or full as long as its sleeper is not woken.
Alone == /\ \A s, t \in StdinReaders : s = t
         /\ \A s, t \in Producers : s = t

NobodyQueues == \A t \in Threads : pc[t] # "lock"

\* A step that blocks the thread t finds the lock free, and leaves the queue as
\* it is.
LEMMA BlockAlone ==
    ASSUME Alone, Inv, ReadersCovered, UsersOnly, NobodyQueues,
           NEW t \in Threads, pc[t] = "call",
           t \notin PipeReaders, LockAndWait(t)
    PROVE  /\ EnterWait(t) /\ NobodyQueues'
           /\ consumer = Nobody /\ producer = Nobody
<1> USE DEF Inv
<1>0. Nobody \notin Threads /\ Threads = StdinReaders \cup PipeReaders \cup Producers
  BY QueueAssumption DEF Threads, Consumers
<1>1. holder = Nobody
  <2> SUFFICES ASSUME holder # Nobody PROVE FALSE
    OBVIOUS
  <2>1. PICK s \in Threads : s = holder /\ pc[s] = "wait"
    BY DEF WaitHoldsLock, TypeOK
  <2>2. s \notin PipeReaders
    BY <2>1 DEF ReadersCovered
  <2>3. s \in StdinReaders <=> t \in StdinReaders
    BY <2>1 DEF UsersOnly
  <2>4. s = t
    BY <2>2, <2>3, <1>0 DEF Alone
  <2> QED BY <2>1, <2>4
<1>2. EnterWait(t)
  BY <1>1 DEF LockAndWait
<1>3. NobodyQueues'
  BY <1>2 DEF EnterWait, NobodyQueues, TypeOK
<1>4. consumer = Nobody /\ producer = Nobody
  BY <1>0, <1>1 DEF WaitHoldsLock, TypeOK, Threads
<1> QED BY <1>2, <1>3, <1>4

\* Every step keeps it so.
LEMMA AloneStep ==
    ASSUME Alone, Inv, ReadersCovered, UsersOnly, NobodyQueues,
           SleepsOnlyWhenStuck, [Next]_vars
    PROVE  UsersOnly' /\ NobodyQueues' /\ SleepsOnlyWhenStuck'
<1> USE DEF Inv
<1>0. /\ Nobody \notin Threads /\ Threads = StdinReaders \cup PipeReaders \cup Producers
      /\ Consumers = StdinReaders \cup PipeReaders
      /\ Consumers \cap Producers = {} /\ StdinReaders \cap PipeReaders = {}
  BY QueueAssumption DEF Threads, Consumers
<1>1. ASSUME NEW c \in Keys, KeyIrq(c), use' = use
      PROVE  UsersOnly' /\ NobodyQueues' /\ SleepsOnlyWhenStuck'
  <2>1. /\ use = "keyboard" /\ consumer' = Nobody
        /\ producer' = producer /\ pc' = pc
    BY <1>1 DEF KeyIrq, Store
  <2>2. producer = Nobody
    <3> SUFFICES ASSUME producer # Nobody PROVE FALSE
      OBVIOUS
    <3>1. producer \in Producers /\ pc[producer] = "wait"
      BY DEF TypeOK, WaitHoldsLock
    <3> QED BY <3>1, <2>1, <1>0 DEF UsersOnly
  <2> QED BY <2>1, <2>2, <1>1 DEF UsersOnly, NobodyQueues, SleepsOnlyWhenStuck
<1>2. ASSUME NEW t \in Threads, ResumeLock(t) PROVE FALSE
  BY <1>2 DEF ResumeLock, NobodyQueues
<1>3. ASSUME NEW t \in Threads, ResumeWait(t) \/ Return(t), use' = use
      PROVE  UsersOnly' /\ NobodyQueues' /\ SleepsOnlyWhenStuck'
  <2>1. /\ pc[t] \in {"wait", "call"}
        /\ \E p \in {"call", "out"} : pc' = [pc EXCEPT ![t] = p]
        /\ UNCHANGED <<head, tail, consumer, producer>>
    BY <1>3 DEF ResumeWait, Return, ring
  <2>2. UsersOnly' /\ NobodyQueues'
    BY <2>1, <1>3 DEF UsersOnly, NobodyQueues, TypeOK
  <2>3. SleepsOnlyWhenStuck'
    BY <2>1 DEF SleepsOnlyWhenStuck, ioq_empty, ioq_full
  <2> QED BY <2>2, <2>3
<1>4. ASSUME NEW t \in Threads, t \in Consumers, ioq_getchar(t), use' = use
      PROVE  UsersOnly' /\ NobodyQueues' /\ SleepsOnlyWhenStuck'
  <2>1. run = t /\ pc[t] = "call" /\ todo[t] > 0 /\ todo[t] \in Nat
    BY <1>4 DEF ioq_getchar, TypeOK
  <2>2. CASE ioq_empty
    <3>1. t \notin PipeReaders
      BY <2>1, <2>2, LengthSteps DEF ReadersCovered
    <3>2. LockAndWait(t) /\ UNCHANGED <<head, tail>>
      BY <2>2, <1>4 DEF ioq_getchar, ring
    <3>3. EnterWait(t) /\ NobodyQueues' /\ producer = Nobody
      BY <2>1, <3>1, <3>2, BlockAlone
    <3>4. pc' = [pc EXCEPT ![t] = "wait"] /\ producer' = Nobody
      BY <3>3, <1>4 DEF EnterWait
    <3>5. UsersOnly'
      BY <3>4, <2>1, <1>4 DEF UsersOnly, TypeOK
    <3>6. SleepsOnlyWhenStuck'
      BY <3>2, <3>4, <2>2 DEF SleepsOnlyWhenStuck, ioq_empty
    <3> QED BY <3>3, <3>5, <3>6
  <2>3. CASE ~ioq_empty
    <3>1. Take
      BY <2>3, <1>4 DEF ioq_getchar
    <3>2. pc' = pc /\ producer' = Nobody /\ consumer' = consumer
      BY <3>1 DEF Take
    <3>3. consumer = Nobody
      BY <2>3 DEF SleepsOnlyWhenStuck
    <3> QED BY <3>2, <3>3, <1>4 DEF UsersOnly, NobodyQueues, SleepsOnlyWhenStuck
  <2> QED BY <2>2, <2>3
<1>5. ASSUME NEW t \in Threads, t \in Producers, NEW c \in Chars, ioq_putchar(t, c),
             use' = use
      PROVE  UsersOnly' /\ NobodyQueues' /\ SleepsOnlyWhenStuck'
  <2>1. run = t /\ pc[t] = "call" /\ t \notin Consumers /\ t \notin PipeReaders
    BY <1>5, <1>0 DEF ioq_putchar
  <2>2. CASE ioq_full
    <3>1. LockAndWait(t) /\ UNCHANGED <<head, tail>>
      BY <2>2, <1>5 DEF ioq_putchar, ring
    <3>2. EnterWait(t) /\ NobodyQueues' /\ consumer = Nobody
      BY <2>1, <3>1, BlockAlone
    <3>3. pc' = [pc EXCEPT ![t] = "wait"] /\ consumer' = Nobody
      BY <3>2, <2>1 DEF EnterWait
    <3>4. UsersOnly'
      BY <3>3, <2>1, <1>5 DEF UsersOnly, TypeOK
    <3>5. SleepsOnlyWhenStuck'
      BY <3>1, <3>3, <2>2 DEF SleepsOnlyWhenStuck, ioq_full
    <3> QED BY <3>2, <3>4, <3>5
  <2>3. CASE ~ioq_full
    <3>1. Store(c)
      BY <2>3, <1>5 DEF ioq_putchar
    <3>2. pc' = pc /\ consumer' = Nobody /\ producer' = producer
      BY <3>1 DEF Store
    <3>3. producer = Nobody
      BY <2>3 DEF SleepsOnlyWhenStuck
    <3> QED BY <3>2, <3>3, <1>5 DEF UsersOnly, NobodyQueues, SleepsOnlyWhenStuck
  <2> QED BY <2>2, <2>3
<1>6. ASSUME NEW t \in Threads, NEW n \in 1..MaxCount, Call(t, n), use' = use
      PROVE  UsersOnly' /\ NobodyQueues' /\ SleepsOnlyWhenStuck'
  <2>1. /\ use = IF t \in StdinReaders THEN "keyboard" ELSE "pipe"
        /\ pc' = [pc EXCEPT ![t] = "call"]
        /\ UNCHANGED <<head, tail, consumer, producer>>
    BY <1>6 DEF Call, ring
  <2>2. UsersOnly' /\ NobodyQueues'
    BY <2>1, <1>6 DEF UsersOnly, NobodyQueues, TypeOK
  <2>3. SleepsOnlyWhenStuck'
    BY <2>1 DEF SleepsOnlyWhenStuck, ioq_empty, ioq_full
  <2> QED BY <2>2, <2>3
<1>7. CASE UNCHANGED vars
  BY <1>7 DEF vars, UsersOnly, NobodyQueues, SleepsOnlyWhenStuck, ioq_empty, ioq_full
<1> QED BY <1>1, <1>2, <1>3, <1>4, <1>5, <1>6, <1>7 DEF Next, Step

\* When one thread reads the keyboard and one writes the pipe, as in this
\* kernel's shell, nobody sleeps in ioq_wait while it could go on, whatever the
\* buffer size and however many threads read the pipe.
THEOREM NoNeedlessSleep ==
    ASSUME Alone PROVE Spec => []SleepsOnlyWhenStuck
<1>1. Init => ReadersCovered /\ UsersOnly /\ NobodyQueues /\ SleepsOnlyWhenStuck
  BY DEF Init, ReadersCovered, UsersOnly, NobodyQueues, SleepsOnlyWhenStuck,
         Threads, Consumers
<1>2. Inv /\ ReadersCovered /\ [Next]_vars => ReadersCovered'
  BY ReadersStep
<1>3. /\ Inv /\ ReadersCovered /\ UsersOnly /\ NobodyQueues
      /\ SleepsOnlyWhenStuck /\ [Next]_vars
      => UsersOnly' /\ NobodyQueues' /\ SleepsOnlyWhenStuck'
  BY AloneStep
<1> QED BY <1>1, <1>2, <1>3, Invariance, PTL DEF Spec
=============================================================================
