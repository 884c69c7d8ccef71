----------------------------- MODULE SchedProofs -----------------------------
(***************************************************************************)
(* Proofs about Sched for every set of processes, kernel threads and       *)
(* locks, every priority and every bound.                                  *)
(***************************************************************************)
EXTENDS Sched, KernelFacts

-----------------------------------------------------------------------------
(* schedule(): if its caller left every READY task in the ready list, once, *)
(* and nobody but the caller RUNNING, schedule keeps it so, finds someone   *)
(* to run, and no ASSERT fails.                                             *)

\* What a caller of schedule() must have established.
Schedulable(st, rd) ==
    /\ st \in [Tasks -> Statuses]
    /\ rd \in Seq(Tasks)
    /\ NoRepeat(rd)
    /\ \A t \in Tasks : InList(t, rd) <=> st[t] = "READY"
    /\ \A t \in Tasks : st[t] = "RUNNING" => t = cur
    /\ st[Idle] \in {"RUNNING", "READY", "BLOCKED"}

Queues ==
    /\ ReadyListExact
    /\ status[Idle] \in {"RUNNING", "READY", "BLOCKED"}

\* schedule() restores the invariant of the ready list and hits no ASSERT, and
\* no task but idle falls asleep, wakes or dies in it.
LEMMA ScheduleFacts ==
    ASSUME NEW st, NEW rd, NEW tk \in [Tasks -> Nat], NEW bad \in BOOLEAN,
           cur \in Tasks, Schedulable(st, rd), Schedule(st, rd, tk, bad)
    PROVE  /\ cur' \in Tasks
           /\ status' \in [Tasks -> Statuses]
           /\ ready' \in Seq(Tasks)
           /\ ticks' \in [Tasks -> Nat]
           /\ panic' = bad
           /\ Queues'
           /\ \A t \in Tasks \ {Idle} : st[t] = "BLOCKED" <=> status'[t] = "BLOCKED"
           /\ \A t \in Tasks : st[t] \in {"READY", "RUNNING"}
                                 => status'[t] \in {"READY", "RUNNING"}
<1> DEFINE run == st[cur] = "RUNNING"
           rd1 == IF run THEN Append(rd, cur) ELSE rd
           st1 == IF run THEN [st EXCEPT ![cur] = "READY"] ELSE st
           none == rd1 = << >>
           rd2 == IF none THEN <<Idle>> ELSE rd1
           st2 == IF none THEN [st1 EXCEPT ![Idle] = "READY"] ELSE st1
<1>1. /\ panic' = (\/ bad
                   \/ run /\ InList(cur, rd)
                   \/ none /\ st1[Idle] \notin Asleep)
      /\ ticks' = IF run THEN [tk EXCEPT ![cur] = Priority[cur]] ELSE tk
      /\ cur' = Head(rd2)
      /\ ready' = Tail(rd2)
      /\ status' = [st2 EXCEPT ![Head(rd2)] = "RUNNING"]
  BY DEF Schedule
<1>2. Idle \in Tasks
  BY DEF Tasks
<1>3. /\ rd1 \in Seq(Tasks) /\ NoRepeat(rd1)
      /\ st1 \in [Tasks -> Statuses]
      /\ \A t \in Tasks : InList(t, rd1) <=> st1[t] = "READY"
      /\ \A t \in Tasks : st1[t] # "RUNNING"
      /\ st1[Idle] \in {"READY", "BLOCKED"}
      /\ run => ~none
      /\ run => ~InList(cur, rd)
  <2>1. CASE run
    <3>1. ~InList(cur, rd)
      BY <2>1 DEF Schedulable
    <3>2. /\ Append(rd, cur) \in Seq(Tasks)
          /\ Append(rd, cur) # << >>
          /\ \A y : InList(y, Append(rd, cur)) <=> InList(y, rd) \/ y = cur
          /\ NoRepeat(Append(rd, cur))
      BY <3>1, AppendFacts DEF Schedulable
    <3> QED BY <2>1, <3>1, <3>2, <1>2 DEF Schedulable, Statuses
  <2>2. CASE ~run
    BY <2>2, <1>2 DEF Schedulable
  <2> QED BY <2>1, <2>2
<1> HIDE DEF run, rd1, st1
<1>4. /\ rd2 \in Seq(Tasks) /\ NoRepeat(rd2) /\ rd2 # << >>
      /\ st2 \in [Tasks -> Statuses]
      /\ \A t \in Tasks : InList(t, rd2) <=> st2[t] = "READY"
      /\ \A t \in Tasks : st2[t] # "RUNNING"
      /\ st2[Idle] \in {"READY", "BLOCKED"}
      /\ none => st1[Idle] \in Asleep
  <2>1. CASE none
    <3>1. \A t \in Tasks : ~InList(t, rd1)
      BY <2>1 DEF InList
    <3>2. \A t \in Tasks : st1[t] # "READY"
      BY <3>1, <1>3
    <3>3. st1[Idle] \in Asleep
      BY <3>2, <1>2, <1>3 DEF Asleep
    <3>4. /\ <<Idle>> \in Seq(Tasks) /\ NoRepeat(<<Idle>>) /\ <<Idle>> # << >>
          /\ \A y : InList(y, <<Idle>>) <=> y = Idle
      BY <1>2 DEF InList, NoRepeat
    <3> QED BY <2>1, <3>2, <3>3, <3>4, <1>2, <1>3 DEF Statuses
  <2>2. CASE ~none
    BY <2>2, <1>3
  <2> QED BY <2>1, <2>2
<1>5. panic' = bad
  BY <1>1, <1>3, <1>4
<1>6. ticks' \in [Tasks -> Nat]
  BY <1>1, BoundAssumption
<1>7. /\ \A t \in Tasks \ {Idle} : st[t] = "BLOCKED" <=> st2[t] = "BLOCKED"
      /\ \A t \in Tasks : st[t] \in {"READY", "RUNNING"} => st2[t] = "READY"
  BY <1>2, <1>3, <1>4 DEF Schedulable, st1, run
<1> HIDE DEF rd2, st2, none
<1>8. /\ Head(rd2) \in Tasks /\ Tail(rd2) \in Seq(Tasks) /\ InList(Head(rd2), rd2)
      /\ \A y : InList(y, Tail(rd2)) <=> InList(y, rd2) /\ y # Head(rd2)
      /\ NoRepeat(Tail(rd2))
  BY <1>4, PopFacts
<1>9. cur' \in Tasks /\ ready' \in Seq(Tasks) /\ status' \in [Tasks -> Statuses]
  BY <1>1, <1>4, <1>8 DEF Statuses
<1>10. \A t \in Tasks : status'[t] = IF t = cur' THEN "RUNNING" ELSE st2[t]
  BY <1>1, <1>4, <1>8
<1>11. st2[cur'] = "READY"
  BY <1>1, <1>4, <1>8
<1>12. Queues'
  <2>1. NoRepeat(ready')
    BY <1>1, <1>8
  <2>2. \A t \in Tasks : InList(t, ready') <=> status'[t] = "READY"
    BY <1>1, <1>4, <1>8, <1>10
  <2>3. \A t \in Tasks : status'[t] = "RUNNING" <=> t = cur'
    BY <1>4, <1>10
  <2>4. status'[Idle] \in {"RUNNING", "READY", "BLOCKED"}
    BY <1>2, <1>4, <1>10
  <2> QED BY <2>1, <2>2, <2>3, <2>4 DEF Queues, ReadyListExact
<1>13. /\ \A t \in Tasks \ {Idle} : st[t] = "BLOCKED" <=> status'[t] = "BLOCKED"
       /\ \A t \in Tasks : st[t] \in {"READY", "RUNNING"}
                             => status'[t] \in {"READY", "RUNNING"}
  BY <1>7, <1>9, <1>10, <1>11
<1> QED BY <1>5, <1>6, <1>9, <1>12, <1>13

-----------------------------------------------------------------------------
(* The inductive invariant.                                                 *)

\* The waiters of a semaphore are the tasks asleep in its sema_down, once each.
SemaInv ==
    \A l \in Locks :
        /\ NoRepeat(waiters[l])
        /\ \A t \in Tasks : InList(t, waiters[l]) <=>
              status[t] = "BLOCKED" /\ pc[t] = "sema" /\ want[t] = l

\* t is between the sema_down that gave it l and the sema_up that gives it back.
InSection(t, l) ==
    held[t][l] > 0 \/ (pc[t] \in {"got", "up"} /\ want[t] = l)

LockInv ==
    /\ \A t, u \in Tasks : \A l \in Locks :
          InSection(t, l) /\ InSection(u, l) => t = u
    /\ \A t \in Tasks : \A l \in Locks : InSection(t, l) => value[l] = 0
    /\ \A t \in Tasks : \A l \in Locks : holder[l] = t <=> held[t][l] > 0
    /\ \A t \in Tasks : \A l \in Locks : holder[l] = t => repeat[l] = held[t][l]
    /\ \A l \in Locks : holder[l] = Nobody => repeat[l] = 0
    /\ \A t \in Tasks : pc[t] \in {"down", "sema", "got", "up"} => held[t][want[t]] = 0

IInv == /\ TypeOK /\ NoPanic
        /\ Queues /\ pc[Idle] \in {"code", "hlt"}
        /\ SemaInv /\ LockInv /\ NoLostWakeup

-----------------------------------------------------------------------------
(* Frames: what a step that leaves the locks alone preserves.               *)

\* A task's place inside sema_down, lock_acquire and lock_release is kept.
SamePlace ==
    \A t \in Tasks : \/ pc'[t] = pc[t]
                     \/ {pc[t], pc'[t]} \subseteq {"code", "sleep", "hlt"}

\* No step outside lock_acquire and lock_release disturbs the locks.
LEMMA LockFrame ==
    ASSUME LockInv, UNCHANGED lockVars, SamePlace
    PROVE  LockInv'
<1>1. \A t \in Tasks : pc'[t] \in {"down", "sema", "got", "up"} => pc'[t] = pc[t]
  BY DEF SamePlace
<1>2. \A t \in Tasks : \A l \in Locks : InSection(t, l)' => InSection(t, l)
  BY <1>1 DEF InSection, lockVars
<1> QED BY <1>1, <1>2 DEF LockInv, lockVars

\* Waking or putting to sleep tasks that are not inside sema_down leaves the
\* waiters exact, and no woken waiter is lost.
LEMMA SemaFrame ==
    ASSUME SemaInv, NoLostWakeup, UNCHANGED lockVars, SamePlace,
           \A t \in Tasks : pc[t] = "sema" =>
              /\ status[t] = "BLOCKED" <=> status'[t] = "BLOCKED"
              /\ status[t] \in {"READY", "RUNNING"} => status'[t] \in {"READY", "RUNNING"}
    PROVE  SemaInv' /\ NoLostWakeup'
<1>1. \A t \in Tasks : pc'[t] = "sema" <=> pc[t] = "sema"
  BY DEF SamePlace
<1>2. SemaInv'
  BY <1>1 DEF SemaInv, lockVars
<1>3. NoLostWakeup'
  BY <1>1 DEF NoLostWakeup, lockVars
<1> QED BY <1>2, <1>3

\* thread_block, and thread_exit of the running thread, keep the queues.
LEMMA BlockFacts ==
    ASSUME IInv, NEW stat \in Asleep \cup {"DIED"}, cur = Idle => stat = "BLOCKED",
           Schedule([status EXCEPT ![cur] = stat], ready, ticks, FALSE)
    PROVE  /\ cur' \in Tasks
           /\ status' \in [Tasks -> Statuses]
           /\ ready' \in Seq(Tasks)
           /\ ticks' \in [Tasks -> Nat]
           /\ panic' = FALSE
           /\ Queues'
           /\ \A t \in Tasks \ {Idle, cur} :
                 /\ status[t] = "BLOCKED" <=> status'[t] = "BLOCKED"
                 /\ status[t] \in {"READY", "RUNNING"}
                       => status'[t] \in {"READY", "RUNNING"}
           /\ cur # Idle => (status'[cur] = "BLOCKED" <=> stat = "BLOCKED")
<1> DEFINE st == [status EXCEPT ![cur] = stat]
<1>1. Idle \in Tasks /\ cur \in Tasks /\ status \in [Tasks -> Statuses]
  BY DEF IInv, TypeOK, Tasks
<1>2. st \in [Tasks -> Statuses] /\ \A t \in Tasks : st[t] = IF t = cur THEN stat ELSE status[t]
  BY <1>1 DEF Statuses, Asleep
<1> HIDE DEF st
<1>3. Schedulable(st, ready)
  BY <1>1, <1>2 DEF Schedulable, IInv, TypeOK, Queues, ReadyListExact, Asleep
<1>4. Schedule(st, ready, ticks, FALSE) /\ ticks \in [Tasks -> Nat] /\ FALSE \in BOOLEAN
  BY DEF st, IInv, TypeOK
<1> QED BY <1>1, <1>2, <1>3, <1>4, ScheduleFacts

\* thread_unblock of a sleeping task keeps the queues and hits no ASSERT.
LEMMA UnblockFacts ==
    ASSUME IInv, NEW t \in Tasks, status[t] \in Asleep, ThreadUnblock(t, FALSE)
    PROVE  /\ status' \in [Tasks -> Statuses]
           /\ ready' \in Seq(Tasks)
           /\ panic' = FALSE
           /\ Queues'
           /\ \A u \in Tasks : status'[u] = IF u = t THEN "READY" ELSE status[u]
<1>1. /\ Idle \in Tasks /\ cur \in Tasks /\ status \in [Tasks -> Statuses]
      /\ ready \in Seq(Tasks)
  BY DEF IInv, TypeOK, Tasks
<1>2. /\ status' = [status EXCEPT ![t] = "READY"]
      /\ ready' = <<t>> \o ready
      /\ cur' = cur
      /\ panic' = (status[t] \notin Asleep \/ InList(t, ready))
  BY DEF ThreadUnblock
<1>3. \A u \in Tasks : status'[u] = IF u = t THEN "READY" ELSE status[u]
  BY <1>1, <1>2
<1>4. ~InList(t, ready) /\ NoRepeat(ready)
  BY DEF IInv, Queues, ReadyListExact, Asleep
<1>5. /\ <<t>> \o ready \in Seq(Tasks)
      /\ \A y : InList(y, <<t>> \o ready) <=> InList(y, ready) \/ y = t
      /\ NoRepeat(<<t>> \o ready)
  BY <1>1, <1>4, PushFacts
<1>6. status' \in [Tasks -> Statuses]
  BY <1>1, <1>2 DEF Statuses
<1>7. ReadyListExact'
  <2>1. NoRepeat(ready')
    BY <1>2, <1>5
  <2>2. \A u \in Tasks : InList(u, ready') <=> status'[u] = "READY"
    BY <1>2, <1>3, <1>5 DEF IInv, Queues, ReadyListExact
  <2>3. \A u \in Tasks : status'[u] = "RUNNING" <=> u = cur'
    BY <1>2, <1>3 DEF IInv, Queues, ReadyListExact, Asleep
  <2> QED BY <2>1, <2>2, <2>3 DEF ReadyListExact
<1>8. Queues'
  BY <1>1, <1>3, <1>7 DEF IInv, Queues
<1> QED BY <1>2, <1>3, <1>4, <1>5, <1>6, <1>8

-----------------------------------------------------------------------------
(* One lemma per action, or per group of actions with the same argument.    *)

\* The timer interrupt.
LEMMA TickInv == ASSUME IInv, Tick PROVE IInv'
<1>1. /\ Idle \in Tasks /\ cur \in Tasks /\ status \in [Tasks -> Statuses]
      /\ ready \in Seq(Tasks) /\ ticks \in [Tasks -> Nat] /\ pc \in [Tasks -> Points]
  BY DEF IInv, TypeOK, Tasks
<1>2. /\ pc' \in [Tasks -> Points] /\ SamePlace /\ pc'[Idle] \in {"code", "hlt"}
      /\ pc' = AfterHlt
  BY <1>1 DEF Tick, AfterHlt, SamePlace, Points, IInv
<1>3. left' \in [Tasks -> Nat]
  <2>1. left' = [t \in Tasks |-> IF left[t] = 0 THEN 0 ELSE left[t] - 1]
    BY DEF Tick
  <2>2. left \in [Tasks -> Nat]
    BY DEF IInv, TypeOK
  <2>3. \A t \in Tasks : (IF left[t] = 0 THEN 0 ELSE left[t] - 1) \in Nat
    BY <2>2
  <2> QED BY <2>1, <2>3
<1>4. UNCHANGED <<base, lockVars>>
  BY DEF Tick
<1>5. /\ cur' \in Tasks
      /\ status' \in [Tasks -> Statuses]
      /\ ready' \in Seq(Tasks)
      /\ ticks' \in [Tasks -> Nat]
      /\ panic' = FALSE
      /\ Queues'
      /\ \A t \in Tasks \ {Idle} : status[t] = "BLOCKED" <=> status'[t] = "BLOCKED"
      /\ \A t \in Tasks : status[t] \in {"READY", "RUNNING"}
                            => status'[t] \in {"READY", "RUNNING"}
  <2>1. CASE ticks[cur] = 0
    <3>1. Schedule(status, ready, ticks, FALSE)
      BY <2>1 DEF Tick
    <3>2. Schedulable(status, ready)
      BY <1>1 DEF IInv, Queues, ReadyListExact, Schedulable
    <3> QED BY <1>1, <3>1, <3>2, ScheduleFacts
  <2>2. CASE ticks[cur] # 0
    <3>1. ticks' = [ticks EXCEPT ![cur] = @ - 1] /\ UNCHANGED <<cur, status, ready, panic>>
      BY <2>2 DEF Tick
    <3>2. ticks' \in [Tasks -> Nat]
      BY <2>2, <3>1, <1>1
    <3>3. Queues'
      BY <3>1 DEF IInv, Queues, ReadyListExact
    <3> QED BY <1>1, <3>1, <3>2, <3>3 DEF IInv, NoPanic
  <2> QED BY <2>1, <2>2
<1>6. TypeOK' /\ NoPanic'
  BY <1>2, <1>3, <1>4, <1>5 DEF TypeOK, NoPanic, IInv, lockVars
<1>7. LockInv'
  BY <1>2, <1>4, LockFrame DEF IInv
<1>8. SemaInv' /\ NoLostWakeup'
  BY <1>1, <1>2, <1>4, <1>5, SemaFrame DEF IInv
<1> QED BY <1>2, <1>5, <1>6, <1>7, <1>8 DEF IInv

\* Steps that wake a sleeping task that is not in a semaphore's waiters.
LEMMA WakeInv ==
    ASSUME IInv, NEW t \in Tasks, status[t] \in Asleep,
           status[t] = "BLOCKED" => pc[t] # "sema",
           ThreadUnblock(t, FALSE), UNCHANGED <<base, left, lockVars>>,
           pc' = pc \/ pc' = AfterHlt
    PROVE  IInv'
<1>1. Idle \in Tasks /\ cur \in Tasks /\ pc \in [Tasks -> Points]
  BY DEF IInv, TypeOK, Tasks
<1>2. pc' \in [Tasks -> Points] /\ SamePlace /\ pc'[Idle] \in {"code", "hlt"}
  BY <1>1 DEF AfterHlt, SamePlace, Points, IInv
<1>3. cur' = cur /\ ticks' = ticks
  BY DEF ThreadUnblock
<1>4. /\ status' \in [Tasks -> Statuses] /\ ready' \in Seq(Tasks)
      /\ panic' = FALSE /\ Queues'
      /\ \A u \in Tasks : status'[u] = IF u = t THEN "READY" ELSE status[u]
  BY UnblockFacts
<1>5. TypeOK' /\ NoPanic'
  BY <1>2, <1>3, <1>4 DEF TypeOK, NoPanic, IInv, lockVars
<1>6. LockInv'
  BY <1>2, LockFrame DEF IInv
<1>7. SemaInv' /\ NoLostWakeup'
  BY <1>1, <1>2, <1>4, SemaFrame DEF IInv
<1> QED BY <1>2, <1>4, <1>5, <1>6, <1>7 DEF IInv

\* Steps that put the running task to sleep, or end it, outside sema_down.
LEMMA SleepInv ==
    ASSUME IInv, NEW stat \in Asleep \cup {"DIED"}, cur = Idle => stat = "BLOCKED",
           Schedule([status EXCEPT ![cur] = stat], ready, ticks, FALSE),
           pc[cur] # "sema", UNCHANGED <<base, left, lockVars>>,
           pc' \in [Tasks -> Points], SamePlace, pc'[Idle] \in {"code", "hlt"}
    PROVE  IInv'
<1>1. Idle \in Tasks /\ cur \in Tasks /\ pc[Idle] # "sema"
  BY DEF IInv, TypeOK, Tasks
<1>2. /\ cur' \in Tasks
      /\ status' \in [Tasks -> Statuses]
      /\ ready' \in Seq(Tasks)
      /\ ticks' \in [Tasks -> Nat]
      /\ panic' = FALSE
      /\ Queues'
      /\ \A t \in Tasks \ {Idle, cur} :
            /\ status[t] = "BLOCKED" <=> status'[t] = "BLOCKED"
            /\ status[t] \in {"READY", "RUNNING"} => status'[t] \in {"READY", "RUNNING"}
  BY BlockFacts
<1>3. TypeOK' /\ NoPanic'
  BY <1>2 DEF TypeOK, NoPanic, IInv, lockVars
<1>4. LockInv'
  BY LockFrame DEF IInv
<1>5. SemaInv' /\ NoLostWakeup'
  BY <1>1, <1>2, SemaFrame DEF IInv
<1> QED BY <1>2, <1>3, <1>4, <1>5 DEF IInv

\* System call entry and return, and the start of a sleep.
LEMMA LocalInv ==
    ASSUME IInv, NEW t \in Threads, cur = t,
           SysEnter(t) \/ SysReturn(t) \/ \E n \in 1..MaxSleep : Sleep(t, n)
    PROVE  IInv'
<1>1. /\ Idle \in Tasks /\ t \in Tasks /\ t # Idle
      /\ pc \in [Tasks -> Points] /\ base \in [Tasks -> BOOLEAN]
      /\ left \in [Tasks -> Nat] /\ MaxSleep \in Nat
  BY TaskAssumption, BoundAssumption DEF IInv, TypeOK, Tasks
<1>2. UNCHANGED <<schedVars, lockVars>>
  BY DEF SysEnter, SysReturn, Sleep
<1>3. pc' \in [Tasks -> Points] /\ SamePlace /\ pc'[Idle] = pc[Idle]
  BY <1>1 DEF SysEnter, SysReturn, Sleep, SamePlace, Points, InKernel, AtCode
<1>4. base' \in [Tasks -> BOOLEAN] /\ left' \in [Tasks -> Nat]
  <2>1. CASE SysEnter(t)
    BY <1>1, <2>1 DEF SysEnter
  <2>2. CASE SysReturn(t)
    BY <1>1, <2>2 DEF SysReturn
  <2>3. CASE \E n \in 1..MaxSleep : Sleep(t, n)
    BY <1>1, <2>3 DEF Sleep
  <2> QED BY <2>1, <2>2, <2>3
<1>5. TypeOK' /\ NoPanic' /\ Queues'
  BY <1>2, <1>3, <1>4 DEF TypeOK, NoPanic, IInv, lockVars, schedVars, Queues, ReadyListExact
<1>6. LockInv'
  BY <1>2, <1>3, LockFrame DEF IInv
<1>7. SemaInv' /\ NoLostWakeup'
  BY <1>2, <1>3, SemaFrame DEF IInv, schedVars
<1> QED BY <1>3, <1>5, <1>6, <1>7 DEF IInv

\* One turn of ticks_to_sleep.
LEMMA SleepLoopInv == ASSUME IInv, NEW t \in Threads, SleepLoop(t) PROVE IInv'
<1>1. /\ Idle \in Tasks /\ t \in Tasks /\ t # Idle /\ cur = t /\ cur \in Tasks
      /\ pc \in [Tasks -> Points] /\ status \in [Tasks -> Statuses]
      /\ ready \in Seq(Tasks) /\ ticks \in [Tasks -> Nat] /\ pc[t] = "sleep"
  BY TaskAssumption DEF IInv, TypeOK, Tasks, SleepLoop
<1>2. UNCHANGED <<lockVars, base, left>>
  BY DEF SleepLoop
<1>3. pc' \in [Tasks -> Points] /\ SamePlace /\ pc'[Idle] = pc[Idle]
  BY <1>1 DEF SleepLoop, SamePlace, Points
<1>4. LockInv'
  BY <1>2, <1>3, LockFrame DEF IInv
<1>5. CASE left[t] = 0
  <2>1. UNCHANGED schedVars
    BY <1>5 DEF SleepLoop
  <2>2. TypeOK' /\ NoPanic' /\ Queues'
    BY <1>2, <1>3, <2>1
       DEF TypeOK, NoPanic, IInv, lockVars, schedVars, Queues, ReadyListExact
  <2>3. SemaInv' /\ NoLostWakeup'
    BY <1>2, <1>3, <2>1, SemaFrame DEF IInv, schedVars
  <2> QED BY <1>3, <1>4, <2>2, <2>3 DEF IInv
<1>6. CASE left[t] # 0
  <2> DEFINE st == [status EXCEPT ![cur] = "READY"]
             rd == Append(ready, cur)
  <2>1. ~InList(cur, ready) /\ NoRepeat(ready)
    BY <1>1 DEF IInv, Queues, ReadyListExact
  <2>2. Schedule(st, rd, ticks, InList(cur, ready)) /\ InList(cur, ready) \in BOOLEAN
    BY <1>1, <1>6 DEF InList, SleepLoop, ThreadYield
  <2>3. /\ st \in [Tasks -> Statuses]
        /\ \A u \in Tasks : st[u] = IF u = cur THEN "READY" ELSE status[u]
    BY <1>1 DEF Statuses
  <2>4. /\ rd \in Seq(Tasks) /\ NoRepeat(rd)
        /\ \A y : InList(y, rd) <=> InList(y, ready) \/ y = cur
    BY <1>1, <2>1, AppendFacts
  <2> HIDE DEF st, rd
  <2>5. Schedulable(st, rd)
    BY <1>1, <2>3, <2>4 DEF Schedulable, IInv, Queues, ReadyListExact
  <2>6. /\ cur' \in Tasks
        /\ status' \in [Tasks -> Statuses]
        /\ ready' \in Seq(Tasks)
        /\ ticks' \in [Tasks -> Nat]
        /\ panic' = FALSE
        /\ Queues'
        /\ \A u \in Tasks \ {Idle} : st[u] = "BLOCKED" <=> status'[u] = "BLOCKED"
        /\ \A u \in Tasks : st[u] \in {"READY", "RUNNING"}
                              => status'[u] \in {"READY", "RUNNING"}
    BY <1>1, <2>1, <2>2, <2>5, ScheduleFacts
  <2>7. TypeOK' /\ NoPanic'
    BY <1>2, <1>3, <2>6 DEF TypeOK, NoPanic, IInv, lockVars
  <2>8. \A u \in Tasks : pc[u] = "sema" =>
              /\ status[u] = "BLOCKED" <=> status'[u] = "BLOCKED"
              /\ status[u] \in {"READY", "RUNNING"} => status'[u] \in {"READY", "RUNNING"}
    BY <1>1, <2>3, <2>6 DEF IInv
  <2>9. SemaInv' /\ NoLostWakeup'
    BY <1>2, <1>3, <2>8, SemaFrame DEF IInv
  <2> QED BY <1>3, <1>4, <2>6, <2>7, <2>9 DEF IInv
<1> QED BY <1>5, <1>6

\* sys_fork and thread_exit(child, false).
LEMMA ProcessInv ==
    ASSUME IInv, NEW t \in Threads, NEW c \in Procs,
           StartProcess(t, c) \/ Reap(t, c)
    PROVE  IInv'
<1>1. /\ Idle \in Tasks /\ c \in Tasks /\ c # Idle /\ cur \in Tasks
      /\ status \in [Tasks -> Statuses] /\ ready \in Seq(Tasks)
      /\ ticks \in [Tasks -> Nat] /\ base \in [Tasks -> BOOLEAN]
      /\ Priority \in [Tasks -> Nat]
  BY TaskAssumption, BoundAssumption DEF IInv, TypeOK, Tasks, Threads
<1>2. UNCHANGED <<cur, lockVars, pc, left>> /\ SamePlace
  BY DEF StartProcess, Reap, SamePlace
<1>3. LockInv'
  BY <1>2, LockFrame DEF IInv
<1>4. /\ ticks' \in [Tasks -> Nat] /\ base' \in [Tasks -> BOOLEAN]
      /\ status' \in [Tasks -> Statuses]
  BY <1>1 DEF StartProcess, Reap, Statuses
<1>5. \A u \in Tasks \ {c} : status'[u] = status[u]
  BY <1>1 DEF StartProcess, Reap
<1>6. ~InList(c, ready) /\ NoRepeat(ready) /\ c # cur
  BY <1>1 DEF IInv, Queues, ReadyListExact, StartProcess, Reap
<1>7. CASE StartProcess(t, c)
  <2>1. /\ status[c] = "DIED" /\ status'[c] = "READY"
        /\ ready' = Append(ready, c) /\ panic' = FALSE
    BY <1>1, <1>6, <1>7 DEF StartProcess
  <2>2. /\ Append(ready, c) \in Seq(Tasks) /\ NoRepeat(Append(ready, c))
        /\ \A y : InList(y, Append(ready, c)) <=> InList(y, ready) \/ y = c
    BY <1>1, <1>6, AppendFacts
  <2>3. TypeOK' /\ NoPanic'
    BY <1>2, <1>4, <2>1, <2>2 DEF TypeOK, NoPanic, IInv, lockVars
  <2>4. ReadyListExact'
    BY <1>2, <1>5, <1>6, <2>1, <2>2 DEF IInv, Queues, ReadyListExact
  <2>5. SemaInv' /\ NoLostWakeup'
    BY <1>2, <1>5, <2>1, SemaFrame DEF IInv
  <2> QED BY <1>1, <1>2, <1>3, <1>5, <2>3, <2>4, <2>5 DEF IInv, Queues
<1>8. CASE Reap(t, c)
  <2>1. /\ status[c] = "HANGING" /\ status'[c] = "DIED"
        /\ ready' = ready /\ panic' = panic
    BY <1>1, <1>6, <1>8 DEF Reap
  <2>2. TypeOK' /\ NoPanic'
    BY <1>1, <1>2, <1>4, <2>1 DEF TypeOK, NoPanic, IInv, lockVars
  <2>3. ReadyListExact'
    BY <1>1, <1>2, <1>5, <1>6, <2>1 DEF IInv, Queues, ReadyListExact
  <2>4. SemaInv' /\ NoLostWakeup'
    BY <1>2, <1>5, <2>1, SemaFrame DEF IInv
  <2> QED BY <1>1, <1>2, <1>3, <1>5, <2>2, <2>3, <2>4 DEF IInv, Queues
<1> QED BY <1>7, <1>8

\* lock_acquire: the test of holder, or the recursive acquire.
LEMMA LockAcquireInv ==
    ASSUME IInv, NEW t \in Threads, NEW l \in Locks, LockAcquire(t, l)
    PROVE  IInv'
<1>1. /\ Idle \in Tasks /\ t \in Tasks /\ t # Idle /\ pc[t] = "code" /\ cur = t
      /\ pc \in [Tasks -> Points] /\ want \in [Tasks -> Locks]
      /\ repeat \in [Locks -> Nat] /\ held \in [Tasks -> [Locks -> Nat]]
      /\ UNCHANGED <<schedVars, base, left, value, waiters, holder>>
  BY TaskAssumption DEF IInv, TypeOK, Tasks, LockAcquire, InKernel, AtCode
<1>2. CASE holder[l] # t
  <2>1. /\ pc' = [pc EXCEPT ![t] = "down"] /\ want' = [want EXCEPT ![t] = l]
        /\ UNCHANGED <<repeat, held>>
    BY <1>2 DEF LockAcquire
  <2>2. /\ pc' \in [Tasks -> Points] /\ want' \in [Tasks -> Locks]
        /\ pc'[t] = "down" /\ want'[t] = l
        /\ \A u \in Tasks \ {t} : pc'[u] = pc[u] /\ want'[u] = want[u]
    BY <1>1, <2>1 DEF Points
  <2>3. TypeOK' /\ NoPanic' /\ Queues'
    BY <1>1, <2>1, <2>2 DEF IInv, TypeOK, NoPanic, schedVars, Queues, ReadyListExact
  <2>4. \A u \in Tasks : \A m \in Locks : InSection(u, m)' => InSection(u, m)
    BY <1>1, <2>1, <2>2 DEF InSection
  <2>5. held[t][l] = 0
    BY <1>1, <1>2 DEF IInv, LockInv
  <2>6. LockInv'
    <3>1. \A u \in Tasks : pc'[u] \in {"down", "sema", "got", "up"} => held'[u][want'[u]] = 0
      BY <2>1, <2>2, <2>5 DEF IInv, LockInv
    <3> QED BY <1>1, <2>1, <2>4, <3>1 DEF IInv, LockInv
  <2>7. SemaInv'
    BY <1>1, <2>1, <2>2 DEF IInv, SemaInv, schedVars
  <2>8. NoLostWakeup'
    BY <1>1, <2>1, <2>2 DEF IInv, NoLostWakeup, schedVars
  <2> QED BY <1>1, <2>2, <2>3, <2>6, <2>7, <2>8 DEF IInv
<1>3. CASE holder[l] = t
  <2>1. /\ repeat' = [repeat EXCEPT ![l] = @ + 1]
        /\ held' = [held EXCEPT ![t][l] = @ + 1]
        /\ UNCHANGED <<pc, want>>
    BY <1>3 DEF LockAcquire
  <2>2. /\ repeat' \in [Locks -> Nat] /\ held' \in [Tasks -> [Locks -> Nat]]
        /\ repeat'[l] = repeat[l] + 1 /\ held'[t][l] = held[t][l] + 1
        /\ \A m \in Locks \ {l} : repeat'[m] = repeat[m]
        /\ \A u \in Tasks : \A m \in Locks : u # t \/ m # l => held'[u][m] = held[u][m]
    BY <1>1, <2>1
  <2>3. TypeOK' /\ NoPanic' /\ Queues'
    BY <1>1, <2>1, <2>2 DEF IInv, TypeOK, NoPanic, schedVars, Queues, ReadyListExact
  <2>4. held[t][l] > 0 /\ held[t][l] \in Nat
    BY <1>1, <1>3 DEF IInv, LockInv
  <2>5. \A u \in Tasks : \A m \in Locks : InSection(u, m)' => InSection(u, m)
    BY <1>1, <2>1, <2>2, <2>4 DEF InSection
  <2>6. LockInv'
    <3>1. \A u \in Tasks : pc'[u] \in {"down", "sema", "got", "up"} => held'[u][want'[u]] = 0
      BY <1>1, <2>1, <2>2 DEF IInv, LockInv
    <3>2. \A u \in Tasks : \A m \in Locks : holder'[m] = u <=> held'[u][m] > 0
      BY <1>1, <2>1, <2>2, <2>4 DEF IInv, LockInv
    <3>3. \A u \in Tasks : \A m \in Locks : holder'[m] = u => repeat'[m] = held'[u][m]
      BY <1>1, <1>3, <2>2 DEF IInv, LockInv
    <3>4. \A m \in Locks : holder'[m] = Nobody => repeat'[m] = 0
      BY <1>1, <1>3, <2>2, TaskAssumption DEF IInv, LockInv
    <3> QED BY <1>1, <2>5, <3>1, <3>2, <3>3, <3>4 DEF IInv, LockInv
  <2>7. SemaInv' /\ NoLostWakeup'
    BY <1>1, <2>1 DEF IInv, SemaInv, NoLostWakeup, schedVars
  <2> QED BY <1>1, <2>1, <2>3, <2>6, <2>7 DEF IInv
<1> QED BY <1>2, <1>3

\* lock_acquire after sema_down: the caller is alone in the section, so the
\* ASSERT on holder_repeat_nr holds.
LEMMA SetHolderInv == ASSUME IInv, NEW t \in Threads, SetHolder(t) PROVE IInv'
<1> DEFINE l == want[t]
<1>1. /\ Idle \in Tasks /\ t \in Tasks /\ t # Idle /\ pc[t] = "got" /\ cur = t
      /\ l \in Locks
      /\ pc \in [Tasks -> Points] /\ holder \in [Locks -> Tasks \cup {Nobody}]
      /\ repeat \in [Locks -> Nat] /\ held \in [Tasks -> [Locks -> Nat]]
      /\ UNCHANGED <<cur, status, ready, ticks, base, left, want, value, waiters>>
  BY TaskAssumption DEF IInv, TypeOK, Tasks, SetHolder
<1>2. /\ holder' = [holder EXCEPT ![l] = t]
      /\ panic' = (repeat[l] # 0)
      /\ repeat' = [repeat EXCEPT ![l] = 1]
      /\ held' = [held EXCEPT ![t][l] = @ + 1]
      /\ pc' = [pc EXCEPT ![t] = "code"]
  BY DEF SetHolder
<1>3. InSection(t, l) /\ held[t][l] = 0
  BY <1>1 DEF InSection, IInv, LockInv
<1> HIDE DEF l
<1>4. holder[l] = Nobody /\ repeat[l] = 0
  <2>1. \A u \in Tasks : holder[l] # u
    <3> SUFFICES ASSUME NEW u \in Tasks, holder[l] = u PROVE FALSE
      OBVIOUS
    <3>1. held[u][l] > 0
      BY <1>1 DEF IInv, LockInv
    <3>2. u = t
      BY <1>1, <1>3, <3>1 DEF IInv, LockInv, InSection
    <3> QED BY <1>3, <3>1, <3>2
  <2> QED BY <1>1, <2>1 DEF IInv, LockInv
<1>5. /\ pc' \in [Tasks -> Points] /\ holder' \in [Locks -> Tasks \cup {Nobody}]
      /\ repeat' \in [Locks -> Nat] /\ held' \in [Tasks -> [Locks -> Nat]]
      /\ pc'[t] = "code" /\ \A u \in Tasks \ {t} : pc'[u] = pc[u]
      /\ repeat'[l] = 1 /\ held'[t][l] = 1 /\ holder'[l] = t
      /\ \A m \in Locks \ {l} : repeat'[m] = repeat[m] /\ holder'[m] = holder[m]
      /\ \A u \in Tasks : \A m \in Locks : u # t \/ m # l => held'[u][m] = held[u][m]
  BY <1>1, <1>2, <1>3 DEF Points
<1>6. panic' = FALSE
  BY <1>2, <1>4
<1>7. TypeOK' /\ NoPanic' /\ Queues'
  BY <1>1, <1>5, <1>6 DEF IInv, TypeOK, NoPanic, Queues, ReadyListExact
<1>8. \A u \in Tasks : \A m \in Locks : InSection(u, m)' => InSection(u, m)
  BY <1>1, <1>3, <1>5 DEF InSection
<1>9. LockInv'
  <2>1. \A u \in Tasks : pc'[u] \in {"down", "sema", "got", "up"} => held'[u][want'[u]] = 0
    BY <1>1, <1>5 DEF IInv, LockInv
  <2>2. \A u \in Tasks : \A m \in Locks : holder'[m] = u <=> held'[u][m] > 0
    <3>1. \A u \in Tasks \ {t} : held'[u][l] = 0
      <4>1. \A u \in Tasks \ {t} : ~(held[u][l] > 0)
        BY <1>1, <1>4, TaskAssumption DEF IInv, LockInv
      <4> QED BY <4>1, <1>1, <1>5
    <3> QED BY <1>1, <1>5, <3>1 DEF IInv, LockInv
  <2>3. \A u \in Tasks : \A m \in Locks : holder'[m] = u => repeat'[m] = held'[u][m]
    BY <1>1, <1>5 DEF IInv, LockInv
  <2>4. \A m \in Locks : holder'[m] = Nobody => repeat'[m] = 0
    BY <1>1, <1>5, TaskAssumption DEF IInv, LockInv
  <2> QED BY <1>1, <1>8, <2>1, <2>2, <2>3, <2>4 DEF IInv, LockInv
<1>10. SemaInv'
  BY <1>1, <1>5 DEF IInv, SemaInv
<1>11. NoLostWakeup'
  BY <1>1, <1>5 DEF IInv, NoLostWakeup
<1> QED BY <1>1, <1>5, <1>7, <1>9, <1>10, <1>11 DEF IInv

\* lock_release: its ASSERTs hold because the caller is the holder.
LEMMA LockReleaseInv ==
    ASSUME IInv, NEW t \in Threads, NEW l \in Locks, LockRelease(t, l)
    PROVE  IInv'
<1>1. /\ Idle \in Tasks /\ t \in Tasks /\ t # Idle /\ pc[t] = "code" /\ cur = t
      /\ pc \in [Tasks -> Points] /\ want \in [Tasks -> Locks]
      /\ holder \in [Locks -> Tasks \cup {Nobody}]
      /\ repeat \in [Locks -> Nat] /\ held \in [Tasks -> [Locks -> Nat]]
      /\ held[t][l] > 0
      /\ held' = [held EXCEPT ![t][l] = @ - 1]
      /\ panic' = (holder[l] # t \/ repeat[l] = 0)
      /\ UNCHANGED <<cur, status, ready, ticks, base, left, value, waiters>>
  BY TaskAssumption DEF IInv, TypeOK, Tasks, LockRelease, InKernel, AtCode
<1>2. holder[l] = t /\ repeat[l] = held[t][l] /\ repeat[l] \in Nat /\ repeat[l] > 0
  BY <1>1 DEF IInv, LockInv
<1>3. panic' = FALSE
  <2>1. panic' = (holder[l] # t \/ repeat[l] = 0)
    BY DEF LockRelease
  <2>2. ~(holder[l] # t \/ repeat[l] = 0)
    BY <1>2
  <2> QED BY <2>1, <2>2
<1>4. /\ held' \in [Tasks -> [Locks -> Nat]]
      /\ held'[t][l] = held[t][l] - 1
      /\ \A u \in Tasks : \A m \in Locks : u # t \/ m # l => held'[u][m] = held[u][m]
  BY <1>1, <1>2
<1>5. InSection(t, l) /\ \A u \in Tasks \ {t} : held[u][l] = 0
  <2>1. \A u \in Tasks \ {t} : ~(held[u][l] > 0)
    BY <1>1, <1>2 DEF IInv, LockInv
  <2> QED BY <2>1, <1>1 DEF InSection
<1>6. CASE repeat[l] > 1
  <2>1. repeat' = [repeat EXCEPT ![l] = @ - 1] /\ UNCHANGED <<holder, pc, want>>
    BY <1>6 DEF LockRelease
  <2>2. /\ repeat' \in [Locks -> Nat] /\ repeat'[l] = repeat[l] - 1
        /\ \A m \in Locks \ {l} : repeat'[m] = repeat[m]
    BY <1>1, <1>6, <2>1
  <2>3. TypeOK' /\ NoPanic' /\ Queues'
    BY <1>1, <1>3, <1>4, <2>1, <2>2 DEF IInv, TypeOK, NoPanic, Queues, ReadyListExact
  <2>4. \A u \in Tasks : \A m \in Locks : InSection(u, m)' => InSection(u, m)
    BY <1>1, <1>4, <1>5, <2>1 DEF InSection
  <2>5. LockInv'
    <3>1. \A u \in Tasks : pc'[u] \in {"down", "sema", "got", "up"} => held'[u][want'[u]] = 0
      BY <1>1, <1>4, <2>1 DEF IInv, LockInv
    <3>2. \A u \in Tasks : \A m \in Locks : holder'[m] = u <=> held'[u][m] > 0
      BY <1>1, <1>2, <1>4, <1>6, <2>1 DEF IInv, LockInv
    <3>3. \A u \in Tasks : \A m \in Locks : holder'[m] = u => repeat'[m] = held'[u][m]
      BY <1>1, <1>2, <1>4, <2>1, <2>2 DEF IInv, LockInv
    <3>4. \A m \in Locks : holder'[m] = Nobody => repeat'[m] = 0
      BY <1>1, <1>2, <2>1, <2>2, TaskAssumption DEF IInv, LockInv
    <3> QED BY <1>1, <2>4, <3>1, <3>2, <3>3, <3>4 DEF IInv, LockInv
  <2>6. SemaInv' /\ NoLostWakeup'
    BY <1>1, <2>1 DEF IInv, SemaInv, NoLostWakeup
  <2> QED BY <1>1, <2>1, <2>3, <2>5, <2>6 DEF IInv
<1>7. CASE ~(repeat[l] > 1)
  <2>1. /\ holder' = [holder EXCEPT ![l] = Nobody]
        /\ repeat' = [repeat EXCEPT ![l] = 0]
        /\ pc' = [pc EXCEPT ![t] = "up"]
        /\ want' = [want EXCEPT ![t] = l]
    BY <1>7 DEF LockRelease
  <2>2. /\ repeat' \in [Locks -> Nat] /\ holder' \in [Locks -> Tasks \cup {Nobody}]
        /\ pc' \in [Tasks -> Points] /\ want' \in [Tasks -> Locks]
        /\ repeat'[l] = 0 /\ holder'[l] = Nobody /\ pc'[t] = "up" /\ want'[t] = l
        /\ \A m \in Locks \ {l} : repeat'[m] = repeat[m] /\ holder'[m] = holder[m]
        /\ \A u \in Tasks \ {t} : pc'[u] = pc[u] /\ want'[u] = want[u]
    BY <1>1, <2>1 DEF Points
  <2>3. held'[t][l] = 0
    BY <1>2, <1>4, <1>7
  <2>4. TypeOK' /\ NoPanic' /\ Queues'
    BY <1>1, <1>3, <1>4, <2>2 DEF IInv, TypeOK, NoPanic, Queues, ReadyListExact
  <2>5. \A u \in Tasks : \A m \in Locks : InSection(u, m)' => InSection(u, m)
    BY <1>1, <1>4, <1>5, <2>2 DEF InSection
  <2>6. LockInv'
    <3>1. \A u \in Tasks : pc'[u] \in {"down", "sema", "got", "up"} => held'[u][want'[u]] = 0
      BY <1>1, <1>4, <2>2, <2>3 DEF IInv, LockInv
    <3>2. \A u \in Tasks : \A m \in Locks : holder'[m] = u <=> held'[u][m] > 0
      <4>1. \A u \in Tasks : held'[u][l] = 0 /\ holder'[l] # u
        BY <1>1, <1>4, <1>5, <2>2, <2>3, TaskAssumption
      <4> QED BY <1>1, <1>4, <2>2, <4>1 DEF IInv, LockInv
    <3>3. \A u \in Tasks : \A m \in Locks : holder'[m] = u => repeat'[m] = held'[u][m]
      BY <1>1, <1>4, <2>2, TaskAssumption DEF IInv, LockInv
    <3>4. \A m \in Locks : holder'[m] = Nobody => repeat'[m] = 0
      BY <2>2 DEF IInv, LockInv
    <3> QED BY <1>1, <2>5, <3>1, <3>2, <3>3, <3>4 DEF IInv, LockInv
  <2>7. SemaInv'
    BY <1>1, <2>2 DEF IInv, SemaInv
  <2>8. NoLostWakeup'
    <3> SUFFICES ASSUME NEW m \in Locks, value'[m] = 1, waiters'[m] # << >>
                 PROVE  \E u \in Tasks : /\ pc'[u] = "sema" /\ want'[u] = m
                                         /\ status'[u] \in {"READY", "RUNNING"}
      BY DEF NoLostWakeup
    <3>1. value[m] = 1 /\ waiters[m] # << >>
      BY <1>1
    <3>2. PICK u \in Tasks : /\ pc[u] = "sema" /\ want[u] = m
                             /\ status[u] \in {"READY", "RUNNING"}
      BY <3>1 DEF IInv, NoLostWakeup
    <3>3. u # t
      BY <1>1, <3>2
    <3> QED BY <1>1, <2>2, <3>2, <3>3
  <2> QED BY <1>1, <2>2, <2>4, <2>6, <2>7, <2>8 DEF IInv
<1> QED BY <1>6, <1>7

\* sema_down: one turn of its loop.  Taking the value needs it to be 1, so no
\* task is in the section; finding 0 queues the caller exactly once.
LEMMA SemaDownInv == ASSUME IInv, NEW t \in Threads, SemaDown(t) PROVE IInv'
<1>0. PICK l \in Locks : l = want[t]
  BY DEF IInv, TypeOK, Tasks
<1>1. /\ Idle \in Tasks /\ t \in Tasks /\ t # Idle /\ pc[t] \in {"down", "sema"} /\ cur = t
      /\ want[t] = l /\ want \in [Tasks -> Locks]
      /\ pc \in [Tasks -> Points] /\ value \in [Locks -> {0, 1}]
      /\ waiters \in [Locks -> Seq(Tasks)]
      /\ held[t][l] = 0 /\ status[t] = "RUNNING"
      /\ UNCHANGED <<base, left, want, holder, repeat, held>>
  BY <1>0, TaskAssumption DEF IInv, TypeOK, Tasks, SemaDown, LockInv, Queues, ReadyListExact
<1>2. CASE value[l] = 0
  <2>1. /\ waiters' = [waiters EXCEPT ![l] = Append(@, t)]
        /\ pc' = [pc EXCEPT ![t] = "sema"]
        /\ ThreadBlock("BLOCKED", InList(t, waiters[l]))
        /\ UNCHANGED value
    BY <1>0, <1>2 DEF SemaDown
  <2>2. ~InList(t, waiters[l]) /\ NoRepeat(waiters[l]) /\ waiters[l] \in Seq(Tasks)
    BY <1>1 DEF IInv, SemaInv
  <2>3. Schedule([status EXCEPT ![cur] = "BLOCKED"], ready, ticks, FALSE)
    <3>1. InList(t, waiters[l]) = FALSE
      BY <2>2 DEF InList
    <3> QED BY <2>1, <3>1 DEF ThreadBlock
  <2>4. /\ cur' \in Tasks
        /\ status' \in [Tasks -> Statuses]
        /\ ready' \in Seq(Tasks)
        /\ ticks' \in [Tasks -> Nat]
        /\ panic' = FALSE
        /\ Queues'
        /\ \A u \in Tasks \ {Idle, t} : status[u] = "BLOCKED" <=> status'[u] = "BLOCKED"
        /\ status'[t] = "BLOCKED"
    BY <1>1, <2>3, BlockFacts DEF Asleep
  <2>5. /\ pc' \in [Tasks -> Points] /\ pc'[t] = "sema"
        /\ \A u \in Tasks \ {t} : pc'[u] = pc[u]
    BY <1>1, <2>1 DEF Points
  <2>6. /\ Append(waiters[l], t) \in Seq(Tasks) /\ NoRepeat(Append(waiters[l], t))
        /\ \A y : InList(y, Append(waiters[l], t)) <=> InList(y, waiters[l]) \/ y = t
    BY <1>1, <2>2, AppendFacts
  <2>7. /\ waiters' \in [Locks -> Seq(Tasks)] /\ waiters'[l] = Append(waiters[l], t)
        /\ \A m \in Locks \ {l} : waiters'[m] = waiters[m]
    BY <1>1, <2>1, <2>6
  <2>8. TypeOK' /\ NoPanic' /\ pc'[Idle] \in {"code", "hlt"}
    BY <1>1, <2>1, <2>4, <2>5, <2>7 DEF IInv, TypeOK, NoPanic
  <2>9. \A u \in Tasks : \A m \in Locks : InSection(u, m)' => InSection(u, m)
    BY <1>1, <2>5 DEF InSection
  <2>10. LockInv'
    <3>1. \A u \in Tasks : pc'[u] \in {"down", "sema", "got", "up"} => held'[u][want'[u]] = 0
      BY <1>1, <2>5 DEF IInv, LockInv
    <3> QED BY <1>1, <2>1, <2>9, <3>1 DEF IInv, LockInv
  <2>11. SemaInv'
    <3> SUFFICES ASSUME NEW m \in Locks
                 PROVE  /\ NoRepeat(waiters'[m])
                        /\ \A u \in Tasks : InList(u, waiters'[m]) <=>
                              status'[u] = "BLOCKED" /\ pc'[u] = "sema" /\ want'[u] = m
      BY DEF SemaInv
    <3>1. want' = want /\ want[t] = l /\ pc[Idle] # "sema"
      BY <1>1 DEF IInv
    <3>2. /\ NoRepeat(waiters[m])
          /\ \A u \in Tasks : InList(u, waiters[m]) <=>
                status[u] = "BLOCKED" /\ pc[u] = "sema" /\ want[u] = m
      BY DEF IInv, SemaInv
    <3>3. NoRepeat(waiters'[m])
      BY <2>6, <2>7, <3>2
    <3>4. ASSUME NEW u \in Tasks
          PROVE  InList(u, waiters'[m]) <=>
                    status'[u] = "BLOCKED" /\ pc'[u] = "sema" /\ want'[u] = m
      <4>1. CASE u = t
        <5>1. InList(t, waiters'[l])
          BY <2>6, <2>7
        <5>2. m # l => waiters'[m] = waiters[m] /\ ~InList(t, waiters[m])
          BY <2>7, <3>1, <3>2, <1>1
        <5> QED BY <4>1, <5>1, <5>2, <2>4, <2>5, <3>1
      <4>2. CASE u # t
        <5>1. InList(u, waiters'[m]) <=> InList(u, waiters[m])
          BY <4>2, <2>6, <2>7
        <5>2. pc'[u] = pc[u]
          BY <4>2, <2>5
        <5>3. u # Idle => (status[u] = "BLOCKED" <=> status'[u] = "BLOCKED")
          BY <4>2, <2>4
        <5> QED BY <3>1, <3>2, <5>1, <5>2, <5>3
      <4> QED BY <4>1, <4>2
    <3> QED BY <3>3, <3>4
  <2>12. NoLostWakeup'
    <3> SUFFICES ASSUME NEW m \in Locks, value'[m] = 1, waiters'[m] # << >>
                 PROVE  \E u \in Tasks : /\ pc'[u] = "sema" /\ want'[u] = m
                                         /\ status'[u] \in {"READY", "RUNNING"}
      BY DEF NoLostWakeup
    <3>1. m # l /\ value[m] = 1 /\ waiters[m] # << >>
      BY <1>2, <2>1, <2>7, <1>1
    <3>2. PICK u \in Tasks : /\ pc[u] = "sema" /\ want[u] = m
                             /\ status[u] \in {"READY", "RUNNING"}
      BY <3>1 DEF IInv, NoLostWakeup
    <3>3. u # t /\ u # Idle
      BY <1>1, <3>1, <3>2 DEF IInv
    <3>4. status'[u] \in {"READY", "RUNNING"}
      BY <1>1, <2>3, <3>2, <3>3, BlockFacts DEF Asleep
    <3> QED BY <1>1, <2>5, <3>2, <3>3, <3>4
  <2> QED BY <2>4, <2>8, <2>10, <2>11, <2>12 DEF IInv
<1>3. CASE value[l] # 0
  <2>1. /\ value' = [value EXCEPT ![l] = @ - 1]
        /\ panic' = (value[l] # 1)
        /\ pc' = [pc EXCEPT ![t] = "got"]
        /\ UNCHANGED <<cur, status, ready, ticks, waiters>>
    BY <1>0, <1>3 DEF SemaDown
  <2>2. value[l] = 1
    BY <1>1, <1>3
  <2>3. panic' = FALSE
    BY <2>1, <2>2
  <2>4. /\ value' \in [Locks -> {0, 1}] /\ value'[l] = 0
        /\ \A m \in Locks \ {l} : value'[m] = value[m]
        /\ pc' \in [Tasks -> Points] /\ pc'[t] = "got"
        /\ \A u \in Tasks \ {t} : pc'[u] = pc[u]
    BY <1>1, <2>1, <2>2 DEF Points
  <2>5. TypeOK' /\ NoPanic' /\ Queues' /\ pc'[Idle] \in {"code", "hlt"}
    BY <1>1, <2>1, <2>3, <2>4 DEF IInv, TypeOK, NoPanic, Queues, ReadyListExact
  <2>6. \A u \in Tasks : ~InSection(u, l)
    BY <1>1, <2>2 DEF IInv, LockInv
  <2>7. \A u \in Tasks : \A m \in Locks :
           InSection(u, m)' => InSection(u, m) \/ (u = t /\ m = l)
    BY <1>1, <2>4 DEF InSection
  <2>8. LockInv'
    <3>1. \A u \in Tasks : pc'[u] \in {"down", "sema", "got", "up"} => held'[u][want'[u]] = 0
      BY <1>1, <2>4 DEF IInv, LockInv
    <3>2. \A u, v \in Tasks : \A m \in Locks :
             InSection(u, m)' /\ InSection(v, m)' => u = v
      BY <2>6, <2>7 DEF IInv, LockInv
    <3>3. \A u \in Tasks : \A m \in Locks : InSection(u, m)' => value'[m] = 0
      BY <2>4, <2>6, <2>7 DEF IInv, LockInv
    <3> QED BY <1>1, <3>1, <3>2, <3>3 DEF IInv, LockInv
  <2>9. SemaInv'
    BY <1>1, <2>1, <2>4 DEF IInv, SemaInv
  <2>10. NoLostWakeup'
    <3> SUFFICES ASSUME NEW m \in Locks, value'[m] = 1, waiters'[m] # << >>
                 PROVE  \E u \in Tasks : /\ pc'[u] = "sema" /\ want'[u] = m
                                         /\ status'[u] \in {"READY", "RUNNING"}
      BY DEF NoLostWakeup
    <3>1. m # l /\ value[m] = 1 /\ waiters[m] # << >>
      BY <2>1, <2>4
    <3>2. PICK u \in Tasks : /\ pc[u] = "sema" /\ want[u] = m
                             /\ status[u] \in {"READY", "RUNNING"}
      BY <3>1 DEF IInv, NoLostWakeup
    <3>3. u # t
      BY <3>1, <3>2, <1>1
    <3> QED BY <1>1, <2>1, <2>4, <3>2, <3>3
  <2> QED BY <2>5, <2>8, <2>9, <2>10 DEF IInv
<1> QED BY <1>2, <1>3

\* sema_up: the caller is in the section, so the value is 0; the first waiter
\* is asleep and becomes the woken thread NoLostWakeup asks for.
LEMMA SemaUpInv == ASSUME IInv, NEW t \in Threads, SemaUp(t) PROVE IInv'
<1>0. PICK l \in Locks : l = want[t]
  BY DEF IInv, TypeOK, Tasks
<1>1. /\ Idle \in Tasks /\ t \in Tasks /\ t # Idle /\ pc[t] = "up" /\ cur = t
      /\ want[t] = l /\ want \in [Tasks -> Locks]
      /\ pc \in [Tasks -> Points] /\ value \in [Locks -> {0, 1}]
      /\ waiters \in [Locks -> Seq(Tasks)]
      /\ held[t][l] = 0
      /\ UNCHANGED <<base, left, want, holder, repeat, held>>
  BY <1>0, TaskAssumption DEF IInv, TypeOK, Tasks, SemaUp, LockInv
<1>2. /\ value' = [value EXCEPT ![l] = @ + 1]
      /\ pc' = [pc EXCEPT ![t] = "code"]
  BY <1>0 DEF SemaUp
<1>3. InSection(t, l)
  BY <1>1 DEF InSection
<1>4. value[l] = 0
  BY <1>1, <1>3 DEF IInv, LockInv
<1>5. /\ waiters[l] = << >> => /\ panic' = FALSE
                               /\ UNCHANGED <<cur, status, ready, ticks, waiters>>
      /\ waiters[l] # << >> => /\ ThreadUnblock(Head(waiters[l]), FALSE)
                               /\ waiters' = [waiters EXCEPT ![l] = Tail(@)]
  <2>1. (value[l] # 0) = FALSE
    BY <1>4
  <2> QED BY <1>0, <2>1 DEF SemaUp
<1>6. /\ value' \in [Locks -> {0, 1}] /\ value'[l] = 1
      /\ \A m \in Locks \ {l} : value'[m] = value[m]
      /\ pc' \in [Tasks -> Points] /\ pc'[t] = "code" /\ pc'[Idle] \in {"code", "hlt"}
      /\ \A u \in Tasks \ {t} : pc'[u] = pc[u]
  BY <1>1, <1>2, <1>4 DEF Points, IInv
<1>7. \A u \in Tasks : ~InSection(u, l)'
  <2>1. \A u \in Tasks \ {t} : ~InSection(u, l)
    BY <1>1, <1>3 DEF IInv, LockInv
  <2> QED BY <1>1, <1>6, <2>1 DEF InSection
<1>8. \A u \in Tasks : \A m \in Locks : InSection(u, m)' => InSection(u, m)
  BY <1>1, <1>6 DEF InSection
<1>9. LockInv'
  <2>1. \A u \in Tasks : pc'[u] \in {"down", "sema", "got", "up"} => held'[u][want'[u]] = 0
    BY <1>1, <1>6 DEF IInv, LockInv
  <2>2. \A u \in Tasks : \A m \in Locks : InSection(u, m)' => value'[m] = 0
    BY <1>6, <1>7, <1>8 DEF IInv, LockInv
  <2> QED BY <1>1, <1>8, <2>1, <2>2 DEF IInv, LockInv
<1>10. \A u \in Tasks : pc'[u] = "sema" <=> pc[u] = "sema"
  BY <1>1, <1>6
<1>11. CASE waiters[l] = << >>
  <2>0. panic' = FALSE /\ UNCHANGED <<cur, status, ready, ticks, waiters>>
    BY <1>5, <1>11
  <2>1. TypeOK' /\ NoPanic' /\ Queues'
    BY <1>1, <1>6, <2>0 DEF IInv, TypeOK, NoPanic, Queues, ReadyListExact
  <2>2. SemaInv'
    BY <1>1, <1>10, <2>0 DEF IInv, SemaInv
  <2>3. NoLostWakeup'
    <3> SUFFICES ASSUME NEW m \in Locks, value'[m] = 1, waiters'[m] # << >>
                 PROVE  \E u \in Tasks : /\ pc'[u] = "sema" /\ want'[u] = m
                                         /\ status'[u] \in {"READY", "RUNNING"}
      BY DEF NoLostWakeup
    <3>1. m # l /\ value[m] = 1 /\ waiters[m] # << >>
      BY <1>6, <1>11, <2>0
    <3>2. PICK u \in Tasks : /\ pc[u] = "sema" /\ want[u] = m
                             /\ status[u] \in {"READY", "RUNNING"}
      BY <3>1 DEF IInv, NoLostWakeup
    <3> QED BY <1>1, <1>10, <2>0, <3>2
  <2> QED BY <1>6, <1>9, <2>1, <2>2, <2>3 DEF IInv
<1>12. CASE waiters[l] # << >>
  <2> DEFINE w == Head(waiters[l])
  <2>1. /\ w \in Tasks /\ Tail(waiters[l]) \in Seq(Tasks) /\ InList(w, waiters[l])
        /\ \A y : InList(y, Tail(waiters[l])) <=> InList(y, waiters[l]) /\ y # w
        /\ NoRepeat(Tail(waiters[l]))
    BY <1>1, <1>12, PopFacts DEF IInv, SemaInv
  <2>2. ThreadUnblock(w, FALSE) /\ waiters' = [waiters EXCEPT ![l] = Tail(@)]
    BY <1>5, <1>12
  <2> HIDE DEF w
  <2>3. status[w] = "BLOCKED" /\ pc[w] = "sema" /\ want[w] = l
    BY <1>1, <2>1 DEF IInv, SemaInv
  <2>4. /\ status' \in [Tasks -> Statuses] /\ ready' \in Seq(Tasks)
        /\ panic' = FALSE /\ Queues'
        /\ \A u \in Tasks : status'[u] = IF u = w THEN "READY" ELSE status[u]
    BY <2>1, <2>2, <2>3, UnblockFacts DEF Asleep
  <2>5. cur' = cur /\ ticks' = ticks
    BY <2>2 DEF ThreadUnblock
  <2>6. /\ waiters' \in [Locks -> Seq(Tasks)] /\ waiters'[l] = Tail(waiters[l])
        /\ \A m \in Locks \ {l} : waiters'[m] = waiters[m]
    BY <1>1, <2>1, <2>2
  <2>7. TypeOK' /\ NoPanic'
    BY <1>1, <1>6, <2>4, <2>5, <2>6 DEF IInv, TypeOK, NoPanic
  <2>8. SemaInv'
    <3> SUFFICES ASSUME NEW m \in Locks
                 PROVE  /\ NoRepeat(waiters'[m])
                        /\ \A u \in Tasks : InList(u, waiters'[m]) <=>
                              status'[u] = "BLOCKED" /\ pc'[u] = "sema" /\ want'[u] = m
      BY DEF SemaInv
    <3>1. /\ NoRepeat(waiters[m])
          /\ \A u \in Tasks : InList(u, waiters[m]) <=>
                status[u] = "BLOCKED" /\ pc[u] = "sema" /\ want[u] = m
      BY DEF IInv, SemaInv
    <3>2. NoRepeat(waiters'[m])
      BY <2>1, <2>6, <3>1
    <3>3. ASSUME NEW u \in Tasks
          PROVE  InList(u, waiters'[m]) <=>
                    status'[u] = "BLOCKED" /\ pc'[u] = "sema" /\ want'[u] = m
      <4>1. want' = want /\ (pc'[u] = "sema" <=> pc[u] = "sema")
        BY <1>1, <1>10
      <4>2. CASE u = w
        <5>1. m = l => ~InList(w, waiters'[m])
          BY <2>1, <2>6
        <5>2. m # l => ~InList(w, waiters'[m])
          BY <2>1, <2>3, <2>6, <3>1
        <5> QED BY <4>2, <5>1, <5>2, <2>4
      <4>3. CASE u # w
        <5>1. InList(u, waiters'[m]) <=> InList(u, waiters[m])
          BY <4>3, <2>1, <2>6
        <5> QED BY <3>1, <4>1, <4>3, <5>1, <2>4
      <4> QED BY <4>2, <4>3
    <3> QED BY <3>2, <3>3
  <2>9. NoLostWakeup'
    <3> SUFFICES ASSUME NEW m \in Locks, value'[m] = 1, waiters'[m] # << >>
                 PROVE  \E u \in Tasks : /\ pc'[u] = "sema" /\ want'[u] = m
                                         /\ status'[u] \in {"READY", "RUNNING"}
      BY DEF NoLostWakeup
    <3>1. CASE m = l
      BY <1>1, <1>10, <2>1, <2>3, <2>4, <3>1
    <3>2. CASE m # l
      <4>1. PICK u \in Tasks : /\ pc[u] = "sema" /\ want[u] = m
                               /\ status[u] \in {"READY", "RUNNING"}
        BY <1>6, <2>6, <3>2 DEF IInv, NoLostWakeup
      <4> QED BY <1>1, <1>10, <2>4, <4>1
    <3> QED BY <3>1, <3>2
  <2> QED BY <1>6, <1>9, <2>4, <2>7, <2>8, <2>9 DEF IInv
<1> QED BY <1>11, <1>12

-----------------------------------------------------------------------------
(* The theorems.                                                            *)

\* The state thread_init leaves satisfies the invariant.
LEMMA InitInv == ASSUME Init PROVE IInv
<1>1. PICK p \in Procs :
         /\ ready = <<p, Idle>>
         /\ status = [t \in Tasks |-> IF t = cur THEN "RUNNING"
                                      ELSE IF t \in {p, Idle} THEN "READY"
                                      ELSE "DIED"]
  BY DEF Init
<1>2. /\ p \in Tasks /\ Idle \in Tasks /\ cur \in Tasks
      /\ p # Idle /\ p # cur /\ cur # Idle
  BY TaskAssumption DEF Init, Tasks, Threads
<1>3. /\ ready \in Seq(Tasks) /\ NoRepeat(ready)
      /\ \A y : InList(y, ready) <=> y = p \/ y = Idle
  BY <1>1, <1>2 DEF NoRepeat, InList
<1>4. status \in [Tasks -> Statuses]
  BY <1>1 DEF Statuses
<1>5. TypeOK
  <2>1. ticks \in [Tasks -> Nat] /\ pc \in [Tasks -> Points] /\ base \in [Tasks -> BOOLEAN]
    BY BoundAssumption DEF Init, Points
  <2>2. waiters \in [Locks -> Seq(Tasks)]
    BY DEF Init
  <2> QED BY <1>2, <1>3, <1>4, <2>1, <2>2 DEF Init, TypeOK
<1>6. Queues
  BY <1>1, <1>2, <1>3 DEF Queues, ReadyListExact
<1>7. SemaInv /\ NoLostWakeup
  BY DEF Init, SemaInv, NoLostWakeup, NoRepeat, InList
<1>8. LockInv
  BY TaskAssumption DEF Init, LockInv, InSection
<1> QED BY <1>2, <1>5, <1>6, <1>7, <1>8 DEF IInv, NoPanic, Init

\* Every step of the kernel preserves the invariant.
LEMMA NextInv == ASSUME IInv, [Next]_vars PROVE IInv'
<1>1. CASE Tick
  BY <1>1, TickInv
<1>2. CASE IdleBlock
  <2>1. /\ Idle \in Tasks /\ cur = Idle /\ pc[Idle] = "code" /\ pc \in [Tasks -> Points]
        /\ pc' = [pc EXCEPT ![Idle] = "hlt"]
        /\ UNCHANGED <<lockVars, base, left>>
        /\ Schedule([status EXCEPT ![cur] = "BLOCKED"], ready, ticks, FALSE)
    BY <1>2 DEF IdleBlock, IInv, TypeOK, Tasks, ThreadBlock
  <2>2. pc' \in [Tasks -> Points] /\ SamePlace /\ pc'[Idle] = "hlt"
    BY <2>1 DEF SamePlace, Points
  <2> QED BY <2>1, <2>2, SleepInv DEF Asleep
<1>3. ASSUME NEW t \in Threads, DeviceIrq(t) PROVE IInv'
  BY <1>3, WakeInv DEF DeviceIrq, Tasks, Asleep
<1>4. ASSUME NEW t \in Threads, Continue(t) PROVE IInv'
  BY <1>4, SemaDownInv, SetHolderInv, SemaUpInv, SleepLoopInv DEF Continue
<1>5. ASSUME NEW t \in Threads,
             SysEnter(t) \/ SysReturn(t) \/ \E n \in 1..MaxSleep : Sleep(t, n)
      PROVE  IInv'
  <2>1. cur = t
    BY <1>5 DEF SysEnter, SysReturn, Sleep, InKernel, AtCode
  <2> QED BY <1>5, <2>1, LocalInv
<1>6. ASSUME NEW t \in Threads, NEW l \in Locks, LockAcquire(t, l) \/ LockRelease(t, l)
      PROVE  IInv'
  BY <1>6, LockAcquireInv, LockReleaseInv
<1>7. ASSUME NEW t \in Threads, NEW stat \in Asleep \cup {"DIED"}, InKernel(t),
             Schedule([status EXCEPT ![cur] = stat], ready, ticks, FALSE),
             UNCHANGED <<lockVars, pc, base, left>>
      PROVE  IInv'
  <2>1. cur = t /\ t # Idle /\ pc[t] = "code"
    BY <1>7 DEF InKernel, AtCode
  <2>2. pc' \in [Tasks -> Points] /\ SamePlace /\ pc'[Idle] \in {"code", "hlt"}
    BY <1>7 DEF SamePlace, IInv, TypeOK
  <2> QED BY <1>7, <2>1, <2>2, SleepInv
<1>8. ASSUME NEW t \in Threads, BlockForDevice(t) PROVE IInv'
  BY <1>7, <1>8 DEF BlockForDevice, ThreadBlock, Asleep
<1>9. ASSUME NEW t \in Threads, NEW stat \in {"WAITING", "HANGING"}, BlockInSyscall(t, stat)
      PROVE  IInv'
  BY <1>7, <1>9 DEF BlockInSyscall, ThreadBlock, Asleep
<1>10. ASSUME NEW t \in Threads, ExitMain(t) PROVE IInv'
  <2>1. cur = t
    BY <1>10 DEF ExitMain, InKernel, AtCode
  <2> QED BY <1>7, <1>10, <2>1 DEF ExitMain, Asleep
<1>11. ASSUME NEW t \in Threads, NEW u \in Procs, WakeParent(t, u) PROVE IInv'
  <2>1. u \in Tasks /\ status[u] = "WAITING" /\ u # Idle
    BY <1>11, TaskAssumption DEF WakeParent, Tasks, Threads
  <2> QED BY <1>11, <2>1, WakeInv DEF WakeParent, Asleep
<1>a. ASSUME NEW t \in Threads, NEW u \in Procs, WakePeer(t, u) PROVE IInv'
  <2>1. u \in Tasks /\ status[u] = "BLOCKED" /\ pc[u] = "code"
    BY <1>a, TaskAssumption DEF WakePeer, Tasks, Threads
  <2> QED BY <1>a, <2>1, WakeInv DEF WakePeer, Asleep
<1>12. ASSUME NEW t \in Threads, NEW u \in Procs, StartProcess(t, u) \/ Reap(t, u)
       PROVE  IInv'
  BY <1>12, ProcessInv
<1>13. CASE UNCHANGED vars
  BY <1>13 DEF vars, IInv, TypeOK, NoPanic, Queues, ReadyListExact, SemaInv, LockInv,
               InSection, NoLostWakeup
<1> QED BY <1>1, <1>2, <1>3, <1>4, <1>5, <1>6, <1>8, <1>9, <1>10, <1>11, <1>a, <1>12, <1>13
        DEF Next

\* The invariant holds in every reachable state.
THEOREM Invariance == Spec => []IInv
<1>1. Init => IInv
  BY InitInv
<1>2. IInv /\ [Next]_vars => IInv'
  BY NextInv
<1> QED BY <1>1, <1>2, PTL DEF Spec

\* The kernel's scheduling and locking state is always well typed.
THEOREM TypeCorrect == Spec => []TypeOK
<1>1. IInv => TypeOK
  BY DEF IInv
<1> QED BY <1>1, Invariance, PTL

\* No ASSERT and no PANIC of thread.c and sync.c is ever hit.
THEOREM NoPanicEver == Spec => []NoPanic
<1>1. IInv => NoPanic
  BY DEF IInv
<1> QED BY <1>1, Invariance, PTL

\* The ready list holds exactly the READY tasks and one task runs.
THEOREM ReadyListAlwaysExact == Spec => []ReadyListExact
<1>1. IInv => ReadyListExact
  BY DEF IInv, Queues
<1> QED BY <1>1, Invariance, PTL

\* Locks exclude, and count the holder's nested acquires.
THEOREM LocksExclude == Spec => []MutualExclusion
<1>1. IInv => MutualExclusion
  <2> SUFFICES ASSUME IInv, NEW l \in Locks, NEW t \in Tasks, held[t][l] > 0
               PROVE  /\ holder[l] = t /\ repeat[l] = held[t][l]
                      /\ \A u \in Tasks \ {t} : held[u][l] = 0
    BY DEF MutualExclusion
  <2>1. holder[l] = t /\ repeat[l] = held[t][l]
    BY DEF IInv, LockInv
  <2>2. \A u \in Tasks \ {t} : ~(held[u][l] > 0) /\ held[u][l] \in Nat
    BY <2>1 DEF IInv, LockInv, TypeOK
  <2> QED BY <2>1, <2>2
<1> QED BY <1>1, Invariance, PTL

\* A lock is never free with sleepers and nobody on the way to take it.
THEOREM WakeupsNotLost == Spec => []NoLostWakeup
<1>1. IInv => NoLostWakeup
  BY DEF IInv
<1> QED BY <1>1, Invariance, PTL

\* general_tag links a task into one list at a time.
THEOREM TagInOneList == Spec => []OneListPerTask
<1>1. IInv => OneListPerTask
  BY DEF IInv, Queues, ReadyListExact, SemaInv, OneListPerTask
<1> QED BY <1>1, Invariance, PTL

\* The holder of a lock changes only through NULL, by the holder's own step.
THEOREM HolderSteps == Spec => HolderChangesThroughNobody
<1> DEFINE Step == \A l \in Locks : holder'[l] # holder[l] =>
                       \/ holder[l] = Nobody /\ holder'[l] = cur
                       \/ holder[l] = cur /\ holder'[l] = Nobody
<1>1. IInv /\ [Next]_vars => [Step]_vars
  <2> SUFFICES ASSUME IInv, Next PROVE Step
    OBVIOUS
  <2>1. CASE holder' = holder
    BY <2>1
  <2>2. ASSUME NEW t \in Threads, SetHolder(t) PROVE Step
    <3>1. PICK l \in Locks : l = want[t]
      BY DEF IInv, TypeOK, Tasks
    <3>2. /\ t \in Tasks /\ cur = t /\ pc[t] = "got" /\ holder' = [holder EXCEPT ![l] = t]
          /\ holder \in [Locks -> Tasks \cup {Nobody}]
      BY <2>2, <3>1 DEF SetHolder, Tasks, IInv, TypeOK
    <3>3. InSection(t, l) /\ held[t][l] = 0
      BY <3>1, <3>2 DEF InSection, IInv, LockInv
    <3>4. \A u \in Tasks : holder[l] # u
      <4> SUFFICES ASSUME NEW u \in Tasks, holder[l] = u PROVE FALSE
        OBVIOUS
      <4>1. held[u][l] > 0
        BY DEF IInv, LockInv
      <4>2. u = t
        BY <3>2, <3>3, <4>1 DEF IInv, LockInv, InSection
      <4> QED BY <3>3, <4>1, <4>2
    <3> QED BY <3>2, <3>4
  <2>3. ASSUME NEW t \in Threads, NEW l \in Locks, LockRelease(t, l) PROVE Step
    <3>1. /\ t \in Tasks /\ cur = t /\ held[t][l] > 0
          /\ holder \in [Locks -> Tasks \cup {Nobody}]
          /\ holder' = holder \/ holder' = [holder EXCEPT ![l] = Nobody]
      BY <2>3 DEF LockRelease, InKernel, AtCode, Tasks, IInv, TypeOK
    <3>2. holder[l] = t
      BY <3>1 DEF IInv, LockInv
    <3> QED BY <3>1, <3>2
  <2>4. Next => \/ holder' = holder
                \/ \E t \in Threads : SetHolder(t)
                \/ \E t \in Threads, l \in Locks : LockRelease(t, l)
    BY DEF Next, Tick, IdleBlock, DeviceIrq, Continue, SemaDown, SemaUp, SleepLoop,
           SysEnter, SysReturn, LockAcquire, Sleep, BlockForDevice, BlockInSyscall,
           WakePeer, WakeParent, StartProcess, Reap, ExitMain, lockVars
  <2> QED BY <2>1, <2>2, <2>3, <2>4
<1> QED BY <1>1, Invariance, PTL DEF Spec, HolderChangesThroughNobody

\* The locks of sync.c implement atomic recursive locks.
THEOREM Refinement == Spec => ImplementsRecursiveLock
<1>1. Init => RL!Init
  BY DEF Init, RL!Init
<1>2. IInv /\ [Next]_vars => [RL!Next]_held
  <2> SUFFICES ASSUME IInv, Next, held' # held PROVE RL!Next
    BY DEF vars
  <2>1. \/ \E t \in Threads : SetHolder(t)
        \/ \E t \in Threads, l \in Locks : LockAcquire(t, l) \/ LockRelease(t, l)
    BY DEF Next, Tick, IdleBlock, DeviceIrq, Continue, SemaDown, SemaUp, SleepLoop,
           SysEnter, SysReturn, Sleep, BlockForDevice, BlockInSyscall,
           WakePeer, WakeParent, StartProcess, Reap, ExitMain, lockVars
  <2>2. held \in [Tasks -> [Locks -> Nat]]
    BY DEF IInv, TypeOK
  <2>3. ASSUME NEW t \in Threads, SetHolder(t) PROVE RL!Next
    <3>1. PICK l \in Locks : l = want[t]
      BY DEF IInv, TypeOK, Tasks
    <3>2. t \in Tasks /\ pc[t] = "got" /\ held' = [held EXCEPT ![t][l] = @ + 1]
      BY <2>3, <3>1 DEF SetHolder, Tasks
    <3>3. \A u \in Tasks \ {t} : ~(held[u][l] > 0)
      BY <3>1, <3>2 DEF IInv, LockInv, InSection
    <3>4. RL!Acquire(t, l)
      BY <2>2, <3>2, <3>3 DEF RL!Acquire
    <3> QED BY <3>2, <3>4 DEF RL!Next
  <2>4. ASSUME NEW t \in Threads, NEW l \in Locks, LockAcquire(t, l) PROVE RL!Next
    <3>1. t \in Tasks /\ holder[l] = t /\ held' = [held EXCEPT ![t][l] = @ + 1]
      BY <2>4 DEF LockAcquire, Tasks
    <3>2. \A u \in Tasks \ {t} : ~(held[u][l] > 0)
      BY <3>1 DEF IInv, LockInv
    <3>3. RL!Acquire(t, l)
      BY <2>2, <3>1, <3>2 DEF RL!Acquire
    <3> QED BY <3>1, <3>3 DEF RL!Next
  <2>5. ASSUME NEW t \in Threads, NEW l \in Locks, LockRelease(t, l) PROVE RL!Next
    <3>1. t \in Tasks /\ RL!Release(t, l)
      BY <2>5 DEF LockRelease, RL!Release, Tasks
    <3> QED BY <3>1 DEF RL!Next
  <2> QED BY <2>1, <2>3, <2>4, <2>5
<1> QED BY <1>1, <1>2, Invariance, PTL DEF Spec, ImplementsRecursiveLock, RL!Spec
=============================================================================
