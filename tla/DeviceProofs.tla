---------------------------- MODULE DeviceProofs ----------------------------
(***************************************************************************)
(* Proofs about the drivers of device/: about Ide for any number of        *)
(* threads, any requests and any command size, and about Keyboard for any  *)
(* keys, any padding and any number of bytes under way.                    *)
(***************************************************************************)
EXTENDS Ide, Keyboard, SequenceTheorems, TLAPS

-----------------------------------------------------------------------------
(* The disk driver: the inductive invariant.                               *)

\* The driver is inside a command exactly while it holds the channel's lock.
InDriver(t) == pc[t] \in {"issue", "sema", "poll", "nap", "data"}
LockHeld == \A t \in Threads : InDriver(t) <=> holder = t

\* secs_done counts what was transferred, except between the transfer of a
\* write command and its completion.
Progress ==
    \A t \in Threads :
        /\ pc[t] \in {"out", "away"} => moved[t] = cnt[t]
        /\ pc[t] \notin {"out", "away"} => done[t] <= cnt[t]
        /\ pc[t] \in {"lock", "issue", "poll", "nap", "data"} => moved[t] = done[t]
        /\ pc[t] \in {"sema", "poll", "nap", "data"} => done[t] < cnt[t]
        /\ pc[t] = "sema" =>
              moved[t] = IF op[t] = "read" THEN done[t] ELSE done[t] + SecsOp(t)
        /\ pc[t] = "sema" /\ op[t] = "read" => tries[t] = 0
        /\ pc[t] = "poll" => tries[t] < TimeLimit

\* One interrupt is expected per command, and it finds disk_done at 0; where
\* the thread is tells what the device is doing.
NoCommand == value = 0 /\ expecting = FALSE

Handshake ==
    /\ holder = Nobody => NoCommand
    /\ \A t \in Threads :
        /\ pc[t] = "issue" => NoCommand
        /\ pc[t] = "sema" =>
              \/ expecting = TRUE /\ value = 0
              \/ expecting = FALSE /\ value = 1
        /\ pc[t] = "sema" /\ op[t] = "read" =>
              \/ dev = "data"
              \/ expecting = TRUE /\ dev = "busy" /\ irr = FALSE
        /\ pc[t] \in {"poll", "nap", "data"} /\ op[t] = "read" => NoCommand /\ dev = "data"
        /\ pc[t] \in {"poll", "nap", "data"} /\ op[t] = "write" =>
              /\ value = 0 /\ expecting = TRUE /\ irr = FALSE
              /\ dev = "data" \/ (pc[t] \in {"poll", "nap"} /\ dev = "busy")

IdeInv == TypeOK /\ OnlySlowDiskPanics /\ LockHeld /\ Progress /\ Handshake

\* The device has finished a write when its interrupt comes, unless it was of
\* several sectors.
AtRest == dev = "idle" \/ (dev = "busy" /\ wrote > 1)

Finished ==
    /\ holder = Nobody => AtRest
    /\ \A t \in Threads :
        /\ pc[t] = "issue" => AtRest
        /\ pc[t] \in {"poll", "nap", "data"} /\ op[t] = "write" => todo = wrote /\ wrote > 0
        /\ pc[t] = "sema" /\ op[t] = "write" =>
              \/ AtRest
              \/ expecting = TRUE /\ dev = "busy" /\ todo = 1 /\ irr = FALSE

-----------------------------------------------------------------------------
(* The disk driver: the parts of a step.                                   *)

\* The 8-bit register tells the device the number of sectors meant, also when
\* it holds 0, and a command never goes past the end of the request.
LEMMA SecsOpFacts ==
    ASSUME TypeOK, NEW t \in Threads, done[t] < cnt[t]
    PROVE  /\ SecsOp(t) \in 1..MaxOp
           /\ Sectors(Register(SecsOp(t))) = SecsOp(t)
           /\ done[t] + SecsOp(t) <= cnt[t]
<1>1. MaxOp \in Nat /\ MaxOp > 0 /\ done[t] \in Nat /\ cnt[t] \in Nat
  BY IdeAssumption DEF TypeOK
<1>2. SecsOp(t) \in 1..MaxOp /\ done[t] + SecsOp(t) <= cnt[t]
  BY <1>1 DEF SecsOp, Less
<1> DEFINE n == SecsOp(t)
<1> HIDE DEF n
<1>3. n \in 1..MaxOp
  BY <1>2 DEF n
<1>4. CASE n = MaxOp
  <2>1. MaxOp % MaxOp = 0
    BY <1>1
  <2> QED BY <2>1, <1>2, <1>4 DEF n, Register, Sectors
<1>5. CASE n < MaxOp
  <2>1. n % MaxOp = n
    BY <1>1, <1>3, <1>5
  <2>2. Sectors(Register(n)) = n
    BY <2>1, <1>3 DEF Register, Sectors
  <2> QED BY <2>2, <1>2 DEF n
<1> QED BY <1>1, <1>3, <1>4, <1>5

\* At most one thread is inside the driver.
LEMMA OneInDriver ==
    ASSUME LockHeld, NEW t \in Threads, InDriver(t)
    PROVE  /\ holder = t /\ holder # Nobody
           /\ \A u \in Threads \ {t} : ~InDriver(u)
BY IdeAssumption DEF LockHeld

-----------------------------------------------------------------------------
(* The steps. *)

(* A thread blocks elsewhere, or is woken there. *)
LEMMA AwayStep ==
    ASSUME IdeInv, NEW t \in Threads, Leave(t) \/ Back(t)
    PROVE  IdeInv'
<1> USE DEF IdeInv
<1>1. /\ pc[t] \in {"out", "away"} /\ ~panic
      /\ \E p \in {"out", "away"} : pc' = [pc EXCEPT ![t] = p]
      /\ UNCHANGED <<op, cnt, done, tries, moved, holder, run, expecting, value,
                      dev, todo, wrote, intrq, irr, panic>>
  BY DEF Leave, Back, InterruptsOn, Go, device
<1>2. pc'[t] \in {"out", "away"} /\ \A u \in Threads \ {t} : pc'[u] = pc[u]
  BY <1>1 DEF TypeOK
<1>3. TypeOK'
  BY <1>1 DEF TypeOK, PCs
<1>4. LockHeld' /\ OnlySlowDiskPanics'
  BY <1>1, <1>2 DEF LockHeld, InDriver, OnlySlowDiskPanics
<1>5. Progress'
  BY <1>1, <1>2 DEF Progress, SecsOp
<1>6. Handshake'
  BY <1>1, <1>2 DEF Handshake, NoCommand
<1> QED BY <1>3, <1>4, <1>5, <1>6

(* ide_read or ide_write is called. *)
LEMMA CallStep ==
    ASSUME IdeInv, NEW t \in Threads, NEW o \in {"read", "write"},
           NEW n \in Nat, Call(t, o, n)
    PROVE  IdeInv'
<1> USE DEF IdeInv
<1>1. /\ pc[t] = "out" /\ pc' = [pc EXCEPT ![t] = "lock"]
      /\ op' = [op EXCEPT ![t] = o] /\ cnt' = [cnt EXCEPT ![t] = n]
      /\ done' = [done EXCEPT ![t] = 0] /\ moved' = [moved EXCEPT ![t] = 0]
      /\ UNCHANGED <<tries, holder, run, expecting, value, dev, todo, wrote, intrq, irr, panic>>
      /\ ~panic
  BY DEF Call, Go, device
<1>2. TypeOK'
  BY <1>1 DEF TypeOK, PCs
<1>3. LockHeld' /\ OnlySlowDiskPanics'
  BY <1>1 DEF LockHeld, InDriver, OnlySlowDiskPanics, TypeOK
<1>4. Progress'
  BY <1>1 DEF Progress, TypeOK, SecsOp
<1>5. Handshake'
  BY <1>1 DEF Handshake, NoCommand, TypeOK
<1> QED BY <1>2, <1>3, <1>4, <1>5

(* The channel's lock is acquired. *)
LEMMA AcquireStep ==
    ASSUME IdeInv, NEW t \in Threads, Acquire(t)
    PROVE  IdeInv'
<1> USE DEF IdeInv
<1>1. /\ pc[t] = "lock" /\ holder = Nobody
      /\ pc' = [pc EXCEPT ![t] = "issue"] /\ holder' = t /\ run' = t
      /\ UNCHANGED <<op, cnt, done, tries, moved, expecting, value, dev, todo, wrote, intrq, irr, panic>>
      /\ ~panic
  BY DEF Acquire, At, Go, device
<1>2. TypeOK'
  BY <1>1 DEF TypeOK, PCs
<1>3. LockHeld' /\ OnlySlowDiskPanics'
  BY <1>1, IdeAssumption DEF LockHeld, InDriver, OnlySlowDiskPanics, TypeOK
<1>4. Progress'
  BY <1>1 DEF Progress, TypeOK, SecsOp
<1>5. Handshake'
  BY <1>1, IdeAssumption DEF Handshake, NoCommand, TypeOK
<1> QED BY <1>2, <1>3, <1>4, <1>5

(* The registers are written and the next command is sent. *)
LEMMA IssueStep ==
    ASSUME IdeInv, NEW t \in Threads, Issue(t)
    PROVE  IdeInv'
<1> USE DEF IdeInv
<1>1. /\ pc[t] = "issue" /\ done[t] < cnt[t]
      /\ pc' = [pc EXCEPT ![t] = IF op[t] = "read" THEN "sema" ELSE "poll"]
      /\ expecting' = TRUE /\ dev' = "busy" /\ todo' = Sectors(Register(SecsOp(t)))
      /\ wrote' = IF op[t] = "read" THEN 0 ELSE SecsOp(t)
      /\ intrq' = FALSE /\ irr' = FALSE /\ ~panic
      /\ tries' = [tries EXCEPT ![t] = 0]
      /\ UNCHANGED <<op, cnt, done, moved, holder, run, value, panic>>
  BY DEF Issue, At, Go
<1>2. holder = t /\ NoCommand /\ \A u \in Threads \ {t} : ~InDriver(u)
  BY <1>1, OneInDriver DEF InDriver, Handshake
<1>3. TypeOK'
  <2>1. {todo', wrote'} \subseteq 0..MaxOp
    BY <1>1, SecsOpFacts, IdeAssumption
  <2>2. pc' \in [Threads -> PCs] /\ tries' \in [Threads -> 0..TimeLimit]
    BY <1>1, IdeAssumption DEF TypeOK, PCs
  <2> QED BY <2>1, <2>2, <1>1 DEF TypeOK
<1>4. LockHeld' /\ OnlySlowDiskPanics'
  BY <1>1 DEF LockHeld, InDriver, OnlySlowDiskPanics, TypeOK
<1>5. Progress'
  BY <1>1, IdeAssumption DEF Progress, TypeOK, SecsOp
<1>6. Handshake'
  <2>1. holder' # Nobody
    BY <1>1, <1>2, IdeAssumption
  <2>2. pc'[t] \in {"sema", "poll"} /\ (pc'[t] = "sema" <=> op[t] = "read")
    BY <1>1 DEF TypeOK
  <2>3. \A u \in Threads \ {t} : pc'[u] \notin {"issue", "sema", "poll", "nap", "data"}
    BY <1>1, <1>2 DEF InDriver, TypeOK, PCs
  <2> QED BY <2>1, <2>2, <2>3, <1>1, <1>2 DEF Handshake, NoCommand
<1> QED BY <1>3, <1>4, <1>5, <1>6

(* A reader waits for the interrupt of its command. *)
LEMMA SemaDownStep ==
    ASSUME IdeInv, NEW t \in Threads, SemaDown(t)
    PROVE  IdeInv'
<1> USE DEF IdeInv
<1>1. /\ pc[t] = "sema"
      /\ UNCHANGED <<op, cnt, tries, moved, holder, expecting, dev, todo, wrote, intrq, irr, panic>>
      /\ ~panic
  BY DEF SemaDown, At, device
<1>2. holder = t /\ \A u \in Threads \ {t} : ~InDriver(u)
  BY <1>1, OneInDriver DEF InDriver
<1>3. CASE value = 0
  <2>1. run' = Nobody /\ UNCHANGED <<value, pc, done>>
    BY <1>3 DEF SemaDown
  <2> QED BY <2>1, <1>1 DEF TypeOK, OnlySlowDiskPanics, LockHeld, InDriver, Progress, SecsOp,
                            Handshake, NoCommand
<1>4. CASE value # 0
  <2>1. /\ value' = 0 /\ run' = t
        /\ pc' = [pc EXCEPT ![t] = IF op[t] = "read" THEN "poll" ELSE "issue"]
        /\ done' = [done EXCEPT ![t] = IF op[t] = "read" THEN @ ELSE @ + SecsOp(t)]
    BY <1>4 DEF SemaDown, Go
  <2>2. expecting = FALSE /\ done[t] < cnt[t] /\ (op[t] = "read" => dev = "data")
    BY <1>1, <1>4 DEF Handshake, Progress
  <2>3. SecsOp(t) \in Nat /\ done[t] + SecsOp(t) <= cnt[t] /\ done[t] \in Nat
    BY <2>2, SecsOpFacts, IdeAssumption DEF TypeOK
  <2>4. TypeOK'
    <3>1. done' \in [Threads -> Nat]
      BY <2>1, <2>3 DEF TypeOK
    <3>2. pc' \in [Threads -> PCs]
      BY <2>1 DEF TypeOK, PCs
    <3> QED BY <3>1, <3>2, <2>1, <1>1 DEF TypeOK
  <2>5. LockHeld' /\ OnlySlowDiskPanics'
    BY <2>1, <1>1 DEF LockHeld, InDriver, OnlySlowDiskPanics, TypeOK
  <2>6. Progress'
    <3>1. \A u \in Threads \ {t} : pc'[u] = pc[u] /\ done'[u] = done[u]
      BY <2>1 DEF TypeOK
    <3>2. CASE op[t] = "read"
      <4>1. pc'[t] = "poll" /\ done'[t] = done[t] /\ moved[t] = done[t]
        BY <2>1, <3>2, <1>1 DEF TypeOK, Progress
      <4>2. tries[t] = 0 /\ 0 < TimeLimit
        BY <3>2, <1>1, IdeAssumption DEF Progress
      <4> QED BY <3>1, <4>1, <4>2, <1>1, <2>2 DEF Progress, SecsOp
    <3>3. CASE op[t] # "read"
      <4>1. /\ pc'[t] = "issue" /\ done'[t] = done[t] + SecsOp(t)
            /\ moved[t] = done[t] + SecsOp(t)
        BY <2>1, <3>3, <1>1 DEF TypeOK, Progress
      <4> QED BY <3>1, <4>1, <1>1, <2>3 DEF Progress, SecsOp
    <3> QED BY <3>2, <3>3
  <2>7. Handshake'
    <3>1. holder' # Nobody
      BY <1>1, <1>2, IdeAssumption
    <3>2. \A u \in Threads \ {t} : pc'[u] \notin {"issue", "sema", "poll", "nap", "data"}
      BY <2>1, <1>2 DEF InDriver, TypeOK, PCs
    <3>3. pc'[t] = IF op[t] = "read" THEN "poll" ELSE "issue"
      BY <2>1 DEF TypeOK
    <3> QED BY <3>1, <3>2, <3>3, <2>1, <2>2, <1>1 DEF Handshake, NoCommand
  <2> QED BY <2>4, <2>5, <2>6, <2>7
<1> QED BY <1>3, <1>4

(* busy_wait reads the status register. *)
LEMMA PollStep ==
    ASSUME IdeInv, NEW t \in Threads, Poll(t)
    PROVE  IdeInv'
<1> USE DEF IdeInv
<1>1. /\ pc[t] = "poll" /\ intrq' = FALSE /\ irr' = FALSE /\ ~panic
      /\ UNCHANGED <<op, cnt, done, moved, holder, expecting, value, dev, todo, wrote>>
  BY DEF Poll, At
<1>2. holder = t /\ \A u \in Threads \ {t} : ~InDriver(u)
  BY <1>1, OneInDriver DEF InDriver
<1>3. \E p \in {"nap", "data"} :
         /\ pc' = [pc EXCEPT ![t] = p] /\ run' \in {t, Nobody}
         /\ (p = "data") <=> (dev # "busy")
  BY DEF Poll, Go
<1>4. dev \in {"data", "busy"} /\ panic' = FALSE
  <2>1. dev \in {"data", "busy"}
    BY <1>1 DEF Handshake, TypeOK
  <2>2. CASE dev = "busy"
    BY <1>1, <2>2 DEF Poll, TypeOK
  <2>3. CASE dev = "data"
    <3>1. panic' = (dev # "data")
      BY <2>3 DEF Poll
    <3> QED BY <3>1, <2>3, Zenon
  <2> QED BY <2>1, <2>2, <2>3
<1>5. tries' \in [Threads -> 0..TimeLimit] /\ \A u \in Threads \ {t} : tries'[u] = tries[u]
  <2>1. tries[t] + 1 \in 0..TimeLimit
    BY <1>1, IdeAssumption DEF Progress, TypeOK
  <2>2. UNCHANGED tries \/ tries' = [tries EXCEPT ![t] = @ + 1]
    BY DEF Poll
  <2> QED BY <2>1, <2>2 DEF TypeOK
<1>6. TypeOK'
  <2>1. pc' \in [Threads -> PCs] /\ run' \in Threads \cup {Nobody}
    BY <1>3 DEF TypeOK, PCs
  <2> QED BY <2>1, <1>1, <1>4, <1>5 DEF TypeOK
<1>7. LockHeld' /\ OnlySlowDiskPanics'
  BY <1>1, <1>3, <1>4 DEF LockHeld, InDriver, OnlySlowDiskPanics, TypeOK
<1>8. Progress'
  <2>1. pc'[t] \in {"nap", "data"} /\ \A u \in Threads \ {t} : pc'[u] = pc[u]
    BY <1>3 DEF TypeOK
  <2> QED BY <2>1, <1>1, <1>5 DEF Progress, SecsOp
<1>9. Handshake'
  <2>1. holder' # Nobody
    BY <1>1, <1>2, IdeAssumption
  <2>2. \A u \in Threads \ {t} : pc'[u] \notin {"issue", "sema", "poll", "nap", "data"}
    BY <1>3, <1>2 DEF InDriver, TypeOK, PCs
  <2>3. pc'[t] = IF dev = "busy" THEN "nap" ELSE "data"
    BY <1>3 DEF TypeOK
  <2> QED BY <2>1, <2>2, <2>3, <1>1, <1>4 DEF Handshake, NoCommand
<1> QED BY <1>6, <1>7, <1>8, <1>9

(* mtime_sleep in busy_wait returns, or busy_wait gives up. *)
LEMMA WakeStep ==
    ASSUME IdeInv, NEW t \in Threads, Wake(t)
    PROVE  IdeInv'
<1> USE DEF IdeInv
<1>1. /\ pc[t] = "nap" /\ ~panic
      /\ UNCHANGED <<op, cnt, done, tries, moved, holder, run, expecting, value,
                      dev, todo, wrote, intrq, irr>>
  BY DEF Wake, At, device
<1>2. holder = t /\ \A u \in Threads \ {t} : ~InDriver(u)
  BY <1>1, OneInDriver DEF InDriver
<1>3. CASE tries[t] >= TimeLimit
  <2>1. panic' = TRUE /\ UNCHANGED pc
    BY <1>3 DEF Wake
  <2>2. tries[t] = TimeLimit
    BY <1>3, IdeAssumption DEF TypeOK
  <2> QED BY <2>1, <2>2, <1>1 DEF TypeOK, OnlySlowDiskPanics, LockHeld, InDriver,
                                  Progress, SecsOp, Handshake, NoCommand
<1>4. CASE ~(tries[t] >= TimeLimit)
  <2>1. pc' = [pc EXCEPT ![t] = "poll"] /\ panic' = panic
    BY <1>4 DEF Wake, Go
  <2>2. tries[t] < TimeLimit
    BY <1>4, IdeAssumption DEF TypeOK
  <2>3. TypeOK'
    BY <2>1, <1>1 DEF TypeOK, PCs
  <2>4. LockHeld' /\ OnlySlowDiskPanics'
    BY <2>1, <1>1 DEF LockHeld, InDriver, OnlySlowDiskPanics, TypeOK
  <2>5. pc'[t] = "poll" /\ \A u \in Threads \ {t} : pc'[u] = pc[u]
    BY <2>1 DEF TypeOK
  <2>6. Progress'
    BY <2>2, <2>5, <1>1 DEF Progress, SecsOp
  <2>7. Handshake'
    BY <2>5, <1>1, <1>2, IdeAssumption DEF Handshake, NoCommand, InDriver
  <2> QED BY <2>3, <2>4, <2>6, <2>7
<1> QED BY <1>3, <1>4

(* The sectors of one command are moved through the data port. *)
LEMMA TransferStep ==
    ASSUME IdeInv, NEW t \in Threads, Transfer(t)
    PROVE  IdeInv'
<1> USE DEF IdeInv
<1>1. /\ pc[t] = "data"
      /\ moved' = [moved EXCEPT ![t] = @ + Sectors(Register(SecsOp(t)))]
      /\ UNCHANGED <<op, cnt, tries, holder, run, expecting, value, wrote, panic>>
      /\ ~panic
  BY DEF Transfer, At
<1>2. holder = t /\ \A u \in Threads \ {t} : ~InDriver(u)
  BY <1>1, OneInDriver DEF InDriver
<1>3. /\ done[t] < cnt[t] /\ moved[t] = done[t] /\ done[t] \in Nat
      /\ SecsOp(t) \in Nat /\ done[t] + SecsOp(t) <= cnt[t]
      /\ moved'[t] = done[t] + SecsOp(t)
      /\ moved' \in [Threads -> Nat]
      /\ \A u \in Threads \ {t} : moved'[u] = moved[u]
  <2>1. done[t] < cnt[t] /\ moved[t] = done[t] /\ done[t] \in Nat
    BY <1>1 DEF Progress, TypeOK
  <2>2. /\ SecsOp(t) \in Nat /\ done[t] + SecsOp(t) <= cnt[t]
        /\ Sectors(Register(SecsOp(t))) = SecsOp(t)
    BY <2>1, SecsOpFacts, IdeAssumption
  <2> QED BY <2>1, <2>2, <1>1 DEF TypeOK
<1>4. holder' # Nobody
  BY <1>1, <1>2, IdeAssumption
<1>5. CASE op[t] = "read"
  <2>1. /\ dev' = "idle" /\ todo' = 0
        /\ intrq' = (todo > 1) /\ irr' = (todo > 1)
        /\ done' = [done EXCEPT ![t] = @ + SecsOp(t)]
        /\ pc' = [pc EXCEPT ![t] = "issue"]
    BY <1>5 DEF Transfer, Go
  <2>2. TypeOK'
    <3>1. done' \in [Threads -> Nat]
      BY <2>1, <1>3 DEF TypeOK
    <3>2. todo' \in 0..MaxOp
      BY <2>1, IdeAssumption
    <3>3. pc' \in [Threads -> PCs]
      BY <2>1 DEF TypeOK, PCs
    <3>4. intrq' \in BOOLEAN /\ irr' \in BOOLEAN
      BY <2>1
    <3> QED BY <3>1, <3>2, <3>3, <3>4, <2>1, <1>1, <1>3 DEF TypeOK
  <2>3. LockHeld' /\ OnlySlowDiskPanics'
    BY <2>1, <1>1 DEF LockHeld, InDriver, OnlySlowDiskPanics, TypeOK
  <2>4. Progress'
    <3>1. \A u \in Threads \ {t} : pc'[u] = pc[u] /\ done'[u] = done[u]
      BY <2>1 DEF TypeOK
    <3>2. pc'[t] = "issue" /\ done'[t] = done[t] + SecsOp(t)
      BY <2>1 DEF TypeOK
    <3> QED BY <3>1, <3>2, <1>1, <1>3 DEF Progress, SecsOp
  <2>5. Handshake'
    <3>1. \A u \in Threads \ {t} : pc'[u] \notin {"issue", "sema", "poll", "nap", "data"}
      BY <2>1, <1>2 DEF InDriver, TypeOK, PCs
    <3>2. pc'[t] = "issue" /\ NoCommand'
      BY <2>1, <1>1, <1>5 DEF TypeOK, Handshake, NoCommand
    <3> QED BY <3>1, <3>2, <1>4 DEF Handshake
  <2> QED BY <2>2, <2>3, <2>4, <2>5
<1>6. CASE op[t] # "read"
  <2>1. /\ dev' = "busy" /\ pc' = [pc EXCEPT ![t] = "sema"]
        /\ UNCHANGED <<done, todo, intrq, irr>>
    BY <1>6 DEF Transfer, Go
  <2>2. op[t] = "write"
    BY <1>6 DEF TypeOK
  <2>3. TypeOK'
    <3>1. pc' \in [Threads -> PCs]
      BY <2>1 DEF TypeOK, PCs
    <3> QED BY <3>1, <2>1, <1>1, <1>3 DEF TypeOK
  <2>4. LockHeld' /\ OnlySlowDiskPanics'
    BY <2>1, <1>1 DEF LockHeld, InDriver, OnlySlowDiskPanics, TypeOK
  <2>5. Progress'
    <3>1. \A u \in Threads \ {t} : pc'[u] = pc[u]
      BY <2>1 DEF TypeOK
    <3>2. pc'[t] = "sema"
      BY <2>1 DEF TypeOK
    <3> QED BY <3>1, <3>2, <2>1, <2>2, <1>1, <1>3 DEF Progress, SecsOp
  <2>6. Handshake'
    <3>1. \A u \in Threads \ {t} : pc'[u] \notin {"issue", "sema", "poll", "nap", "data"}
      BY <2>1, <1>2 DEF InDriver, TypeOK, PCs
    <3>2. pc'[t] = "sema" /\ expecting' = TRUE /\ value' = 0
      BY <2>1, <2>2, <1>1 DEF TypeOK, Handshake
    <3> QED BY <3>1, <3>2, <2>2, <1>1, <1>4 DEF Handshake
  <2> QED BY <2>3, <2>4, <2>5, <2>6
<1> QED BY <1>5, <1>6

(* The request is complete and gives the lock back. *)
LEMMA ReturnStep ==
    ASSUME IdeInv, NEW t \in Threads, Return(t)
    PROVE  IdeInv'
<1> USE DEF IdeInv
<1>1. /\ pc[t] = "issue" /\ done[t] >= cnt[t]
      /\ holder' = Nobody /\ run' = Nobody /\ pc' = [pc EXCEPT ![t] = "out"]
      /\ UNCHANGED <<op, cnt, done, tries, moved, expecting, value, dev, todo, wrote, intrq, irr, panic>>
      /\ ~panic
  BY DEF Return, At, Go, device
<1>2. holder = t /\ \A u \in Threads \ {t} : ~InDriver(u)
  BY <1>1, OneInDriver DEF InDriver
<1>3. TypeOK'
  BY <1>1 DEF TypeOK, PCs
<1>4. LockHeld' /\ OnlySlowDiskPanics'
  BY <1>1, <1>2, IdeAssumption DEF LockHeld, InDriver, OnlySlowDiskPanics, TypeOK
<1>5. Progress'
  <2>1. moved[t] = cnt[t]
    BY <1>1 DEF Progress, TypeOK
  <2> QED BY <2>1, <1>1 DEF Progress, TypeOK, SecsOp
<1>6. Handshake'
  <2>1. \A u \in Threads : pc'[u] \notin {"issue", "sema", "poll", "nap", "data"}
    BY <1>1, <1>2 DEF InDriver, TypeOK, PCs
  <2> QED BY <2>1, <1>1 DEF Handshake, NoCommand
<1> QED BY <1>3, <1>4, <1>5, <1>6

(* intr_hd_handler runs. *)
LEMMA InterruptStep ==
    ASSUME IdeInv, intr_hd_handler
    PROVE  IdeInv'
<1> USE DEF IdeInv
<1>1. /\ irr = TRUE /\ irr' = FALSE
      /\ UNCHANGED <<pc, op, cnt, done, tries, moved, holder, run, dev, todo, wrote>>
      /\ ~panic
  BY DEF intr_hd_handler, InterruptsOn, thread, TypeOK
<1>2. CASE expecting
  <2>1. /\ expecting' = FALSE /\ value' = value + 1 /\ panic' = (value # 0)
        /\ intrq' = FALSE
    BY <1>2 DEF intr_hd_handler
  <2>2. value = 0 /\ holder # Nobody
    BY <1>2 DEF Handshake, NoCommand, LockHeld, InDriver, TypeOK
  <2>3. PICK t \in Threads : holder = t /\ InDriver(t)
    BY <2>2 DEF LockHeld, TypeOK
  <2>4. pc[t] = "sema" /\ (op[t] = "read" => dev = "data")
    BY <2>3, <1>1, <1>2 DEF Handshake, NoCommand, InDriver, TypeOK
  <2>5. \A u \in Threads \ {t} : ~InDriver(u)
    BY <2>3, OneInDriver
  <2>6. TypeOK' /\ OnlySlowDiskPanics' /\ LockHeld' /\ Progress'
    <3>1. value' = 1 /\ panic' = FALSE
      <4>1. value' = 1
        BY <2>1, <2>2
      <4>2. panic' = FALSE
        BY <2>1, <2>2, Zenon
      <4> QED BY <4>1, <4>2
    <3>2. TypeOK'
      BY <3>1, <2>1, <1>1 DEF TypeOK
    <3> QED BY <3>1, <3>2, <1>1 DEF OnlySlowDiskPanics, LockHeld, InDriver, Progress, SecsOp
  <2>7. Handshake'
    BY <2>1, <2>2, <2>4, <2>5, <1>1 DEF Handshake, InDriver
  <2> QED BY <2>6, <2>7
<1>3. CASE ~expecting
  <2>1. UNCHANGED <<expecting, value, panic, intrq>>
    BY <1>3 DEF intr_hd_handler
  <2> QED BY <2>1, <1>1 DEF TypeOK, OnlySlowDiskPanics, LockHeld, InDriver, Progress, SecsOp,
                            Handshake, NoCommand
<1> QED BY <1>2, <1>3

(* The device answers the command it was given. *)
LEMMA DeviceStep ==
    ASSUME IdeInv, Device
    PROVE  IdeInv'
<1> USE DEF IdeInv
<1>1. /\ UNCHANGED <<pc, op, cnt, done, tries, moved, holder, run, expecting, value, wrote, panic>>
      /\ dev = "busy" /\ ~panic
  BY DEF Device, ReadReady, WriteReady, Stored, thread
<1>2. OnlySlowDiskPanics' /\ LockHeld' /\ Progress'
  BY <1>1 DEF OnlySlowDiskPanics, LockHeld, InDriver, Progress, SecsOp
<1>3. ASSUME ReadReady PROVE IdeInv'
  <2>1. PICK t \in Threads : holder = t /\ op[t] = "read" /\ pc[t] \in {"sema", "poll", "nap", "data"}
    BY <1>3 DEF ReadReady, Owner
  <2>2. dev' = "data" /\ todo' = todo /\ intrq' \in BOOLEAN /\ irr' \in BOOLEAN
    BY <1>3 DEF ReadReady, Assert
  <2>3. \A u \in Threads \ {t} : ~InDriver(u)
    BY <2>1, OneInDriver DEF InDriver
  <2>4. TypeOK'
    BY <2>2, <1>1 DEF TypeOK
  <2>5. Handshake'
    BY <2>1, <2>2, <2>3, <1>1 DEF Handshake, NoCommand, InDriver
  <2> QED BY <2>4, <2>5, <1>2
<1>4. ASSUME WriteReady PROVE IdeInv'
  <2>1. PICK t \in Threads : holder = t /\ op[t] = "write" /\ pc[t] \in {"poll", "nap"}
    BY <1>4 DEF WriteReady, Owner
  <2>2. dev' = "data" /\ UNCHANGED <<todo, intrq, irr>>
    BY <1>4 DEF WriteReady
  <2>3. \A u \in Threads \ {t} : ~InDriver(u)
    BY <2>1, OneInDriver DEF InDriver
  <2>4. TypeOK'
    BY <2>2, <1>1 DEF TypeOK
  <2>5. Handshake'
    BY <2>1, <2>2, <2>3, <1>1 DEF Handshake, NoCommand, InDriver
  <2> QED BY <2>4, <2>5, <1>2
<1>5. ASSUME Stored PROVE IdeInv'
  <2>1. /\ todo > 0 /\ todo' = todo - 1 /\ dev' = IF todo = 1 THEN "idle" ELSE "busy"
        /\ intrq' \in BOOLEAN /\ irr' \in BOOLEAN
    BY <1>5 DEF Stored, Assert
  <2>2. \A t \in Threads : pc[t] \in {"sema", "poll", "nap", "data"} =>
                              op[t] = "write" /\ pc[t] = "sema"
    BY <1>5 DEF Stored, Owner, LockHeld, InDriver
  <2>3. TypeOK'
    BY <2>1, <1>1, IdeAssumption DEF TypeOK
  <2>4. Handshake'
    BY <2>2, <1>1 DEF Handshake, NoCommand
  <2> QED BY <2>3, <2>4, <1>2
<1> QED BY <1>3, <1>4, <1>5 DEF Device

\* Every step keeps the invariant.
LEMMA IdeNextInv ==
    ASSUME IdeInv, [Next]_vars PROVE IdeInv'
<1>1. \A n \in Reads \cup Writes : n \in Nat
  BY IdeAssumption
<1>2. CASE UNCHANGED vars
  BY <1>2 DEF vars, IdeInv, TypeOK, OnlySlowDiskPanics, LockHeld, InDriver, Progress, SecsOp,
              Handshake, NoCommand
<1>3. ASSUME NEW t \in Threads, Continue(t) PROVE IdeInv'
  BY <1>3, IssueStep, SemaDownStep, PollStep, WakeStep, TransferStep,
     ReturnStep DEF Continue
<1> QED BY <1>1, <1>2, <1>3, AwayStep, CallStep, AcquireStep, InterruptStep, DeviceStep DEF Next

\* A step that ends a command leaves an idle device behind it, or one that is
\* busy with a write of several sectors.
LEMMA FinishedStep ==
    ASSUME IdeInv, Finished, [Next]_vars
    PROVE  Finished'
<1> USE DEF IdeInv
<1>1. ASSUME NEW t \in Threads, NEW n \in Reads, Call(t, "read", n) PROVE Finished'
  BY <1>1 DEF Call, Go, device, Finished, AtRest, TypeOK
<1>2. ASSUME NEW t \in Threads, NEW n \in Writes, Call(t, "write", n) PROVE Finished'
  BY <1>2 DEF Call, Go, device, Finished, AtRest, TypeOK
<1>3. ASSUME NEW t \in Threads, Acquire(t) PROVE Finished'
  BY <1>3, IdeAssumption DEF Acquire, At, Go, device, Finished, AtRest, TypeOK
<1>4. ASSUME NEW t \in Threads, Issue(t) PROVE Finished'
  <2>1. /\ pc[t] = "issue" /\ done[t] < cnt[t]
        /\ pc' = [pc EXCEPT ![t] = IF op[t] = "read" THEN "sema" ELSE "poll"]
        /\ todo' = Sectors(Register(SecsOp(t)))
        /\ wrote' = IF op[t] = "read" THEN 0 ELSE SecsOp(t)
        /\ UNCHANGED <<op, cnt, holder>>
    BY <1>4 DEF Issue, At, Go
  <2>2. holder = t /\ holder # Nobody /\ \A u \in Threads \ {t} : ~InDriver(u)
    BY <2>1, OneInDriver, IdeAssumption DEF InDriver, LockHeld
  <2>3. SecsOp(t) \in 1..MaxOp /\ done[t] + SecsOp(t) <= cnt[t] /\ todo' = SecsOp(t)
    BY <2>1, SecsOpFacts
  <2>4. op[t] = "write" => todo' = wrote' /\ wrote' > 0
    BY <2>1, <2>3, IdeAssumption
  <2>5. \A u \in Threads \ {t} : pc'[u] = pc[u] /\ pc[u] \in {"out", "away", "lock"}
    BY <2>1, <2>2 DEF InDriver, TypeOK, PCs
  <2>6. pc'[t] = IF op[t] = "read" THEN "sema" ELSE "poll"
    BY <2>1 DEF TypeOK
  <2> QED BY <2>1, <2>2, <2>4, <2>5, <2>6 DEF Finished, AtRest
<1>5. ASSUME NEW t \in Threads, SemaDown(t) PROVE Finished'
  <2>1. /\ pc[t] = "sema" /\ UNCHANGED <<op, cnt, holder, expecting, dev, todo, wrote, irr>>
    BY <1>5 DEF SemaDown, At, device
  <2>2. CASE value = 0
    BY <1>5, <2>1, <2>2 DEF SemaDown, Finished, AtRest
  <2>3. CASE value # 0
    <3>1. pc' = [pc EXCEPT ![t] = IF op[t] = "read" THEN "poll" ELSE "issue"]
      BY <1>5, <2>3 DEF SemaDown, Go
    <3>2. holder = t /\ holder # Nobody /\ \A u \in Threads \ {t} : ~InDriver(u)
      BY <2>1, OneInDriver, IdeAssumption DEF InDriver, LockHeld
    <3>3. op[t] # "read" => AtRest
      BY <2>1, <2>3 DEF Finished, AtRest, Handshake, TypeOK
    <3>4. \A u \in Threads \ {t} : pc'[u] = pc[u] /\ pc[u] \in {"out", "away", "lock"}
      BY <3>1, <3>2 DEF InDriver, TypeOK, PCs
    <3>5. pc'[t] = IF op[t] = "read" THEN "poll" ELSE "issue"
      BY <3>1 DEF TypeOK
    <3> QED BY <3>2, <3>3, <3>4, <3>5, <2>1 DEF Finished, AtRest
  <2> QED BY <2>2, <2>3
<1>6. ASSUME NEW t \in Threads, Poll(t) PROVE Finished'
  <2>1. /\ pc[t] = "poll" /\ irr' = FALSE
        /\ \E p \in {"nap", "data"} : pc' = [pc EXCEPT ![t] = p]
        /\ UNCHANGED <<op, cnt, holder, expecting, dev, todo, wrote>>
    BY <1>6 DEF Poll, At, Go
  <2> QED BY <2>1 DEF Finished, AtRest, TypeOK
<1>7. ASSUME NEW t \in Threads, Transfer(t) PROVE Finished'
  <2>1. /\ pc[t] = "data" /\ UNCHANGED <<op, cnt, holder, expecting, wrote>>
    BY <1>7 DEF Transfer, At
  <2>2. holder = t /\ holder # Nobody /\ \A u \in Threads \ {t} : ~InDriver(u)
    BY <2>1, OneInDriver, IdeAssumption DEF InDriver, LockHeld
  <2>3. CASE op[t] = "read"
    <3>1. dev' = "idle" /\ pc' = [pc EXCEPT ![t] = "issue"]
      BY <1>7, <2>3 DEF Transfer, Go
    <3>2. \A u \in Threads \ {t} : pc'[u] = pc[u] /\ pc[u] \in {"out", "away", "lock"}
      BY <3>1, <2>2 DEF InDriver, TypeOK, PCs
    <3>3. pc'[t] = "issue"
      BY <3>1 DEF TypeOK
    <3> QED BY <3>1, <3>2, <3>3, <2>1, <2>3 DEF Finished, AtRest
  <2>4. CASE op[t] # "read"
    <3>1. /\ dev' = "busy" /\ pc' = [pc EXCEPT ![t] = "sema"]
          /\ UNCHANGED <<todo, irr>>
      BY <1>7, <2>4 DEF Transfer, Go
    <3>2. op[t] = "write" /\ todo = wrote /\ wrote > 0 /\ expecting = TRUE /\ irr = FALSE
      BY <2>1, <2>4 DEF Finished, AtRest, Handshake, TypeOK
    <3>3. \A u \in Threads \ {t} : pc'[u] = pc[u] /\ pc[u] \in {"out", "away", "lock"}
      BY <3>1, <2>2 DEF InDriver, TypeOK, PCs
    <3>4. pc'[t] = "sema" /\ wrote \in Nat
      BY <3>1, <3>2, <2>1 DEF TypeOK, Finished, AtRest
    <3> QED BY <3>1, <3>2, <3>3, <3>4, <2>1, <2>2 DEF Finished, AtRest
  <2> QED BY <2>3, <2>4
<1>8. ASSUME NEW t \in Threads, Return(t) PROVE Finished'
  BY <1>8 DEF Return, At, Go, device, Finished, AtRest, TypeOK
<1>9. ASSUME intr_hd_handler PROVE Finished'
  BY <1>9 DEF intr_hd_handler, thread, Finished, AtRest, TypeOK
<1>10. ASSUME ReadReady PROVE Finished'
  <2>1. PICK t \in Threads : holder = t /\ op[t] = "read" /\ pc[t] \in {"sema", "poll", "nap", "data"}
    BY <1>10 DEF ReadReady, Owner
  <2>2. UNCHANGED <<pc, op, cnt, holder, wrote>>
    BY <1>10 DEF ReadReady, thread
  <2>3. \A u \in Threads \ {t} : pc[u] \in {"out", "away", "lock"} /\ holder # Nobody
    BY <2>1, OneInDriver DEF InDriver, TypeOK, PCs
  <2> QED BY <2>1, <2>2, <2>3, IdeAssumption DEF Finished, AtRest
<1>11. ASSUME WriteReady PROVE Finished'
  <2>1. PICK t \in Threads : holder = t /\ op[t] = "write" /\ pc[t] \in {"poll", "nap"}
    BY <1>11 DEF WriteReady, Owner
  <2>2. UNCHANGED <<pc, op, cnt, holder, todo, wrote>>
    BY <1>11 DEF WriteReady, thread
  <2>3. \A u \in Threads \ {t} : pc[u] \in {"out", "away", "lock"} /\ holder # Nobody
    BY <2>1, OneInDriver DEF InDriver, TypeOK, PCs
  <2> QED BY <2>1, <2>2, <2>3, IdeAssumption DEF Finished, AtRest
<1>12. ASSUME Stored PROVE Finished'
  <2>1. /\ dev = "busy" /\ todo > 0 /\ dev' = IF todo = 1 THEN "idle" ELSE "busy"
        /\ UNCHANGED <<pc, op, cnt, holder, wrote>>
    BY <1>12 DEF Stored, thread
  <2>2. \A t \in Threads : pc[t] \in {"sema", "poll", "nap", "data"} =>
                              op[t] = "write" /\ pc[t] = "sema"
    BY <1>12 DEF Stored, Owner, LockHeld, InDriver
  <2> QED BY <2>1, <2>2 DEF Finished, AtRest
<1>13. ASSUME NEW t \in Threads, Leave(t) \/ Back(t) PROVE Finished'
  BY <1>13 DEF Leave, Back, Go, device, Finished, AtRest, TypeOK
<1>14. ASSUME NEW t \in Threads, Wake(t) PROVE Finished'
  <2>1. /\ pc[t] = "nap"
        /\ pc' = pc \/ pc' = [pc EXCEPT ![t] = "poll"]
        /\ UNCHANGED <<op, cnt, holder, expecting, dev, todo, wrote, irr>>
    BY <1>14 DEF Wake, At, Go, device
  <2> QED BY <2>1 DEF Finished, AtRest, TypeOK
<1>15. CASE UNCHANGED vars
  BY <1>15 DEF vars, Finished, AtRest
<1> QED BY <1>1, <1>2, <1>3, <1>4, <1>5, <1>6, <1>7, <1>8, <1>9, <1>10, <1>11,
           <1>12, <1>13, <1>14, <1>15 DEF Next, Continue, Device

-----------------------------------------------------------------------------
(* The theorems. *)

\* The inductive invariant holds in every reachable state.
THEOREM IdeInvariance == Spec => []IdeInv
<1>1. Init => IdeInv
  <2> SUFFICES ASSUME Init PROVE IdeInv
    OBVIOUS
  <2>1. TypeOK
    <3>1. /\ pc \in [Threads -> PCs] /\ op \in [Threads -> {"read", "write"}]
          /\ cnt \in [Threads -> Nat] /\ done \in [Threads -> Nat]
          /\ tries \in [Threads -> 0..TimeLimit] /\ moved \in [Threads -> Nat]
      BY IdeAssumption DEF Init, PCs
    <3>2. {todo, wrote} \subseteq 0..MaxOp
      BY IdeAssumption DEF Init
    <3> QED BY <3>1, <3>2 DEF Init, TypeOK
  <2> QED BY <2>1, IdeAssumption
          DEF Init, IdeInv, OnlySlowDiskPanics, LockHeld, InDriver, Progress,
              Handshake, NoCommand
<1>2. IdeInv /\ [Next]_vars => IdeInv'
  BY IdeNextInv
<1> QED BY <1>1, <1>2, PTL DEF Spec

\* Every variable keeps its type; disk_done is never more than 1.
THEOREM TypeCorrect == Spec => []TypeOK
BY IdeInvariance, PTL DEF IdeInv

\* A request fails only on a disk that stays busy through all the turns of
\* busy_wait, and sema_up never finds disk_done raised, for any threads and
\* requests, of several sectors too.
THEOREM PanicsOnlyWhenSlow == Spec => []OnlySlowDiskPanics
BY IdeInvariance, PTL DEF IdeInv

\* Every request moves exactly the sectors it was asked for, whatever its size
\* and whatever the largest command.
THEOREM RequestsComplete == Spec => []Complete
<1>1. IdeInv => Complete
  BY DEF IdeInv, Progress, Complete
<1> QED BY <1>1, IdeInvariance, PTL

\* Finished goes with the invariant.
LEMMA FinishedAlways == Spec => []Finished
<1>1. Init => Finished
  BY DEF Init, Finished, AtRest
<1>2. IdeInv /\ Finished /\ [Next]_vars => Finished'
  BY FinishedStep
<1> QED BY <1>1, <1>2, IdeInvariance, PTL DEF Spec

\* A command is issued to a device that has finished the one before and whose
\* interrupt has been taken; the exception is a device busy with a write of
\* several sectors, for any number of threads and any requests.
THEOREM CommandsOverlapOnlyAfterLongWrites == Spec => []OnlyLongWritesOverlap
<1>1. IdeInv /\ Finished => OnlyLongWritesOverlap
  BY DEF IdeInv, Finished, AtRest, Handshake, NoCommand, OnlyLongWritesOverlap
<1> QED BY <1>1, IdeInvariance, FinishedAlways, PTL

-----------------------------------------------------------------------------
(* The keyboard driver: what the handler will do with the bytes under way. *)

\* A state of the handler is the set of flags that are on.
KeysOf == [ctrl |-> Ctrls, shift |-> Shifts, alt |-> Alts]
Modifiers == {"ctrl", "shift", "alt"}
Flag == Modifiers \cup {"caps", "ext"}

\* The scan code a byte completes, and the character its key then stands for
Code(s, byte) == IF "ext" \in s THEN Extended + byte ELSE byte
Shifted(s, code) == IF code \in TwoSigns THEN "shift" \in s
                    ELSE ("shift" \in s) # ("caps" \in s)
Char(s, byte) ==
    IF Known(Code(s, byte))
    THEN WithCtrl(keymap(Code(s, byte) % 256, Shifted(s, Code(s, byte))), "ctrl" \in s)
    ELSE NoChar

\* The handler takes a byte in state s and is in state t.
Follows(s, byte, t) ==
    LET code == Code(s, byte)
        make == byte < 128 /\ Known(code)
        break == byte >= 128 /\ byte # E0
    IN  /\ "ext" \in t <=> byte = E0
        /\ \A m \in Modifiers :
              m \in t <=> \/ make /\ code % 256 \in KeysOf[m]
                          \/ m \in s /\ ~(break /\ code - 128 \in KeysOf[m])
        /\ "caps" \in t <=> ~("caps" \in s <=> make /\ code % 256 = caps_lock_make)

\* The character of a make code is the one that was meant.
Means(s, w) == w.byte < 128 => Char(s, w.byte) = w.meant

\* The flags as they are, and as the keys that are held make them
FlagsAre(s) ==
    /\ "ctrl" \in s <=> ctrl_status
    /\ "shift" \in s <=> shift_status
    /\ "alt" \in s <=> alt_status
    /\ "caps" \in s <=> caps_lock_status
    /\ "ext" \in s <=> ext_scancode
AsHeld(s, keys, on) ==
    /\ \A m \in Modifiers : m \in s <=> keys \cap KeysOf[m] # {}
    /\ "caps" \in s <=> on
    /\ "ext" \notin s

\* The states from now until the last byte under way is handled
Replay(st) ==
    /\ FlagsAre(st[1])
    /\ AsHeld(st[Len(wire) + 1], down, caps)
    /\ \A i \in 1..Len(wire) : Follows(st[i], wire[i].byte, st[i + 1]) /\ Means(st[i], wire[i])

Chars == {NoChar} \cup (({"ctrl"} \cup Nat) \X (BOOLEAN \cup Nat))
Sent == [byte : Nat, meant : Chars]

KbdTypeOK ==
    /\ down \subseteq Keys /\ caps \in BOOLEAN /\ wire \in Seq(Sent)
    /\ ctrl_status \in BOOLEAN /\ shift_status \in BOOLEAN /\ alt_status \in BOOLEAN
    /\ caps_lock_status \in BOOLEAN /\ ext_scancode \in BOOLEAN
    /\ kbd_buf \in Nat

Replayable == \E st : Replay(st)

KbdInv == KbdTypeOK /\ CharAsMeant /\ Replayable

\* The user has one key of each kind of modifier, and Caps Lock does not repeat.
OneOfEach == /\ \A m \in Modifiers : \A j, k \in Keys \cap KeysOf[m] : j = k
             /\ caps_lock_make \notin Repeating

-----------------------------------------------------------------------------
(* The keyboard driver: what the bytes of a key do.                        *)

\* The state after the make code, and after the break code, of key k
MadeBy(s, k, t) ==
    /\ \A m \in Modifiers : m \in t <=> m \in s \/ k \in KeysOf[m]
    /\ "caps" \in t <=> ~("caps" \in s <=> k = caps_lock_make)
    /\ "ext" \notin t
BrokenBy(s, k, t) ==
    /\ \A m \in Modifiers : m \in t <=> m \in s /\ k \notin KeysOf[m]
    /\ "caps" \in t <=> "caps" \in s
    /\ "ext" \notin t

\* The sets of modifiers, one by one
LEMMA KeysOfFacts ==
    /\ KeysOf["ctrl"] = {29, 57373} /\ KeysOf["shift"] = {42, 54} /\ KeysOf["alt"] = {56, 57400}
    /\ \A m \in Modifiers : m = "ctrl" \/ m = "shift" \/ m = "alt"
    /\ \A m \in Modifiers : m # "ext" /\ m # "caps"
  BY DEF KeysOf, Modifiers, Ctrls, Shifts, Alts, ctrl_l_make, ctrl_r_make, shift_l_make,
         shift_r_make, alt_l_make, alt_r_make, Extended

\* The byte of a plain key that goes down or comes up
LEMMA PlainMake ==
    ASSUME NEW s, "ext" \notin s, NEW k \in 1..127, NEW t, MadeBy(s, k, t)
    PROVE  Follows(s, k, t)
<1>1. Code(s, k) = k /\ k < 128 /\ k # E0 /\ k % 256 = k
  BY DEF Code, E0
<1>2. Known(k) <=> k <= 58
  BY DEF Known, alt_r_make, ctrl_r_make, Extended
<1>3. \A m \in Modifiers : k \in KeysOf[m] => Known(k)
  BY <1>2, KeysOfFacts
<1>4. k = caps_lock_make => Known(k)
  BY <1>2 DEF caps_lock_make
<1> QED BY <1>1, <1>3, <1>4 DEF Follows, MadeBy

\* The same for a plain key that comes up: no break code is the prefix.
LEMMA PlainBreak ==
    ASSUME NEW s, "ext" \notin s, NEW k \in 1..127, k # 96, NEW t, BrokenBy(s, k, t)
    PROVE  Follows(s, k + 128, t)
<1>1. Code(s, k + 128) = k + 128 /\ k + 128 >= 128 /\ k + 128 # E0 /\ (k + 128) - 128 = k
      /\ ~(k + 128 < 128)
  BY DEF Code, E0
<1> QED BY <1>1 DEF Follows, BrokenBy

\* The prefix is remembered, and nothing else.
LEMMA Prefix ==
    ASSUME NEW s
    PROVE  Follows(s, E0, s \cup {"ext"})
<1>1. E0 >= 128 /\ ~(E0 < 128)
  BY DEF E0
<1> QED BY <1>1, KeysOfFacts DEF Follows

\* The byte of an extended key, and of the fake shift, after the prefix
LEMMA ExtMake ==
    ASSUME NEW s, "ext" \notin s, NEW k \in Extended + 1..Extended + 127,
           NEW t, MadeBy(s, k, t)
    PROVE  Follows(s \cup {"ext"}, k - Extended, t)
<1> DEFINE e == s \cup {"ext"}
<1>1. Code(e, k - Extended) = k /\ k - Extended < 128 /\ k - Extended # E0
      /\ k % 256 = k - Extended
  BY DEF Code, E0, Extended
<1>2. Known(k) <=> k = 57373 \/ k = 57400
  BY DEF Known, alt_r_make, ctrl_r_make, Extended
<1>3. \A m \in Modifiers : k \in KeysOf[m] <=> Known(k) /\ k - Extended \in KeysOf[m]
  BY <1>2, KeysOfFacts DEF Extended
<1>4. k # caps_lock_make /\ ~(Known(k) /\ k - Extended = caps_lock_make)
  BY <1>2 DEF caps_lock_make, Extended
<1>5. \A f : f # "ext" => (f \in e <=> f \in s)
  OBVIOUS
<1> HIDE DEF e
<1>6. Follows(e, k - Extended, t)
  BY <1>1, <1>3, <1>4, <1>5, KeysOfFacts DEF Follows, MadeBy
<1> QED BY <1>6 DEF e

\* The same for an extended key that comes up
LEMMA ExtBreak ==
    ASSUME NEW s, "ext" \notin s, NEW k \in Extended + 1..Extended + 127, k # Extended + 96,
           NEW t, BrokenBy(s, k, t)
    PROVE  Follows(s \cup {"ext"}, k - Extended + 128, t)
<1> DEFINE e == s \cup {"ext"}
           b == k - Extended + 128
<1>1. Code(e, b) - 128 = k /\ b >= 128 /\ b # E0 /\ ~(b < 128)
  BY DEF Code, E0, Extended
<1>2. \A f : f # "ext" => (f \in e <=> f \in s)
  OBVIOUS
<1> HIDE DEF e, b
<1>3. Follows(e, b, t)
  BY <1>1, <1>2, KeysOfFacts DEF Follows, BrokenBy
<1> QED BY <1>3 DEF e, b

\* The fake shift, an extended code the handler does not know, changes nothing.
LEMMA FakeShift ==
    ASSUME NEW s, "ext" \notin s
    PROVE  /\ Follows(s \cup {"ext"}, shift_l_make, s)
           /\ Follows(s \cup {"ext"}, shift_l_make + 128, s)
<1> DEFINE e == s \cup {"ext"}
<1>1. Code(e, shift_l_make) = 57386 /\ Code(e, shift_l_make + 128) - 128 = 57386
      /\ shift_l_make = 42 /\ E0 = 224
  BY DEF Code, E0, Extended, shift_l_make
<1>2. ~Known(57386) /\ \A m \in Modifiers : 57386 \notin KeysOf[m]
  BY KeysOfFacts DEF Known, alt_r_make, ctrl_r_make, Extended
<1>3. \A f : f # "ext" => (f \in e <=> f \in s)
  OBVIOUS
<1> HIDE DEF e
<1>4. Follows(e, 42, s)
  BY <1>1, <1>2, <1>3, KeysOfFacts DEF Follows
<1>5. Follows(e, 42 + 128, s)
  BY <1>1, <1>2, <1>3, KeysOfFacts DEF Follows
<1> QED BY <1>1, <1>4, <1>5 DEF e

\* The character of a key that goes down, if the flags are as the keys are held
LEMMA PlainMeant ==
    ASSUME KbdTypeOK, NEW s, AsHeld(s, down, caps), NEW k \in 1..127
    PROVE  Char(s, k) = Meant(k)
<1>1. Code(s, k) = k /\ k % 256 = k
  BY DEF Code, AsHeld
<1>2. Known(k) <=> k <= caps_lock_make
  BY DEF Known, alt_r_make, ctrl_r_make, Extended, caps_lock_make
<1>3. ("shift" \in s) = (down \cap Shifts # {}) /\ ("ctrl" \in s) = (down \cap Ctrls # {})
      /\ ("caps" \in s) = caps
  <2>1. "shift" \in s <=> down \cap Shifts # {}
    BY DEF AsHeld, Modifiers, KeysOf
  <2>2. "ctrl" \in s <=> down \cap Ctrls # {}
    BY DEF AsHeld, Modifiers, KeysOf
  <2>3. "caps" \in s <=> caps
    BY DEF AsHeld
  <2> QED BY <2>1, <2>2, <2>3 DEF KbdTypeOK
<1>4. k > caps_lock_make <=> ~(k <= caps_lock_make)
  BY DEF caps_lock_make
<1>5. CASE k <= caps_lock_make
  BY <1>1, <1>2, <1>3, <1>4, <1>5 DEF Char, Meant, Shifted
<1>6. CASE ~(k <= caps_lock_make)
  BY <1>1, <1>2, <1>4, <1>6 DEF Char, Meant
<1> QED BY <1>5, <1>6

\* An extended key means no character, and its make code stores none.
LEMMA ExtMeant ==
    ASSUME NEW s, "ext" \in s, NEW k \in Extended + 1..Extended + 127
    PROVE  Char(s, k - Extended) = NoChar /\ Meant(k) = NoChar
<1>1. Code(s, k - Extended) = k /\ k > caps_lock_make
  BY DEF Code, Extended, caps_lock_make
<1>2. Known(k) <=> k = 57373 \/ k = 57400
  BY DEF Known, alt_r_make, ctrl_r_make, Extended
<1>3. Known(k) => k % 256 = 29 \/ k % 256 = 56
  BY <1>2
<1>4. \A x : keymap(29, x) = NoChar /\ keymap(56, x) = NoChar
  BY DEF keymap, ctrl_l_make, alt_l_make
<1>5. \A x : WithCtrl(NoChar, x) = NoChar
  BY DEF WithCtrl, NoChar
<1>6. Char(s, k - Extended) = NoChar
  BY <1>1, <1>3, <1>4, <1>5 DEF Char
<1> QED BY <1>1, <1>6 DEF Meant

\* What a key means is a character.
LEMMA MeantType ==
    ASSUME KbdTypeOK, NEW k \in Nat
    PROVE  Meant(k) \in Chars
<1> DEFINE x == down \cap Shifts # {}
           y == IF k \in TwoSigns THEN x ELSE x # caps
           z == down \cap Ctrls # {}
<1>1. y \in BOOLEAN
  BY DEF KbdTypeOK
<1> HIDE DEF x, y
<1>2. keymap(k, y) \in {NoChar, <<k, y>>}
  BY DEF keymap
<1>3. ASSUME NEW c PROVE WithCtrl(c, z) \in {c, <<"ctrl", 38>>, <<"ctrl", 22>>}
  <2>1. CASE c = <<38, FALSE>>
    <3>1. c[1] = 38
      BY <2>1
    <3> QED BY <3>1 DEF WithCtrl
  <2>2. CASE c = <<22, FALSE>>
    <3>1. c[1] = 22
      BY <2>2
    <3> QED BY <3>1 DEF WithCtrl
  <2>3. CASE c \notin {<<38, FALSE>>, <<22, FALSE>>}
    BY <2>3 DEF WithCtrl
  <2> QED BY <2>1, <2>2, <2>3
<1>4. <<k, y>> \in Chars /\ NoChar \in Chars /\ <<"ctrl", 38>> \in Chars /\ <<"ctrl", 22>> \in Chars
  BY <1>1 DEF Chars
<1>5. Meant(k) \in {NoChar, WithCtrl(keymap(k, y), z)}
  BY DEF Meant, x, y
<1> HIDE DEF z
<1>6. WithCtrl(keymap(k, y), z) \in Chars
  BY <1>2, <1>3, <1>4
<1> QED BY <1>4, <1>5, <1>6

-----------------------------------------------------------------------------
(* The keyboard: bytes are put on the wire.                                *)

\* The handler takes n bytes, the last of which carries ch, and is in states t.
Row(n, bytes, ch, t) ==
    /\ n \in Nat /\ bytes \in Seq(Nat) /\ Len(bytes) = n
    /\ \A i \in 1..n : /\ Follows(t[i], bytes[i], t[i + 1])
                       /\ bytes[i] < 128 => Char(t[i], bytes[i]) = IF i = n THEN ch ELSE NoChar

\* A row of states for the new bytes continues the one for those under way.
LEMMA Extend ==
    ASSUME KbdTypeOK, NEW st, Replay(st), NEW n, NEW bytes, NEW ch \in Chars, NEW t,
           Row(n, bytes, ch, t), Send(bytes, ch), UNCHANGED <<flags, ext_scancode>>,
           t[1] = st[Len(wire) + 1], AsHeld(t[n + 1], down', caps')
    PROVE  Replayable' /\ wire' \in Seq(Sent)
<1>0. /\ n \in Nat /\ bytes \in Seq(Nat) /\ Len(bytes) = n
      /\ \A i \in 1..n : /\ Follows(t[i], bytes[i], t[i + 1])
                         /\ bytes[i] < 128 => Char(t[i], bytes[i]) = IF i = n THEN ch ELSE NoChar
  BY DEF Row
<1>1. PICK N \in Nat : N = Len(wire)
  BY DEF KbdTypeOK
<1> DEFINE w == [i \in 1..n |-> [byte |-> bytes[i], meant |-> IF i = n THEN ch ELSE NoChar]]
           s2 == [i \in 1..N + n + 1 |-> IF i <= N THEN st[i] ELSE t[i - N]]
<1>2. n \in Nat /\ w \in Seq(Sent) /\ Len(w) = n
  <2>1. \A i \in 1..n : [byte |-> bytes[i], meant |-> IF i = n THEN ch ELSE NoChar] \in Sent
    BY <1>0 DEF Sent, Chars
  <2> HIDE DEF Sent
  <2> QED BY <1>0, <2>1
<1>3. \A i \in 1..n : w[i].byte = bytes[i] /\ w[i].meant = IF i = n THEN ch ELSE NoChar
  BY <1>0
<1>4. wire' = wire \o w /\ wire \in Seq(Sent)
  BY <1>0 DEF Send, KbdTypeOK
<1> HIDE DEF w
<1>5. /\ wire' \in Seq(Sent) /\ Len(wire') = N + n
      /\ \A i \in 1..N : wire'[i] = wire[i]
      /\ \A i \in 1..n : wire'[N + i] = w[i]
  <2>1. wire' \in Seq(Sent) /\ Len(wire') = N + n
    <3>1. \A x, y \in Seq(Sent) : x \o y \in Seq(Sent) /\ Len(x \o y) = Len(x) + Len(y)
      OBVIOUS
    <3> QED BY <1>1, <1>2, <1>4, <3>1
  <2>2. \A i \in 1..N : wire'[i] = wire[i]
    BY <1>1, <1>2, <1>4
  <2>3. \A i \in 1..n : wire'[N + i] = w[i]
    <3> TAKE i \in 1..n
    <3>1. N + i \in 1..Len(wire) + Len(w) /\ ~(N + i <= Len(wire)) /\ N + i - Len(wire) = i
      BY <1>1, <1>2
    <3> QED BY <1>2, <1>4, <3>1
  <2> QED BY <2>1, <2>2, <2>3
<1>6. /\ \A i \in 1..N : s2[i] = st[i]
      /\ \A i \in 1..n + 1 : s2[N + i] = t[i]
      /\ s2[N + 1] = st[N + 1]
  <2>1. \A i \in 1..n + 1 : s2[N + i] = t[i]
    <3> TAKE i \in 1..n + 1
    <3>1. N + i \in 1..N + n + 1 /\ ~(N + i <= N) /\ (N + i) - N = i
      BY <1>2
    <3> QED BY <3>1
  <2>2. \A i \in 1..N : s2[i] = st[i]
    BY <1>2
  <2>3. s2[N + 1] = t[1]
    BY <1>2, <2>1
  <2> QED BY <1>1, <2>1, <2>2, <2>3
<1> HIDE DEF s2
<1>7. ASSUME NEW i \in 1..N + n
      PROVE  Follows(s2[i], wire'[i].byte, s2[i + 1]) /\ Means(s2[i], wire'[i])
  <2>1. CASE i <= N
    <3>1. i \in 1..N /\ (i + 1 \in 1..N \/ i + 1 = N + 1)
      BY <1>2, <2>1
    <3>2. s2[i] = st[i] /\ s2[i + 1] = st[i + 1] /\ wire'[i] = wire[i]
      BY <1>5, <1>6, <3>1
    <3>3. Follows(st[i], wire[i].byte, st[i + 1]) /\ Means(st[i], wire[i])
      BY <1>1, <3>1 DEF Replay
    <3> QED BY <3>2, <3>3
  <2>2. CASE i > N
    <3>1. PICK j \in 1..n : i = N + j
      <4>1. i - N \in 1..n /\ i = N + (i - N)
        BY <1>2, <2>2
      <4> QED BY <4>1
    <3>2. i + 1 = N + (j + 1) /\ j \in 1..n + 1 /\ j + 1 \in 1..n + 1
      BY <1>2, <3>1
    <3>3. s2[i] = t[j] /\ s2[i + 1] = t[j + 1] /\ wire'[i] = w[j]
      BY <1>5, <1>6, <3>1, <3>2
    <3>4. Follows(t[j], bytes[j], t[j + 1]) /\ Means(t[j], w[j])
      BY <1>0, <1>3, <3>1 DEF Means
    <3> QED BY <1>3, <3>1, <3>3, <3>4
  <2> QED BY <1>2, <2>1, <2>2
<1>8. FlagsAre(s2[1])'
  <2>1. s2[1] = st[1]
    BY <1>1, <1>6
  <2>2. FlagsAre(st[1])
    BY DEF Replay
  <2> QED BY <2>1, <2>2 DEF FlagsAre, flags
<1>9. AsHeld(s2[N + n + 1], down', caps')
  <2>1. s2[N + n + 1] = t[n + 1]
    BY <1>2, <1>6
  <2> QED BY <2>1
<1>10. Replay(s2)'
  BY <1>5, <1>7, <1>8, <1>9 DEF Replay
<1> QED BY <1>5, <1>10 DEF Replayable

\* Two pairs of bytes in a row
LEMMA TwoPairs ==
    ASSUME NEW a \in Nat, NEW b \in Nat, NEW c \in Nat, NEW d \in Nat
    PROVE  <<a, b>> \o <<c, d>> = <<a, b, c, d>>
<1> DEFINE x == <<a, b>>
           y == <<c, d>>
           z == <<a, b, c, d>>
<1>1. x \in Seq(Nat) /\ y \in Seq(Nat) /\ z \in Seq(Nat) /\ Len(x) = 2 /\ Len(y) = 2 /\ Len(z) = 4
  OBVIOUS
<1>2. x[1] = a /\ x[2] = b /\ y[1] = c /\ y[2] = d /\ z[1] = a /\ z[2] = b /\ z[3] = c /\ z[4] = d
  OBVIOUS
<1> HIDE DEF x, y, z
<1>3. /\ x \o y \in Seq(Nat) /\ Len(x \o y) = 4
      /\ \A i \in 1..4 : (x \o y)[i] = IF i <= 2 THEN x[i] ELSE y[i - 2]
  <2>1. /\ x \o y \in Seq(Nat) /\ Len(x \o y) = Len(x) + Len(y)
        /\ \A i \in 1..Len(x) + Len(y) : (x \o y)[i] = IF i <= Len(x) THEN x[i] ELSE y[i - Len(x)]
    BY <1>1, ConcatProperties, Zenon
  <2>2. Len(x) + Len(y) = 4
    BY <1>1
  <2> QED BY <1>1, <2>1, <2>2
<1>4. \A i \in 1..4 : (x \o y)[i] = z[i]
  <2>1. \A i \in 1..4 : (i = 1 \/ i = 2 \/ i = 3 \/ i = 4) /\ (i <= 2 <=> i = 1 \/ i = 2)
    OBVIOUS
  <2>2. 3 - 2 = 1 /\ 4 - 2 = 2 /\ 1 # 3 /\ 1 # 4 /\ 2 # 3 /\ 2 # 4
    OBVIOUS
  <2>3. ASSUME NEW i \in 1..4 PROVE (x \o y)[i] = z[i]
    <3>1. (x \o y)[i] = IF i <= 2 THEN x[i] ELSE y[i - 2]
      BY <1>3
    <3>2. (i = 1 \/ i = 2 \/ i = 3 \/ i = 4) /\ (i <= 2 <=> i = 1 \/ i = 2)
      BY <2>1
    <3> QED BY <1>2, <2>2, <3>1, <3>2
  <2> QED BY <2>3
<1>5. x \o y = z
  BY <1>1, <1>3, <1>4, SeqEqual
<1> QED BY <1>5 DEF x, y, z

\* A key that goes down, or repeats, with its prefix and fake shift.
LEMMA SendMake ==
    ASSUME KbdTypeOK, NEW st, Replay(st), NEW k \in Keys, NEW f,
           Send(MakeBytes(k), Meant(k)), UNCHANGED <<flags, ext_scancode>>,
           MadeBy(st[Len(wire) + 1], k, f), AsHeld(f, down', caps')
    PROVE  Replayable' /\ wire' \in Seq(Sent)
<1>1. PICK s : s = st[Len(wire) + 1]
  OBVIOUS
<1> DEFINE e == s \cup {"ext"}
<1>2. AsHeld(s, down, caps) /\ "ext" \notin s /\ "ext" \in e /\ MadeBy(s, k, f)
  BY <1>1 DEF Replay, AsHeld
<1>3. \/ k \in 1..127 /\ k \notin Padded /\ k < Extended
      \/ k \in Extended + 1..Extended + 127 /\ ~(k < Extended)
  BY KeyboardAssumption DEF Extended
<1>4. Meant(k) \in Chars /\ NoChar \in Chars
  <2>1. k \in Nat
    <3>1. CASE k \in 1..127
      BY <3>1
    <3>2. CASE k \in Extended + 1..Extended + 127
      BY <3>2 DEF Extended
    <3> QED BY <1>3, <3>1, <3>2
  <2>2. NoChar \in Chars
    BY DEF Chars
  <2> QED BY <2>1, <2>2, MeantType
<1>5. CASE k \in 1..127 /\ k \notin Padded /\ k < Extended
  <2> DEFINE t == <<s, f>>
  <2>1. MakeBytes(k) = <<k>>
    BY <1>5 DEF MakeBytes, Bytes
  <2>2. Follows(s, k, f) /\ Char(s, k) = Meant(k)
    BY <1>2, <1>5, PlainMake, PlainMeant
  <2>3. <<k>> \in Seq(Nat) /\ Len(<<k>>) = 1 /\ <<k>>[1] = k
    BY <1>5
  <2>4. \A i \in 1..1 : /\ Follows(t[i], <<k>>[i], t[i + 1])
                        /\ <<k>>[i] < 128 => Char(t[i], <<k>>[i]) = IF i = 1 THEN Meant(k) ELSE NoChar
    BY <2>2
  <2>5. t[1] = st[Len(wire) + 1] /\ AsHeld(t[1 + 1], down', caps')
    BY <1>1
  <2>6. Row(1, <<k>>, Meant(k), t)
    BY <2>3, <2>4 DEF Row
  <2> HIDE DEF t
  <2> QED BY <1>4, <2>1, <2>5, <2>6, Extend
<1>6. CASE k \in Extended + 1..Extended + 127 /\ ~(k < Extended) /\ k \notin Padded
  <2> DEFINE t == <<s, e, f>>
             b == <<E0, k - Extended>>
  <2>1. MakeBytes(k) = b
    BY <1>6 DEF MakeBytes, Bytes, Extended
  <2>2. /\ Follows(s, E0, e) /\ Follows(e, k - Extended, f)
        /\ Char(e, k - Extended) = Meant(k)
    BY <1>2, <1>6, Prefix, ExtMake, ExtMeant
  <2>3. b \in Seq(Nat) /\ Len(b) = 2 /\ b[1] = E0 /\ b[2] = k - Extended /\ ~(E0 < 128)
    BY <1>6 DEF E0, Extended
  <2>4. ASSUME NEW i \in 1..2
        PROVE  /\ Follows(t[i], b[i], t[i + 1])
               /\ b[i] < 128 => Char(t[i], b[i]) = IF i = 2 THEN Meant(k) ELSE NoChar
    <3>1. CASE i = 1
      BY <2>2, <2>3, <3>1
    <3>2. CASE i = 2
      BY <2>2, <2>3, <3>2
    <3> QED BY <3>1, <3>2
  <2>5. t[1] = st[Len(wire) + 1] /\ AsHeld(t[2 + 1], down', caps')
    BY <1>1
  <2>6. Row(2, b, Meant(k), t)
    BY <2>3, <2>4 DEF Row
  <2> HIDE DEF t, b
  <2> QED BY <1>4, <2>1, <2>5, <2>6, Extend
<1>7. CASE k \in Extended + 1..Extended + 127 /\ ~(k < Extended) /\ k \in Padded
  <2> DEFINE t == <<s, e, s, e, f>>
             b == <<E0, shift_l_make, E0, k - Extended>>
  <2>1. MakeBytes(k) = b
    <3>1. Bytes(Extended + shift_l_make, 0) = <<E0, shift_l_make>>
      BY DEF Bytes, Extended, shift_l_make
    <3>2. Bytes(k, 0) = <<E0, k - Extended>>
      BY <1>7 DEF Bytes, Extended
    <3>3. E0 \in Nat /\ shift_l_make \in Nat /\ k - Extended \in Nat
      BY <1>7 DEF E0, shift_l_make, Extended
    <3>4. <<E0, shift_l_make>> \o <<E0, k - Extended>> = b
      BY <3>3, TwoPairs
    <3> QED BY <1>7, <3>1, <3>2, <3>4 DEF MakeBytes
  <2>2. /\ Follows(s, E0, e) /\ Follows(e, k - Extended, f) /\ Follows(e, shift_l_make, s)
        /\ Char(e, k - Extended) = Meant(k) /\ Char(e, shift_l_make) = NoChar
    <3>1. Extended + shift_l_make \in Extended + 1..Extended + 127
          /\ (Extended + shift_l_make) - Extended = shift_l_make
      BY DEF Extended, shift_l_make
    <3> QED BY <1>2, <1>7, <3>1, Prefix, ExtMake, ExtMeant, FakeShift
  <2>3. /\ b \in Seq(Nat) /\ Len(b) = 4 /\ ~(E0 < 128)
        /\ b[1] = E0 /\ b[2] = shift_l_make /\ b[3] = E0 /\ b[4] = k - Extended
    BY <1>7 DEF E0, Extended, shift_l_make
  <2>4. ASSUME NEW i \in 1..4
        PROVE  /\ Follows(t[i], b[i], t[i + 1])
               /\ b[i] < 128 => Char(t[i], b[i]) = IF i = 4 THEN Meant(k) ELSE NoChar
    <3>1. CASE i = 1
      BY <2>2, <2>3, <3>1
    <3>2. CASE i = 2
      BY <2>2, <2>3, <3>2
    <3>3. CASE i = 3
      BY <2>2, <2>3, <3>3
    <3>4. CASE i = 4
      BY <2>2, <2>3, <3>4
    <3> QED BY <3>1, <3>2, <3>3, <3>4
  <2>5. t[1] = st[Len(wire) + 1] /\ AsHeld(t[4 + 1], down', caps')
    BY <1>1
  <2>6. Row(4, b, Meant(k), t)
    BY <2>3, <2>4 DEF Row
  <2> HIDE DEF t, b
  <2> QED BY <1>4, <2>1, <2>5, <2>6, Extend
<1> QED BY <1>3, <1>5, <1>6, <1>7

\* A key that comes up
LEMMA SendBreak ==
    ASSUME KbdTypeOK, NEW st, Replay(st), NEW k \in Keys, NEW f,
           Send(BreakBytes(k), NoChar), UNCHANGED <<flags, ext_scancode>>,
           BrokenBy(st[Len(wire) + 1], k, f), AsHeld(f, down', caps')
    PROVE  Replayable' /\ wire' \in Seq(Sent)
<1>1. PICK s : s = st[Len(wire) + 1]
  OBVIOUS
<1> DEFINE e == s \cup {"ext"}
           ef == f \cup {"ext"}
<1>2. "ext" \notin s /\ "ext" \notin f /\ BrokenBy(s, k, f)
  BY <1>1 DEF Replay, AsHeld, BrokenBy
<1>3. \/ k \in 1..127 /\ k \notin Padded /\ k < Extended /\ k # 96
      \/ k \in Extended + 1..Extended + 127 /\ ~(k < Extended) /\ k # Extended + 96
  BY KeyboardAssumption DEF Extended
<1>4. NoChar \in Chars
  BY DEF Chars
<1>5. CASE k \in 1..127 /\ k \notin Padded /\ k < Extended /\ k # 96
  <2> DEFINE t == <<s, f>>
             b == <<k + 128>>
  <2>1. BreakBytes(k) = b
    BY <1>5 DEF BreakBytes, Bytes
  <2>2. Follows(s, k + 128, f)
    BY <1>2, <1>5, PlainBreak
  <2>3. b \in Seq(Nat) /\ Len(b) = 1 /\ b[1] = k + 128 /\ ~(k + 128 < 128)
    BY <1>5
  <2>4. \A i \in 1..1 : /\ Follows(t[i], b[i], t[i + 1])
                        /\ b[i] < 128 => Char(t[i], b[i]) = NoChar
    BY <2>2, <2>3
  <2>5. t[1] = st[Len(wire) + 1] /\ AsHeld(t[1 + 1], down', caps')
    BY <1>1
  <2>6. Row(1, b, NoChar, t)
    BY <2>3, <2>4 DEF Row
  <2> HIDE DEF t, b
  <2> QED BY <1>4, <2>1, <2>5, <2>6, Extend
<1>6. CASE k \in Extended + 1..Extended + 127 /\ ~(k < Extended) /\ k # Extended + 96 /\ k \notin Padded
  <2> DEFINE t == <<s, e, f>>
             b == <<E0, k - Extended + 128>>
  <2>1. BreakBytes(k) = b
    BY <1>6 DEF BreakBytes, Bytes, Extended
  <2>2. Follows(s, E0, e) /\ Follows(e, k - Extended + 128, f)
    BY <1>2, <1>6, Prefix, ExtBreak
  <2>3. /\ b \in Seq(Nat) /\ Len(b) = 2 /\ b[1] = E0 /\ b[2] = k - Extended + 128
        /\ ~(E0 < 128) /\ ~(k - Extended + 128 < 128)
    BY <1>6 DEF E0, Extended
  <2>4. ASSUME NEW i \in 1..2
        PROVE  /\ Follows(t[i], b[i], t[i + 1])
               /\ b[i] < 128 => Char(t[i], b[i]) = NoChar
    <3>1. CASE i = 1
      BY <2>2, <2>3, <3>1
    <3>2. CASE i = 2
      BY <2>2, <2>3, <3>2
    <3> QED BY <3>1, <3>2
  <2>5. t[1] = st[Len(wire) + 1] /\ AsHeld(t[2 + 1], down', caps')
    BY <1>1
  <2>6. Row(2, b, NoChar, t)
    BY <2>3, <2>4 DEF Row
  <2> HIDE DEF t, b
  <2> QED BY <1>4, <2>1, <2>5, <2>6, Extend
<1>7. CASE k \in Extended + 1..Extended + 127 /\ ~(k < Extended) /\ k # Extended + 96 /\ k \in Padded
  <2> DEFINE t == <<s, e, f, ef, f>>
             b == <<E0, k - Extended + 128, E0, shift_l_make + 128>>
  <2>1. BreakBytes(k) = b
    <3>1. Bytes(Extended + shift_l_make, 128) = <<E0, shift_l_make + 128>>
      BY DEF Bytes, Extended, shift_l_make
    <3>2. Bytes(k, 128) = <<E0, k - Extended + 128>>
      BY <1>7 DEF Bytes, Extended
    <3>3. E0 \in Nat /\ shift_l_make + 128 \in Nat /\ k - Extended + 128 \in Nat
      BY <1>7 DEF E0, shift_l_make, Extended
    <3>4. <<E0, k - Extended + 128>> \o <<E0, shift_l_make + 128>> = b
      BY <3>3, TwoPairs
    <3> QED BY <1>7, <3>1, <3>2, <3>4 DEF BreakBytes
  <2>2. /\ Follows(s, E0, e) /\ Follows(e, k - Extended + 128, f)
        /\ Follows(f, E0, ef) /\ Follows(ef, shift_l_make + 128, f)
    BY <1>2, <1>7, Prefix, ExtBreak, FakeShift
  <2>3. /\ b \in Seq(Nat) /\ Len(b) = 4
        /\ ~(E0 < 128) /\ ~(k - Extended + 128 < 128) /\ ~(shift_l_make + 128 < 128)
        /\ b[1] = E0 /\ b[2] = k - Extended + 128 /\ b[3] = E0 /\ b[4] = shift_l_make + 128
    BY <1>7 DEF E0, Extended, shift_l_make
  <2>4. ASSUME NEW i \in 1..4
        PROVE  /\ Follows(t[i], b[i], t[i + 1])
               /\ b[i] < 128 => Char(t[i], b[i]) = NoChar
    <3>1. CASE i = 1
      BY <2>2, <2>3, <3>1
    <3>2. CASE i = 2
      BY <2>2, <2>3, <3>2
    <3>3. CASE i = 3
      BY <2>2, <2>3, <3>3
    <3>4. CASE i = 4
      BY <2>2, <2>3, <3>4
    <3> QED BY <3>1, <3>2, <3>3, <3>4
  <2>5. t[1] = st[Len(wire) + 1] /\ AsHeld(t[4 + 1], down', caps')
    BY <1>1
  <2>6. Row(4, b, NoChar, t)
    BY <2>3, <2>4 DEF Row
  <2> HIDE DEF t, b
  <2> QED BY <1>4, <2>1, <2>5, <2>6, Extend
<1> QED BY <1>3, <1>5, <1>6, <1>7

\* There is a state after a make code and one after a break code.
LEMMA StatesExist ==
    ASSUME NEW s, NEW k
    PROVE  (\E f : MadeBy(s, k, f)) /\ \E f : BrokenBy(s, k, f)
<1>1. MadeBy(s, k, {m \in Modifiers : m \in s \/ k \in KeysOf[m]}
                     \cup {c \in {"caps"} : ~("caps" \in s <=> k = caps_lock_make)})
  BY KeysOfFacts DEF MadeBy
<1>2. BrokenBy(s, k, {m \in Modifiers : m \in s /\ k \notin KeysOf[m]}
                       \cup {c \in {"caps"} : "caps" \in s})
  BY KeysOfFacts DEF BrokenBy
<1> QED BY <1>1, <1>2

\* What the keyboard does leaves the handler's own state alone.
LEMMA OwnState ==
    ASSUME KbdInv, down' \subseteq Keys, caps' \in BOOLEAN, wire' \in Seq(Sent), Replayable',
           UNCHANGED <<flags, ext_scancode, kbd_buf, last>>
    PROVE  KbdInv'
<1>1. KbdTypeOK'
  BY DEF KbdInv, KbdTypeOK, flags
<1>2. CharAsMeant'
  BY DEF KbdInv, CharAsMeant
<1> QED BY <1>1, <1>2 DEF KbdInv

\* Pressing a key adds it to those held, and its flag to the last state.
LEMMA PressKeeps ==
    ASSUME KbdInv, NEW k \in Keys, Press(k)
    PROVE  KbdInv'
<1>1. PICK st : Replay(st)
  BY DEF KbdInv, Replayable
<1> DEFINE s == st[Len(wire) + 1]
<1>2. AsHeld(s, down, caps)
  BY <1>1 DEF Replay
<1> HIDE DEF s
<1>3. PICK f : MadeBy(s, k, f)
  BY StatesExist
<1>4. /\ down' = down \cup {k} /\ caps' = (caps # (k = caps_lock_make))
      /\ Send(MakeBytes(k), Meant(k)) /\ UNCHANGED <<flags, ext_scancode, kbd_buf, last>>
  BY DEF Press
<1>5. AsHeld(f, down', caps')
  <2>1. \A m \in Modifiers : m \in f <=> down' \cap KeysOf[m] # {}
    BY <1>2, <1>3, <1>4 DEF AsHeld, MadeBy
  <2>2. "caps" \in f <=> caps'
    <3>1. "caps" \in f <=> ~("caps" \in s <=> k = caps_lock_make)
      BY <1>3 DEF MadeBy
    <3>2. ("caps" \in s <=> caps) /\ caps \in BOOLEAN
      BY <1>2 DEF AsHeld, KbdInv, KbdTypeOK
    <3> QED BY <1>4, <3>1, <3>2, Zenon
  <2>3. "ext" \notin f
    BY <1>3 DEF MadeBy
  <2> QED BY <2>1, <2>2, <2>3 DEF AsHeld
<1>6. Replayable' /\ wire' \in Seq(Sent)
  BY <1>1, <1>3, <1>4, <1>5, SendMake DEF KbdInv, s
<1>7. down' \subseteq Keys /\ caps' \in BOOLEAN
  BY <1>4 DEF KbdInv, KbdTypeOK
<1> QED BY <1>4, <1>6, <1>7, OwnState

\* A key that repeats is held already, so its flag is on in the last state.
LEMMA RepeatKeeps ==
    ASSUME KbdInv, OneOfEach, NEW k \in Keys, Repeat(k)
    PROVE  KbdInv'
<1>1. PICK st : Replay(st)
  BY DEF KbdInv, Replayable
<1> DEFINE s == st[Len(wire) + 1]
<1>2. AsHeld(s, down, caps)
  BY <1>1 DEF Replay
<1> HIDE DEF s
<1>3. PICK f : MadeBy(s, k, f)
  BY StatesExist
<1>4. /\ k \in down /\ k # caps_lock_make /\ down' = down /\ caps' = caps
      /\ Send(MakeBytes(k), Meant(k)) /\ UNCHANGED <<flags, ext_scancode, kbd_buf, last>>
  BY DEF Repeat, OneOfEach
<1>5. AsHeld(f, down', caps')
  <2>1. \A m \in Modifiers : m \in f <=> down \cap KeysOf[m] # {}
    BY <1>2, <1>3, <1>4 DEF AsHeld, MadeBy
  <2>2. "caps" \in f <=> caps
    BY <1>2, <1>3, <1>4, Zenon DEF AsHeld, MadeBy
  <2>3. "ext" \notin f
    BY <1>3 DEF MadeBy
  <2> QED BY <1>4, <2>1, <2>2, <2>3 DEF AsHeld
<1>6. Replayable' /\ wire' \in Seq(Sent)
  BY <1>1, <1>3, <1>4, <1>5, SendMake DEF KbdInv, s
<1>7. down' \subseteq Keys /\ caps' \in BOOLEAN
  BY <1>4 DEF KbdInv, KbdTypeOK
<1> QED BY <1>4, <1>6, <1>7, OwnState

\* Releasing a key takes its flag away; it is the only key of its kind.
LEMMA LetGoKeeps ==
    ASSUME KbdInv, OneOfEach, NEW k \in Keys, LetGo(k)
    PROVE  KbdInv'
<1>1. PICK st : Replay(st)
  BY DEF KbdInv, Replayable
<1> DEFINE s == st[Len(wire) + 1]
<1>2. AsHeld(s, down, caps)
  BY <1>1 DEF Replay
<1> HIDE DEF s
<1>3. PICK f : BrokenBy(s, k, f)
  BY StatesExist
<1>4. /\ k \in down /\ down' = down \ {k} /\ caps' = caps
      /\ Send(BreakBytes(k), NoChar) /\ UNCHANGED <<flags, ext_scancode, kbd_buf, last>>
  BY DEF LetGo
<1>5. AsHeld(f, down', caps')
  <2>1. ASSUME NEW m \in Modifiers PROVE m \in f <=> down' \cap KeysOf[m] # {}
    <3>1. m \in f <=> down \cap KeysOf[m] # {} /\ k \notin KeysOf[m]
      BY <1>2, <1>3 DEF AsHeld, BrokenBy
    <3>2. ASSUME NEW j \in down \cap KeysOf[m], k \in KeysOf[m] PROVE j = k
      BY <3>2 DEF OneOfEach, KbdInv, KbdTypeOK
    <3> QED BY <1>4, <3>1, <3>2
  <2>2. "caps" \in f <=> caps
    BY <1>2, <1>3 DEF AsHeld, BrokenBy
  <2>3. "ext" \notin f
    BY <1>3 DEF BrokenBy
  <2> QED BY <1>4, <2>1, <2>2, <2>3 DEF AsHeld
<1>6. Replayable' /\ wire' \in Seq(Sent)
  BY <1>1, <1>3, <1>4, <1>5, SendBreak DEF KbdInv, s
<1>7. down' \subseteq Keys /\ caps' \in BOOLEAN
  BY <1>4 DEF KbdInv, KbdTypeOK
<1> QED BY <1>4, <1>6, <1>7, OwnState

-----------------------------------------------------------------------------
(* The driver: a byte is taken from the wire.                              *)

\* A make code turns flags on, and the character it stores is the one meant.
LEMMA MakeFlags ==
    ASSUME KbdTypeOK, NEW s, FlagsAre(s), NEW b \in Nat, b < 128, NEW t, Follows(s, b, t),
           NEW meant, Char(s, b) = meant, ext_scancode' = FALSE, Make(Joined(b), meant)
    PROVE  /\ FlagsAre(t)' /\ CharAsMeant' /\ kbd_buf' \in Nat
           /\ ctrl_status' \in BOOLEAN /\ shift_status' \in BOOLEAN /\ alt_status' \in BOOLEAN
           /\ caps_lock_status' \in BOOLEAN
<1>1. PICK code \in Nat : code = Joined(b) /\ code = Code(s, b)
  <2>1. Joined(b) = Code(s, b)
    BY DEF Joined, Code, FlagsAre
  <2>2. Joined(b) \in Nat
    BY DEF Joined, Extended
  <2> QED BY <2>1, <2>2
<1>2. PICK index \in Nat : index = code % 256 /\ index < 256
  <2>1. code % 256 \in Nat /\ code % 256 < 256
    BY <1>1
  <2> QED BY <2>1
<1> DEFINE ch == WithCtrl(keymap(index, Column(code)), ctrl_status)
<1>3. Known(code) => ch = meant
  <2>1. Column(code) = Shifted(s, code)
    <3>1. shift_status = ("shift" \in s) /\ caps_lock_status = ("caps" \in s)
      BY DEF FlagsAre, KbdTypeOK
    <3> QED BY <3>1, Zenon DEF Column, Shifted
  <2>2. ctrl_status = ("ctrl" \in s)
    BY DEF FlagsAre, KbdTypeOK
  <2> QED BY <1>1, <1>2, <2>1, <2>2 DEF Char
<1>4. ~Known(code) => meant = NoChar
  BY <1>1 DEF Char
<1>5. /\ "ext" \notin t
      /\ \A m \in Modifiers : m \in t <=> (Known(code) /\ index \in KeysOf[m]) \/ m \in s
      /\ "caps" \in t <=> ~("caps" \in s <=> Known(code) /\ index = caps_lock_make)
  <2>1. b # E0 /\ ~(b >= 128)
    BY DEF E0
  <2> QED BY <1>1, <1>2, <2>1 DEF Follows
<1>6. "ctrl" \in Modifiers /\ "shift" \in Modifiers /\ "alt" \in Modifiers
  BY DEF Modifiers
<1>7. \A x : keymap(index, x) = NoChar => WithCtrl(keymap(index, x), ctrl_status) = NoChar
  BY DEF WithCtrl, NoChar
<1>8. ASSUME \/ index = caps_lock_make
             \/ \E m \in Modifiers : index \in KeysOf[m]
      PROVE  ch = NoChar
  <2>1. index \in {ctrl_l_make, shift_l_make, shift_r_make, alt_l_make, caps_lock_make}
    BY <1>2, <1>8, KeysOfFacts
       DEF ctrl_l_make, shift_l_make, shift_r_make, alt_l_make, caps_lock_make
  <2>2. \A x : keymap(index, x) = NoChar
    BY <2>1 DEF keymap
  <2> QED BY <1>7, <2>2
<1> HIDE DEF ch
<1>9. CASE Known(code) /\ ch # NoChar /\ PutKey(ch, meant)
  <2>1. UNCHANGED flags /\ last'[1] = meant /\ last'[2] \in {ch, Dropped} /\ kbd_buf' \in Nat
    BY <1>9 DEF PutKey, KbdTypeOK
  <2>2. CharAsMeant'
    BY <1>3, <1>9, <2>1 DEF CharAsMeant
  <2>3. \A m \in Modifiers : m \in t <=> m \in s
    BY <1>5, <1>8, <1>9
  <2>4. "caps" \in t <=> "caps" \in s
    BY <1>5, <1>8, <1>9
  <2>5. FlagsAre(t)'
    BY <1>5, <1>6, <2>1, <2>3, <2>4 DEF FlagsAre, flags
  <2> QED BY <2>1, <2>2, <2>5 DEF flags, KbdTypeOK
<1>10. CASE Known(code) /\ ch = NoChar /\ SetStatus(index, meant)
  <2>1. /\ ctrl_status' = (ctrl_status \/ index \in Ctrls)
        /\ shift_status' = (shift_status \/ index \in Shifts)
        /\ alt_status' = (alt_status \/ index \in Alts)
        /\ caps_lock_status' = (caps_lock_status # (index = caps_lock_make))
        /\ last' = <<meant, NoChar>> /\ kbd_buf' = kbd_buf
    BY <1>10 DEF SetStatus
  <2>2. CharAsMeant'
    BY <1>3, <1>10, <2>1 DEF CharAsMeant
  <2>3. KeysOf["ctrl"] = Ctrls /\ KeysOf["shift"] = Shifts /\ KeysOf["alt"] = Alts
    BY DEF KeysOf
  <2>4. /\ "ctrl" \in t <=> ctrl_status'
        /\ "shift" \in t <=> shift_status'
        /\ "alt" \in t <=> alt_status'
    <3>1. /\ "ctrl" \in t <=> index \in Ctrls \/ "ctrl" \in s
          /\ "shift" \in t <=> index \in Shifts \/ "shift" \in s
          /\ "alt" \in t <=> index \in Alts \/ "alt" \in s
      BY <1>5, <1>6, <1>10, <2>3
    <3>2. ("ctrl" \in s <=> ctrl_status) /\ ("shift" \in s <=> shift_status)
          /\ ("alt" \in s <=> alt_status)
      BY DEF FlagsAre
    <3> QED BY <2>1, <3>1, <3>2, Zenon
  <2>5. "caps" \in t <=> caps_lock_status'
    BY <1>5, <1>10, <2>1, Zenon DEF FlagsAre, KbdTypeOK
  <2>6. FlagsAre(t)'
    <3>1. "ext" \in t <=> ext_scancode'
      BY <1>5
    <3> QED BY <2>4, <2>5, <3>1, Zenon DEF FlagsAre
  <2> QED BY <2>1, <2>2, <2>6, Zenon DEF KbdTypeOK
<1>11. CASE ~Known(code) /\ last' = <<meant, NoChar>> /\ UNCHANGED <<flags, kbd_buf>>
  <2>1. CharAsMeant'
    BY <1>4, <1>11 DEF CharAsMeant
  <2>2. FlagsAre(t)'
    BY <1>5, <1>6, <1>11 DEF FlagsAre, flags
  <2> QED BY <1>11, <2>1, <2>2 DEF flags, KbdTypeOK
<1> QED BY <1>1, <1>2, <1>9, <1>10, <1>11 DEF Make, ch

\* A break code turns a flag off, and the prefix is remembered.
LEMMA BreakFlags ==
    ASSUME KbdTypeOK, NEW s, FlagsAre(s), NEW b \in Nat, b >= 128, NEW t, Follows(s, b, t),
           ext_scancode' = (b = E0),
           IF b = E0 THEN UNCHANGED <<flags, kbd_buf, last>> ELSE Break(Joined(b) - 128)
    PROVE  /\ FlagsAre(t)' /\ UNCHANGED <<kbd_buf, last>>
           /\ ctrl_status' \in BOOLEAN /\ shift_status' \in BOOLEAN /\ alt_status' \in BOOLEAN
           /\ caps_lock_status' \in BOOLEAN
<1>1. Joined(b) = Code(s, b)
  BY DEF Joined, Code, FlagsAre
<1>2. ~(b < 128)
  OBVIOUS
<1>3. "ctrl" \in Modifiers /\ "shift" \in Modifiers /\ "alt" \in Modifiers
  BY DEF Modifiers
<1>4. /\ "ext" \in t <=> b = E0
      /\ \A m \in Modifiers : m \in t <=> m \in s /\ ~(b # E0 /\ Joined(b) - 128 \in KeysOf[m])
      /\ "caps" \in t <=> "caps" \in s
  BY <1>1, <1>2 DEF Follows
<1>5. KeysOf["ctrl"] = Ctrls /\ KeysOf["shift"] = Shifts /\ KeysOf["alt"] = Alts
  BY DEF KeysOf
<1>6. CASE b = E0
  BY <1>3, <1>4, <1>6 DEF FlagsAre, flags, KbdTypeOK
<1>7. CASE b # E0
  <2>1. /\ ctrl_status' = (ctrl_status /\ Joined(b) - 128 \notin Ctrls)
        /\ shift_status' = (shift_status /\ Joined(b) - 128 \notin Shifts)
        /\ alt_status' = (alt_status /\ Joined(b) - 128 \notin Alts)
        /\ caps_lock_status' = caps_lock_status /\ kbd_buf' = kbd_buf /\ last' = last
    BY <1>7 DEF Break
  <2>2. /\ "ctrl" \in t <=> ctrl_status'
        /\ "shift" \in t <=> shift_status'
        /\ "alt" \in t <=> alt_status'
        /\ "caps" \in t <=> caps_lock_status'
    <3>1. /\ "ctrl" \in t <=> "ctrl" \in s /\ Joined(b) - 128 \notin Ctrls
          /\ "shift" \in t <=> "shift" \in s /\ Joined(b) - 128 \notin Shifts
          /\ "alt" \in t <=> "alt" \in s /\ Joined(b) - 128 \notin Alts
      BY <1>3, <1>4, <1>5, <1>7
    <3>2. ("ctrl" \in s <=> ctrl_status) /\ ("shift" \in s <=> shift_status)
          /\ ("alt" \in s <=> alt_status) /\ ("caps" \in s <=> caps_lock_status)
      BY DEF FlagsAre
    <3> QED BY <1>4, <2>1, <3>1, <3>2, Zenon
  <2>3. FlagsAre(t)'
    <3>1. "ext" \in t <=> ext_scancode'
      BY <1>4, <1>7
    <3> QED BY <2>2, <3>1, Zenon DEF FlagsAre
  <2> QED BY <2>1, <2>3, Zenon DEF KbdTypeOK
<1> QED BY <1>6, <1>7

\* The handler goes one state on in the row.
LEMMA HandlerKeeps ==
    ASSUME KbdInv, intr_keyboard_handler
    PROVE  KbdInv'
<1>1. PICK st : Replay(st)
  BY DEF KbdInv, Replayable
<1>2. PICK N \in Nat : N = Len(wire)
  BY DEF KbdInv, KbdTypeOK
<1>3. /\ wire # <<>> /\ wire \in Seq(Sent) /\ wire' = Tail(wire) /\ UNCHANGED <<down, caps>>
      /\ KbdTypeOK
  BY DEF intr_keyboard_handler, KbdInv, KbdTypeOK
<1>4. /\ N >= 1 /\ wire[1] = Head(wire) /\ Head(wire) \in Sent
      /\ wire' \in Seq(Sent) /\ Len(wire') = N - 1
      /\ \A i \in 1..N - 1 : wire'[i] = wire[i + 1]
  <2>1. Head(wire) \in Sent /\ wire' \in Seq(Sent)
    BY <1>3
  <2>2. N >= 1 /\ wire[1] = Head(wire) /\ Len(wire') = N - 1
    BY <1>2, <1>3
  <2>3. \A i \in 1..N - 1 : wire'[i] = wire[i + 1]
    BY <1>2, <1>3, HeadTailProperties
  <2> QED BY <2>1, <2>2, <2>3
<1> DEFINE b == Head(wire).byte
           meant == Head(wire).meant
           s2 == [i \in 1..N |-> st[i + 1]]
<1>5. b \in Nat
  BY <1>4 DEF Sent
<1>6. FlagsAre(st[1]) /\ Follows(st[1], b, st[2]) /\ (b < 128 => Char(st[1], b) = meant)
  <2>1. FlagsAre(st[1])
    BY <1>1 DEF Replay
  <2>2. Follows(st[1], wire[1].byte, st[1 + 1]) /\ Means(st[1], wire[1])
    <3>1. 1 \in 1..Len(wire)
      BY <1>2, <1>4
    <3> QED BY <1>1, <3>1 DEF Replay
  <2> QED BY <1>4, <2>1, <2>2 DEF Means
<1>7. /\ FlagsAre(st[2])' /\ CharAsMeant' /\ kbd_buf' \in Nat
      /\ ctrl_status' \in BOOLEAN /\ shift_status' \in BOOLEAN /\ alt_status' \in BOOLEAN
      /\ caps_lock_status' \in BOOLEAN /\ ext_scancode' \in BOOLEAN
  <2>1. CASE b < 128
    <3>1. ext_scancode' = FALSE /\ Make(Joined(b), meant)
      <4>1. b # E0 /\ ~(b >= 128)
        BY <1>5, <2>1 DEF E0
      <4> QED BY <4>1 DEF intr_keyboard_handler
    <3> HIDE DEF b, meant
    <3>2. /\ FlagsAre(st[2])' /\ CharAsMeant' /\ kbd_buf' \in Nat
          /\ ctrl_status' \in BOOLEAN /\ shift_status' \in BOOLEAN /\ alt_status' \in BOOLEAN
          /\ caps_lock_status' \in BOOLEAN
      BY <1>3, <1>5, <1>6, <2>1, <3>1, MakeFlags
    <3> QED BY <3>1, <3>2
  <2>2. CASE b >= 128
    <3>1. /\ ext_scancode' = (b = E0)
          /\ IF b = E0 THEN UNCHANGED <<flags, kbd_buf, last>> ELSE Break(Joined(b) - 128)
      BY <2>2 DEF intr_keyboard_handler
    <3> HIDE DEF b
    <3>2. /\ FlagsAre(st[2])' /\ UNCHANGED <<kbd_buf, last>>
          /\ ctrl_status' \in BOOLEAN /\ shift_status' \in BOOLEAN /\ alt_status' \in BOOLEAN
          /\ caps_lock_status' \in BOOLEAN
      BY <1>3, <1>5, <1>6, <2>2, <3>1, BreakFlags
    <3>3. CharAsMeant' /\ kbd_buf' \in Nat
      BY <3>2 DEF CharAsMeant, KbdInv, KbdTypeOK
    <3> QED BY <3>1, <3>2, <3>3
  <2> QED BY <1>5, <2>1, <2>2
<1>8. Replay(s2)'
  <2>1. s2[1] = st[2] /\ s2[N] = st[N + 1] /\ \A i \in 1..N - 1 : s2[i] = st[i + 1] /\ s2[i + 1] = st[(i + 1) + 1]
    BY <1>2, <1>4
  <2> HIDE DEF s2
  <2>2. AsHeld(s2[N], down', caps')
    BY <1>1, <1>2, <1>3, <2>1 DEF Replay
  <2>3. ASSUME NEW i \in 1..N - 1
        PROVE  Follows(s2[i], wire'[i].byte, s2[i + 1]) /\ Means(s2[i], wire'[i])
    <3>1. i + 1 \in 1..Len(wire)
      BY <1>2
    <3>2. Follows(st[i + 1], wire[i + 1].byte, st[(i + 1) + 1]) /\ Means(st[i + 1], wire[i + 1])
      BY <1>1, <3>1 DEF Replay
    <3> QED BY <1>4, <2>1, <3>2
  <2>4. FlagsAre(s2[1])'
    BY <1>7, <2>1
  <2>5. Len(wire') + 1 = N /\ 1..Len(wire') = 1..N - 1
    BY <1>2, <1>4
  <2> QED BY <2>2, <2>3, <2>4, <2>5 DEF Replay
<1> HIDE DEF s2
<1>9. Replayable'
  BY <1>8 DEF Replayable
<1>10. KbdTypeOK'
  BY <1>3, <1>4, <1>7 DEF KbdTypeOK
<1> QED BY <1>7, <1>9, <1>10 DEF KbdInv

\* Reading a character, and doing nothing, change none of it.
LEMMA ReaderKeeps ==
    ASSUME KbdInv, UNCHANGED <<down, caps, wire, flags, ext_scancode, last>>, kbd_buf' \in Nat
    PROVE  KbdInv'
<1>1. PICK st : Replay(st)
  BY DEF KbdInv, Replayable
<1>2. FlagsAre(st[1])'
  BY <1>1 DEF Replay, FlagsAre, flags
<1>3. Replay(st)'
  BY <1>1, <1>2 DEF Replay
<1>4. Replayable'
  BY <1>3 DEF Replayable
<1>5. KbdTypeOK' /\ CharAsMeant'
  BY DEF KbdInv, KbdTypeOK, CharAsMeant, flags
<1> QED BY <1>4, <1>5 DEF KbdInv

-----------------------------------------------------------------------------
(* The keyboard driver, over whole runs.                                   *)

\* Whatever the user types, and however late the interrupts come, the bytes
\* under way always take the handler's flags to the keys that are held.
THEOREM KbdInvariance == ASSUME OneOfEach PROVE KbdSpec => []KbdInv
<1>1. KbdInit => KbdInv
  <2> SUFFICES ASSUME KbdInit PROVE KbdInv
    OBVIOUS
  <2>1. KbdTypeOK /\ CharAsMeant
    <3>1. wire \in Seq(Sent)
      BY DEF KbdInit
    <3>2. CharAsMeant
      BY DEF KbdInit, CharAsMeant
    <3>3. down \subseteq Keys /\ kbd_buf \in Nat
      BY DEF KbdInit
    <3> HIDE DEF Sent
    <3> QED BY <3>1, <3>2, <3>3 DEF KbdInit, KbdTypeOK
  <2> DEFINE st == <<{}>>
  <2>2. Len(wire) = 0 /\ st[1] = {}
    BY DEF KbdInit
  <2> HIDE DEF st
  <2>3. FlagsAre({}) /\ AsHeld({}, down, caps)
    BY DEF KbdInit, FlagsAre, AsHeld
  <2>4. Replay(st)
    <3>1. Len(wire) + 1 = 1 /\ 1..Len(wire) = {}
      BY <2>2
    <3>2. FlagsAre(st[1]) /\ AsHeld(st[1], down, caps)
      BY <2>2, <2>3
    <3> QED BY <3>1, <3>2 DEF Replay
  <2> QED BY <2>1, <2>4 DEF KbdInv, Replayable
<1>2. KbdInv /\ [KbdNext]_kbd_vars => KbdInv'
  <2> SUFFICES ASSUME KbdInv, [KbdNext]_kbd_vars PROVE KbdInv'
    OBVIOUS
  <2>1. ASSUME NEW k \in Keys, Press(k) \/ Repeat(k) \/ LetGo(k) PROVE KbdInv'
    BY <2>1, PressKeeps, RepeatKeeps, LetGoKeeps
  <2>2. CASE intr_keyboard_handler
    BY <2>2, HandlerKeeps
  <2>3. CASE ReadKey
    <3>1. kbd_buf' \in Nat /\ UNCHANGED <<down, caps, wire, flags, ext_scancode, last>>
      BY <2>3 DEF ReadKey, KbdInv, KbdTypeOK
    <3> QED BY <3>1, ReaderKeeps
  <2>4. CASE UNCHANGED kbd_vars
    <3>1. kbd_buf' \in Nat /\ UNCHANGED <<down, caps, wire, flags, ext_scancode, last>>
      BY <2>4 DEF kbd_vars, KbdInv, KbdTypeOK
    <3> QED BY <3>1, ReaderKeeps
  <2> QED BY <2>1, <2>2, <2>3, <2>4 DEF KbdNext
<1> QED BY <1>1, <1>2, PTL DEF KbdSpec

\* The character stored is the one the keys held called for when the key went
\* down, however far the handler has fallen behind.
THEOREM CharsAsMeant == ASSUME OneOfEach PROVE KbdSpec => []CharAsMeant
<1>1. KbdInv => CharAsMeant
  BY DEF KbdInv
<1> QED BY <1>1, KbdInvariance, PTL

\* When every byte has been handled the flags are the keys that are held.
THEOREM NoStuckModifier == ASSUME OneOfEach PROVE KbdSpec => []StatusIsHeld
<1>1. KbdInv => StatusIsHeld
  <2> SUFFICES ASSUME KbdInv, wire = <<>> PROVE StatusIsHeld
    BY DEF StatusIsHeld
  <2>1. PICK st : Replay(st)
    BY DEF KbdInv, Replayable
  <2>2. FlagsAre(st[1]) /\ AsHeld(st[1], down, caps)
    BY <2>1 DEF Replay
  <2>3. /\ ctrl_status <=> down \cap Ctrls # {}
        /\ shift_status <=> down \cap Shifts # {}
        /\ alt_status <=> down \cap Alts # {}
        /\ caps_lock_status <=> caps
        /\ ~ext_scancode
    BY <2>2 DEF FlagsAre, AsHeld, Modifiers, KeysOf
  <2> QED BY <2>3 DEF StatusIsHeld, KbdInv, KbdTypeOK
<1> QED BY <1>1, KbdInvariance, PTL
=============================================================================
