---------------------------- MODULE RecursiveLock ----------------------------
(***************************************************************************)
(* What thread/sync.c promises of a lock: acquiring and releasing are      *)
(* atomic, only one task at a time has acquires outstanding, and the same  *)
(* task may acquire again (holder_repeat_nr).                              *)
(***************************************************************************)
EXTENDS Naturals

CONSTANTS Tasks, Locks

VARIABLE held   \* acquires outstanding, per task and lock

Init == held = [t \in Tasks |-> [l \in Locks |-> 0]]

Acquire(t, l) ==
    /\ \A u \in Tasks \ {t} : held[u][l] = 0
    /\ held' = [held EXCEPT ![t][l] = @ + 1]

Release(t, l) ==
    /\ held[t][l] > 0
    /\ held' = [held EXCEPT ![t][l] = @ - 1]

Next == \E t \in Tasks, l \in Locks : Acquire(t, l) \/ Release(t, l)

Spec == Init /\ [][Next]_held
=============================================================================
