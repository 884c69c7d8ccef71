-------------------------------- MODULE Fifo --------------------------------
(***************************************************************************)
(* What an io queue promises: bytes leave in the order they entered, none  *)
(* is lost, duplicated or invented, and at most Capacity are inside.       *)
(***************************************************************************)
EXTENDS Naturals, Sequences

CONSTANTS Chars, Capacity

VARIABLE q

Init == q = << >>

Put(c) == Len(q) < Capacity /\ q' = Append(q, c)

Get == q # << >> /\ q' = Tail(q)

Next == Get \/ \E c \in Chars : Put(c)

Spec == Init /\ [][Next]_q
=============================================================================
