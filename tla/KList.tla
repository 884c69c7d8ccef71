-------------------------------- MODULE KList --------------------------------
(***************************************************************************)
(* The intrusive lists of lib/list.c as sequences: list_append is Append,  *)
(* list_push is <<x>> \o q, list_pop is Head and Tail.                     *)
(***************************************************************************)
EXTENDS Naturals, Sequences

\* elem_find
InList(x, q) == \E i \in DOMAIN q : q[i] = x

\* The neighbours of a node that is linked are linked to each other.
list_remove(x, q) ==
    LET k == CHOOSE i \in DOMAIN q : q[i] = x
    IN  [i \in 1..Len(q) - 1 |-> IF i < k THEN q[i] ELSE q[i + 1]]

\* A node is linked at most once (a node linked twice corrupts the list).
NoRepeat(q) == \A i, j \in DOMAIN q : q[i] = q[j] => i = j
=============================================================================
