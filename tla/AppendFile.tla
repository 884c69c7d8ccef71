----------------------------- MODULE AppendFile -----------------------------
(***************************************************************************)
(* What the file system promises about the bytes of a file: they are only  *)
(* appended to, deleting the file removes them all, and a loss of power    *)
(* takes at most the bytes of a write that had not returned.               *)
(***************************************************************************)
EXTENDS Naturals, Sequences

CONSTANT Files

VARIABLES
    content,    \* the bytes of each file
    safe        \* how many of them the calls that returned have stored

vars == <<content, safe>>

Prefix(s, t) == Len(s) <= Len(t) /\ s = SubSeq(t, 1, Len(s))

Init == /\ content = [f \in Files |-> << >>]
        /\ safe = [f \in Files |-> 0]

\* A write stores some more bytes, or returns, or both.
Write(f) ==
    /\ content' = [content EXCEPT ![f] = content'[f]]
    /\ Prefix(content[f], content'[f])
    /\ safe' \in {safe, [safe EXCEPT ![f] = Len(content'[f])]}

Delete(f) == /\ content' = [content EXCEPT ![f] = << >>]
             /\ safe' = [safe EXCEPT ![f] = 0]

PowerLoss ==
    /\ DOMAIN content' = Files
    /\ \A f \in Files : /\ Prefix(content'[f], content[f])
                        /\ Len(content'[f]) >= safe[f]
    /\ UNCHANGED safe

Next == PowerLoss \/ \E f \in Files : Write(f) \/ Delete(f)

Spec == Init /\ [][Next]_vars
=============================================================================
