------------------------------- MODULE MCDir -------------------------------
EXTENDS Directory

Absolute(S) == {[abs |-> TRUE, path |-> p] : p \in S}
Relative(S) == {[abs |-> FALSE, path |-> p] : p \in S}

\* "/a" and "/a/b" are directories, "/c" is a file, and "/b" is either.
OnDirs  == Absolute({<< >>, <<"a">>, <<"a", "b">>, <<"a", "..", "b">>})
OnFiles == Absolute({<<"c">>}) \cup Relative({<<"..", "b">>})
Zeros == [k \in 0..(NI - 1) |-> 0]

\* Nothing reads a free block before it is written: what was in it is no
\* difference between states.
WithoutFreeBlocks ==
    <<[fs EXCEPT !.disk = [b \in Blocks |-> IF b \in fs.bmap THEN fs.disk[b] ELSE Blank]],
      cwd, cwd_cache, dirp, seen, still>>

\* One thing is open at a time, a file or a stream; a stream is read with the
\* working directory at the root; and the largest trees are only seen from
\* there, without a stream or a file the shell keeps open.
OneThingOpen ==
    /\ Cardinality({n \in Inodes : fs.held[n] # {}}) + (IF dirp = NoStream THEN 0 ELSE 1) <= 1
    /\ dirp # NoStream => cwd = 0
    /\ Cardinality(fs.imap) = MaxFiles =>
        /\ dirp = NoStream /\ cwd = 0
        /\ \A n \in Inodes : "shell" \notin fs.held[n]
=============================================================================
