----------------------------- MODULE MCFileData -----------------------------
EXTENDS FileData, TLC

CONSTANTS w1, w2, r1

\* A writer of each file, and a reader of the first.
Owner == w1 :> 1 @@ w2 :> 2 @@ r1 :> 1
Modes == w1 :> "w" @@ w2 :> "w" @@ r1 :> "r"
Counts == w1 :> {1, 5} @@ w2 :> {2} @@ r1 :> {}
Gets == w1 :> {} @@ w2 :> {} @@ r1 :> {3}
Seeks == w1 :> {} @@ w2 :> {} @@ r1 :> {0}
Lives == 1 :> 2 @@ 2 :> 1
Bounds == 1 :> 6 @@ 2 :> 2
\* Each inode in one sector; or the first one in two, split behind its first address
Whole == 1 :> 3 @@ 2 :> 3
Split == 1 :> 1 @@ 2 :> 3

\* The second file is there to take blocks and to sync the bitmap in between;
\* the reader, a loss of power and a second life are explored without it, and
\* a loss of power with a second life without the reader.
OneThingAtATime ==
    /\ life[2] > 0 => crashes = 0 /\ life[1] <= 1 /\ pos[r1] = Closed
    /\ life[1] > 1 /\ crashes > 0 => pos[r1] = Closed
=============================================================================
