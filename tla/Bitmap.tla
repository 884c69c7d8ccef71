-------------------------------- MODULE Bitmap --------------------------------
(***************************************************************************)
(* bitmap_scan of lib/bitmap.c, the search under the page pools, the       *)
(* address spaces, the pid pool and the file system's maps.                *)
(*                                                                         *)
(* A bitmap is the set u of the bits that are set.  The scan for several   *)
(* bits also tests the first bit after the map, which belongs to whatever  *)
(* was placed there.                                                       *)
(***************************************************************************)
EXTENDS Integers

CONSTANTS
    ByteBits,   \* bits in a byte (8)
    Bytes       \* btmp_bytes_len

ASSUME BitmapAssumption == ByteBits \in Nat \ {0} /\ Bytes \in Nat \ {0}

Size == ByteBits * Bytes
Least(S) == CHOOSE i \in S : \A j \in S : i <= j

BitsOf(b) == b * ByteBits..b * ByteBits + ByteBits - 1
FullByte(u, b) == BitsOf(b) \subseteq u

\* The ASSERT that follows the byte-wise loop fails.
MapFull(u) == \A b \in 0..Bytes - 1 : FullByte(u, b)

\* The byte-wise loop, then the bit-wise loop inside the byte it stops at
FirstBit(u) ==
    LET byte == Least({b \in 0..Bytes - 1 : ~FullByte(u, b)})
    IN  Least(BitsOf(byte) \ u)

\* Mutant: the count is not reset by a bit that is set.
LongRun_NoReset(u, cnt) ==
    LET count[i \in FirstBit(u)..Size] ==
            IF i = FirstBit(u) THEN 1
            ELSE IF i \notin u THEN count[i - 1] + 1 ELSE count[i - 1]
        ends == {i \in FirstBit(u) + 1..Size : count[i] = cnt}
    IN  IF ends = {} THEN -1 ELSE Least(ends) - cnt + 1

\* The last loop.  count is the length of the run of zeros that ends at i; the
\* loop runs bit_left = Size - FirstBit times and so also tests bit Size.
LongRun(u, cnt) ==
    LET first == FirstBit(u)
        count[i \in first..Size] ==
            IF i = first THEN 1
            ELSE IF i \notin u THEN count[i - 1] + 1 ELSE 0
        ends == {i \in first + 1..Size : count[i] = cnt}
    IN  IF ends = {} THEN -1 ELSE Least(ends) - cnt + 1

\* bitmap_scan(cnt) on a map that is not full
bitmap_scan(u, cnt) == IF cnt = 1 THEN FirstBit(u) ELSE LongRun(u, cnt)

\* What bitmap_scan promises: the start of the lowest run of cnt free bits of
\* the map, or -1 if there is none.
Fitting(u, cnt) == {s \in 0..Size - cnt : s..s + cnt - 1 \cap u = {}}
FirstFit(u, cnt) == IF Fitting(u, cnt) = {} THEN -1 ELSE Least(Fitting(u, cnt))
=============================================================================
