---------------------------- MODULE ProcessProofs ----------------------------
(***************************************************************************)
(* Proofs about what is handed out and taken back.                         *)
(*                                                                         *)
(* bitmap_scan, by which pids and pages are found: it finds the lowest run *)
(* of free bits, for every map, every size of it and every length of the   *)
(* run.  Process, for every size of the heap and of the pid pool.  Arena,  *)
(* for every size of the heap, every table of block sizes and every length *)
(* of a large block: as long as a child does not free what it inherited,   *)
(* no block is handed out twice, held blocks stay mapped and apart, and no *)
(* arena loses a block.                                                    *)
(***************************************************************************)
EXTENDS Process, Arena, KernelFacts, FiniteSetTheorems

\* Least finds the least element of a nonempty set.
LEMMA LeastFacts ==
    ASSUME NEW S, S \subseteq Nat, S # {}
    PROVE  Least(S) \in S /\ \A j \in S : Least(S) <= j
<1>1. \E x \in S : \A y \in S : x <= y
  BY LeastNat
<1> QED BY <1>1 DEF Least

\* Least finds the element that is known to be least.
LEMMA LeastIs ==
    ASSUME NEW S, S \subseteq Nat, NEW x \in S, \A j \in S : x <= j
    PROVE  Least(S) = x
<1>1. Least(S) \in S /\ Least(S) <= x
  BY LeastFacts
<1>2. Least(S) \in Nat /\ x \in Nat /\ x <= Least(S)
  BY <1>1
<1> QED BY <1>1, <1>2

-----------------------------------------------------------------------------
(* The first two loops: the byte-wise and the bit-wise search. *)

\* Every bit of the map lies in one of its bytes.
LEMMA ByteOfBit ==
    ASSUME NEW x \in Nat, x < Size
    PROVE  \E b \in 0..Bytes - 1 : x \in BitsOf(b)
<1>1. ByteBits \in Nat /\ ByteBits > 0 /\ Bytes \in Nat /\ Bytes > 0
  BY BitmapAssumption
<1> DEFINE S == {b \in Nat : x < (b + 1) * ByteBits}
<1>2. Bytes - 1 \in S
  <2>1. Bytes - 1 \in Nat /\ ((Bytes - 1) + 1) * ByteBits = ByteBits * Bytes
    BY <1>1
  <2> QED BY <2>1 DEF Size
<1>3. PICK b \in S : \A c \in S : b <= c
  <2> HIDE DEF S
  <2>1. S \subseteq Nat
    BY DEF S
  <2> QED BY <1>2, <2>1, LeastNat
<1>4. b \in 0..Bytes - 1 /\ x < (b + 1) * ByteBits
  BY <1>1, <1>2, <1>3
<1>5. b * ByteBits <= x
  <2>1. CASE b = 0
    BY <2>1, <1>1
  <2>2. CASE b # 0
    <3>1. b - 1 \in Nat /\ b - 1 \notin S
      BY <2>2, <1>3
    <3>2. ~(x < ((b - 1) + 1) * ByteBits)
      BY <3>1
    <3>3. (b - 1) + 1 = b
      BY <1>4
    <3> QED BY <3>2, <3>3, <1>1, <1>4
  <2> QED BY <2>1, <2>2
<1>6. x <= b * ByteBits + ByteBits - 1
  <2>1. (b + 1) * ByteBits = b * ByteBits + ByteBits
    BY <1>1, <1>4
  <2>2. b * ByteBits \in Nat
    BY <1>1, <1>4
  <2> QED BY <2>1, <2>2, <1>1, <1>4
<1>7. b * ByteBits \in Nat
  BY <1>1, <1>4
<1>8. x \in BitsOf(b)
  BY <1>1, <1>5, <1>6, <1>7 DEF BitsOf
<1> QED BY <1>4, <1>8

\* The bits of a byte lie in the map, and below the bits of later bytes.
LEMMA BitsOfFacts ==
    ASSUME NEW b \in 0..Bytes - 1
    PROVE  /\ BitsOf(b) \subseteq 0..Size - 1
           /\ \A c \in 0..Bytes - 1 : b < c =>
                 \A x \in BitsOf(b), y \in BitsOf(c) : x < y
<1>1. ByteBits \in Nat /\ ByteBits > 0 /\ Bytes \in Nat /\ Bytes > 0
  BY BitmapAssumption
<1>2. \A m, n \in Nat : m <= n => m * ByteBits <= n * ByteBits
  <2> SUFFICES ASSUME NEW m \in Nat, NEW n \in Nat, m <= n
               PROVE  m * ByteBits <= n * ByteBits
    OBVIOUS
  <2>1. (n - m) * ByteBits >= 0
    BY <1>1
  <2>2. (n - m) * ByteBits = n * ByteBits - m * ByteBits
    BY <1>1
  <2>3. m * ByteBits \in Nat /\ n * ByteBits \in Nat
    BY <1>1
  <2> QED BY <2>1, <2>2, <2>3
<1>3. b * ByteBits \in Nat /\ (b + 1) * ByteBits = b * ByteBits + ByteBits
  BY <1>1
<1>4. BitsOf(b) \subseteq 0..Size - 1
  <2>1. (b + 1) * ByteBits <= Bytes * ByteBits
    BY <1>1, <1>2
  <2>2. Bytes * ByteBits = Size /\ Size \in Nat
    BY <1>1 DEF Size
  <2> QED BY <2>1, <2>2, <1>1, <1>3 DEF BitsOf
<1>5. ASSUME NEW c \in 0..Bytes - 1, b < c, NEW x \in BitsOf(b), NEW y \in BitsOf(c)
      PROVE  x < y
  <2>1. (b + 1) * ByteBits <= c * ByteBits
    BY <1>1, <1>2, <1>5
  <2>2. c * ByteBits \in Nat
    BY <1>1
  <2>3. x \in Int /\ x <= b * ByteBits + ByteBits - 1
    BY <1>1, <1>3 DEF BitsOf
  <2>4. y \in Int /\ y >= c * ByteBits
    BY <1>1, <2>2 DEF BitsOf
  <2> QED BY <2>1, <2>2, <2>3, <2>4, <1>1, <1>3
<1> QED BY <1>4, <1>5

\* On a map that is not full the two loops stop at the lowest free bit.
LEMMA FirstBitFacts ==
    ASSUME NEW u, ~MapFull(u)
    PROVE  /\ FirstBit(u) \in 0..Size - 1 /\ FirstBit(u) \notin u
           /\ \A x \in 0..Size - 1 : x \notin u => FirstBit(u) <= x
<1> DEFINE gaps == {b \in 0..Bytes - 1 : ~FullByte(u, b)}
           byte == Least(gaps)
           bits == BitsOf(byte) \ u
<1>0. Bytes \in Nat /\ Size \in Nat
  BY BitmapAssumption DEF Size
<1>1. gaps \subseteq Nat /\ gaps # {}
  BY <1>0 DEF MapFull
<1> HIDE DEF gaps
<1>2. byte \in gaps /\ \A b \in gaps : byte <= b
  BY <1>1, LeastFacts
<1>3. byte \in 0..Bytes - 1 /\ ~FullByte(u, byte)
  BY <1>2 DEF gaps
<1> HIDE DEF byte
<1>4. bits \subseteq 0..Size - 1 /\ bits \subseteq Nat /\ bits # {}
  BY <1>3, <1>0, BitsOfFacts DEF FullByte
<1>5. FirstBit(u) = Least(bits)
  BY DEF FirstBit, byte, gaps
<1> HIDE DEF bits
<1>6. FirstBit(u) \in bits /\ \A x \in bits : FirstBit(u) <= x
  BY <1>4, <1>5, LeastFacts
<1>7. FirstBit(u) \in BitsOf(byte) /\ FirstBit(u) \notin u /\ FirstBit(u) \in 0..Size - 1
  BY <1>6, <1>4 DEF bits
<1>8. ASSUME NEW x \in 0..Size - 1, x \notin u PROVE FirstBit(u) <= x
  <2>1. PICK b \in 0..Bytes - 1 : x \in BitsOf(b)
    <3>1. x \in Nat /\ x < Size
      BY <1>0
    <3> QED BY <3>1, ByteOfBit
  <2>2. b \in gaps
    BY <2>1, <1>8 DEF gaps, FullByte
  <2>3. CASE b = byte
    BY <2>1, <2>3, <1>6, <1>8 DEF bits
  <2>4. CASE b # byte
    <3>1. byte < b
      BY <2>2, <2>4, <1>2, <1>3, <1>0
    <3>2. FirstBit(u) < x
      BY <3>1, <2>1, <1>3, <1>7, BitsOfFacts
    <3> QED BY <3>2, <1>7, <1>0
  <2> QED BY <2>3, <2>4
<1> QED BY <1>7, <1>8

-----------------------------------------------------------------------------
(* The last loop: the length of the run of zeros that ends at i. *)

\* How far below i the nearest bit of u lies, if the search stops at first
RunTo(u, first, i) ==
    Least({n \in 0..i - first + 1 : i - n \in u \/ n = i - first + 1})

\* RunTo counts the zeros that end at i, and no fewer.
LEMMA RunToFacts ==
    ASSUME NEW u, NEW first \in Nat, NEW i \in Nat, first <= i
    PROVE  /\ RunTo(u, first, i) \in 0..i - first + 1
           /\ \A x \in i - RunTo(u, first, i) + 1..i : x \notin u
           /\ \/ i - RunTo(u, first, i) \in u
              \/ RunTo(u, first, i) = i - first + 1
           /\ \A n \in 0..i - first + 1 :
                 (i - n \in u \/ n = i - first + 1) => RunTo(u, first, i) <= n
<1> DEFINE D == {n \in 0..i - first + 1 : i - n \in u \/ n = i - first + 1}
           r == RunTo(u, first, i)
<1>1. D \subseteq Nat /\ i - first + 1 \in D
  OBVIOUS
<1>2. r = Least(D)
  BY DEF RunTo
<1> HIDE DEF D, r
<1>3. r \in D /\ \A n \in D : r <= n
  BY <1>1, <1>2, LeastFacts
<1>4. r \in 0..i - first + 1 /\ (i - r \in u \/ r = i - first + 1)
  BY <1>3 DEF D
<1>5. \A n \in 0..i - first + 1 : (i - n \in u \/ n = i - first + 1) => r <= n
  BY <1>3 DEF D
<1>6. ASSUME NEW x \in i - r + 1..i PROVE x \notin u
  <2>1. i - x \in 0..i - first + 1 /\ i - (i - x) = x /\ ~(r <= i - x)
    BY <1>4
  <2> QED BY <2>1, <1>5
<1> QED BY <1>4, <1>5, <1>6 DEF r

\* RunTo satisfies the equation of the loop's counter.
LEMMA RunToStep ==
    ASSUME NEW u, NEW first \in Nat, first \notin u, NEW i \in Nat, first <= i
    PROVE  RunTo(u, first, i) =
              IF i = first THEN 1
              ELSE IF i \notin u THEN RunTo(u, first, i - 1) + 1 ELSE 0
<1> DEFINE r == RunTo(u, first, i)
           q == RunTo(u, first, i - 1)
<1>1. /\ r \in 0..i - first + 1
      /\ \A x \in i - r + 1..i : x \notin u
      /\ i - r \in u \/ r = i - first + 1
      /\ \A n \in 0..i - first + 1 : (i - n \in u \/ n = i - first + 1) => r <= n
  BY RunToFacts
<1>2. i # first => /\ q \in 0..i - first
                   /\ \A x \in i - q..i - 1 : x \notin u
                   /\ i - 1 - q \in u \/ q = i - first
  <2> SUFFICES ASSUME i # first
               PROVE  /\ q \in 0..i - first
                      /\ \A x \in i - q..i - 1 : x \notin u
                      /\ i - 1 - q \in u \/ q = i - first
    OBVIOUS
  <2>1. i - 1 \in Nat /\ first <= i - 1 /\ (i - 1) - first + 1 = i - first
    OBVIOUS
  <2>2. /\ q \in 0..(i - 1) - first + 1
        /\ \A x \in (i - 1) - q + 1..i - 1 : x \notin u
        /\ (i - 1) - q \in u \/ q = (i - 1) - first + 1
    <3> DEFINE k == i - 1
    <3>1. k \in Nat /\ first <= k
      BY <2>1
    <3> HIDE DEF k
    <3>2. /\ RunTo(u, first, k) \in 0..k - first + 1
          /\ \A x \in k - RunTo(u, first, k) + 1..k : x \notin u
          /\ k - RunTo(u, first, k) \in u \/ RunTo(u, first, k) = k - first + 1
      BY <3>1, RunToFacts
    <3> QED BY <3>2 DEF k
  <2>3. (i - 1) - q + 1 = i - q
    BY <2>1, <2>2
  <2> QED BY <2>1, <2>2, <2>3
<1> HIDE DEF r, q
<1>3. CASE i = first
  <2>1. r \in 0..1 /\ (r = 0 => i - r = i)
    BY <1>1, <1>3
  <2>2. r # 0
    BY <2>1, <1>1, <1>3
  <2> QED BY <2>1, <2>2, <1>3 DEF r
<1>4. CASE i # first /\ i \in u
  <2>1. 0 \in 0..i - first + 1 /\ i - 0 = i
    OBVIOUS
  <2>2. r <= 0
    BY <2>1, <1>1, <1>4
  <2> QED BY <2>2, <1>1, <1>4 DEF r
<1>5. CASE i # first /\ i \notin u
  <2>1. q + 1 \in 0..i - first + 1 /\ i - (q + 1) = i - 1 - q /\ q \in Nat
    BY <1>2, <1>5
  <2>2. r <= q + 1
    BY <2>1, <1>1, <1>2, <1>5
  <2>3. r # 0
    <3>1. r = 0 => i - r = i /\ r # i - first + 1
      OBVIOUS
    <3> QED BY <3>1, <1>1, <1>5
  <2>4. ~(r < q + 1)
    <3> SUFFICES ASSUME r < q + 1 PROVE FALSE
      OBVIOUS
    <3>1. i - r \in i - q..i - 1
      BY <1>1, <2>1, <2>3
    <3>2. r # i - first + 1
      BY <1>1, <1>2, <1>5
    <3> QED BY <3>1, <3>2, <1>1, <1>2, <1>5
  <2>5. r = q + 1
    BY <2>1, <2>2, <2>4, <1>1
  <2> QED BY <2>5, <1>5 DEF r, q
<1> QED BY <1>3, <1>4, <1>5

\* The counter is RunTo.
LEMMA CountIsRunTo ==
    ASSUME NEW u, NEW first \in Nat, first \notin u, NEW last \in Nat, NEW count,
           count = CHOOSE f : f = [i \in first..last |->
                       IF i = first THEN 1
                       ELSE IF i \notin u THEN f[i - 1] + 1 ELSE 0]
    PROVE  \A i \in first..last : count[i] = RunTo(u, first, i)
<1> DEFINE w == [i \in first..last |-> RunTo(u, first, i)]
<1>1. w = [i \in first..last |-> IF i = first THEN 1
                                 ELSE IF i \notin u THEN w[i - 1] + 1 ELSE 0]
  <2>1. ASSUME NEW i \in first..last
        PROVE  w[i] = IF i = first THEN 1
                      ELSE IF i \notin u THEN w[i - 1] + 1 ELSE 0
    <3>1. i \in Nat /\ first <= i
      OBVIOUS
    <3>2. w[i] = RunTo(u, first, i)
      OBVIOUS
    <3>3. i # first => i - 1 \in first..last /\ w[i - 1] = RunTo(u, first, i - 1)
      OBVIOUS
    <3> QED BY <3>1, <3>2, <3>3, RunToStep
  <2> HIDE DEF w
  <2>2. w = [i \in first..last |-> w[i]]
    BY DEF w
  <2> QED BY <2>1, <2>2
<1> HIDE DEF w
<1>2. count = [i \in first..last |-> IF i = first THEN 1
                        ELSE IF i \notin u THEN count[i - 1] + 1 ELSE 0]
  BY <1>1
<1> DEFINE S == {i \in first..last : count[i] # w[i]}
<1>3. S = {}
  <2> SUFFICES ASSUME S # {} PROVE FALSE
    OBVIOUS
  <2>1. S \subseteq Nat
    OBVIOUS
  <2> HIDE DEF S
  <2>2. PICK i \in S : \A j \in S : i <= j
    BY <2>1, LeastNat
  <2>3. i \in first..last /\ count[i] # w[i]
    BY <2>2 DEF S
  <2>4. i # first => i - 1 \in first..last /\ ~(i <= i - 1)
    BY <2>3
  <2>5. i # first => count[i - 1] = w[i - 1]
    BY <2>4, <2>2 DEF S
  <2>6. count[i] = IF i = first THEN 1
                   ELSE IF i \notin u THEN count[i - 1] + 1 ELSE 0
    BY <1>2, <2>3
  <2>7. w[i] = IF i = first THEN 1
               ELSE IF i \notin u THEN w[i - 1] + 1 ELSE 0
    BY <1>1, <2>3
  <2> QED BY <2>3, <2>5, <2>6, <2>7
<1> QED BY <1>3 DEF w

-----------------------------------------------------------------------------
\* bitmap_scan of lib/bitmap.c, for every map with a free byte and every number
\* of bits: its three loops return the start of the lowest run of cnt free bits,
\* and -1 if there is none, with one exception: a run that needs the bit after
\* the map, which the last loop tests as well.  The bits it returns are free.
THEOREM ScanFindsFirstFit ==
    ASSUME NEW u, ~MapFull(u), NEW cnt \in Nat \ {0}
    PROVE  /\ \/ bitmap_scan(u, cnt) = FirstFit(u, cnt)
              \/ FirstFit(u, cnt) = -1 /\ bitmap_scan(u, cnt) = Size + 1 - cnt
           /\ bitmap_scan(u, cnt) # -1 =>
                /\ bitmap_scan(u, cnt) \in 0..Size + 1 - cnt
                /\ \A x \in bitmap_scan(u, cnt)..bitmap_scan(u, cnt) + cnt - 1 : x \notin u
<1> DEFINE first == FirstBit(u)
           R(i) == RunTo(u, first, i)
           F == Fitting(u, cnt)
<1>0. Size \in Nat /\ first \in Nat /\ first < Size /\ first \notin u
  BY BitmapAssumption, FirstBitFacts DEF Size
<1>1. \A x \in 0..Size - 1 : x \notin u => first <= x
  BY FirstBitFacts
<1>2. ASSUME NEW i \in Nat, first <= i
      PROVE  /\ R(i) \in 0..i - first + 1
             /\ \A x \in i - R(i) + 1..i : x \notin u
             /\ i - R(i) \in u \/ R(i) = i - first + 1
             /\ \A n \in 0..i - first + 1 :
                    (i - n \in u \/ n = i - first + 1) => R(i) <= n
  <2> HIDE DEF first
  <2> QED BY <1>0, <1>2, RunToFacts
<1>3. F \subseteq Nat
  BY <1>0 DEF Fitting
<1>4. CASE cnt = 1
  <2> HIDE DEF first
  <2>1. first \in F
    BY <1>0, <1>4 DEF Fitting
  <2>2. \A s \in F : first <= s
    BY <1>0, <1>1, <1>4 DEF Fitting
  <2>3. Least(F) = first
    <3> HIDE DEF F
    <3> QED BY <1>3, <2>1, <2>2, LeastIs
  <2>4. bitmap_scan(u, cnt) = first
    BY <1>4 DEF bitmap_scan, first
  <2>5. first \in 0..Size + 1 - cnt /\ \A x \in first..first + cnt - 1 : x \notin u
    BY <1>0, <1>4
  <2> QED BY <2>1, <2>3, <2>4, <2>5 DEF FirstFit
<1>5. CASE cnt # 1
  <2> DEFINE count[i \in first..Size] ==
                 IF i = first THEN 1
                 ELSE IF i \notin u THEN count[i - 1] + 1 ELSE 0
             ends == {i \in first + 1..Size : count[i] = cnt}
             E == {i \in first + 1..Size : R(i) = cnt}
  <2>1. bitmap_scan(u, cnt) = IF ends = {} THEN -1 ELSE Least(ends) - cnt + 1
    BY <1>5 DEF bitmap_scan, LongRun
  <2>2. count = CHOOSE f : f = [i \in first..Size |->
                       IF i = first THEN 1
                       ELSE IF i \notin u THEN f[i - 1] + 1 ELSE 0]
    BY DEF count
  <2> HIDE DEF first, count
  <2>3. \A i \in first..Size : count[i] = R(i)
    BY <1>0, <2>2, CountIsRunTo
  <2>4. ends = E
    <3> HIDE DEF R
    <3> QED BY <1>0, <2>3
  <2> HIDE DEF ends, R
  \* A run that the loop meets is free, and fits if it ends inside the map.
  <2>5. ASSUME NEW e \in E
        PROVE  /\ e - cnt + 1 \in 0..Size + 1 - cnt
               /\ \A x \in (e - cnt + 1)..(e - cnt + 1) + cnt - 1 : x \notin u
               /\ e < Size => e - cnt + 1 \in F
    <3>1. e \in Nat /\ first <= e /\ R(e) = cnt
      BY <1>0
    <3>2. R(e) \in 0..e - first + 1 /\ \A x \in e - R(e) + 1..e : x \notin u
      BY <1>2, <3>1
    <3>3. \A x \in (e - cnt + 1)..(e - cnt + 1) + cnt - 1 : x \notin u
      <4>1. (e - cnt + 1) + cnt - 1 = e
        BY <3>1
      <4> QED BY <4>1, <3>1, <3>2
    <3>4. e - cnt + 1 \in 0..Size + 1 - cnt /\ (e < Size => e - cnt + 1 \in 0..Size - cnt)
      BY <1>0, <3>1, <3>2
    <3> QED BY <3>3, <3>4 DEF Fitting
  \* The loop meets every run that fits, at its last bit or before.
  <2>6. ASSUME NEW s \in F PROVE \E e \in E : e <= s + cnt - 1
    <3> DEFINE i == s + cnt - 1
    <3>1. /\ s \in Nat /\ s <= Size - cnt /\ cnt >= 2
          /\ \A x \in s..i : x \notin u
      BY <1>0, <1>5 DEF Fitting
    <3>2. i \in Nat /\ i < Size /\ s \in s..i /\ s \in 0..Size - 1
      BY <1>0, <3>1
    <3>3. first <= s /\ first <= i
      BY <1>0, <1>1, <3>1, <3>2
    <3> HIDE DEF i
    <3>4. /\ R(i) \in 0..i - first + 1
          /\ \A x \in i - R(i) + 1..i : x \notin u
          /\ i - R(i) \in u \/ R(i) = i - first + 1
      BY <1>2, <3>2, <3>3
    <3>5. R(i) >= cnt
      <4> SUFFICES ASSUME R(i) < cnt PROVE FALSE
        BY <3>4
      <4>1. i - R(i) \in s..i
        BY <3>1, <3>2, <3>4 DEF i
      <4>2. R(i) # i - first + 1
        BY <3>1, <3>2, <3>3, <3>4, <1>0 DEF i
      <4> QED BY <4>1, <4>2, <3>1, <3>4
    <3> DEFINE e == i - (R(i) - cnt)
    <3>6. /\ e \in Nat /\ first + 1 <= e /\ e <= i
          /\ e - cnt = i - R(i) /\ cnt \in 0..e - first + 1
          /\ R(i) = i - first + 1 => cnt = e - first + 1
      BY <1>0, <3>1, <3>2, <3>3, <3>4, <3>5
    <3>7. \A x \in e - cnt + 1..e : x \notin u
      BY <3>2, <3>4, <3>5, <3>6
    <3> HIDE DEF e
    <3>8. /\ R(e) \in 0..e - first + 1
          /\ e - R(e) \in u \/ R(e) = e - first + 1
          /\ \A n \in 0..e - first + 1 :
                 (e - n \in u \/ n = e - first + 1) => R(e) <= n
      BY <1>0, <1>2, <3>6
    <3>9. R(e) <= cnt
      BY <3>4, <3>6, <3>8
    <3>10. R(e) >= cnt
      <4> SUFFICES ASSUME R(e) < cnt PROVE FALSE
        BY <3>8
      <4>1. e - R(e) \in e - cnt + 1..e
        BY <3>6, <3>8
      <4>2. R(e) # e - first + 1
        BY <3>6, <3>8, <1>0
      <4> QED BY <4>1, <4>2, <3>7, <3>8
    <3>11. R(e) = cnt
      BY <3>8, <3>9, <3>10
    <3> QED BY <1>0, <3>2, <3>6, <3>11 DEF i
  <2>7. CASE E = {}
    <3>1. F = {}
      BY <2>6, <2>7
    <3> QED BY <2>1, <2>4, <2>7, <3>1 DEF FirstFit
  <2>8. CASE E # {}
    <3> DEFINE e == Least(E)
    <3>1. E \subseteq Nat /\ E \subseteq first + 1..Size
      BY <1>0
    <3> HIDE DEF E, F
    <3>2. e \in E /\ \A j \in E : e <= j
      BY <2>8, <3>1, LeastFacts
    <3>3. e \in Nat /\ e <= Size
      <4>1. e \in Nat /\ e \in first + 1..Size
        BY <3>1, <3>2
      <4> QED BY <4>1, <1>0
    <3>4. bitmap_scan(u, cnt) = e - cnt + 1
      BY <2>1, <2>4, <2>8
    <3> HIDE DEF e
    <3>5. \A s \in F : e <= s + cnt - 1
      <4> TAKE s \in F
      <4>1. PICK j \in E : j <= s + cnt - 1
        BY <2>6
      <4>2. j \in Nat /\ s \in Nat /\ e <= j
        BY <3>1, <3>2, <1>3
      <4> QED BY <4>1, <4>2, <3>3
    <3>a. /\ e - cnt + 1 \in 0..Size + 1 - cnt
          /\ \A x \in (e - cnt + 1)..(e - cnt + 1) + cnt - 1 : x \notin u
          /\ e < Size => e - cnt + 1 \in F
      BY <2>5, <3>2
    <3>6. CASE e < Size
      <4>1. e - cnt + 1 \in F
        BY <3>a, <3>6
      <4>2. \A s \in F : e - cnt + 1 <= s
        BY <3>3, <3>5, <1>3
      <4>3. Least(F) = e - cnt + 1
        BY <1>3, <4>1, <4>2, LeastIs
      <4> QED BY <4>1, <4>3, <3>4, <3>a DEF FirstFit, F
    <3>7. CASE e = Size
      <4>1. F = {}
        <5> SUFFICES ASSUME NEW s \in F PROVE FALSE
          OBVIOUS
        <5>1. s \in Nat /\ s <= Size - cnt
          BY <1>0 DEF F, Fitting
        <5> QED BY <5>1, <3>5, <3>7, <1>0
      <4>2. FirstFit(u, cnt) = -1
        BY <4>1 DEF FirstFit, F
      <4>3. bitmap_scan(u, cnt) = Size + 1 - cnt
        BY <3>4, <3>7, <1>0
      <4> QED BY <4>2, <4>3, <3>4, <3>a
    <3> QED BY <3>3, <3>6, <3>7, <1>0
  <2> QED BY <2>7, <2>8
<1> QED BY <1>4, <1>5

-----------------------------------------------------------------------------
(* The inductive invariant. *)

\* A task that sys_fork has made and not listed yet
Pending == {c \in Pages : \E p \in Listed : task[p].child = c}
Alive   == Listed \cup Pending

\* The child a task is making: a copy of itself that nobody else makes
ForksWhole ==
    \A p \in Pcbs :
        /\ task[p].child # None <=> task[p].at \in {"fork1", "fork2"}
        /\ task[p].child # None =>
              /\ p \in Listed /\ task[p].status = "RUN" /\ task[p].dir # None
              /\ task[p].child \notin Listed
              /\ task[task[p].child].at = "user"
              /\ task[task[p].child].status = "RUN"
              /\ task[task[p].child].ppid = task[p].pid
              /\ task[task[p].child].dir # None
              /\ task[task[p].child].bits # None
              /\ \A q \in Pcbs : task[q].child = task[p].child => q = p

\* A listed task is a process with an address space or a thread of the kernel,
\* and its status goes with the system call it is in.
TasksWhole ==
    \A t \in Listed :
        /\ task[t].pid \in Pids
        /\ task[t].dir # None <=> task[t].bits # None
        /\ task[t].at # "user" => task[t].dir # None
        /\ task[t].dir = None => task[t].ppid = None
        /\ task[t].dir # None /\ task[t].ppid = None => task[t].pid = 1
        /\ task[t].status = "HANGING" => task[t].at = "exit"
        /\ task[t].status = "WAITING" => task[t].at = "wait"

\* init neither exits nor dies, and the boot thread is no process.
InitLives ==
    /\ 0 \in Listed /\ task[0].pid = 1 /\ task[0].dir # None
    /\ task[0].at # "exit"
    /\ task[Main].dir = None

\* A pid is in use by one task, listed or being made.
PidsExact ==
    /\ \A s, t \in Alive : task[s].pid = task[t].pid => s = t
    /\ pids = {task[t].pid : t \in Alive}

\* The parent of a listed task is a process that has not called exit.
Parents ==
    \A t \in Listed : task[t].ppid # None =>
        \E q \in Listed : /\ task[q].pid = task[t].ppid
                          /\ task[q].at # "exit" /\ task[q].dir # None

\* The tasks with an address bitmap of their own
HasBits ==
    {t \in Listed : task[t].bits # None /\ task[t].at # "exit"}
    \cup {t \in Pending : ~panic /\ \E p \in Listed :
                               task[p].child = t /\ task[p].at = "fork2"}

\* The page numbers that a pointer of a PCB can reach
Addr == 0..Size + BitmapPages

\* What task t keeps in page x: its PCB, its page directory, its bitmap
Holds(t, k, x) ==
    \/ k = "pcb" /\ t \in Alive /\ t \in Pages /\ x = t
    \/ k = "dir" /\ t \in Listed /\ x = task[t].dir
    \/ k = "bits" /\ t \in HasBits /\ x \in Block(task[t].bits, BitmapPages)

\* A page is kept by one task for one purpose, and is then marked.
PagesExact ==
    \A x \in Addr : \A t \in Pcbs, k \in {"pcb", "dir", "bits"} : Holds(t, k, x) =>
        /\ x \in used
        /\ \A s \in Pcbs, l \in {"pcb", "dir", "bits"} :
               Holds(s, l, x) => s = t /\ l = k

Tasks == /\ ForksWhole
         /\ TasksWhole
         /\ InitLives
         /\ PidsExact
         /\ Parents
         /\ NoMissedExit

Inv == TypeOK /\ Tasks /\ PagesExact

-----------------------------------------------------------------------------
(* What has to be assumed: a fork that takes its bitmap finds one.         *)
(* copy_process does not notice the failure and the child shares the       *)
(* parent's bitmap, which both of them free.                               *)
BitmapFound ==
    \A p \in Pcbs : task[p].at = "fork1" =>
        MapFull(used) \/ Run(BitmapPages) # None

\* Heap, pid pool and name buffer are large enough for MaxForks calls of fork.
Roomy ==
    /\ NPages >= (MaxForks + 1) * (BitmapPages + 2) + 1
    /\ MaxPid >= MaxForks + 3
    /\ MaxName < NameLen + 5

\* The tasks at a point of sys_fork
At(a) == {p \in Pcbs : task[p].at = a}

\* The lowest run is taken, so that the heap and the pid pool fill from below:
\* each call of fork adds at most the pages it takes, and one pid.
Filled == (forks + 1) * (BitmapPages + 2)
          - Cardinality(At("fork1")) * (BitmapPages + 1) - Cardinality(At("fork2"))

FilledFromBelow ==
    /\ used \subseteq 0..Filled /\ pids \subseteq 1..forks + 3
    /\ \A p \in At("fork1") : task[p].len + 5 <= MaxName

-----------------------------------------------------------------------------
(* What the operators of the model return. *)

(* The numbers of pages and tasks, and the bounds of the heap bitmap. *)
LEMMA Ranges ==
    /\ Pages \subseteq Pcbs /\ Main \in Pcbs /\ Main \notin Pages
    /\ 0 \in Pages /\ None \notin Pcbs /\ Pages \subseteq Nat
    /\ Size \in Nat /\ Size > 0 /\ Pages = 0..Size /\ None = -1
    /\ Pages \subseteq Addr
<1>1. Size \in Nat /\ Size > 0
  BY BitmapAssumption DEF Size
<1>2. Pages = 0..Size /\ Main = Size + 1 /\ None = -1
  BY DEF Pages, NPages, Main, None
<1>3. Pages \subseteq Addr
  BY <1>1, <1>2, ProcessAssumption DEF Addr
<1> QED BY <1>1, <1>2, <1>3 DEF Pcbs

\* get_kernel_pages(1) takes a page of the heap that is free.
LEMMA NewPage ==
    ASSUME ~MapFull(used)
    PROVE  Run(1) \in Pages /\ Run(1) \notin used
<1>1. FirstBit(used) \in 0..Size - 1 /\ FirstBit(used) \notin used
  BY FirstBitFacts
<1>2. Run(1) = FirstBit(used)
  BY DEF Run, bitmap_scan
<1> QED BY <1>1, <1>2, Ranges

\* get_kernel_pages(n) takes n free pages that follow each other.
LEMMA NewBlock ==
    ASSUME ~MapFull(used), Run(BitmapPages) # None
    PROVE  /\ Run(BitmapPages) \in Pages
           /\ Block(Run(BitmapPages), BitmapPages) \subseteq Pages
           /\ \A x \in Block(Run(BitmapPages), BitmapPages) : x \notin used
<1>1. BitmapPages \in Nat /\ BitmapPages > 1
  BY ProcessAssumption
<1> DEFINE s == Run(BitmapPages)
<1>2. s \in 0..Size + 1 - BitmapPages /\ \A x \in s..s + BitmapPages - 1 : x \notin used
  BY <1>1, Ranges, ScanFindsFirstFit DEF Run
<1> HIDE DEF s
<1>3. s \in 0..Size /\ s..s + BitmapPages - 1 \subseteq 0..Size
  BY <1>1, <1>2, Ranges
<1> QED BY <1>2, <1>3, Ranges DEF Block, s

\* allocate_pid takes the lowest pid that is free.
LEMMA NewPid ==
    ASSUME pids \subseteq Pids, pids # Pids
    PROVE  /\ FreePid \in Pids /\ FreePid \notin pids
           /\ \A i \in Pids \ pids : FreePid <= i
<1>1. Pids \ pids \subseteq Nat /\ Pids \ pids # {}
  <2>1. Pids \subseteq Nat
    BY ProcessAssumption DEF Pids
  <2> QED BY <2>1
<1>2. \E i \in Pids \ pids : \A j \in Pids \ pids : i <= j
  BY <1>1, LeastNat
<1> QED BY <1>2 DEF FreePid

\* A search of thread_all_list finds a listed task if there is one that fits.
LEMMA Searches ==
    ASSUME TypeOK, NEW id
    PROVE  /\ \/ /\ pid2thread(id) = None
                 /\ \A t \in Listed : task[t].pid # id
              \/ /\ pid2thread(id) \in Listed /\ task[pid2thread(id)].pid = id
           /\ \/ /\ find_child(id) = None
                 /\ \A t \in Listed : task[t].ppid # id
              \/ /\ find_child(id) \in Listed /\ task[find_child(id)].ppid = id
           /\ \/ /\ find_hanging_child(id) = None
                 /\ \A t \in Listed : ~(task[t].ppid = id /\ task[t].status = "HANGING")
              \/ /\ find_hanging_child(id) \in Listed
                 /\ task[find_hanging_child(id)].ppid = id
                 /\ task[find_hanging_child(id)].status = "HANGING"
<1>1. all \in Seq(Pcbs)
  BY DEF TypeOK
<1>2. DOMAIN all = 1..Len(all) /\ Len(all) \in Nat /\ \A i \in 1..Len(all) : all[i] \in Pcbs
  BY <1>1
<1>3. \A t \in Listed : \E i \in 1..Len(all) : all[i] = t
  BY <1>2 DEF Listed, InList
<1>4. \A i \in 1..Len(all) : all[i] \in Listed
  BY <1>2 DEF Listed, InList
<1>5. ASSUME NEW hits \in SUBSET (1..Len(all)), hits # {}
      PROVE  (CHOOSE i \in hits : \A j \in hits : i <= j) \in hits
  <2>0. hits \subseteq Nat
    BY <1>2
  <2>1. \E i \in hits : \A j \in hits : i <= j
    BY <1>5, <2>0, LeastNat
  <2> QED BY <2>1
<1>6. \/ pid2thread(id) = None /\ \A t \in Listed : task[t].pid # id
      \/ pid2thread(id) \in Listed /\ task[pid2thread(id)].pid = id
  <2> DEFINE hits == {i \in 1..Len(all) : task[all[i]].pid = id}
  <2>1. pid2thread(id) = IF hits = {} THEN None
                         ELSE all[CHOOSE i \in hits : \A j \in hits : i <= j]
    BY DEF pid2thread, First
  <2>2. CASE hits = {}
    BY <2>1, <2>2, <1>3
  <2>3. CASE hits # {}
    <3> DEFINE k == CHOOSE i \in hits : \A j \in hits : i <= j
    <3>1. k \in hits
      <4> HIDE DEF hits
      <4>1. hits \in SUBSET (1..Len(all))
        BY DEF hits
      <4> QED BY <4>1, <2>3, <1>5
    <3> QED BY <3>1, <2>1, <2>3, <1>4
  <2> QED BY <2>2, <2>3
<1>7. \/ find_child(id) = None /\ \A t \in Listed : task[t].ppid # id
      \/ find_child(id) \in Listed /\ task[find_child(id)].ppid = id
  <2> DEFINE hits == {i \in 1..Len(all) : task[all[i]].ppid = id}
  <2>1. find_child(id) = IF hits = {} THEN None
                         ELSE all[CHOOSE i \in hits : \A j \in hits : i <= j]
    BY DEF find_child, First
  <2>2. CASE hits = {}
    BY <2>1, <2>2, <1>3
  <2>3. CASE hits # {}
    <3> DEFINE k == CHOOSE i \in hits : \A j \in hits : i <= j
    <3>1. k \in hits
      <4> HIDE DEF hits
      <4>1. hits \in SUBSET (1..Len(all))
        BY DEF hits
      <4> QED BY <4>1, <2>3, <1>5
    <3> QED BY <3>1, <2>1, <2>3, <1>4
  <2> QED BY <2>2, <2>3
<1>8. \/ /\ find_hanging_child(id) = None
         /\ \A t \in Listed : ~(task[t].ppid = id /\ task[t].status = "HANGING")
      \/ /\ find_hanging_child(id) \in Listed
         /\ task[find_hanging_child(id)].ppid = id
         /\ task[find_hanging_child(id)].status = "HANGING"
  <2> DEFINE hits == {i \in 1..Len(all) :
                         task[all[i]].ppid = id /\ task[all[i]].status = "HANGING"}
  <2>1. find_hanging_child(id) = IF hits = {} THEN None
                         ELSE all[CHOOSE i \in hits : \A j \in hits : i <= j]
    BY DEF find_hanging_child, First
  <2>2. CASE hits = {}
    BY <2>1, <2>2, <1>3
  <2>3. CASE hits # {}
    <3> DEFINE k == CHOOSE i \in hits : \A j \in hits : i <= j
    <3>1. k \in hits
      <4> HIDE DEF hits
      <4>1. hits \in SUBSET (1..Len(all))
        BY DEF hits
      <4> QED BY <4>1, <2>3, <1>5
    <3> QED BY <3>1, <2>1, <2>3, <1>4
  <2> QED BY <2>2, <2>3
<1> QED BY <1>6, <1>7, <1>8

-----------------------------------------------------------------------------
\* In every state of the heap bitmap_scan finds the lowest run that fits, for
\* every size of the heap and of the address bitmaps.
THEOREM ScanAlwaysFirstFit == Spec => []ScanIsFirstFit
<1>1. ScanIsFirstFit
  <2>1. BitmapPages \in Nat \ {0}
    BY ProcessAssumption
  <2> SUFFICES ASSUME ~MapFull(used), NEW cnt \in {1, 2, BitmapPages}
               PROVE  \/ bitmap_scan(used, cnt) = FirstFit(used, cnt)
                      \/ /\ FirstFit(used, cnt) = None
                         /\ bitmap_scan(used, cnt) = Size + 1 - cnt
    BY DEF ScanIsFirstFit
  <2>2. cnt \in Nat \ {0} /\ None = -1
    BY <2>1, Ranges
  <2> QED BY <2>2, ScanFindsFirstFit
<1> QED BY <1>1, PTL

-----------------------------------------------------------------------------
(* The invariant holds in the state thread_init leaves. *)

(* main, idle and init as thread_init and process_execute leave them. *)
LEMMA InitInv == Init => Inv
<1> SUFFICES ASSUME Init PROVE Inv
  OBVIOUS
<1> DEFINE dir == BitmapPages + 1
           idle == BitmapPages + 2
<1>0. /\ BitmapPages \in Nat /\ BitmapPages > 1 /\ Size >= BitmapPages + 3
      /\ MaxPid \in Nat /\ MaxPid >= 3 /\ MaxForks \in Nat
  BY ProcessAssumption DEF NPages
<1>1. dir \in Pages /\ idle \in Pages /\ idle # 0 /\ dir # idle /\ dir # 0 /\ Main # 0
      /\ Main # idle /\ 1 \in Pages /\ dir > BitmapPages /\ idle > BitmapPages
  BY <1>0, Ranges
<1>2. /\ task = [t \in Pcbs |->
                      CASE t = 0    -> [Kernel(1) EXCEPT !.bits = 1, !.dir = dir]
                        [] t = Main -> Kernel(2)
                        [] t = idle -> Kernel(3)
                        [] OTHER    -> Empty]
      /\ all = <<0, Main, idle>> /\ pids = 1..3 /\ used = 0..idle
      /\ ret = 0 /\ forks = 0 /\ panic = FALSE
  BY DEF Init
<1>3. /\ task[0] = [Kernel(1) EXCEPT !.bits = 1, !.dir = dir]
      /\ task[Main] = Kernel(2) /\ task[idle] = Kernel(3)
      /\ \A t \in Pcbs : t \notin {0, Main, idle} => task[t] = Empty
  <2>1. 0 \in Pcbs /\ Main \in Pcbs /\ idle \in Pcbs
    BY <1>1, Ranges
  <2> HIDE DEF dir, idle
  <2> QED BY <1>1, <1>2, <2>1
<1> HIDE DEF dir, idle
<1>4. /\ task[0].pid = 1 /\ task[0].ppid = None /\ task[0].status = "RUN" /\ task[0].at = "user"
      /\ task[0].bits = 1 /\ task[0].dir = dir /\ task[0].child = None
      /\ task[Main].pid = 2 /\ task[Main].ppid = None /\ task[Main].status = "RUN"
      /\ task[Main].at = "user" /\ task[Main].bits = None /\ task[Main].dir = None
      /\ task[Main].child = None
      /\ task[idle].pid = 3 /\ task[idle].ppid = None /\ task[idle].status = "RUN"
      /\ task[idle].at = "user" /\ task[idle].bits = None /\ task[idle].dir = None
      /\ task[idle].child = None
  BY <1>3 DEF Kernel, Empty
<1>5. \A t \in Pcbs : task[t].at = "user" /\ task[t].child = None
  <2> TAKE t \in Pcbs
  <2>1. CASE t \notin {0, Main, idle}
    BY <1>3, <2>1 DEF Empty
  <2> QED BY <2>1, <1>4
<1>6. DOMAIN all = 1..3 /\ all[1] = 0 /\ all[2] = Main /\ all[3] = idle
  BY <1>2
<1>7. Listed = {0, Main, idle}
  BY <1>1, <1>6, Ranges DEF Listed, InList
<1>8. Alive = {0, Main, idle} /\ HasBits = {0}
  <2>1. Pending = {}
    BY <1>4, <1>7, Ranges DEF Pending
  <2>2. HasBits = {0}
    BY <1>4, <1>7, Ranges DEF HasBits
  <2> QED BY <2>1, <2>2, <1>7 DEF Alive
<1>9. TypeOK
  <2>1. task \in [Pcbs -> TaskType]
    <3>1. 1 \in Pids /\ 2 \in Pids /\ 3 \in Pids
      BY <1>0 DEF Pids
    <3>2. Empty \in TaskType
      BY DEF Empty, TaskType
    <3>3. Kernel(1) \in TaskType /\ Kernel(2) \in TaskType /\ Kernel(3) \in TaskType
      BY <3>1, <3>2 DEF Kernel, TaskType
    <3>4. [Kernel(1) EXCEPT !.bits = 1, !.dir = dir] \in TaskType
      BY <1>1, <3>3 DEF TaskType
    <3>5. \A t \in Pcbs : task[t] \in TaskType
      BY <1>3, <3>2, <3>3, <3>4
    <3>6. task = [t \in Pcbs |-> task[t]]
      BY <1>2
    <3> QED BY <3>5, <3>6
  <2>2. all \in Seq(Pcbs)
    BY <1>1, <1>2, Ranges
  <2>3. NoRepeat(all)
    BY <1>1, <1>6 DEF NoRepeat
  <2>4. pids \subseteq Pids /\ used \subseteq Pages
    BY <1>0, <1>1, <1>2, Ranges DEF Pids, idle
  <2>5. ret \in {0, HANGING} /\ forks \in 0..MaxForks /\ panic \in BOOLEAN
    <3>1. forks \in 0..MaxForks
      BY <1>0, <1>2
    <3> QED BY <3>1, <1>2
  <2> QED BY <2>1, <2>2, <2>3, <2>4, <2>5 DEF TypeOK, TaskType
<1>10. ForksWhole
  BY <1>5 DEF ForksWhole
<1>11. TasksWhole
  <2>1. 1 \in Pids /\ 2 \in Pids /\ 3 \in Pids /\ dir # None /\ 1 # None
    BY <1>0, <1>1, Ranges DEF Pids
  <2> QED BY <1>4, <1>7, <2>1 DEF TasksWhole
<1>12. InitLives
  BY <1>1, <1>4, <1>7, Ranges DEF InitLives
<1>13. PidsExact
  <2>1. {task[t].pid : t \in Alive} = {1, 2, 3}
    BY <1>4, <1>8
  <2>2. pids = {1, 2, 3}
    BY <1>2
  <2>3. \A s, t \in Alive : task[s].pid = task[t].pid => s = t
    BY <1>4, <1>8
  <2> QED BY <2>1, <2>2, <2>3 DEF PidsExact
<1>14. Parents
  BY <1>4, <1>7 DEF Parents
<1>15. NoMissedExit
  BY <1>4, <1>7 DEF NoMissedExit
<1>16. PagesExact
  <2>1. \A t \in Pcbs, k \in {"pcb", "dir", "bits"}, x \in Addr : Holds(t, k, x) =>
            \/ k = "pcb" /\ t = 0 /\ x = 0
            \/ k = "pcb" /\ t = idle /\ x = idle
            \/ k = "dir" /\ t = 0 /\ x = dir
            \/ k = "bits" /\ t = 0 /\ x \in 1..BitmapPages
    <3> TAKE t \in Pcbs, k \in {"pcb", "dir", "bits"}, x \in Addr
    <3>1. Block(1, BitmapPages) = 1..BitmapPages
      BY <1>0 DEF Block
    <3>2. x # None /\ Main \notin Pages
      BY Ranges DEF Addr
    <3> QED BY <1>4, <1>7, <1>8, <3>1, <3>2 DEF Holds
  <2>2. 0 \in used /\ idle \in used /\ dir \in used /\ 1..BitmapPages \subseteq used
    BY <1>0, <1>2 DEF dir, idle
  <2>3. dir \notin 1..BitmapPages /\ idle \notin 1..BitmapPages /\ 0 \notin 1..BitmapPages
    BY <1>0, <1>1
  <2> QED BY <1>1, <2>1, <2>2, <2>3 DEF PagesExact
<1> QED BY <1>9, <1>10, <1>11, <1>12, <1>13, <1>14, <1>15, <1>16 DEF Inv, Tasks

-----------------------------------------------------------------------------
(* Steps in general. *)

\* What the type invariant says about a PCB
LEMMA PcbFacts ==
    ASSUME TypeOK, NEW t \in Pcbs
    PROVE  /\ task[t] \in TaskType
           /\ task[t].pid \in Pids \cup {None} /\ task[t].ppid \in Pids \cup {None}
           /\ task[t].status \in {"NONE", "RUN", "WAITING", "HANGING"}
           /\ task[t].at \in {"user", "fork1", "fork2", "exit", "wait"}
           /\ task[t].bits \in Pages \cup {None} /\ task[t].dir \in Pages \cup {None}
           /\ task[t].child \in Pages \cup {None} /\ task[t].len \in Nat
<1>1. task[t] \in TaskType
  BY DEF TypeOK
<1> QED BY <1>1 DEF TaskType

\* A step that hands out free pages to one owner, and takes back only what is
\* no longer kept, leaves every page with one owner.
LEMMA PagesStep ==
    ASSUME PagesExact, NEW New, NEW t0, NEW k0,
           \A x \in New : x \notin used /\ x \in used',
           \A x \in Addr, t \in Pcbs, k \in {"pcb", "dir", "bits"} :
               Holds(t, k, x)' => \/ Holds(t, k, x) /\ x \in used'
                                  \/ t = t0 /\ k = k0 /\ x \in New
    PROVE  PagesExact'
<1> SUFFICES ASSUME NEW x \in Addr, NEW t \in Pcbs, NEW k \in {"pcb", "dir", "bits"},
                    Holds(t, k, x)'
             PROVE  /\ x \in used'
                    /\ \A s \in Pcbs, l \in {"pcb", "dir", "bits"} :
                           Holds(s, l, x)' => s = t /\ l = k
  BY DEF PagesExact
<1>1. \A s \in Pcbs, l \in {"pcb", "dir", "bits"} : Holds(s, l, x) =>
          /\ x \in used
          /\ \A r \in Pcbs, m \in {"pcb", "dir", "bits"} :
                 Holds(r, m, x) => r = s /\ m = l
  BY DEF PagesExact
<1>2. x \in used'
  OBVIOUS
<1>3. ASSUME NEW s \in Pcbs, NEW l \in {"pcb", "dir", "bits"}, Holds(s, l, x)'
      PROVE  s = t /\ l = k
  <2>1. CASE x \in New
    <3>1. ~Holds(s, l, x) /\ ~Holds(t, k, x)
      BY <1>1, <2>1
    <3> QED BY <1>3, <3>1
  <2>2. CASE x \notin New
    <3>1. Holds(s, l, x) /\ Holds(t, k, x)
      BY <1>3, <2>2
    <3> QED BY <1>1, <3>1
  <2> QED BY <2>1, <2>2
<1> QED BY <1>2, <1>3

\* The same for a step that hands out nothing
LEMMA PagesKept ==
    ASSUME PagesExact,
           \A x \in Addr, t \in Pcbs, k \in {"pcb", "dir", "bits"} :
               Holds(t, k, x)' => Holds(t, k, x) /\ x \in used'
    PROVE  PagesExact'
BY DEF PagesExact

\* A step that touches none of what the invariant is about
LEMMA Quiet ==
    ASSUME Inv, TypeOK', all' = all, pids' = pids, used' = used, panic => panic',
           \A t \in Pcbs :
               /\ task'[t].pid = task[t].pid /\ task'[t].ppid = task[t].ppid
               /\ task'[t].status = task[t].status /\ task'[t].at = task[t].at
               /\ task'[t].bits = task[t].bits /\ task'[t].dir = task[t].dir
               /\ task'[t].child = task[t].child
    PROVE  Inv'
<1>1. Listed' = Listed /\ Listed \subseteq Pcbs
  BY DEF Listed
<1>2. Pending' = Pending /\ Alive' = Alive
  BY <1>1 DEF Pending, Alive
<1>3. \A p \in Pcbs : task[p].child # None => task[p].child \in Pcbs
  BY PcbFacts, Ranges DEF Inv
<1>4. Alive \subseteq Pcbs
  BY <1>1, Ranges DEF Alive, Pending
<1>5. HasBits' \subseteq HasBits
  BY <1>1, <1>2 DEF HasBits
<1>6. ForksWhole'
  BY <1>1, <1>3 DEF Inv, Tasks, ForksWhole
<1>7. TasksWhole'
  BY <1>1 DEF Inv, Tasks, TasksWhole
<1>8. InitLives'
  BY <1>1, Ranges DEF Inv, Tasks, InitLives
<1>9. PidsExact'
  BY <1>2, <1>4 DEF Inv, Tasks, PidsExact
<1>10. Parents'
  BY <1>1 DEF Inv, Tasks, Parents
<1>11. NoMissedExit'
  BY <1>1 DEF Inv, Tasks, NoMissedExit, IsInit
<1>12. PagesExact'
  <2>1. \A x \in Addr, t \in Pcbs, k \in {"pcb", "dir", "bits"} :
            Holds(t, k, x)' => Holds(t, k, x) /\ x \in used'
    <3> TAKE x \in Addr, t \in Pcbs, k \in {"pcb", "dir", "bits"}
    <3>1. Holds(t, k, x)' => Holds(t, k, x)
      BY <1>1, <1>2, <1>5 DEF Holds
    <3> QED BY <3>1 DEF Inv, PagesExact
  <2> QED BY <2>1, PagesKept DEF Inv
<1> QED BY <1>6, <1>7, <1>8, <1>9, <1>10, <1>11, <1>12 DEF Inv, Tasks

\* A task that exists has a PCB in a marked page, and a pid of its own.
LEMMA AliveFacts ==
    ASSUME Inv
    PROVE  /\ Listed \subseteq Pcbs /\ Pending \subseteq Pages /\ Alive \subseteq Pcbs
           /\ Listed \subseteq Alive
           /\ \A t \in Alive : t \in Pages => t \in used
           /\ \A t \in Alive : task[t].pid \in pids /\ task[t].pid \in Pids
           /\ \A p \in Pcbs : task[p].child # None =>
                 task[p].child \in Pages /\ task[p].child \in Pcbs
                 /\ task[p].child \in Alive /\ task[p].child \in Pending
           /\ HasBits \subseteq Alive
<1>1. Listed \subseteq Pcbs
  BY DEF Listed
<1>2. \A p \in Pcbs : task[p].child # None =>
          task[p].child \in Pages /\ task[p].child \in Pcbs /\ task[p].child \in Pending
  <2> TAKE p \in Pcbs
  <2> HAVE task[p].child # None
  <2>1. p \in Listed
    BY DEF Inv, Tasks, ForksWhole
  <2> QED BY <2>1, PcbFacts, Ranges DEF Inv, Pending
<1>3. Pending \subseteq Pages
  BY <1>1, <1>2 DEF Pending
<1>4. Alive \subseteq Pcbs /\ Listed \subseteq Alive /\ Pending \subseteq Alive
  BY <1>1, <1>3, Ranges DEF Alive
<1>5. ASSUME NEW t \in Alive, t \in Pages PROVE t \in used
  <2>1. Holds(t, "pcb", t)
    BY <1>5 DEF Holds
  <2> QED BY <1>4, <1>5, <2>1, Ranges DEF Inv, PagesExact
<1>6. \A t \in Alive : task[t].pid \in pids /\ task[t].pid \in Pids
  BY DEF Inv, Tasks, PidsExact, TypeOK
<1>7. HasBits \subseteq Alive
  BY <1>4 DEF HasBits
<1> QED BY <1>1, <1>2, <1>3, <1>4, <1>5, <1>6, <1>7

-----------------------------------------------------------------------------
(* sys_fork *)

\* The PCB of the child is in a new page and has a new pid.
LEMMA ForkPcbInv ==
    ASSUME Inv, NEW p \in Pages, ForkPcb(p)
    PROVE  Inv'
<1>0. TypeOK /\ p \in Pcbs /\ p \in Listed /\ task[p].status = "RUN" /\ task[p].dir # None
      /\ task[p].at = "user" /\ ~panic /\ all' = all /\ ret' = ret /\ forks' \in 0..MaxForks
  <2>1. TypeOK /\ p \in Pcbs /\ ~panic
    BY Ranges DEF Inv, ForkPcb, Proc, Listed
  <2>2. /\ p \in Listed /\ task[p].status = "RUN" /\ task[p].dir # None
        /\ task[p].at = "user" /\ all' = all /\ ret' = ret
    BY <2>1 DEF ForkPcb, Proc, Listed
  <2>3. forks' \in 0..MaxForks
    BY <2>1, ProcessAssumption DEF TypeOK, ForkPcb
  <2> QED BY <2>1, <2>2, <2>3
<1>1. CASE MapFull(used) \/ pids = Pids
  <2>1. panic' = TRUE /\ UNCHANGED <<task, pids, used>>
    BY <1>1 DEF ForkPcb
  <2>2. TypeOK'
    BY <1>0, <2>1 DEF TypeOK
  <2> QED BY <1>0, <2>1, <2>2, Quiet
<1>2. CASE ~(MapFull(used) \/ pids = Pids)
  <2> DEFINE c == Run(1)
             id == FreePid
  <2>1. /\ used' = used \cup {c} /\ pids' = pids \cup {id} /\ panic' = panic
        /\ task' = [task EXCEPT
                  ![p].at = "fork1", ![p].child = c,
                  ![c] = [task[p] EXCEPT !.pid = id, !.ppid = task[p].pid]]
    BY <1>2 DEF ForkPcb
  <2>2. c \in Pages /\ c \notin used /\ c \in Pcbs
    BY <1>2, NewPage, Ranges
  <2>3. id \in Pids /\ id \notin pids
    BY <1>0, <1>2, NewPid DEF TypeOK
  <2> HIDE DEF c, id
  <2>4. c \notin Alive /\ c \notin Listed /\ c # p /\ c # Main /\ c # 0 /\ c # None
    BY <1>0, <2>2, AliveFacts, Ranges DEF Inv, Tasks, InitLives
  <2>5. /\ \A t \in Pcbs : t # p /\ t # c => task'[t] = task[t]
        /\ task'[p] = [task[p] EXCEPT !.at = "fork1", !.child = c]
        /\ task'[c] = [task[p] EXCEPT !.pid = id, !.ppid = task[p].pid]
        /\ task' \in [Pcbs -> TaskType]
    <3>1. task \in [Pcbs -> TaskType]
      BY <1>0 DEF TypeOK
    <3>2. task[p] \in TaskType /\ task[p].pid \in Pids \cup {None}
      BY <1>0, PcbFacts
    <3>3. /\ [task[p] EXCEPT !.at = "fork1", !.child = c] \in TaskType
          /\ [task[p] EXCEPT !.pid = id, !.ppid = task[p].pid] \in TaskType
      <4>1. [task[p] EXCEPT !.at = "fork1", !.child = c] \in TaskType
        BY <2>2, <3>2 DEF TaskType
      <4>2. [task[p] EXCEPT !.pid = id, !.ppid = task[p].pid] \in TaskType
        BY <2>3, <3>2 DEF TaskType
      <4> QED BY <4>1, <4>2
    <3>4. task' = [task EXCEPT ![p] = [task[p] EXCEPT !.at = "fork1", !.child = c],
                     ![c] = [task[p] EXCEPT !.pid = id, !.ppid = task[p].pid]]
      BY <1>0, <2>1, <2>2, <2>4, <3>1, <3>2 DEF TaskType
    <3> QED BY <1>0, <2>2, <2>4, <3>1, <3>3, <3>4
  <2>6. /\ task'[p].pid = task[p].pid /\ task'[p].ppid = task[p].ppid
        /\ task'[p].status = "RUN" /\ task'[p].at = "fork1" /\ task'[p].bits = task[p].bits
        /\ task'[p].dir = task[p].dir /\ task'[p].child = c
        /\ task'[c].pid = id /\ task'[c].ppid = task[p].pid
        /\ task'[c].status = "RUN" /\ task'[c].at = "user" /\ task'[c].bits = task[p].bits
        /\ task'[c].dir = task[p].dir /\ task'[c].child = task[p].child
    <3>1. task[p] \in TaskType
      BY <1>0, PcbFacts
    <3> QED BY <1>0, <2>5, <3>1 DEF TaskType
  <2>7. task[p].child = None /\ task[p].bits # None
    BY <1>0 DEF Inv, Tasks, ForksWhole, TasksWhole
  <2>8. Listed' = Listed /\ Listed \subseteq Pcbs
    BY <1>0 DEF Listed
  <2>a. \A t \in Listed : t # p => task'[t] = task[t]
    BY <2>4, <2>5, <2>8
  <2>9. Pending' = Pending \cup {c} /\ Alive' = Alive \cup {c}
    <3>1. Pending' = {d \in Pages : \E q \in Listed : task'[q].child = d}
      BY <2>8 DEF Pending
    <3>2. \A d \in Pages : d \in Pending' <=> d \in Pending \/ d = c
      <4> TAKE d \in Pages
      <4>1. d \in Pending' <=> \E q \in Listed : task'[q].child = d
        BY <3>1
      <4>2. d \in Pending <=> \E q \in Listed : task[q].child = d
        BY DEF Pending
      <4>3. task[p].child # d
        BY <2>7, Ranges
      <4>4. (\E q \in Listed : task'[q].child = d)
              <=> (\E q \in Listed : task[q].child = d) \/ d = c
        BY <1>0, <2>6, <2>a, <4>3
      <4> QED BY <4>1, <4>2, <4>4
    <3>3. Pending' = Pending \cup {c}
      BY <2>2, <3>1, <3>2 DEF Pending
    <3> QED BY <2>8, <3>3 DEF Alive
  <2>10. HasBits' = HasBits
    <3>1. HasBits' =
            {t \in Listed : task'[t].bits # None /\ task'[t].at # "exit"}
            \cup {t \in Pending' : ~panic' /\ \E q \in Listed :
                                       task'[q].child = t /\ task'[q].at = "fork2"}
      BY <2>8 DEF HasBits
    <3>2. \A t \in Listed : (task'[t].bits # None /\ task'[t].at # "exit")
                             <=> (task[t].bits # None /\ task[t].at # "exit")
      <4> TAKE t \in Listed
      <4>1. CASE t = p
        BY <1>0, <2>6, <4>1
      <4>2. CASE t # p
        BY <2>a, <4>2
      <4> QED BY <4>1, <4>2
    <3>3. \A t : (\E q \in Listed : task'[q].child = t /\ task'[q].at = "fork2")
                 <=> (\E q \in Listed : task[q].child = t /\ task[q].at = "fork2")
      BY <1>0, <2>6, <2>a
    <3>4. \A t : (\E q \in Listed : task[q].child = t /\ task[q].at = "fork2") => t # c
      BY <2>4, <2>8, AliveFacts
    <3>5. {t \in Listed : task'[t].bits # None /\ task'[t].at # "exit"}
             = {t \in Listed : task[t].bits # None /\ task[t].at # "exit"}
      BY <3>2
    <3>6. {t \in Pending' : ~panic' /\ \E q \in Listed :
                                task'[q].child = t /\ task'[q].at = "fork2"}
             = {t \in Pending : ~panic /\ \E q \in Listed :
                                task[q].child = t /\ task[q].at = "fork2"}
      <4>1. ~panic /\ ~panic'
        BY <1>0, <2>1
      <4>2. \A t : (t \in Pending' /\ \E q \in Listed :
                                task'[q].child = t /\ task'[q].at = "fork2")
               <=> (t \in Pending /\ \E q \in Listed :
                                task[q].child = t /\ task[q].at = "fork2")
        BY <2>9, <3>3, <3>4
      <4> QED BY <4>1, <4>2
    <3> QED BY <3>1, <3>5, <3>6 DEF HasBits
  <2>11. TypeOK'
    <3>1. all' \in Seq(Pcbs) /\ NoRepeat(all') /\ ret' \in {0, HANGING}
      BY <1>0 DEF TypeOK
    <3>2. pids' \subseteq Pids /\ used' \subseteq Pages /\ panic' \in BOOLEAN
      BY <1>0, <2>1, <2>2, <2>3 DEF TypeOK
    <3> QED BY <1>0, <2>5, <3>1, <3>2 DEF TypeOK
  <2>12. ForksWhole'
    <3> SUFFICES ASSUME NEW q \in Pcbs
          PROVE  /\ task'[q].child # None <=> task'[q].at \in {"fork1", "fork2"}
                 /\ task'[q].child # None =>
                      /\ q \in Listed' /\ task'[q].status = "RUN" /\ task'[q].dir # None
                      /\ task'[q].child \notin Listed'
                      /\ task'[task'[q].child].at = "user"
                      /\ task'[task'[q].child].status = "RUN"
                      /\ task'[task'[q].child].ppid = task'[q].pid
                      /\ task'[task'[q].child].dir # None
                      /\ task'[task'[q].child].bits # None
                      /\ \A r \in Pcbs : task'[r].child = task'[q].child => r = q
      BY DEF ForksWhole
    <3>1. \A r \in Pcbs : task[r].child # c
      BY <2>4, AliveFacts
    <3>2. CASE q = p
      <4>1. \A r \in Pcbs : task'[r].child = c => r = p
        <5> TAKE r \in Pcbs
        <5>1. r # p /\ r # c => task'[r].child = task[r].child
          BY <2>5
        <5> QED BY <2>4, <2>6, <2>7, <3>1, <5>1
      <4> QED BY <1>0, <2>4, <2>6, <2>7, <2>8, <3>2, <4>1
    <3>3. CASE q = c
      BY <2>6, <2>7, <3>3
    <3>4. CASE q # p /\ q # c
      <4>1. task'[q] = task[q]
        BY <2>5, <3>4
      <4>2. /\ task[q].child # None <=> task[q].at \in {"fork1", "fork2"}
            /\ task[q].child # None =>
                      /\ q \in Listed /\ task[q].status = "RUN" /\ task[q].dir # None
                      /\ task[q].child \notin Listed
                      /\ task[task[q].child].at = "user"
                      /\ task[task[q].child].status = "RUN"
                      /\ task[task[q].child].ppid = task[q].pid
                      /\ task[task[q].child].dir # None
                      /\ task[task[q].child].bits # None
                      /\ \A r \in Pcbs : task[r].child = task[q].child => r = q
        BY DEF Inv, Tasks, ForksWhole
      <4>3. task[q].child # None =>
               task[q].child # p /\ task[q].child # c /\ task[q].child \in Pcbs
        BY <1>0, <4>2, <3>1, AliveFacts
      <4>4. task[q].child # None => task'[task[q].child] = task[task[q].child]
        BY <2>5, <4>3
      <4>5. task[q].child # None => \A r \in Pcbs : task'[r].child = task[q].child => r = q
        <5> SUFFICES ASSUME task[q].child # None, NEW r \in Pcbs,
                            task'[r].child = task[q].child
                     PROVE  r = q
          OBVIOUS
        <5>1. r # p /\ r # c
          BY <2>6, <2>7, <3>1
        <5>2. task'[r].child = task[r].child
          BY <2>5, <5>1
        <5> QED BY <4>2, <5>2
      <4> QED BY <2>8, <4>1, <4>2, <4>4, <4>5
    <3> QED BY <3>2, <3>3, <3>4
  <2>13. \A t \in Listed : /\ task'[t].pid = task[t].pid /\ task'[t].ppid = task[t].ppid
                           /\ task'[t].status = task[t].status
                           /\ task'[t].bits = task[t].bits /\ task'[t].dir = task[t].dir
                           /\ task'[t].at # task[t].at => task'[t].at = "fork1" /\ t = p
    BY <1>0, <2>6, <2>a
  <2>14. TasksWhole'
    BY <1>0, <2>8, <2>13 DEF Inv, Tasks, TasksWhole
  <2>15. InitLives'
    <3>1. 0 \in Listed /\ task'[0].at # "exit" /\ task'[0].pid = 1 /\ task'[0].dir # None
      BY <2>13 DEF Inv, Tasks, InitLives
    <3>2. task'[Main].dir = None
      BY <1>0, <2>4, <2>5, Ranges DEF Inv, Tasks, InitLives
    <3> QED BY <2>8, <3>1, <3>2 DEF InitLives
  <2>16. PidsExact'
    <3>1. \A t \in Alive : task'[t].pid = task[t].pid /\ task[t].pid \in pids
      BY <2>4, <2>5, <2>6, AliveFacts
    <3>2. pids' = {task'[t].pid : t \in Alive'}
      <4>1. pids = {task[t].pid : t \in Alive}
        BY DEF Inv, Tasks, PidsExact
      <4>2. pids = {task'[t].pid : t \in Alive}
        BY <3>1, <4>1
      <4>3. pids' = pids \cup {task'[c].pid} /\ Alive' = Alive \cup {c}
        BY <2>1, <2>6, <2>9
      <4> QED BY <4>2, <4>3
    <3>3. \A s, t \in Alive' : task'[s].pid = task'[t].pid => s = t
      BY <2>3, <2>6, <2>9, <3>1 DEF Inv, Tasks, PidsExact
    <3> QED BY <3>2, <3>3 DEF PidsExact
  <2>17. Parents'
    BY <1>0, <2>8, <2>13 DEF Inv, Tasks, Parents
  <2>18. NoMissedExit'
    BY <2>8, <2>13 DEF Inv, Tasks, NoMissedExit, IsInit
  <2>19. PagesExact'
    <3>1. ASSUME NEW x \in Addr, NEW t \in Pcbs, NEW k \in {"pcb", "dir", "bits"},
                 Holds(t, k, x)'
          PROVE  \/ Holds(t, k, x) /\ x \in used'
                 \/ t = c /\ k = "pcb" /\ x \in {c}
      <4>1. t \in HasBits => task'[t].bits = task[t].bits
        BY <2>4, <2>5, <2>6, AliveFacts
      <4>2. Holds(t, k, x) \/ (t = c /\ k = "pcb" /\ x \in {c})
        BY <2>8, <2>9, <2>10, <2>13, <3>1, <4>1 DEF Holds
      <4>3. Holds(t, k, x) => x \in used
        BY DEF Inv, PagesExact
      <4> QED BY <2>1, <4>2, <4>3
    <3> DEFINE New == {c}
    <3>2. \A x \in New : x \notin used /\ x \in used'
      BY <2>1, <2>2
    <3>3. PagesExact
      BY DEF Inv
    <3> HIDE DEF New
    <3>4. \A x \in Addr, t \in Pcbs, k \in {"pcb", "dir", "bits"} :
              Holds(t, k, x)' => \/ Holds(t, k, x) /\ x \in used'
                                 \/ t = c /\ k = "pcb" /\ x \in New
      BY <3>1 DEF New
    <3> QED BY <3>2, <3>3, <3>4, PagesStep
  <2> QED BY <2>11, <2>12, <2>14, <2>15, <2>16, <2>17, <2>18, <2>19 DEF Inv, Tasks
<1> QED BY <1>1, <1>2

\* The child's bitmap is in new pages.
LEMMA ForkBitmapInv ==
    ASSUME Inv, BitmapFound, NEW p \in Pages, ForkBitmap(p)
    PROVE  Inv'
<1> DEFINE c == task[p].child
           b == IF MapFull(used) THEN task[c].bits ELSE Run(BitmapPages)
           n == IF MapFull(used) THEN task[c].len ELSE task[p].len + 5
           New == IF MapFull(used) THEN {} ELSE Block(Run(BitmapPages), BitmapPages)
<1>0. TypeOK /\ p \in Pcbs /\ task[p].at = "fork1" /\ c # None /\ ~panic
      /\ all' = all /\ pids' = pids /\ ret' = ret /\ forks' = forks
  BY Ranges DEF Inv, ForkBitmap
<1>a. panic' \in BOOLEAN /\ (MapFull(used) => panic')
  <2>1. CASE MapFull(used) \/ Run(BitmapPages) = None
    <3>1. panic' = MapFull(used)
      BY <2>1, Zenon DEF ForkBitmap
    <3>2. MapFull(used) \in BOOLEAN
      BY Zenon DEF MapFull
    <3> QED BY <3>1, <3>2, Zenon
  <2>2. CASE ~(MapFull(used) \/ Run(BitmapPages) = None)
    <3>1. panic' = (task[p].len >= NameLen)
      BY <2>2, Zenon DEF ForkBitmap
    <3> HIDE DEF ForkBitmap
    <3>2. panic' \in BOOLEAN
      BY <3>1
    <3> QED BY <2>2, <3>2, Zenon
  <2> QED BY <2>1, <2>2, Zenon
<1>1. /\ p \in Listed /\ task[p].status = "RUN" /\ task[p].dir # None
      /\ c \notin Listed /\ c \in Pages /\ c \in Pcbs /\ c \in Alive /\ c # p
      /\ task[c].at = "user" /\ task[c].bits # None
      /\ \A q \in Pcbs : task[q].child = c => q = p
  BY <1>0, AliveFacts DEF Inv, Tasks, ForksWhole
<1>2. MapFull(used) \/ Run(BitmapPages) # None
  BY <1>0 DEF BitmapFound
<1>3. b \in Pages /\ b # None
  BY <1>0, <1>1, <1>2, NewBlock, PcbFacts, Ranges
<1>b. n \in Nat
  BY <1>0, <1>1, PcbFacts
<1>4. New \subseteq Pages /\ \A x \in New : x \notin used
  BY <1>2, NewBlock
<1>5. /\ used' = used \cup New
      /\ ~MapFull(used) => New = Block(b, BitmapPages)
      /\ \A t \in Pcbs : t # p /\ t # c => task'[t] = task[t]
      /\ task'[p] = [task[p] EXCEPT !.at = "fork2"]
      /\ task'[c] = [task[c] EXCEPT !.bits = b, !.len = n]
      /\ task' \in [Pcbs -> TaskType]
  <2>1. task \in [Pcbs -> TaskType]
    BY <1>0 DEF TypeOK
  <2>2. task[p] \in TaskType /\ task[c] \in TaskType
    BY <1>0, <1>1, PcbFacts
  <2>3. [task[p] EXCEPT !.at = "fork2"] \in TaskType /\ [task[c] EXCEPT !.bits = b, !.len = n] \in TaskType
    <3> HIDE DEF b, n
    <3> QED BY <1>3, <1>b, <2>2 DEF TaskType
  <2>4. CASE MapFull(used)
    <3>1. task' = [task EXCEPT ![p].at = "fork2"] /\ used' = used
      BY <2>4 DEF ForkBitmap
    <3>2. task[c] = [task[c] EXCEPT !.bits = task[c].bits, !.len = task[c].len]
      BY <2>2 DEF TaskType
    <3>3. b = task[c].bits /\ n = task[c].len /\ New = {}
      BY <2>4
    <3> HIDE DEF b, n, New, c
    <3>4. task'[c] = task[c] /\ task'[p] = [task[p] EXCEPT !.at = "fork2"]
      BY <1>0, <1>1, <2>1, <3>1
    <3>5. task' \in [Pcbs -> TaskType] /\ \A t \in Pcbs : t # p => task'[t] = task[t]
      BY <1>0, <2>1, <2>3, <3>1
    <3> QED BY <2>4, <3>1, <3>2, <3>3, <3>4, <3>5
  <2>5. CASE ~MapFull(used)
    <3>1. /\ task' = [task EXCEPT ![p].at = "fork2", ![c].bits = b, ![c].len = n]
          /\ used' = used \cup Block(b, BitmapPages)
      BY <2>5, <1>2 DEF ForkBitmap
    <3>2. New = Block(b, BitmapPages)
      BY <2>5
    <3> HIDE DEF b, n, New, c
    <3>3. task' = [task EXCEPT ![p] = [task[p] EXCEPT !.at = "fork2"],
                               ![c] = [task[c] EXCEPT !.bits = b, !.len = n]]
      BY <1>0, <1>1, <2>1, <3>1
    <3> QED BY <1>0, <1>1, <2>1, <2>3, <2>5, <3>1, <3>2, <3>3
  <2> QED BY <2>4, <2>5
<1> HIDE DEF b, n, New, c
<1>6. /\ task'[p].pid = task[p].pid /\ task'[p].ppid = task[p].ppid
      /\ task'[p].status = "RUN" /\ task'[p].at = "fork2" /\ task'[p].bits = task[p].bits
      /\ task'[p].dir = task[p].dir /\ task'[p].child = c
      /\ task'[c].pid = task[c].pid /\ task'[c].ppid = task[c].ppid
      /\ task'[c].status = task[c].status /\ task'[c].at = task[c].at /\ task'[c].bits = b
      /\ task'[c].dir = task[c].dir /\ task'[c].child = task[c].child
  <2>1. task[p] \in TaskType /\ task[c] \in TaskType /\ task[p].child = c
    BY <1>0, <1>1, PcbFacts DEF c
  <2> QED BY <1>1, <1>5, <2>1 DEF TaskType
<1>7. Listed' = Listed /\ Listed \subseteq Pcbs
  BY <1>0 DEF Listed
<1>8. \A t \in Pcbs : task'[t].child = task[t].child /\ task'[t].pid = task[t].pid
                      /\ task'[t].ppid = task[t].ppid /\ task'[t].status = task[t].status
                      /\ task'[t].dir = task[t].dir
                      /\ (t # c => task'[t].bits = task[t].bits)
                      /\ (t # p => task'[t].at = task[t].at)
  <2>1. task[p].child = c
    BY DEF c
  <2> TAKE t \in Pcbs
  <2>2. CASE t = p
    BY <1>0, <1>1, <1>6, <2>1, <2>2
  <2>3. CASE t = c
    BY <1>1, <1>6, <2>3
  <2>4. CASE t # p /\ t # c
    BY <1>5, <2>4
  <2> QED BY <2>2, <2>3, <2>4
<1>9. Pending' = Pending /\ Alive' = Alive
  BY <1>7, <1>8 DEF Pending, Alive
<1>10. HasBits' \subseteq HasBits \cup {c} /\ (MapFull(used) => HasBits' \subseteq HasBits)
  <2>1. ASSUME NEW t \in HasBits', t # c PROVE t \in HasBits
    <3>1. CASE t \in Listed /\ task'[t].bits # None /\ task'[t].at # "exit"
      BY <1>0, <1>7, <1>8, <2>1, <3>1 DEF HasBits
    <3>2. CASE t \in Pending /\ \E q \in Listed : task'[q].child = t /\ task'[q].at = "fork2"
      <4>1. PICK q \in Listed : task'[q].child = t /\ task'[q].at = "fork2"
        BY <3>2
      <4>2. q # p
        BY <1>6, <2>1, <4>1
      <4>3. task[q].child = t /\ task[q].at = "fork2"
        BY <1>7, <1>8, <4>1, <4>2
      <4> QED BY <1>0, <3>2, <4>3 DEF HasBits
    <3> QED BY <1>7, <1>9, <2>1, <3>1, <3>2 DEF HasBits
  <2>2. MapFull(used) => c \notin HasBits'
    BY <1>a, <1>1, <1>7 DEF HasBits
  <2> QED BY <2>1, <2>2
<1>11. c \notin HasBits
  BY <1>0, <1>1, <1>7 DEF HasBits
<1>12. TypeOK'
  <2>1. used' \subseteq Pages /\ panic' \in BOOLEAN
    <3>1. used \subseteq Pages
      BY <1>0 DEF TypeOK
    <3> QED BY <1>a, <1>4, <1>5, <3>1
  <2> QED BY <1>0, <1>5, <2>1 DEF TypeOK
<1>13. ForksWhole'
  <2> SUFFICES ASSUME NEW q \in Pcbs
          PROVE  /\ task'[q].child # None <=> task'[q].at \in {"fork1", "fork2"}
                 /\ task'[q].child # None =>
                      /\ q \in Listed' /\ task'[q].status = "RUN" /\ task'[q].dir # None
                      /\ task'[q].child \notin Listed'
                      /\ task'[task'[q].child].at = "user"
                      /\ task'[task'[q].child].status = "RUN"
                      /\ task'[task'[q].child].ppid = task'[q].pid
                      /\ task'[task'[q].child].dir # None
                      /\ task'[task'[q].child].bits # None
                      /\ \A r \in Pcbs : task'[r].child = task'[q].child => r = q
    BY DEF ForksWhole
  <2>1. /\ task[q].child # None <=> task[q].at \in {"fork1", "fork2"}
        /\ task[q].child # None =>
                      /\ q \in Listed /\ task[q].status = "RUN" /\ task[q].dir # None
                      /\ task[q].child \notin Listed
                      /\ task[task[q].child].at = "user"
                      /\ task[task[q].child].status = "RUN"
                      /\ task[task[q].child].ppid = task[q].pid
                      /\ task[task[q].child].dir # None
                      /\ task[task[q].child].bits # None
                      /\ \A r \in Pcbs : task[r].child = task[q].child => r = q
    BY DEF Inv, Tasks, ForksWhole
  <2>2. task'[q].child # None <=> task'[q].at \in {"fork1", "fork2"}
    BY <1>0, <1>6, <1>8, <2>1
  <2>3. task[q].child # None => task[q].child \in Pcbs /\ task[q].child # p
    BY <1>1, <2>1, AliveFacts
  <2>4. task[q].child # None =>
            /\ task'[task[q].child].at = "user" /\ task'[task[q].child].status = "RUN"
            /\ task'[task[q].child].ppid = task[q].pid
            /\ task'[task[q].child].dir # None /\ task'[task[q].child].bits # None
    BY <1>3, <1>6, <1>8, <2>1, <2>3
  <2> QED BY <1>7, <1>8, <2>1, <2>2, <2>4
<1>14. TasksWhole'
  <2>1. \A t \in Listed : /\ task'[t].bits = task[t].bits
                          /\ task'[t].at # task[t].at => t = p
    BY <1>1, <1>7, <1>8
  <2> QED BY <1>1, <1>6, <1>7, <1>8, <2>1 DEF Inv, Tasks, TasksWhole
<1>15. InitLives'
  <2>1. task'[0].at # "exit"
    BY <1>6, <1>8, Ranges DEF Inv, Tasks, InitLives
  <2> QED BY <1>7, <1>8, <2>1, Ranges DEF Inv, Tasks, InitLives
<1>16. PidsExact'
  <2>1. {task'[t].pid : t \in Alive} = {task[t].pid : t \in Alive}
    BY <1>8, AliveFacts
  <2> QED BY <1>0, <1>8, <1>9, <2>1, AliveFacts DEF Inv, Tasks, PidsExact
<1>17. Parents'
  BY <1>6, <1>7, <1>8 DEF Inv, Tasks, Parents
<1>18. NoMissedExit'
  BY <1>7, <1>8 DEF Inv, Tasks, NoMissedExit, IsInit
<1>19. PagesExact'
  <2>1. ASSUME NEW x \in Addr, NEW t \in Pcbs, NEW k \in {"pcb", "dir", "bits"},
               Holds(t, k, x)'
        PROVE  \/ Holds(t, k, x) /\ x \in used'
               \/ t = c /\ k = "bits" /\ x \in New
    <3>1. k # "bits" => Holds(t, k, x)
      BY <1>7, <1>8, <1>9, <2>1 DEF Holds
    <3>2. k = "bits" /\ t # c => Holds(t, k, x)
      BY <1>8, <1>10, <2>1 DEF Holds
    <3>3. k = "bits" /\ t = c => x \in New
      <4> SUFFICES ASSUME k = "bits", t = c PROVE x \in New
        OBVIOUS
      <4>1. c \in HasBits' /\ x \in Block(task'[c].bits, BitmapPages)
        BY <2>1 DEF Holds
      <4>2. ~MapFull(used)
        BY <1>10, <1>11, <4>1
      <4> QED BY <1>5, <1>6, <4>1, <4>2
    <3>4. Holds(t, k, x) => x \in used
      BY DEF Inv, PagesExact
    <3> QED BY <1>5, <3>1, <3>2, <3>3, <3>4
  <2>2. \A x \in New : x \notin used /\ x \in used'
    BY <1>4, <1>5
  <2>3. PagesExact
    BY DEF Inv
  <2>4. \A x \in Addr, t \in Pcbs, k \in {"pcb", "dir", "bits"} :
            Holds(t, k, x)' => \/ Holds(t, k, x) /\ x \in used'
                               \/ t = c /\ k = "bits" /\ x \in New
    BY <2>1
  <2> QED BY <2>2, <2>3, <2>4, PagesStep
<1> QED BY <1>12, <1>13, <1>14, <1>15, <1>16, <1>17, <1>18, <1>19 DEF Inv, Tasks

\* The page directory is in a new page, and the child is listed.
LEMMA ForkDirInv ==
    ASSUME Inv, NEW p \in Pages, ForkDir(p)
    PROVE  Inv'
<1> DEFINE c == task[p].child
           d == Run(1)
<1>0. TypeOK /\ p \in Pcbs /\ task[p].at = "fork2" /\ c # None /\ ~panic
      /\ pids' = pids /\ ret' = ret /\ forks' = forks
  BY Ranges DEF Inv, ForkDir
<1>1. /\ p \in Listed /\ task[p].status = "RUN" /\ task[p].dir # None
      /\ c \notin Listed /\ c \in Pages /\ c \in Pcbs /\ c \in Pending /\ c \in Alive /\ c # p
      /\ task[c].at = "user" /\ task[c].bits # None /\ task[c].status = "RUN"
      /\ task[c].ppid = task[p].pid
      /\ \A q \in Pcbs : task[q].child = c => q = p
  BY <1>0, AliveFacts DEF Inv, Tasks, ForksWhole
<1>2. ~InList(c, all)
  BY <1>1 DEF Listed
<1>3. CASE MapFull(used)
  <2>1. panic' = TRUE /\ UNCHANGED <<task, all, used>>
    BY <1>3 DEF ForkDir
  <2>2. TypeOK'
    BY <1>0, <2>1 DEF TypeOK
  <2> QED BY <1>0, <2>1, <2>2, Quiet
<1>4. CASE ~MapFull(used)
  <2>1. /\ used' = used \cup {d} /\ all' = Append(all, c) /\ panic' = panic
        /\ task' = [task EXCEPT ![p].at = "user", ![p].child = None, ![c].dir = d]
    BY <1>2, <1>4 DEF ForkDir
  <2>2. d \in Pages /\ d \notin used /\ d # None
    BY <1>4, NewPage, Ranges
  <2>c. task[p].child = c
    OBVIOUS
  <2> HIDE DEF c, d
  <2>3. /\ \A t \in Pcbs : t # p /\ t # c => task'[t] = task[t]
        /\ task'[p] = [task[p] EXCEPT !.at = "user", !.child = None]
        /\ task'[c] = [task[c] EXCEPT !.dir = d]
        /\ task' \in [Pcbs -> TaskType]
    <3>1. task \in [Pcbs -> TaskType]
      BY <1>0 DEF TypeOK
    <3>2. task[p] \in TaskType /\ task[c] \in TaskType
      BY <1>0, <1>1, PcbFacts
    <3>a. [task[p] EXCEPT !.at = "user", !.child = None] \in TaskType
      BY <3>2 DEF TaskType
    <3>b. [task[c] EXCEPT !.dir = d] \in TaskType
      BY <2>2, <3>2 DEF TaskType
    <3>3. /\ [task[p] EXCEPT !.at = "user", !.child = None] \in TaskType
          /\ [task[c] EXCEPT !.dir = d] \in TaskType
      BY <3>a, <3>b
    <3>4. task' = [task EXCEPT ![p] = [task[p] EXCEPT !.at = "user", !.child = None],
                               ![c] = [task[c] EXCEPT !.dir = d]]
      BY <1>0, <1>1, <2>1, <3>1, <3>2 DEF TaskType
    <3> QED BY <1>0, <1>1, <3>1, <3>3, <3>4
  <2>4. /\ task'[p].pid = task[p].pid /\ task'[p].ppid = task[p].ppid
        /\ task'[p].status = "RUN" /\ task'[p].at = "user" /\ task'[p].bits = task[p].bits
        /\ task'[p].dir = task[p].dir /\ task'[p].child = None
        /\ task'[c].pid = task[c].pid /\ task'[c].ppid = task[c].ppid
        /\ task'[c].status = "RUN" /\ task'[c].at = "user"
        /\ task'[c].bits = task[c].bits /\ task'[c].dir = d
        /\ task'[c].child = task[c].child
    <3>1. task[p] \in TaskType /\ task[c] \in TaskType
      BY <1>0, <1>1, PcbFacts
    <3> QED BY <1>1, <2>3, <3>1 DEF TaskType
  <2>5. \A t \in Pcbs : task'[t].pid = task[t].pid
                      /\ task'[t].ppid = task[t].ppid /\ task'[t].status = task[t].status
                      /\ (t # c => task'[t].dir = task[t].dir)
                      /\ task'[t].bits = task[t].bits
                      /\ (t # p => task'[t].at = task[t].at /\ task'[t].child = task[t].child)
    <3> TAKE t \in Pcbs
    <3>1. CASE t = p
      BY <1>1, <2>4, <3>1
    <3>2. CASE t = c
      BY <1>1, <2>4, <3>2
    <3>3. CASE t # p /\ t # c
      BY <2>3, <3>3
    <3> QED BY <3>1, <3>2, <3>3
  <2>6. Listed' = Listed \cup {c} /\ Listed \subseteq Pcbs /\ all' \in Seq(Pcbs) /\ NoRepeat(all')
    <3>1. all \in Seq(Pcbs) /\ NoRepeat(all)
      BY <1>0 DEF TypeOK
    <3>2. /\ all' \in Seq(Pcbs) /\ NoRepeat(all')
          /\ \A y : InList(y, all') <=> InList(y, all) \/ y = c
      BY <1>1, <1>2, <2>1, <3>1, AppendFacts
    <3> QED BY <1>1, <3>2 DEF Listed
  <2>7. Pending' = Pending \ {c} /\ Alive' = Alive
    <3>1. Pending' = {x \in Pages : \E q \in Listed' : task'[q].child = x}
      BY DEF Pending
    <3>2. task[c].child = None
      BY <1>1 DEF Inv, Tasks, ForksWhole
    <3>3. ASSUME NEW x \in Pages
          PROVE  (\E q \in Listed' : task'[q].child = x)
                    <=> (\E q \in Listed : task[q].child = x) /\ x # c
      <4>1. x # None
        BY Ranges
      <4>2. ASSUME NEW q \in Listed', task'[q].child = x
            PROVE  q \in Listed /\ task[q].child = x /\ x # c
        <5>1. q # p /\ q # c
          BY <2>4, <3>2, <4>1, <4>2
        <5> QED BY <1>1, <2>5, <2>6, <4>2, <5>1
      <4>3. ASSUME NEW q \in Listed, task[q].child = x, x # c
            PROVE  q \in Listed' /\ task'[q].child = x
        BY <2>5, <2>6, <2>c, <4>3
      <4> QED BY <4>2, <4>3
    <3>4. Pending' = Pending \ {c}
      BY <3>1, <3>3 DEF Pending
    <3> QED BY <1>1, <2>6, <3>4 DEF Alive
  <2>8. HasBits' \subseteq HasBits
    <3> SUFFICES ASSUME NEW t \in HasBits' PROVE t \in HasBits
      OBVIOUS
    <3>1. c \in HasBits
      BY <1>0, <1>1, <2>c DEF HasBits
    <3>2. CASE t \in Listed /\ task'[t].bits # None /\ task'[t].at # "exit"
      BY <1>0, <2>5, <2>6, <3>2 DEF HasBits
    <3>3. CASE t \in Pending' /\ \E q \in Listed' : task'[q].child = t /\ task'[q].at = "fork2"
      <4>1. PICK q \in Listed' : task'[q].child = t /\ task'[q].at = "fork2"
        BY <3>3
      <4>2. q # p /\ q # c
        BY <2>4, <4>1
      <4> QED BY <1>0, <2>5, <2>6, <2>7, <3>3, <4>1, <4>2 DEF HasBits
    <3> QED BY <2>6, <3>1, <3>2, <3>3 DEF HasBits
  <2>9. TypeOK'
    <3>1. used' \subseteq Pages /\ panic' \in BOOLEAN
      BY <1>0, <2>1, <2>2 DEF TypeOK
    <3> QED BY <1>0, <2>3, <2>6, <3>1 DEF TypeOK
  <2>10. ForksWhole'
    <3> SUFFICES ASSUME NEW q \in Pcbs
          PROVE  /\ task'[q].child # None <=> task'[q].at \in {"fork1", "fork2"}
                 /\ task'[q].child # None =>
                      /\ q \in Listed' /\ task'[q].status = "RUN" /\ task'[q].dir # None
                      /\ task'[q].child \notin Listed'
                      /\ task'[task'[q].child].at = "user"
                      /\ task'[task'[q].child].status = "RUN"
                      /\ task'[task'[q].child].ppid = task'[q].pid
                      /\ task'[task'[q].child].dir # None
                      /\ task'[task'[q].child].bits # None
                      /\ \A r \in Pcbs : task'[r].child = task'[q].child => r = q
      BY DEF ForksWhole
    <3>1. /\ task[q].child # None <=> task[q].at \in {"fork1", "fork2"}
          /\ task[q].child # None =>
                      /\ q \in Listed /\ task[q].status = "RUN" /\ task[q].dir # None
                      /\ task[q].child \notin Listed
                      /\ task[task[q].child].at = "user"
                      /\ task[task[q].child].status = "RUN"
                      /\ task[task[q].child].ppid = task[q].pid
                      /\ task[task[q].child].dir # None
                      /\ task[task[q].child].bits # None
                      /\ \A r \in Pcbs : task[r].child = task[q].child => r = q
      BY DEF Inv, Tasks, ForksWhole
    <3>2. CASE q = p
      BY <2>4, <3>2
    <3>3. CASE q # p
      <4>1. task'[q].child = task[q].child /\ task'[q].at = task[q].at
        BY <2>5, <3>3
      <4>2. CASE task[q].child # None
        <5>1. /\ task[q].child # c /\ task[q].child \in Pcbs /\ task[q].child # p
              /\ q # c
          BY <1>1, <3>1, <3>3, <4>2, AliveFacts
        <5>2. \A r \in Pcbs : task'[r].child = task[q].child => r = q
          <6> TAKE r \in Pcbs
          <6>1. r = p => task'[r].child = None
            BY <2>4
          <6>2. r # p => task'[r].child = task[r].child
            BY <2>5
          <6> QED BY <3>1, <4>2, <6>1, <6>2
        <5>3. /\ task'[task[q].child].at = "user" /\ task'[task[q].child].status = "RUN"
              /\ task'[task[q].child].ppid = task[q].pid
              /\ task'[task[q].child].dir # None /\ task'[task[q].child].bits # None
          BY <2>5, <3>1, <4>2, <5>1
        <5>4. task'[q].status = "RUN" /\ task'[q].dir # None /\ task'[q].pid = task[q].pid
          BY <2>5, <3>1, <4>2, <5>1
        <5> QED BY <2>6, <3>1, <4>1, <4>2, <5>1, <5>2, <5>3, <5>4
      <4> QED BY <3>1, <4>1, <4>2
    <3> QED BY <3>2, <3>3
  <2>11. TasksWhole'
    <3>1. ASSUME NEW t \in Listed'
          PROVE  /\ task'[t].pid \in Pids
                 /\ task'[t].dir # None <=> task'[t].bits # None
                 /\ task'[t].at # "user" => task'[t].dir # None
                 /\ task'[t].dir = None => task'[t].ppid = None
                 /\ task'[t].dir # None /\ task'[t].ppid = None => task'[t].pid = 1
                 /\ task'[t].status = "HANGING" => task'[t].at = "exit"
                 /\ task'[t].status = "WAITING" => task'[t].at = "wait"
      <4>1. CASE t = c
        <5>1. task[c].pid \in Pids /\ task[p].pid \in Pids
          BY <1>1, AliveFacts
        <5>2. task[p].pid # None
          BY <5>1, ProcessAssumption, Ranges DEF Pids
        <5> QED BY <1>1, <2>2, <2>4, <4>1, <5>1, <5>2
      <4>2. CASE t # c
        <5>1. t \in Listed
          BY <2>6, <4>2
        <5>2. CASE t = p
          BY <1>1, <2>4, <5>1, <5>2 DEF Inv, Tasks, TasksWhole
        <5>3. CASE t # p
          BY <2>5, <2>6, <4>2, <5>1, <5>3 DEF Inv, Tasks, TasksWhole
        <5> QED BY <5>2, <5>3
      <4> QED BY <4>1, <4>2
    <3> QED BY <3>1 DEF TasksWhole
  <2>12. InitLives'
    <3>1. 0 \in Listed /\ 0 # c /\ Main # c /\ 0 \in Pcbs /\ Main \in Pcbs
      BY <1>1, Ranges DEF Inv, Tasks, InitLives
    <3>2. task'[0].at # "exit"
      BY <2>4, <2>5, <3>1 DEF Inv, Tasks, InitLives
    <3> QED BY <2>5, <2>6, <3>1, <3>2 DEF Inv, Tasks, InitLives
  <2>13. PidsExact'
    <3>1. {task'[t].pid : t \in Alive} = {task[t].pid : t \in Alive}
      BY <2>5, AliveFacts
    <3> QED BY <1>0, <2>5, <2>7, <3>1, AliveFacts DEF Inv, Tasks, PidsExact
  <2>14. Parents'
    <3> SUFFICES ASSUME NEW t \in Listed', task'[t].ppid # None
                 PROVE  \E q \in Listed' : /\ task'[q].pid = task'[t].ppid
                                           /\ task'[q].at # "exit" /\ task'[q].dir # None
      BY DEF Parents
    <3>1. CASE t = c
      BY <1>1, <2>4, <2>6, <3>1
    <3>2. CASE t # c
      <4>1. t \in Listed /\ task'[t].ppid = task[t].ppid
        BY <2>5, <2>6, <3>2
      <4>2. PICK q \in Listed : /\ task[q].pid = task[t].ppid
                                /\ task[q].at # "exit" /\ task[q].dir # None
        BY <4>1 DEF Inv, Tasks, Parents
      <4>3. task'[q].at # "exit" /\ task'[q].dir # None /\ task'[q].pid = task[q].pid
        BY <1>1, <2>4, <2>5, <2>6, <4>2
      <4> QED BY <2>6, <4>1, <4>2, <4>3
    <3> QED BY <3>1, <3>2
  <2>15. NoMissedExit'
    <3> SUFFICES ASSUME NEW q \in Listed', task'[q].status = "WAITING"
                 PROVE  /\ \E r \in Listed' : task'[r].ppid = task'[q].pid
                        /\ ~IsInit(q)' => \A r \in Listed' :
                              task'[r].ppid = task'[q].pid => task'[r].status # "HANGING"
      BY DEF NoMissedExit
    <3>1. q \in Listed /\ task[q].status = "WAITING"
      BY <1>1, <2>4, <2>5, <2>6
    <3>2. /\ \E r \in Listed : task[r].ppid = task[q].pid
          /\ ~IsInit(q) => \A r \in Listed :
                              task[r].ppid = task[q].pid => task[r].status # "HANGING"
      BY <3>1 DEF Inv, Tasks, NoMissedExit
    <3>3. IsInit(q)' <=> IsInit(q)
      BY <2>5, <2>6, <3>1 DEF IsInit
    <3>4. \A r \in Listed : task'[r].ppid = task[r].ppid /\ task'[r].status = task[r].status
      BY <2>5, <2>6
    <3>5. task'[q].pid = task[q].pid
      BY <2>5, <2>6, <3>1
    <3> QED BY <2>4, <2>6, <3>2, <3>3, <3>4, <3>5
  <2>16. PagesExact'
    <3> DEFINE New == {d}
    <3>1. ASSUME NEW x \in Addr, NEW t \in Pcbs, NEW k \in {"pcb", "dir", "bits"},
                 Holds(t, k, x)'
          PROVE  \/ Holds(t, k, x) /\ x \in used'
                 \/ t = c /\ k = "dir" /\ x \in New
      <4>1. k = "pcb" \/ k = "bits" => Holds(t, k, x)
        BY <2>5, <2>7, <2>8, <3>1 DEF Holds
      <4>2. k = "dir" => Holds(t, k, x) \/ (t = c /\ x \in New)
        BY <2>4, <2>5, <2>6, <3>1 DEF Holds
      <4>3. Holds(t, k, x) => x \in used
        BY DEF Inv, PagesExact
      <4> QED BY <2>1, <4>1, <4>2, <4>3
    <3>2. \A x \in New : x \notin used /\ x \in used'
      BY <2>1, <2>2
    <3>3. PagesExact
      BY DEF Inv
    <3> HIDE DEF New
    <3> QED BY <3>1, <3>2, <3>3, PagesStep
  <2> QED BY <2>9, <2>10, <2>11, <2>12, <2>13, <2>14, <2>15, <2>16 DEF Inv, Tasks
<1> QED BY <1>3, <1>4

-----------------------------------------------------------------------------
(* sys_exec, sys_exit, sys_wait and thread_exit *)

(* sys_exec: only the name of the task changes. *)
LEMMA ExecInv ==
    ASSUME Inv, NEW p \in Pages, Exec(p)
    PROVE  Inv'
<1>0. /\ TypeOK /\ p \in Pcbs /\ task' = [task EXCEPT ![p].len = 4]
      /\ UNCHANGED <<all, pids, used, ret, forks, panic>>
  BY Ranges DEF Inv, Exec
<1>1. task \in [Pcbs -> TaskType] /\ task[p] \in TaskType
  BY <1>0 DEF TypeOK
<1>2. [task[p] EXCEPT !.len = 4] \in TaskType
  BY <1>1 DEF TaskType
<1>3. /\ task' \in [Pcbs -> TaskType] /\ task'[p] = [task[p] EXCEPT !.len = 4]
      /\ \A t \in Pcbs : t # p => task'[t] = task[t]
  BY <1>0, <1>1, <1>2
<1>4. TypeOK'
  BY <1>0, <1>3 DEF TypeOK
<1>5. ASSUME NEW t \in Pcbs
      PROVE  /\ task'[t].pid = task[t].pid /\ task'[t].ppid = task[t].ppid
             /\ task'[t].status = task[t].status /\ task'[t].at = task[t].at
             /\ task'[t].bits = task[t].bits /\ task'[t].dir = task[t].dir
             /\ task'[t].child = task[t].child
  <2>1. CASE t = p
    BY <1>1, <1>3, <2>1 DEF TaskType
  <2>2. CASE t # p
    BY <1>3, <2>2
  <2> QED BY <2>1, <2>2
<1> QED BY <1>0, <1>4, <1>5, Quiet

\* A step that changes the status of listed tasks, or turns between user mode
\* and sys_wait
LEMMA StatusStep ==
    ASSUME Inv, TypeOK', NoMissedExit',
           all' = all, pids' = pids, used' = used, panic' = panic,
           \A t \in Pcbs :
               /\ task'[t].pid = task[t].pid /\ task'[t].ppid = task[t].ppid
               /\ task'[t].bits = task[t].bits /\ task'[t].dir = task[t].dir
               /\ task'[t].child = task[t].child,
           \A t \in Pcbs : \/ task'[t].at = task[t].at
                           \/ /\ t \in Listed /\ task[t].dir # None
                              /\ task[t].at \in {"user", "wait"}
                              /\ task'[t].at \in {"user", "wait"},
           \A t \in Pcbs : \/ task'[t].status = task[t].status
                           \/ t \in Listed /\ task[t].child = None,
           \A t \in Listed : /\ task'[t].status = "HANGING" => task'[t].at = "exit"
                             /\ task'[t].status = "WAITING" => task'[t].at = "wait"
    PROVE  Inv'
<1>1. Listed' = Listed /\ Listed \subseteq Pcbs
  BY DEF Listed
<1>2. Pending' = Pending /\ Alive' = Alive
  BY <1>1 DEF Pending, Alive
<1>3. \A t \in Pcbs : task'[t].at = "fork2" => task[t].at = "fork2"
  OBVIOUS
<1>4. \A t \in Pcbs : task'[t].at = "exit" <=> task[t].at = "exit"
  OBVIOUS
<1>5. HasBits' \subseteq HasBits
  BY <1>1, <1>2, <1>3, <1>4 DEF HasBits
<1>6. ForksWhole'
  <2> SUFFICES ASSUME NEW q \in Pcbs
          PROVE  /\ task'[q].child # None <=> task'[q].at \in {"fork1", "fork2"}
                 /\ task'[q].child # None =>
                      /\ q \in Listed' /\ task'[q].status = "RUN" /\ task'[q].dir # None
                      /\ task'[q].child \notin Listed'
                      /\ task'[task'[q].child].at = "user"
                      /\ task'[task'[q].child].status = "RUN"
                      /\ task'[task'[q].child].ppid = task'[q].pid
                      /\ task'[task'[q].child].dir # None
                      /\ task'[task'[q].child].bits # None
                      /\ \A r \in Pcbs : task'[r].child = task'[q].child => r = q
    BY DEF ForksWhole
  <2>1. /\ task[q].child # None <=> task[q].at \in {"fork1", "fork2"}
        /\ task[q].child # None =>
                      /\ q \in Listed /\ task[q].status = "RUN" /\ task[q].dir # None
                      /\ task[q].child \notin Listed
                      /\ task[task[q].child].at = "user"
                      /\ task[task[q].child].status = "RUN"
                      /\ task[task[q].child].ppid = task[q].pid
                      /\ task[task[q].child].dir # None
                      /\ task[task[q].child].bits # None
                      /\ \A r \in Pcbs : task[r].child = task[q].child => r = q
    BY DEF Inv, Tasks, ForksWhole
  <2>2. task'[q].child # None <=> task'[q].at \in {"fork1", "fork2"}
    BY <2>1
  <2>3. CASE task[q].child # None
    <3> DEFINE c == task[q].child
    <3>1. c \in Pcbs /\ c \notin Listed
      BY <2>1, <2>3, AliveFacts
    <3>2. task'[c].at = task[c].at /\ task'[c].status = task[c].status
      BY <3>1
    <3>3. task'[q].status = "RUN"
      BY <2>1, <2>3
    <3> QED BY <1>1, <2>1, <2>2, <2>3, <3>1, <3>2, <3>3
  <2> QED BY <2>2, <2>3
<1>7. TasksWhole'
  <2> SUFFICES ASSUME NEW t \in Listed
          PROVE  /\ task'[t].pid \in Pids
                 /\ task'[t].dir # None <=> task'[t].bits # None
                 /\ task'[t].at # "user" => task'[t].dir # None
                 /\ task'[t].dir = None => task'[t].ppid = None
                 /\ task'[t].dir # None /\ task'[t].ppid = None => task'[t].pid = 1
    BY <1>1 DEF TasksWhole
  <2> QED BY <1>1 DEF Inv, Tasks, TasksWhole
<1>8. InitLives'
  BY <1>1, <1>4, Ranges DEF Inv, Tasks, InitLives
<1>9. PidsExact'
  <2>1. {task'[t].pid : t \in Alive} = {task[t].pid : t \in Alive}
    BY AliveFacts
  <2> QED BY <1>2, <2>1, AliveFacts DEF Inv, Tasks, PidsExact
<1>10. Parents'
  BY <1>1, <1>4 DEF Inv, Tasks, Parents
<1>11. PagesExact'
  <2>1. ASSUME NEW x \in Addr, NEW t \in Pcbs, NEW k \in {"pcb", "dir", "bits"},
               Holds(t, k, x)'
        PROVE  Holds(t, k, x) /\ x \in used'
    <3>1. Holds(t, k, x)
      BY <1>1, <1>2, <1>5, <2>1 DEF Holds
    <3> QED BY <3>1 DEF Inv, PagesExact
  <2> QED BY <2>1, PagesKept DEF Inv
<1> QED BY <1>6, <1>7, <1>8, <1>9, <1>10, <1>11 DEF Inv, Tasks

\* A step after which one task is gone: dead and collected, or the boot thread
LEMMA TaskGone ==
    ASSUME Inv, TypeOK', NEW c \in Listed, c # 0, task[c].child = None,
           task[c].at = "exit" \/ task[c].dir = None,
           \A q \in Listed : task[q].status = "WAITING" => task[c].ppid # task[q].pid,
           \A t \in Pcbs : t # c =>
               /\ task'[t].pid = task[t].pid /\ task'[t].ppid = task[t].ppid
               /\ task'[t].bits = task[t].bits /\ task'[t].dir = task[t].dir
               /\ task'[t].child = task[t].child /\ task'[t].status = task[t].status
               /\ \/ task'[t].at = task[t].at
                  \/ /\ t \in Listed /\ task[t].status # "WAITING"
                     /\ task[t].at = "wait" /\ task'[t].at = "user",
           task'[c] = Empty, all' = list_remove(c, all), pids' = pids \ {task[c].pid},
           panic' = panic, used' \subseteq used, used \ used' \subseteq {c, task[c].dir}
    PROVE  Inv'
<1>0. TypeOK /\ c \in Pcbs /\ task'[c].child = None /\ task'[c].at = "user" /\ task'[c].dir = None
  BY DEF Inv, Listed, Empty
<1>1. Listed' = Listed \ {c} /\ Listed \subseteq Pcbs
  <2>1. all \in Seq(Pcbs) /\ NoRepeat(all) /\ InList(c, all)
    BY <1>0 DEF TypeOK, Listed
  <2>2. \A y : InList(y, list_remove(c, all)) <=> InList(y, all) /\ y # c
    BY <2>1, RemoveFacts
  <2> QED BY <2>2 DEF Listed
<1>2. c \notin Pending
  BY <1>1, Ranges DEF Pending, Inv, Tasks, ForksWhole
<1>3. Pending' = Pending /\ Alive' = Alive \ {c}
  <2>1. Pending' = {x \in Pages : \E q \in Listed \ {c} : task'[q].child = x}
    BY <1>1 DEF Pending
  <2>2. ASSUME NEW x \in Pages
        PROVE  (\E q \in Listed \ {c} : task'[q].child = x)
                  <=> (\E q \in Listed : task[q].child = x)
    BY <1>1, <2>2, Ranges
  <2>3. Pending' = Pending
    BY <2>1, <2>2 DEF Pending
  <2> QED BY <1>1, <1>2, <2>3 DEF Alive
<1>4. HasBits' \subseteq HasBits /\ c \notin HasBits'
  BY <1>0, <1>1, <1>2, <1>3 DEF HasBits
<1>5. ForksWhole'
  <2> SUFFICES ASSUME NEW q \in Pcbs
          PROVE  /\ task'[q].child # None <=> task'[q].at \in {"fork1", "fork2"}
                 /\ task'[q].child # None =>
                      /\ q \in Listed' /\ task'[q].status = "RUN" /\ task'[q].dir # None
                      /\ task'[q].child \notin Listed'
                      /\ task'[task'[q].child].at = "user"
                      /\ task'[task'[q].child].status = "RUN"
                      /\ task'[task'[q].child].ppid = task'[q].pid
                      /\ task'[task'[q].child].dir # None
                      /\ task'[task'[q].child].bits # None
                      /\ \A r \in Pcbs : task'[r].child = task'[q].child => r = q
    BY DEF ForksWhole
  <2>1. /\ task[q].child # None <=> task[q].at \in {"fork1", "fork2"}
        /\ task[q].child # None =>
                      /\ q \in Listed /\ task[q].status = "RUN" /\ task[q].dir # None
                      /\ task[q].child \notin Listed
                      /\ task[task[q].child].at = "user"
                      /\ task[task[q].child].status = "RUN"
                      /\ task[task[q].child].ppid = task[q].pid
                      /\ task[task[q].child].dir # None
                      /\ task[task[q].child].bits # None
                      /\ \A r \in Pcbs : task[r].child = task[q].child => r = q
    BY DEF Inv, Tasks, ForksWhole
  <2>2. CASE q = c
    BY <1>0, <2>2
  <2>3. CASE q # c
    <3>1. task'[q].child # None <=> task'[q].at \in {"fork1", "fork2"}
      BY <2>1, <2>3
    <3>2. CASE task[q].child # None
      <4> DEFINE d == task[q].child
      <4>1. d \in Pcbs /\ d \notin Listed /\ d # c
        BY <2>1, <3>2, AliveFacts
      <4>2. /\ task'[d].at = "user" /\ task'[d].status = "RUN"
            /\ task'[d].ppid = task[q].pid /\ task'[d].dir # None /\ task'[d].bits # None
        BY <2>1, <3>2, <4>1
      <4>3. ASSUME NEW r \in Pcbs, task'[r].child = d PROVE r = q
        <5>1. r # c
          BY <1>0, <3>2, <4>3
        <5> QED BY <2>1, <3>2, <4>3, <5>1
      <4> QED BY <1>1, <2>1, <2>3, <3>1, <3>2, <4>1, <4>2, <4>3
    <3> QED BY <2>3, <3>1, <3>2
  <2> QED BY <2>2, <2>3
<1>6. TasksWhole'
  <2>1. ASSUME NEW t \in Listed, t # c
          PROVE  /\ task'[t].pid \in Pids
                 /\ task'[t].dir # None <=> task'[t].bits # None
                 /\ task'[t].at # "user" => task'[t].dir # None
                 /\ task'[t].dir = None => task'[t].ppid = None
                 /\ task'[t].dir # None /\ task'[t].ppid = None => task'[t].pid = 1
                 /\ task'[t].status = "HANGING" => task'[t].at = "exit"
                 /\ task'[t].status = "WAITING" => task'[t].at = "wait"
    BY <1>1, <2>1 DEF Inv, Tasks, TasksWhole
  <2> QED BY <1>1, <2>1 DEF TasksWhole
<1>7. InitLives'
  <2>1. 0 \in Listed' /\ task'[0].pid = 1 /\ task'[0].dir # None /\ task'[0].at # "exit"
    BY <1>1, Ranges DEF Inv, Tasks, InitLives
  <2>2. task'[Main].dir = None
    BY <1>0, Ranges DEF Inv, Tasks, InitLives
  <2> QED BY <2>1, <2>2 DEF InitLives
<1>8. PidsExact'
  <2>1. /\ \A s, t \in Alive : task[s].pid = task[t].pid => s = t
        /\ pids = {task[t].pid : t \in Alive} /\ c \in Alive
    BY AliveFacts DEF Inv, Tasks, PidsExact
  <2>2. \A t \in Alive \ {c} : task'[t].pid = task[t].pid
    BY AliveFacts
  <2>3. {task'[t].pid : t \in Alive \ {c}} = {task[t].pid : t \in Alive \ {c}}
    BY <2>2
  <2>4. {task[t].pid : t \in Alive \ {c}} = {task[t].pid : t \in Alive} \ {task[c].pid}
    BY <2>1
  <2>5. pids' = {task'[t].pid : t \in Alive'}
    BY <1>3, <2>1, <2>3, <2>4
  <2> QED BY <1>3, <2>1, <2>2, <2>5 DEF PidsExact
<1>9. Parents'
  <2> SUFFICES ASSUME NEW t \in Listed, t # c, task'[t].ppid # None
               PROVE  \E q \in Listed \ {c} : /\ task'[q].pid = task'[t].ppid
                                              /\ task'[q].at # "exit" /\ task'[q].dir # None
    BY <1>1 DEF Parents
  <2>1. PICK q \in Listed : /\ task[q].pid = task[t].ppid
                            /\ task[q].at # "exit" /\ task[q].dir # None
    BY <1>1 DEF Inv, Tasks, Parents
  <2>2. q # c
    BY <2>1
  <2> QED BY <1>1, <2>1, <2>2
<1>10. NoMissedExit'
  <2> SUFFICES ASSUME NEW q \in Listed, q # c, task'[q].status = "WAITING"
                 PROVE  /\ \E r \in Listed \ {c} : task'[r].ppid = task'[q].pid
                        /\ ~IsInit(q)' => \A r \in Listed \ {c} :
                              task'[r].ppid = task'[q].pid => task'[r].status # "HANGING"
    BY <1>1 DEF NoMissedExit
  <2>1. task[q].status = "WAITING" /\ task'[q].pid = task[q].pid
    BY <1>1
  <2>2. /\ \E r \in Listed : task[r].ppid = task[q].pid
        /\ ~IsInit(q) => \A r \in Listed :
                            task[r].ppid = task[q].pid => task[r].status # "HANGING"
    BY <2>1 DEF Inv, Tasks, NoMissedExit
  <2>3. IsInit(q)' <=> IsInit(q)
    BY <2>1 DEF IsInit
  <2>4. task[c].ppid # task[q].pid
    BY <2>1
  <2>5. \A r \in Listed \ {c} : task'[r].ppid = task[r].ppid /\ task'[r].status = task[r].status
    BY <1>1
  <2> QED BY <2>1, <2>2, <2>3, <2>4, <2>5
<1>11. PagesExact'
  <2>1. ASSUME NEW x \in Addr, NEW t \in Pcbs, NEW k \in {"pcb", "dir", "bits"},
               Holds(t, k, x)'
        PROVE  Holds(t, k, x) /\ x \in used'
    <3>1. t # c
      BY <1>1, <1>3, <1>4, <2>1 DEF Holds
    <3>2. Holds(t, k, x)
      BY <1>1, <1>3, <1>4, <2>1, <3>1 DEF Holds
    <3>3. x \in used /\ \A s \in Pcbs, l \in {"pcb", "dir", "bits"} :
               Holds(s, l, x) => s = t /\ l = k
      BY <3>2 DEF Inv, PagesExact
    <3>4. x # c /\ x # task[c].dir
      <4>0. x \in Pages
        BY <1>0, <3>3 DEF TypeOK
      <4>1. x = c => Holds(c, "pcb", x)
        BY <4>0, AliveFacts DEF Holds
      <4>2. x = task[c].dir => Holds(c, "dir", x)
        BY DEF Holds
      <4> QED BY <1>0, <3>1, <3>3, <4>1, <4>2
    <3> QED BY <3>2, <3>3, <3>4
  <2> QED BY <2>1, PagesKept DEF Inv
<1> QED BY <1>5, <1>6, <1>7, <1>8, <1>9, <1>10, <1>11 DEF Inv, Tasks

\* A process that is not init has a parent, in thread_all_list and not dead.
LEMMA HasParent ==
    ASSUME Inv, NEW p \in Listed, task[p].dir # None, task[p].pid # 1
    PROVE  /\ task[p].ppid # None /\ task[p].ppid \in Pids
           /\ pid2thread(task[p].ppid) \in Listed
           /\ task[pid2thread(task[p].ppid)].pid = task[p].ppid
           /\ task[pid2thread(task[p].ppid)].at # "exit"
<1>1. p \in Pcbs /\ TypeOK
  BY DEF Listed, Inv
<1>2. task[p].ppid # None
  BY DEF Inv, Tasks, TasksWhole
<1>3. task[p].ppid \in Pids
  BY <1>1, <1>2, PcbFacts
<1>4. PICK q \in Listed : task[q].pid = task[p].ppid /\ task[q].at # "exit"
  BY <1>2 DEF Inv, Tasks, Parents
<1> DEFINE r == pid2thread(task[p].ppid)
<1>5. r \in Listed /\ task[r].pid = task[p].ppid
  BY <1>1, <1>4, Searches
<1>6. r = q
  BY <1>4, <1>5, AliveFacts DEF Inv, Tasks, PidsExact
<1> QED BY <1>2, <1>3, <1>4, <1>5, <1>6

\* The children go to init, the bitmap is given back, and nothing fails.
LEMMA ExitBeginInv ==
    ASSUME Inv, NEW p \in Pages, NEW code \in ExitCodes, ExitBegin(p, code)
    PROVE  Inv' /\ panic' = FALSE
<1> DEFINE id == task[p].pid
           adopted(t) == t \in Listed /\ task[t].ppid = id
<1>0. /\ TypeOK /\ p \in Pcbs /\ p \in Listed /\ task[p].status = "RUN" /\ task[p].dir # None
      /\ task[p].at = "user" /\ id # 1 /\ panic = FALSE
      /\ task' = [Adopt(id) EXCEPT ![p].at = "exit", ![p].code = code]
      /\ used' = used \ Block(task[p].bits, FreedPages)
      /\ panic' = (task[p].ppid = None)
      /\ UNCHANGED <<all, pids, ret, forks>>
  BY Ranges DEF Inv, TypeOK, ExitBegin, Proc, Listed, IsInit
<1>1. panic' = FALSE
  BY <1>0, HasParent
<1>2. id \in Pids /\ id # None /\ 1 \in Pids /\ 0 # p /\ code \in Int
  <2>1. id \in Pids
    BY <1>0, AliveFacts
  <2>2. id # None /\ 1 \in Pids
    BY <2>1, ProcessAssumption, Ranges DEF Pids
  <2> QED BY <1>0, <2>1, <2>2, ProcessAssumption DEF Inv, Tasks, InitLives
<1>3. task[p].bits # None /\ task[p].child = None
  BY <1>0 DEF Inv, Tasks, TasksWhole, ForksWhole
<1>4. /\ Adopt(id) \in [Pcbs -> TaskType]
      /\ \A t \in Pcbs : Adopt(id)[t] = IF adopted(t) THEN [task[t] EXCEPT !.ppid = 1] ELSE task[t]
  <2>1. \A t \in Pcbs : adopted(t) <=> InList(t, all) /\ task[t].ppid = id
    BY DEF Listed
  <2>2. \A t \in Pcbs : [task[t] EXCEPT !.ppid = 1] \in TaskType /\ task[t] \in TaskType
    BY <1>0, <1>2, PcbFacts DEF TaskType
  <2> HIDE DEF id, adopted
  <2> QED BY <2>1, <2>2 DEF Adopt
<1>5. /\ task' \in [Pcbs -> TaskType]
      /\ \A t \in Pcbs : t # p => task'[t] = Adopt(id)[t]
      /\ task'[p] = [Adopt(id)[p] EXCEPT !.at = "exit", !.code = code]
  <2>1. Adopt(id)[p] \in TaskType
    BY <1>0, <1>4
  <2>2. [Adopt(id)[p] EXCEPT !.at = "exit", !.code = code] \in TaskType
    BY <1>2, <2>1 DEF TaskType
  <2> HIDE DEF id
  <2> QED BY <1>0, <1>4, <2>1, <2>2
<1>6. ASSUME NEW t \in Pcbs
      PROVE  /\ task'[t].pid = task[t].pid /\ task'[t].status = task[t].status
             /\ task'[t].bits = task[t].bits /\ task'[t].dir = task[t].dir
             /\ task'[t].child = task[t].child
             /\ task'[t].ppid = IF adopted(t) THEN 1 ELSE task[t].ppid
             /\ task'[t].at = IF t = p THEN "exit" ELSE task[t].at
  <2>0. task[t] \in TaskType /\ task[p] \in TaskType
    BY <1>0, PcbFacts
  <2> DEFINE a == Adopt(id)[t]
  <2>1. /\ a.pid = task[t].pid /\ a.status = task[t].status
        /\ a.bits = task[t].bits /\ a.dir = task[t].dir
        /\ a.child = task[t].child /\ a.at = task[t].at /\ a \in TaskType
        /\ a.ppid = IF adopted(t) THEN 1 ELSE task[t].ppid
    <3>1. a = IF adopted(t) THEN [task[t] EXCEPT !.ppid = 1] ELSE task[t]
      BY <1>4
    <3>2. a \in TaskType
      BY <1>4
    <3> HIDE DEF id, a, adopted
    <3> QED BY <2>0, <3>1, <3>2 DEF TaskType
  <2>2. CASE t = p
    <3>1. task'[t] = [a EXCEPT !.at = "exit", !.code = code]
      BY <1>5, <2>2
    <3> HIDE DEF id, a, adopted
    <3> QED BY <2>1, <2>2, <3>1 DEF TaskType
  <2>3. CASE t # p
    BY <1>5, <2>1, <2>3
  <2> QED BY <2>2, <2>3
<1>7. Listed' = Listed /\ Listed \subseteq Pcbs
  BY <1>0 DEF Listed
<1>8. Pending' = Pending /\ Alive' = Alive
  BY <1>6, <1>7 DEF Pending, Alive
<1>9. p \notin Pending
  BY <1>0, <1>7, Ranges DEF Pending, Inv, Tasks, ForksWhole
<1>10. HasBits' \subseteq HasBits /\ p \notin HasBits' /\ p \in HasBits
  <2>1. ~panic
    BY <1>0
  <2> QED BY <1>0, <1>3, <1>6, <1>7, <1>8, <1>9, <2>1 DEF HasBits
<1> HIDE DEF id
<1>11. TypeOK'
  <2>1. used' \subseteq Pages
    BY <1>0 DEF TypeOK
  <2> QED BY <1>0, <1>1, <1>5, <2>1 DEF TypeOK
<1>12. ForksWhole'
  <2> SUFFICES ASSUME NEW q \in Pcbs
          PROVE  /\ task'[q].child # None <=> task'[q].at \in {"fork1", "fork2"}
                 /\ task'[q].child # None =>
                      /\ q \in Listed' /\ task'[q].status = "RUN" /\ task'[q].dir # None
                      /\ task'[q].child \notin Listed'
                      /\ task'[task'[q].child].at = "user"
                      /\ task'[task'[q].child].status = "RUN"
                      /\ task'[task'[q].child].ppid = task'[q].pid
                      /\ task'[task'[q].child].dir # None
                      /\ task'[task'[q].child].bits # None
                      /\ \A r \in Pcbs : task'[r].child = task'[q].child => r = q
    BY DEF ForksWhole
  <2>1. /\ task[q].child # None <=> task[q].at \in {"fork1", "fork2"}
        /\ task[q].child # None =>
                      /\ q \in Listed /\ task[q].status = "RUN" /\ task[q].dir # None
                      /\ task[q].child \notin Listed
                      /\ task[task[q].child].at = "user"
                      /\ task[task[q].child].status = "RUN"
                      /\ task[task[q].child].ppid = task[q].pid
                      /\ task[task[q].child].dir # None
                      /\ task[task[q].child].bits # None
                      /\ \A r \in Pcbs : task[r].child = task[q].child => r = q
    BY DEF Inv, Tasks, ForksWhole
  <2>2. task'[q].child # None <=> task'[q].at \in {"fork1", "fork2"}
    <3>1. task'[q].child = task[q].child /\ task'[q].at = IF q = p THEN "exit" ELSE task[q].at
      BY <1>6
    <3> QED BY <1>0, <1>3, <2>1, <3>1
  <2>3. CASE task[q].child # None
    <3> DEFINE c == task[q].child
    <3>1. c \in Pcbs /\ c \notin Listed /\ c # p
      BY <1>0, <2>1, <2>3, AliveFacts
    <3>2. task'[c].at = "user" /\ task'[c].status = "RUN" /\ task'[c].ppid = task[q].pid
          /\ task'[c].dir # None /\ task'[c].bits # None
      BY <1>6, <2>1, <2>3, <3>1
    <3> QED BY <1>6, <1>7, <2>1, <2>2, <2>3, <3>1, <3>2
  <2> QED BY <1>6, <2>2, <2>3
<1>13. TasksWhole'
  <2> SUFFICES ASSUME NEW t \in Listed
          PROVE  /\ task'[t].pid \in Pids
                 /\ task'[t].dir # None <=> task'[t].bits # None
                 /\ task'[t].at # "user" => task'[t].dir # None
                 /\ task'[t].dir = None => task'[t].ppid = None
                 /\ task'[t].dir # None /\ task'[t].ppid = None => task'[t].pid = 1
                 /\ task'[t].status = "HANGING" => task'[t].at = "exit"
                 /\ task'[t].status = "WAITING" => task'[t].at = "wait"
    BY <1>7 DEF TasksWhole
  <2>1. /\ task[t].pid \in Pids
        /\ task[t].dir # None <=> task[t].bits # None
        /\ task[t].at # "user" => task[t].dir # None
        /\ task[t].dir = None => task[t].ppid = None
        /\ task[t].dir # None /\ task[t].ppid = None => task[t].pid = 1
        /\ task[t].status = "HANGING" => task[t].at = "exit"
        /\ task[t].status = "WAITING" => task[t].at = "wait"
    BY DEF Inv, Tasks, TasksWhole
  <2>2. 1 # None
    BY Ranges
  <2>3. t \in Pcbs
    BY <1>7
  <2>4. task'[t].ppid = None <=> task[t].ppid = None
    BY <1>2, <1>6, <2>2, <2>3
  <2> QED BY <1>0, <1>6, <2>1, <2>3, <2>4
<1>14. InitLives'
  BY <1>2, <1>6, <1>7, Ranges DEF Inv, Tasks, InitLives
<1>15. PidsExact'
  <2>1. {task'[t].pid : t \in Alive} = {task[t].pid : t \in Alive}
    BY <1>6, AliveFacts
  <2>2. \A t \in Alive : task'[t].pid = task[t].pid
    BY <1>6, AliveFacts
  <2>3. pids' = pids
    BY <1>0
  <2> QED BY <1>8, <2>1, <2>2, <2>3 DEF Inv, Tasks, PidsExact
<1>16. Parents'
  <2> SUFFICES ASSUME NEW t \in Listed, task'[t].ppid # None
               PROVE  \E q \in Listed : /\ task'[q].pid = task'[t].ppid
                                        /\ task'[q].at # "exit" /\ task'[q].dir # None
    BY <1>7 DEF Parents
  <2>1. CASE adopted(t)
    <3>1. task'[t].ppid = 1
      BY <1>6, <1>7, <2>1
    <3> QED BY <1>14, <1>7, <3>1 DEF InitLives
  <2>2. CASE ~adopted(t)
    <3>1. task'[t].ppid = task[t].ppid /\ task[t].ppid # id
      BY <1>6, <1>7, <2>2
    <3>2. PICK q \in Listed : /\ task[q].pid = task[t].ppid
                              /\ task[q].at # "exit" /\ task[q].dir # None
      BY <3>1 DEF Inv, Tasks, Parents
    <3>3. q # p
      BY <3>1, <3>2 DEF id
    <3> QED BY <1>6, <1>7, <3>1, <3>2, <3>3
  <2> QED BY <2>1, <2>2
<1>17. NoMissedExit'
  <2> SUFFICES ASSUME NEW q \in Listed, task'[q].status = "WAITING"
                 PROVE  /\ \E r \in Listed : task'[r].ppid = task'[q].pid
                        /\ ~IsInit(q)' => \A r \in Listed :
                              task'[r].ppid = task'[q].pid => task'[r].status # "HANGING"
    BY <1>7 DEF NoMissedExit
  <2>1. task[q].status = "WAITING" /\ task'[q].pid = task[q].pid /\ q # p
    BY <1>0, <1>6, <1>7
  <2>2. /\ \E r \in Listed : task[r].ppid = task[q].pid
        /\ ~IsInit(q) => \A r \in Listed :
                            task[r].ppid = task[q].pid => task[r].status # "HANGING"
    BY <2>1 DEF Inv, Tasks, NoMissedExit
  <2>3. IsInit(q)' <=> task[q].pid = 1
    BY <2>1 DEF IsInit
  <2>4. task[q].pid # id
    BY <1>0, <2>1, AliveFacts DEF Inv, Tasks, PidsExact, id
  <2>5. \A r \in Listed : task[r].ppid = task[q].pid => task'[r].ppid = task[q].pid
    BY <1>6, <1>7, <2>4
  <2>6. task[q].pid # 1 => \A r \in Listed :
            task'[r].ppid = task[q].pid => task[r].ppid = task[q].pid
    BY <1>6, <1>7
  <2>7. \A r \in Listed : task'[r].status = task[r].status
    BY <1>6, <1>7
  <2> QED BY <2>1, <2>2, <2>3, <2>5, <2>6, <2>7 DEF IsInit
<1>18. PagesExact'
  <2>1. ASSUME NEW x \in Addr, NEW t \in Pcbs, NEW k \in {"pcb", "dir", "bits"},
               Holds(t, k, x)'
        PROVE  Holds(t, k, x) /\ x \in used'
    <3>1. Holds(t, k, x)
      BY <1>6, <1>7, <1>8, <1>10, <2>1 DEF Holds
    <3>2. x \in used /\ \A s \in Pcbs, l \in {"pcb", "dir", "bits"} :
               Holds(s, l, x) => s = t /\ l = k
      BY <3>1 DEF Inv, PagesExact
    <3>3. x \notin Block(task[p].bits, FreedPages)
      <4> SUFFICES ASSUME x \in Block(task[p].bits, FreedPages) PROVE FALSE
        OBVIOUS
      <4>1. x \in Block(task[p].bits, BitmapPages)
        <5>1. task[p].bits \in Nat
          BY <1>0, <1>3, PcbFacts, Ranges
        <5> QED BY <5>1, ProcessAssumption DEF Block
      <4>2. Holds(p, "bits", x)
        BY <1>10, <4>1 DEF Holds
      <4>3. t = p /\ k = "bits"
        BY <1>0, <3>2, <4>2
      <4> QED BY <1>10, <2>1, <4>3 DEF Holds
    <3> QED BY <1>0, <3>1, <3>2, <3>3
  <2> QED BY <2>1, PagesKept DEF Inv
<1> QED BY <1>1, <1>11, <1>12, <1>13, <1>14, <1>15, <1>16, <1>17, <1>18 DEF Inv, Tasks

\* The parent is found and woken, and the task hangs.
LEMMA ExitEndInv ==
    ASSUME Inv, NEW p \in Pages, ExitEnd(p)
    PROVE  Inv' /\ panic' = FALSE
<1> DEFINE q == pid2thread(task[p].ppid)
<1>0. /\ TypeOK /\ p \in Pcbs /\ p \in Listed /\ task[p].status = "RUN" /\ task[p].dir # None
      /\ task[p].at = "exit" /\ panic = FALSE
      /\ UNCHANGED <<all, pids, used, ret, forks>>
  BY Ranges DEF Inv, TypeOK, ExitEnd, Proc, Listed
<1>1. task[p].pid # 1
  BY <1>0, AliveFacts DEF Inv, Tasks, InitLives, PidsExact
<1>2. q \in Listed /\ task[q].pid = task[p].ppid /\ task[q].at # "exit" /\ q \in Pcbs /\ q # p
  BY <1>0, <1>1, HasParent, AliveFacts
<1>3. /\ panic' = FALSE
      /\ task' = [task EXCEPT ![q].status = IF @ = "WAITING" THEN "RUN" ELSE @,
                              ![p].status = "HANGING"]
  BY <1>0, <1>2, Ranges DEF ExitEnd
<1>c. task[p].child = None
  BY <1>0 DEF Inv, Tasks, ForksWhole
<1> HIDE DEF q
<1> DEFINE st == IF task[q].status = "WAITING" THEN "RUN" ELSE task[q].status
<1>4. /\ task' \in [Pcbs -> TaskType]
      /\ \A t \in Pcbs : t # p /\ t # q => task'[t] = task[t]
      /\ task'[p] = [task[p] EXCEPT !.status = "HANGING"]
      /\ task'[q] = [task[q] EXCEPT !.status = st]
  <2>1. task \in [Pcbs -> TaskType]
    BY <1>0 DEF TypeOK
  <2>2. task[p] \in TaskType /\ task[q] \in TaskType
    BY <1>0, <1>2, PcbFacts
  <2>3. [task[p] EXCEPT !.status = "HANGING"] \in TaskType /\ [task[q] EXCEPT !.status = st] \in TaskType
    BY <2>2 DEF TaskType
  <2>4. task' = [task EXCEPT ![q] = [task[q] EXCEPT !.status = st],
                             ![p] = [task[p] EXCEPT !.status = "HANGING"]]
    BY <1>0, <1>2, <1>3, <2>1
  <2> HIDE DEF st
  <2> QED BY <1>0, <1>2, <2>1, <2>3, <2>4
<1>5. ASSUME NEW t \in Pcbs
      PROVE  /\ task'[t].pid = task[t].pid /\ task'[t].ppid = task[t].ppid
             /\ task'[t].bits = task[t].bits /\ task'[t].dir = task[t].dir
             /\ task'[t].child = task[t].child /\ task'[t].at = task[t].at
             /\ task'[t].status = IF t = p THEN "HANGING"
                                  ELSE IF t = q /\ task[q].status = "WAITING" THEN "RUN"
                                  ELSE task[t].status
  <2>0. task[t] \in TaskType
    BY <1>0, PcbFacts
  <2>1. CASE t = p
    BY <1>4, <2>0, <2>1 DEF TaskType
  <2>2. CASE t = q
    BY <1>2, <1>4, <2>0, <2>2 DEF TaskType
  <2>3. CASE t # p /\ t # q
    BY <1>4, <2>3
  <2> QED BY <2>1, <2>2, <2>3
<1>6. Listed' = Listed /\ Listed \subseteq Pcbs
  BY <1>0 DEF Listed
<1>7. TypeOK'
  BY <1>0, <1>3, <1>4 DEF TypeOK
<1>8. NoMissedExit'
  <2> SUFFICES ASSUME NEW w \in Listed, task'[w].status = "WAITING"
                 PROVE  /\ \E r \in Listed : task'[r].ppid = task'[w].pid
                        /\ ~IsInit(w)' => \A r \in Listed :
                              task'[r].ppid = task'[w].pid => task'[r].status # "HANGING"
    BY <1>6 DEF NoMissedExit
  <2>1. task[w].status = "WAITING" /\ task'[w].pid = task[w].pid /\ w # q /\ w # p
    BY <1>2, <1>5, <1>6
  <2>2. /\ \E r \in Listed : task[r].ppid = task[w].pid
        /\ ~IsInit(w) => \A r \in Listed :
                            task[r].ppid = task[w].pid => task[r].status # "HANGING"
    BY <2>1 DEF Inv, Tasks, NoMissedExit
  <2>3. IsInit(w)' <=> IsInit(w)
    BY <2>1 DEF IsInit
  <2>4. task[p].ppid # task[w].pid
    BY <1>2, <2>1, AliveFacts DEF Inv, Tasks, PidsExact
  <2>5. \A r \in Listed : task'[r].ppid = task[r].ppid
    BY <1>5, <1>6
  <2>6. \A r \in Listed : task'[r].status = "HANGING" => task[r].status = "HANGING" \/ r = p
    BY <1>5, <1>6
  <2> QED BY <2>1, <2>2, <2>3, <2>4, <2>5, <2>6
<1>9. \A t \in Pcbs : \/ task'[t].status = task[t].status
                      \/ t \in Listed /\ task[t].child = None
  <2>1. task[q].status = "WAITING" => task[q].child = None
    BY <1>2 DEF Inv, Tasks, ForksWhole
  <2> QED BY <1>0, <1>2, <1>5, <1>c, <2>1
<1>10. \A t \in Listed : /\ task'[t].status = "HANGING" => task'[t].at = "exit"
                         /\ task'[t].status = "WAITING" => task'[t].at = "wait"
  BY <1>0, <1>5, <1>6 DEF Inv, Tasks, TasksWhole
<1>11. panic' = panic
  BY <1>0, <1>3
<1>12. \A t \in Pcbs :
           /\ task'[t].pid = task[t].pid /\ task'[t].ppid = task[t].ppid
           /\ task'[t].bits = task[t].bits /\ task'[t].dir = task[t].dir
           /\ task'[t].child = task[t].child /\ task'[t].at = task[t].at
  BY <1>5
<1> QED BY <1>0, <1>3, <1>7, <1>8, <1>9, <1>10, <1>11, <1>12, StatusStep

\* One turn of sys_wait: a dead child is collected, or there is no child, or
\* the caller sleeps because none of its children is dead.
LEMMA WaitInv ==
    ASSUME Inv, NEW p \in Pages, Wait(p)
    PROVE  Inv' /\ panic' = FALSE
<1> DEFINE c == find_hanging_child(task[p].pid)
<1>0. /\ TypeOK /\ p \in Pcbs /\ p \in Listed /\ task[p].status = "RUN" /\ task[p].dir # None
      /\ task[p].at \in {"user", "wait"} /\ panic = FALSE /\ panic' = FALSE /\ forks' = forks
  BY Ranges DEF Inv, TypeOK, Wait, Proc, Listed
<1>1. task[p].child = None
  BY <1>0 DEF Inv, Tasks, ForksWhole
<1>2. task[p].pid \in Pids
  BY <1>0, AliveFacts
<1>3. task \in [Pcbs -> TaskType] /\ task[p] \in TaskType
  BY <1>0 DEF TypeOK
<1>4. CASE c # None
  <2>1. /\ ret' = HANGING /\ used' = used \ {task[c].dir, c}
        /\ all' = list_remove(c, all) /\ pids' = pids \ {task[c].pid}
        /\ task' = [task EXCEPT ![p].at = "user", ![c] = Empty]
    BY <1>4 DEF Wait, ThreadExit
  <2>2. c \in Listed /\ task[c].ppid = task[p].pid /\ task[c].status = "HANGING" /\ c \in Pcbs
    BY <1>0, <1>4, Searches DEF Listed
  <2> HIDE DEF c
  <2>3. task[c].at = "exit" /\ c # p /\ c # 0 /\ task[c].child = None
    BY <1>0, <2>2 DEF Inv, Tasks, TasksWhole, InitLives, ForksWhole
  <2>4. /\ task' \in [Pcbs -> TaskType] /\ task'[c] = Empty
        /\ task'[p] = [task[p] EXCEPT !.at = "user"]
        /\ \A t \in Pcbs : t # p /\ t # c => task'[t] = task[t]
    <3>1. Empty \in TaskType
      BY DEF Empty, TaskType
    <3>2. [task[p] EXCEPT !.at = "user"] \in TaskType
      BY <1>3 DEF TaskType
    <3>3. task' = [task EXCEPT ![p] = [task[p] EXCEPT !.at = "user"], ![c] = Empty]
      BY <1>0, <1>3, <2>1
    <3> QED BY <1>0, <1>3, <2>2, <2>3, <3>1, <3>2, <3>3
  <2>5. TypeOK'
    <3>1. all \in Seq(Pcbs) /\ NoRepeat(all) /\ InList(c, all)
      BY <1>0, <2>2 DEF TypeOK, Listed
    <3>2. all' \in Seq(Pcbs) /\ NoRepeat(all')
      BY <2>1, <3>1, RemoveFacts
    <3>3. pids' \subseteq Pids /\ used' \subseteq Pages /\ ret' \in {0, HANGING}
      BY <1>0, <2>1 DEF TypeOK
    <3> QED BY <1>0, <2>4, <3>2, <3>3 DEF TypeOK
  <2>6. ASSUME NEW t \in Pcbs, t # c
        PROVE  /\ task'[t].pid = task[t].pid /\ task'[t].ppid = task[t].ppid
               /\ task'[t].bits = task[t].bits /\ task'[t].dir = task[t].dir
               /\ task'[t].child = task[t].child /\ task'[t].status = task[t].status
               /\ \/ task'[t].at = task[t].at
                  \/ /\ t \in Listed /\ task[t].status # "WAITING"
                     /\ task[t].at = "wait" /\ task'[t].at = "user"
    <3>1. CASE t = p
      BY <1>0, <1>3, <2>4, <3>1 DEF TaskType
    <3>2. CASE t # p
      BY <2>4, <2>6, <3>2
    <3> QED BY <3>1, <3>2
  <2>7. \A w \in Listed : task[w].status = "WAITING" => task[c].ppid # task[w].pid
    BY <1>0, <2>2, AliveFacts DEF Inv, Tasks, PidsExact
  <2>8. used' \subseteq used /\ used \ used' \subseteq {c, task[c].dir} /\ panic' = panic
    BY <1>0, <2>1
  <2>9. Inv'
    BY <2>1, <2>2, <2>3, <2>4, <2>5, <2>6, <2>7, <2>8, TaskGone
  <2> QED BY <1>0, <2>9
<1>5. CASE c = None
  <2>1. \A t \in Listed : ~(task[t].ppid = task[p].pid /\ task[t].status = "HANGING")
    BY <1>0, <1>5, Searches, Ranges DEF Listed
  <2>2. PICK a \in {"user", "wait"}, st \in {"RUN", "WAITING"} :
           /\ task' = [task EXCEPT ![p] = [task[p] EXCEPT !.at = a, !.status = st]]
           /\ UNCHANGED <<ret, all, pids, used>>
           /\ st = "WAITING" => a = "wait" /\ find_child(task[p].pid) # None
    <3>1. CASE find_child(task[p].pid) = None
      <4>1. task' = [task EXCEPT ![p].at = "user"] /\ UNCHANGED <<ret, all, pids, used>>
        BY <1>5, <3>1 DEF Wait
      <4>2. [task[p] EXCEPT !.at = "user"] = [task[p] EXCEPT !.at = "user", !.status = "RUN"]
        BY <1>0, <1>3 DEF TaskType
      <4>3. task' = [task EXCEPT ![p] = [task[p] EXCEPT !.at = "user", !.status = "RUN"]]
        BY <1>0, <1>3, <4>1, <4>2
      <4> QED BY <4>1, <4>3
    <3>2. CASE find_child(task[p].pid) # None
      <4>1. /\ task' = [task EXCEPT ![p].at = "wait", ![p].status = "WAITING"]
            /\ UNCHANGED <<ret, all, pids, used>>
        BY <1>5, <3>2 DEF Wait
      <4>2. task' = [task EXCEPT ![p] = [task[p] EXCEPT !.at = "wait", !.status = "WAITING"]]
        BY <1>0, <1>3, <4>1
      <4> QED BY <3>2, <4>1, <4>2
    <3> QED BY <3>1, <3>2
  <2>3. /\ task' \in [Pcbs -> TaskType]
        /\ task'[p] = [task[p] EXCEPT !.at = a, !.status = st]
        /\ \A t \in Pcbs : t # p => task'[t] = task[t]
    <3>1. [task[p] EXCEPT !.at = a, !.status = st] \in TaskType
      BY <1>3 DEF TaskType
    <3> QED BY <1>0, <1>3, <2>2, <3>1
  <2>4. ASSUME NEW t \in Pcbs
        PROVE  /\ task'[t].pid = task[t].pid /\ task'[t].ppid = task[t].ppid
               /\ task'[t].bits = task[t].bits /\ task'[t].dir = task[t].dir
               /\ task'[t].child = task[t].child
               /\ task'[t].at = IF t = p THEN a ELSE task[t].at
               /\ task'[t].status = IF t = p THEN st ELSE task[t].status
    <3>1. CASE t = p
      BY <1>3, <2>3, <3>1 DEF TaskType
    <3>2. CASE t # p
      BY <2>3, <3>2
    <3> QED BY <3>1, <3>2
  <2>5. TypeOK'
    BY <1>0, <2>2, <2>3 DEF TypeOK
  <2>6. Listed' = Listed /\ Listed \subseteq Pcbs
    BY <2>2 DEF Listed
  <2>7. NoMissedExit'
    <3> SUFFICES ASSUME NEW w \in Listed, task'[w].status = "WAITING"
                 PROVE  /\ \E r \in Listed : task'[r].ppid = task'[w].pid
                        /\ ~IsInit(w)' => \A r \in Listed :
                              task'[r].ppid = task'[w].pid => task'[r].status # "HANGING"
      BY <2>6 DEF NoMissedExit
    <3>1. \A r \in Listed : /\ task'[r].ppid = task[r].ppid /\ task'[r].pid = task[r].pid
                            /\ task'[r].status = "HANGING" => task[r].status = "HANGING"
      BY <2>4, <2>6
    <3>2. CASE w = p
      <4>1. find_child(task[p].pid) # None
        BY <1>0, <2>2, <2>4, <3>2
      <4>2. \E r \in Listed : task[r].ppid = task[p].pid
        BY <1>0, <4>1, Searches
      <4> QED BY <2>1, <3>1, <3>2, <4>2
    <3>3. CASE w # p
      <4>1. task[w].status = "WAITING"
        BY <2>4, <2>6, <3>3
      <4>2. /\ \E r \in Listed : task[r].ppid = task[w].pid
            /\ ~IsInit(w) => \A r \in Listed :
                            task[r].ppid = task[w].pid => task[r].status # "HANGING"
        BY <4>1 DEF Inv, Tasks, NoMissedExit
      <4>3. IsInit(w)' <=> IsInit(w)
        BY <3>1 DEF IsInit
      <4> QED BY <3>1, <4>2, <4>3
    <3> QED BY <3>2, <3>3
  <2>8. \A t \in Pcbs : \/ task'[t].at = task[t].at
                        \/ /\ t \in Listed /\ task[t].dir # None
                           /\ task[t].at \in {"user", "wait"}
                           /\ task'[t].at \in {"user", "wait"}
    BY <1>0, <2>4
  <2>9. \A t \in Pcbs : \/ task'[t].status = task[t].status
                        \/ t \in Listed /\ task[t].child = None
    BY <1>0, <1>1, <2>4
  <2>10. \A t \in Listed : /\ task'[t].status = "HANGING" => task'[t].at = "exit"
                           /\ task'[t].status = "WAITING" => task'[t].at = "wait"
    BY <2>2, <2>4, <2>6 DEF Inv, Tasks, TasksWhole
  <2>11. \A t \in Pcbs :
             /\ task'[t].pid = task[t].pid /\ task'[t].ppid = task[t].ppid
             /\ task'[t].bits = task[t].bits /\ task'[t].dir = task[t].dir
             /\ task'[t].child = task[t].child
    BY <2>4
  <2>12. all' = all /\ pids' = pids /\ used' = used /\ panic' = panic
    BY <1>0, <2>2
  <2>13. Inv'
    BY <2>5, <2>7, <2>8, <2>9, <2>10, <2>11, <2>12, StatusStep
  <2> QED BY <1>0, <2>13
<1> QED BY <1>4, <1>5

(* main leaves through thread_exit at the end of main(). *)
LEMMA MainExitInv ==
    ASSUME Inv, MainExit
    PROVE  Inv' /\ panic' = FALSE
<1>0. /\ TypeOK /\ panic = FALSE /\ panic' = FALSE /\ Main \in Pcbs /\ Main \in Listed /\ Main # 0
      /\ all' = list_remove(Main, all) /\ pids' = pids \ {task[Main].pid}
      /\ task' = [task EXCEPT ![Main] = Empty]
      /\ UNCHANGED <<used, ret, forks>>
  BY Ranges DEF Inv, TypeOK, MainExit, Listed
<1>1. task[Main].dir = None /\ task[Main].child = None /\ task[Main].ppid = None
  BY <1>0 DEF Inv, Tasks, InitLives, ForksWhole, TasksWhole
<1>2. /\ task' \in [Pcbs -> TaskType] /\ task'[Main] = Empty
      /\ \A t \in Pcbs : t # Main => task'[t] = task[t]
  <2>1. Empty \in TaskType
    BY DEF Empty, TaskType
  <2> QED BY <1>0, <2>1 DEF TypeOK
<1>3. TypeOK'
  <2>1. all \in Seq(Pcbs) /\ NoRepeat(all) /\ InList(Main, all)
    BY <1>0 DEF TypeOK, Listed
  <2>2. all' \in Seq(Pcbs) /\ NoRepeat(all')
    BY <1>0, <2>1, RemoveFacts
  <2> QED BY <1>0, <1>2, <2>2 DEF TypeOK
<1>4. \A q \in Listed : task[Main].ppid # task[q].pid
  <2>1. None \notin Pids
    BY ProcessAssumption, Ranges DEF Pids
  <2> QED BY <1>1, <2>1, AliveFacts
<1>5. used' \subseteq used /\ used \ used' \subseteq {Main, task[Main].dir} /\ panic' = panic
  BY <1>0
<1>6. \A t \in Pcbs : t # Main =>
          /\ task'[t].pid = task[t].pid /\ task'[t].ppid = task[t].ppid
          /\ task'[t].bits = task[t].bits /\ task'[t].dir = task[t].dir
          /\ task'[t].child = task[t].child /\ task'[t].status = task[t].status
          /\ task'[t].at = task[t].at
  BY <1>2
<1>7. Inv'
  BY <1>0, <1>1, <1>2, <1>3, <1>4, <1>5, <1>6, TaskGone
<1> QED BY <1>0, <1>7

-----------------------------------------------------------------------------
(* The invariant holds as long as no fork is left without its bitmap. *)

(* Every step of a task preserves the invariant, under that one condition. *)
LEMMA NextInv ==
    ASSUME Inv, BitmapFound, [Next]_vars
    PROVE  Inv'
<1>1. CASE MainExit
  BY <1>1, MainExitInv
<1>2. ASSUME NEW p \in Pages,
             \/ ForkPcb(p) \/ ForkBitmap(p) \/ ForkDir(p) \/ Exec(p)
             \/ \E code \in ExitCodes : ExitBegin(p, code)
             \/ ExitEnd(p) \/ Wait(p)
      PROVE  Inv'
  <2>1. CASE ForkPcb(p)
    BY <2>1, ForkPcbInv
  <2>2. CASE ForkBitmap(p)
    BY <2>2, ForkBitmapInv
  <2>3. CASE ForkDir(p)
    BY <2>3, ForkDirInv
  <2>4. CASE Exec(p)
    BY <2>4, ExecInv
  <2>5. CASE \E code \in ExitCodes : ExitBegin(p, code)
    BY <2>5, ExitBeginInv
  <2>6. CASE ExitEnd(p)
    BY <2>6, ExitEndInv
  <2>7. CASE Wait(p)
    BY <2>7, WaitInv
  <2> QED BY <1>2, <2>1, <2>2, <2>3, <2>4, <2>5, <2>6, <2>7
<1>3. CASE UNCHANGED vars
  <2>1. /\ task' = task /\ all' = all /\ pids' = pids /\ used' = used
        /\ ret' = ret /\ forks' = forks /\ panic' = panic
    BY <1>3 DEF vars
  <2>2. TypeOK'
    BY <2>1 DEF Inv, TypeOK
  <2> QED BY <2>1, <2>2, Quiet
<1> QED BY <1>1, <1>2, <1>3 DEF Next

\* The inductive invariant holds in every reachable state, for every size of
\* the heap, of the bitmaps and of the pid pool.
THEOREM Invariance == Spec /\ []BitmapFound => []Inv
<1>1. Inv /\ BitmapFound /\ [Next]_vars => Inv'
  BY NextInv
<1> QED BY <1>1, InitInv, PTL DEF Spec

\* PCBs, thread_all_list, pid pool and heap bitmap keep their types.
THEOREM TypeCorrect == Spec /\ []BitmapFound => []TypeOK
<1>1. Inv => TypeOK
  BY DEF Inv
<1> QED BY <1>1, Invariance, PTL

\* allocate_pid and release_pid: a pid names one task, and the pool holds the
\* pids of the tasks that are listed or being made, however pids are reused.
THEOREM PidsNeverShared == Spec /\ []BitmapFound => []PidsUnique
<1>1. ASSUME Inv PROVE PidsUnique
  <2>1. \A s, t \in Listed : task[s].pid = task[t].pid => s = t
    BY <1>1, AliveFacts DEF Inv, Tasks, PidsExact
  <2> DEFINE made == {task[task[p].child].pid : p \in {q \in Listed : task[q].child # None}}
  <2>2. \A c \in Pending : task[c].pid \in made
    <3> TAKE c \in Pending
    <3>1. PICK p \in Listed : task[p].child = c
      BY DEF Pending
    <3>2. task[p].child # None
      BY <3>1, Ranges DEF Pending
    <3> QED BY <3>1, <3>2
  <2>3. \A i \in made : \E c \in Pending : i = task[c].pid
    BY <1>1, AliveFacts
  <2>4. {task[t].pid : t \in Alive} = {task[t].pid : t \in Listed} \cup made
    <3> HIDE DEF made
    <3>1. \A i \in made : i \in {task[t].pid : t \in Alive}
      BY <2>3 DEF Alive
    <3> QED BY <2>2, <3>1 DEF Alive
  <2> QED BY <1>1, <2>1, <2>4 DEF PidsUnique, Inv, Tasks, PidsExact
<1> QED BY <1>1, Invariance, PTL

\* sys_exit and init_adopt_achild: no process is without a living parent.
THEOREM NoOrphans == Spec /\ []BitmapFound => []ParentAlive
<1>1. Inv => ParentAlive
  BY DEF Inv, Tasks, Parents, TasksWhole, ParentAlive
<1> QED BY <1>1, Invariance, PTL

\* sys_wait and sys_exit: who sleeps in wait has a child, and none that is dead.
THEOREM ExitsNotMissed == Spec /\ []BitmapFound => []NoMissedExit
<1>1. Inv => NoMissedExit
  BY DEF Inv, Tasks
<1> QED BY <1>1, Invariance, PTL

\* sys_fork, sys_exit and thread_exit: PCB, page directory and address bitmap of
\* a task are marked in the heap and nobody else's.
THEOREM PagesNeverShared == Spec /\ []BitmapFound => []PagesDisjoint
<1>1. ASSUME Inv, NEW s \in Listed, NEW x \in Owned(s)
      PROVE  x \in Addr /\ \E k \in {"pcb", "dir", "bits"} : Holds(s, k, x)
  <2>1. s \in Pcbs /\ TypeOK
    BY <1>1 DEF Inv, Listed
  <2>2. CASE x \in {s} \cap Pages
    <3>1. Holds(s, "pcb", x)
      BY <1>1, <2>2, AliveFacts DEF Holds
    <3> QED BY <2>2, <3>1, Ranges
  <2>3. CASE x = task[s].dir /\ task[s].dir # None
    <3>1. Holds(s, "dir", x)
      BY <2>3 DEF Holds
    <3> QED BY <2>1, <2>3, <3>1, PcbFacts, Ranges
  <2>4. CASE task[s].bits # None /\ task[s].at # "exit"
             /\ x \in Block(task[s].bits, BitmapPages)
    <3>1. Holds(s, "bits", x)
      BY <2>4 DEF Holds, HasBits
    <3>2. task[s].bits \in 0..Size
      BY <2>1, <2>4, PcbFacts, Ranges
    <3>3. x \in Addr
      BY <2>4, <3>2, ProcessAssumption, Ranges DEF Block, Addr
    <3> QED BY <3>1, <3>3
  <2> QED BY <2>2, <2>3, <2>4 DEF Owned
<1>2. Inv => PagesDisjoint
  BY <1>1 DEF PagesDisjoint, Inv, PagesExact, Listed
<1> QED BY <1>2, Invariance, PTL

\* Exit, wait and exec never fail an assertion or use a parent that is gone: the
\* kernel stops only in sys_fork, for want of a page, of a pid or of room in the
\* name, and never because the child is already listed.
THEOREM OnlyForkPanics ==
    Spec /\ []BitmapFound =>
        [][~panic /\ panic' => \E p \in Pages :
              \/ ForkPcb(p) /\ (MapFull(used) \/ pids = Pids)
              \/ ForkBitmap(p) /\ (MapFull(used) \/ task[p].len >= NameLen)
              \/ ForkDir(p) /\ MapFull(used)]_vars
<1>1. ASSUME Inv, Next, ~panic, panic'
      PROVE  \E p \in Pages :
                \/ ForkPcb(p) /\ (MapFull(used) \/ pids = Pids)
                \/ ForkBitmap(p) /\ (MapFull(used) \/ task[p].len >= NameLen)
                \/ ForkDir(p) /\ MapFull(used)
  <2>1. ~MainExit
    BY <1>1, MainExitInv
  <2>2. PICK p \in Pages :
             \/ ForkPcb(p) \/ ForkBitmap(p) \/ ForkDir(p) \/ Exec(p)
             \/ \E code \in ExitCodes : ExitBegin(p, code)
             \/ ExitEnd(p) \/ Wait(p)
    BY <1>1, <2>1 DEF Next
  <2>3. ~(\E code \in ExitCodes : ExitBegin(p, code)) /\ ~ExitEnd(p) /\ ~Wait(p)
    BY <1>1, ExitBeginInv, ExitEndInv, WaitInv
  <2>4. ~Exec(p)
    <3>1. Exec(p) => panic' = panic
      BY DEF Exec
    <3> QED BY <1>1, <3>1
  <2>5. CASE ForkPcb(p)
    <3>1. MapFull(used) \/ pids = Pids
      <4>1. ~(MapFull(used) \/ pids = Pids) => panic' = panic
        BY <2>5 DEF ForkPcb
      <4> QED BY <1>1, <4>1
    <3> QED BY <2>5, <3>1
  <2>6. CASE ForkBitmap(p)
    <3>1. panic' => MapFull(used) \/ task[p].len >= NameLen
      BY <2>6 DEF ForkBitmap
    <3> QED BY <1>1, <2>6, <3>1
  <2>7. CASE ForkDir(p)
    <3>1. task[p].child \notin Listed /\ task[p].child \in Pcbs
      BY <1>1, <2>7, AliveFacts, Ranges DEF ForkDir, Inv, Tasks, ForksWhole
    <3>2. ~MapFull(used) => panic' = panic
      BY <2>7, <3>1 DEF ForkDir, Listed
    <3> QED BY <1>1, <2>7, <3>2
  <2> QED BY <2>2, <2>3, <2>4, <2>5, <2>6, <2>7
<1>2. Inv /\ [Next]_vars =>
        [~panic /\ panic' => \E p \in Pages :
              \/ ForkPcb(p) /\ (MapFull(used) \/ pids = Pids)
              \/ ForkBitmap(p) /\ (MapFull(used) \/ task[p].len >= NameLen)
              \/ ForkDir(p) /\ MapFull(used)]_vars
  BY <1>1
<1> QED BY <1>2, Invariance, PTL DEF Spec

-----------------------------------------------------------------------------
(* A heap that is large enough: no assumption about the steps is left. *)

(* A product of naturals grows with its first factor. *)
LEMMA TimesMonotone ==
    ASSUME NEW m \in Nat, NEW n \in Nat, m <= n, NEW k \in Nat
    PROVE  m * k <= n * k /\ m * k \in Nat /\ n * k \in Nat
<1>1. (n - m) * k \in Nat /\ m * k \in Nat /\ n * k \in Nat
  OBVIOUS
<1>2. (n - m) * k = n * k - m * k
  OBVIOUS
<1> QED BY <1>1, <1>2

\* bitmap_scan takes the lowest run: a heap filled up to page b grows by no more
\* than what is asked for.
LEMMA TakesBelow ==
    ASSUME NEW b \in Nat, used \subseteq 0..b, NEW cnt \in Nat \ {0}, b + 1 + cnt <= Size
    PROVE  /\ ~MapFull(used) /\ Run(cnt) # None
           /\ Block(Run(cnt), cnt) \subseteq 0..b + cnt
<1>0. Size \in Nat /\ None = -1
  BY Ranges
<1>1. ~MapFull(used)
  <2>1. PICK y \in 0..Bytes - 1 : b + 1 \in BitsOf(y)
    <3> DEFINE x == b + 1
    <3>1. x \in Nat /\ x < Size
      BY <1>0
    <3> HIDE DEF x
    <3>2. \E y \in 0..Bytes - 1 : x \in BitsOf(y)
      BY <3>1, ByteOfBit
    <3> QED BY <3>2 DEF x
  <2>2. b + 1 \notin used
    OBVIOUS
  <2> QED BY <2>1, <2>2 DEF MapFull, FullByte
<1> DEFINE F == Fitting(used, cnt)
<1>2. b + 1 \in F /\ F \subseteq Nat
  <2>1. (b + 1)..(b + 1) + cnt - 1 \cap used = {}
    OBVIOUS
  <2>2. b + 1 \in 0..Size - cnt
    BY <1>0
  <2> QED BY <1>0, <2>1, <2>2 DEF Fitting
<1> HIDE DEF F
<1>3. Least(F) \in F /\ Least(F) <= b + 1
  <2>1. F # {}
    BY <1>2
  <2> QED BY <1>2, <2>1, LeastFacts
<1>4. FirstFit(used, cnt) = Least(F)
  BY <1>2 DEF FirstFit, F
<1>5. Run(cnt) = Least(F)
  <2>1. Least(F) # -1
    BY <1>2, <1>3
  <2> QED BY <1>1, <1>4, <2>1, ScanFindsFirstFit DEF Run
<1>6. Run(cnt) \in Nat /\ Run(cnt) <= b + 1
  BY <1>2, <1>3, <1>5
<1> HIDE DEF F
<1>7. Block(Run(cnt), cnt) \subseteq 0..b + cnt
  BY <1>6 DEF Block
<1> QED BY <1>0, <1>1, <1>6, <1>7

(* The tasks at one point of a call are a finite set. *)
LEMMA AtFinite ==
    ASSUME NEW a
    PROVE  IsFiniteSet(At(a)) /\ Cardinality(At(a)) \in Nat
<1>1. IsFiniteSet(Pages)
  BY Ranges, FS_Interval
<1>2. IsFiniteSet(Pcbs)
  BY <1>1, FS_AddElement DEF Pcbs
<1>3. IsFiniteSet(At(a))
  BY <1>2, FS_Subset DEF At
<1> QED BY <1>3, FS_CardinalityType

\* The bound as a number
LEMMA FilledFacts ==
    ASSUME Inv, Roomy
    PROVE  /\ Filled \in Int /\ (used \subseteq 0..Filled => Filled \in Nat)
           /\ forks < MaxForks => Filled + 2 <= Size
           /\ At("fork1") # {} => Filled + 1 + BitmapPages <= Size
           /\ At("fork2") # {} => Filled + 2 <= Size
<1> DEFINE n1 == Cardinality(At("fork1"))
           n2 == Cardinality(At("fork2"))
           a == (forks + 1) * (BitmapPages + 2)
           m == (MaxForks + 1) * (BitmapPages + 2)
           d == n1 * (BitmapPages + 1)
<1>1. /\ BitmapPages \in Nat /\ BitmapPages > 1 /\ forks \in Nat /\ MaxForks \in Nat
      /\ forks <= MaxForks /\ Size >= m + 1 /\ n1 \in Nat /\ n2 \in Nat
  BY ProcessAssumption, AtFinite DEF Inv, TypeOK, Roomy, NPages
<1>2. a \in Nat /\ m \in Nat /\ d \in Nat /\ a <= m
  BY <1>1, TimesMonotone
<1>3. forks < MaxForks => a + (BitmapPages + 2) <= m
  <2> SUFFICES ASSUME forks < MaxForks PROVE a + (BitmapPages + 2) <= m
    OBVIOUS
  <2>1. (forks + 1 + 1) * (BitmapPages + 2) <= m
    <3>1. forks + 1 + 1 \in Nat /\ MaxForks + 1 \in Nat /\ forks + 1 + 1 <= MaxForks + 1
          /\ BitmapPages + 2 \in Nat
      BY <1>1
    <3> QED BY <3>1, TimesMonotone
  <2>2. (forks + 1 + 1) * (BitmapPages + 2) = a + (BitmapPages + 2)
    BY <1>1
  <2> QED BY <2>1, <2>2
<1>4. n1 # 0 => d >= BitmapPages + 1
  <2> SUFFICES ASSUME n1 # 0 PROVE d >= BitmapPages + 1
    OBVIOUS
  <2>1. 1 * (BitmapPages + 1) <= d
    <3>1. 1 \in Nat /\ 1 <= n1 /\ BitmapPages + 1 \in Nat
      BY <1>1
    <3> QED BY <1>1, <3>1, TimesMonotone
  <2> QED BY <1>1, <2>1
<1>5. /\ At("fork1") # {} => n1 # 0
      /\ At("fork2") # {} => n2 # 0
  BY AtFinite, FS_EmptySet
<1>6. Filled = a - d - n2
  BY DEF Filled
<1> HIDE DEF a, d, m, n1, n2
<1>7. used \subseteq 0..Filled => Filled \in Nat
  <2>1. 0 \in used
    BY AliveFacts, Ranges DEF Inv, Tasks, InitLives
  <2> QED BY <1>1, <1>2, <1>6, <2>1
<1>8. Filled \in Int /\ Size \in Int /\ Filled <= m - d - n2
  BY <1>1, <1>2, <1>6, Ranges
<1>9. forks < MaxForks => Filled + 2 <= Size
  BY <1>1, <1>2, <1>3, <1>6, <1>8
<1>10. At("fork1") # {} => Filled + 1 + BitmapPages <= Size
  BY <1>1, <1>2, <1>4, <1>5, <1>8
<1>11. At("fork2") # {} => Filled + 2 <= Size
  BY <1>1, <1>2, <1>5, <1>8
<1> QED BY <1>7, <1>8, <1>9, <1>10, <1>11

\* Enough room means that every fork that takes a bitmap finds one.
LEMMA RoomyFindsBitmap ==
    ASSUME Inv, Roomy, FilledFromBelow
    PROVE  BitmapFound
<1> SUFFICES ASSUME NEW p \in Pcbs, task[p].at = "fork1" PROVE Run(BitmapPages) # None
  BY DEF BitmapFound
<1>1. At("fork1") # {}
  BY DEF At
<1>2. Filled \in Nat /\ Filled + 1 + BitmapPages <= Size /\ used \subseteq 0..Filled
  BY <1>1, FilledFacts DEF FilledFromBelow
<1>3. BitmapPages \in Nat \ {0}
  BY ProcessAssumption
<1> HIDE DEF Filled
<1> QED BY <1>2, <1>3, TakesBelow

\* The steps outside sys_fork take no page and no pid, and rename nobody inside it.
LEMMA OtherSteps ==
    ASSUME Inv, NEW p \in Pages,
           \/ Exec(p) \/ (\E code \in ExitCodes : ExitBegin(p, code))
           \/ ExitEnd(p) \/ Wait(p) \/ MainExit
    PROVE  /\ At("fork1")' = At("fork1") /\ At("fork2")' = At("fork2")
           /\ used' \subseteq used /\ pids' \subseteq pids /\ forks' = forks
           /\ panic' = panic
           /\ \A t \in At("fork1") : task'[t].len = task[t].len
<1>0. /\ task \in [Pcbs -> TaskType] /\ p \in Pcbs /\ Main \in Pcbs
      /\ task[p] \in TaskType
  BY Ranges DEF Inv, TypeOK
<1>a. panic \in BOOLEAN
  BY DEF Inv, TypeOK
<1>1. SUFFICES ASSUME NEW t \in Pcbs
               PROVE  \/ task'[t].at = task[t].at /\ (task[t].at = "fork1" => task'[t].len = task[t].len)
                      \/ /\ task[t].at \notin {"fork1", "fork2"}
                         /\ task'[t].at \notin {"fork1", "fork2"}
  <2>1. used' \subseteq used /\ pids' \subseteq pids /\ forks' = forks
    BY DEF Exec, ExitBegin, ExitEnd, Wait, ThreadExit, MainExit
  <2>2. panic' = panic
    <3>1. CASE Exec(p)
      BY <3>1 DEF Exec
    <3>2. CASE ~Exec(p)
      <4>1. panic' = FALSE
        BY <3>2, ExitBeginInv, ExitEndInv, WaitInv, MainExitInv
      <4>2. ~panic
        BY <3>2 DEF ExitBegin, ExitEnd, Wait, MainExit, Proc
      <4> QED BY <1>a, <4>1, <4>2
    <3> QED BY <3>1, <3>2
  <2>3. \A t \in Pcbs : /\ task'[t].at = "fork1" <=> task[t].at = "fork1"
                        /\ task'[t].at = "fork2" <=> task[t].at = "fork2"
                        /\ task[t].at = "fork1" => task'[t].len = task[t].len
    BY <1>1
  <2> QED BY <2>1, <2>2, <2>3 DEF At
<1>2. task[t] \in TaskType
  BY <1>0
<1>3. CASE Exec(p)
  <2>1. task' = [task EXCEPT ![p].len = 4] /\ task[p].at = "user"
    BY <1>3 DEF Exec
  <2>2. t # p => task'[t] = task[t]
    BY <1>0, <2>1
  <2>3. task'[p] = [task[p] EXCEPT !.len = 4]
    BY <1>0, <2>1
  <2> QED BY <1>0, <2>1, <2>2, <2>3 DEF TaskType
<1>4. CASE \E code \in ExitCodes : ExitBegin(p, code)
  <2>1. PICK code \in ExitCodes : ExitBegin(p, code)
    BY <1>4
  <2> DEFINE A == Adopt(task[p].pid)
  <2>2. task[p].at = "user" /\ task' = [A EXCEPT ![p].at = "exit", ![p].code = code]
    BY <2>1 DEF ExitBegin
  <2>3. A[t].at = task[t].at /\ A[t].len = task[t].len /\ A[p] \in TaskType
    <3>1. \A s \in Pcbs : A[s] = task[s] \/ A[s] = [task[s] EXCEPT !.ppid = 1]
      BY DEF Adopt
    <3>2. 1 \in Pids
      BY ProcessAssumption DEF Pids
    <3>3. \A s \in Pcbs : task[s] \in TaskType /\ [task[s] EXCEPT !.ppid = 1] \in TaskType
      BY <1>0, <3>2 DEF TaskType
    <3> HIDE DEF A
    <3>4. A[p] \in TaskType
      BY <1>0, <3>1, <3>3
    <3>5. A[t].at = task[t].at /\ A[t].len = task[t].len
      BY <1>2, <3>1 DEF TaskType
    <3> QED BY <3>4, <3>5
  <2>4. A = [s \in Pcbs |-> A[s]]
    BY DEF Adopt
  <2> HIDE DEF A
  <2>5. t # p => task'[t] = A[t]
    BY <2>2, <2>4
  <2>6. task'[p].at = "exit"
    BY <1>0, <2>2, <2>3, <2>4 DEF TaskType
  <2> QED BY <2>2, <2>3, <2>5, <2>6
<1>5. CASE ExitEnd(p)
  <2>1. task'[t].at = task[t].at /\ task'[t].len = task[t].len
    <3> DEFINE q == pid2thread(task[p].ppid)
    <3>1. \/ task' = task
          \/ \E a, b \in {"NONE", "RUN", "WAITING", "HANGING"} :
                task' = [task EXCEPT ![q].status = a, ![p].status = b]
      <4>1. CASE q = None
        BY <1>5, <4>1 DEF ExitEnd
      <4>2. CASE q # None
        <5>1. q \in Pcbs
          BY <4>2, Searches DEF Listed, Inv
        <5>2. task[q].status \in {"NONE", "RUN", "WAITING", "HANGING"}
          BY <5>1, PcbFacts DEF Inv
        <5> DEFINE st == IF task[q].status = "WAITING" THEN "RUN" ELSE task[q].status
        <5>3. st \in {"NONE", "RUN", "WAITING", "HANGING"}
          BY <5>2
        <5>4. task' = [task EXCEPT ![q].status = st, ![p].status = "HANGING"]
          BY <1>5, <4>2 DEF ExitEnd
        <5> HIDE DEF st, q
        <5> QED BY <5>3, <5>4
      <4> QED BY <4>1, <4>2
    <3> HIDE DEF q
    <3>2. CASE task' = task
      BY <3>2
    <3>3. ASSUME NEW a \in {"NONE", "RUN", "WAITING", "HANGING"},
                 NEW b \in {"NONE", "RUN", "WAITING", "HANGING"},
                 task' = [task EXCEPT ![q].status = a, ![p].status = b]
          PROVE  task'[t].at = task[t].at /\ task'[t].len = task[t].len
      <4> DEFINE S == [task EXCEPT ![q].status = a]
      <4>1. S \in [Pcbs -> TaskType]
        <5>1. \A s \in Pcbs : [task[s] EXCEPT !.status = a] \in TaskType
          BY <1>0 DEF TaskType
        <5>2. S = [task EXCEPT ![q] = [task[q] EXCEPT !.status = a]]
          OBVIOUS
        <5> QED BY <1>0, <5>1, <5>2
      <4>2. S[t].at = task[t].at /\ S[t].len = task[t].len
        BY <1>0, <1>2 DEF TaskType
      <4>3. task' = [S EXCEPT ![p].status = b]
        BY <3>3
      <4> HIDE DEF S
      <4>4. t # p => task'[t] = S[t]
        BY <4>1, <4>3
      <4>5. task'[p].at = S[p].at /\ task'[p].len = S[p].len
        BY <1>0, <4>1, <4>3 DEF TaskType
      <4> QED BY <4>2, <4>4, <4>5
    <3> QED BY <3>1, <3>2, <3>3
  <2> QED BY <2>1
<1>6. CASE Wait(p)
  <2> DEFINE c == find_hanging_child(task[p].pid)
  <2>1. task[p].at \in {"user", "wait"}
    BY <1>6 DEF Wait
  <2>2. CASE c # None
    <3>1. task' = [task EXCEPT ![p].at = "user", ![c] = Empty]
      BY <1>6, <2>2 DEF Wait
    <3>2. c \in Pcbs /\ task[c].status = "HANGING" /\ c \in Listed
      BY <2>2, Searches DEF Listed, Inv
    <3>3. task[c].at = "exit"
      BY <3>2 DEF Inv, Tasks, TasksWhole
    <3> HIDE DEF c
    <3>4. c # p /\ Empty.at = "user"
      BY <2>1, <3>3 DEF Empty
    <3>5. task' = [task EXCEPT ![p] = [task[p] EXCEPT !.at = "user"], ![c] = Empty]
      BY <1>0, <3>1
    <3>6. task'[c] = Empty /\ task'[p] = [task[p] EXCEPT !.at = "user"]
          /\ (t # c /\ t # p => task'[t] = task[t])
      BY <1>0, <3>2, <3>4, <3>5
    <3>7. task'[p].at = "user"
      BY <1>0, <3>6 DEF TaskType
    <3> QED BY <2>1, <3>3, <3>4, <3>6, <3>7
  <2>3. CASE c = None
    <3>1. \/ task' = [task EXCEPT ![p].at = "user"]
          \/ task' = [task EXCEPT ![p].at = "wait", ![p].status = "WAITING"]
      BY <1>6, <2>3 DEF Wait
    <3>2. CASE task' = [task EXCEPT ![p].at = "user"]
      BY <1>0, <2>1, <3>2 DEF TaskType
    <3>3. CASE task' = [task EXCEPT ![p].at = "wait", ![p].status = "WAITING"]
      <4>1. task' = [task EXCEPT ![p] = [task[p] EXCEPT !.at = "wait", !.status = "WAITING"]]
        BY <1>0, <3>3
      <4>2. (t # p => task'[t] = task[t])
            /\ task'[p] = [task[p] EXCEPT !.at = "wait", !.status = "WAITING"]
        BY <1>0, <4>1
      <4> QED BY <1>0, <2>1, <4>2 DEF TaskType
    <3> QED BY <3>1, <3>2, <3>3
  <2> QED BY <2>2, <2>3
<1>7. CASE MainExit
  <2>1. task' = [task EXCEPT ![Main] = Empty]
    BY <1>7 DEF MainExit
  <2>2. task[Main].at = "user"
    BY <1>0, <1>7 DEF MainExit, Inv, Tasks, InitLives, TasksWhole, Listed
  <2> QED BY <1>0, <2>1, <2>2 DEF Empty
<1> QED BY <1>3, <1>4, <1>5, <1>6, <1>7

(* fork takes a page for the child's task_struct: the lowest free one. *)
LEMMA ForkPcbFills ==
    ASSUME Roomy, Inv, FilledFromBelow, ~panic, NEW p \in Pages, ForkPcb(p)
    PROVE  FilledFromBelow' /\ ~panic'
<1> DEFINE c == Run(1)
<1>0. /\ TypeOK /\ p \in Pcbs /\ task[p].at = "user" /\ forks < MaxForks /\ forks' = forks + 1
      /\ task[p].len + 5 <= MaxName /\ task[p].len \in Nat /\ forks \in Nat /\ MaxForks \in Nat
      /\ MaxPid \in Nat
  <2>1. TypeOK
    BY DEF Inv
  <2>2. p \in Pcbs
    BY Ranges
  <2>3. forks \in Nat
    BY <2>1 DEF TypeOK
  <2>4. MaxForks \in Nat /\ MaxName \in Nat /\ MaxPid \in Nat
    BY ProcessAssumption
  <2>5. task[p].len \in Nat
    BY <2>1, <2>2, <2>4, PcbFacts
  <2>6. task[p].at = "user" /\ forks < MaxForks /\ forks' = forks + 1 /\ task[p].len + 5 <= MaxName
    BY DEF ForkPcb
  <2> QED BY <2>1, <2>2, <2>3, <2>4, <2>5, <2>6
<1>1. Filled \in Nat /\ Filled + 2 <= Size /\ used \subseteq 0..Filled /\ pids \subseteq 1..forks + 3
  BY <1>0, FilledFacts DEF FilledFromBelow
<1>2. ~MapFull(used) /\ Block(c, 1) \subseteq 0..Filled + 1
  <2> HIDE DEF Filled
  <2>1. 1 \in Nat \ {0} /\ Filled + 1 + 1 <= Size
    BY <1>1
  <2> QED BY <1>1, <2>1, TakesBelow
<1>3. c \in Pages /\ c \notin used /\ c \in Pcbs /\ c \notin Alive /\ c # p
  <2>1. c \in Pages /\ c \notin used /\ c \in Pcbs
    BY <1>2, NewPage, Ranges
  <2>2. p \in Listed
    BY <1>0 DEF ForkPcb, Proc, Listed
  <2> QED BY <2>1, <2>2, AliveFacts
<1>4. c \in 0..Filled + 1
  BY <1>2, <1>3, Ranges DEF Block
<1>5. forks + 4 \in Pids /\ forks + 4 \notin pids
  BY <1>0, <1>1 DEF Roomy, Pids
<1>6. FreePid \in 1..forks + 4
  <2>1. pids # Pids /\ pids \subseteq Pids
    BY <1>0, <1>5 DEF TypeOK
  <2>2. FreePid \in Pids /\ FreePid <= forks + 4
    BY <1>5, <2>1, NewPid
  <2> QED BY <1>0, <2>2 DEF Pids
<1>8. /\ used' = used \cup {c} /\ pids' = pids \cup {FreePid} /\ panic' = panic
      /\ task' = [task EXCEPT
                  ![p].at = "fork1", ![p].child = c,
                  ![c] = [task[p] EXCEPT !.pid = FreePid, !.ppid = task[p].pid]]
  <2>1. ~(MapFull(used) \/ pids = Pids)
    BY <1>0, <1>2, <1>5
  <2> QED BY <2>1 DEF ForkPcb
<1> HIDE DEF c
<1>9. /\ \A t \in Pcbs : t # p /\ t # c => task'[t] = task[t]
      /\ task'[p].at = "fork1" /\ task'[p].len = task[p].len /\ task'[c].at = "user"
  <2>1. task \in [Pcbs -> TaskType] /\ task[p] \in TaskType
    BY <1>0 DEF TypeOK
  <2>2. task' = [task EXCEPT ![p] = [task[p] EXCEPT !.at = "fork1", !.child = c],
                     ![c] = [task[p] EXCEPT !.pid = FreePid, !.ppid = task[p].pid]]
    BY <1>0, <1>3, <1>8, <2>1
  <2>3. /\ task'[p] = [task[p] EXCEPT !.at = "fork1", !.child = c]
        /\ task'[c] = [task[p] EXCEPT !.pid = FreePid, !.ppid = task[p].pid]
        /\ \A t \in Pcbs : t # p /\ t # c => task'[t] = task[t]
    BY <1>0, <1>3, <2>1, <2>2
  <2> QED BY <1>0, <2>1, <2>3 DEF TaskType
<1>10. task[c].at \notin {"fork1", "fork2"}
  BY <1>3, AliveFacts DEF Inv, Tasks, ForksWhole
<1>11. /\ At("fork1")' = At("fork1") \cup {p} /\ p \notin At("fork1")
       /\ At("fork2")' = At("fork2")
  BY <1>0, <1>3, <1>9, <1>10 DEF At
<1>12. Cardinality(At("fork1")') = Cardinality(At("fork1")) + 1
  BY <1>11, AtFinite, FS_AddElement
<1>13. Filled' = Filled + 1
  <2> DEFINE n1 == Cardinality(At("fork1"))
             n2 == Cardinality(At("fork2"))
  <2>1. Filled' = (forks + 1 + 1) * (BitmapPages + 2) - (n1 + 1) * (BitmapPages + 1) - n2
    BY <1>0, <1>11, <1>12 DEF Filled
  <2>2. n1 \in Nat /\ n2 \in Nat /\ BitmapPages \in Nat
    BY AtFinite, ProcessAssumption
  <2>3. Filled = (forks + 1) * (BitmapPages + 2) - n1 * (BitmapPages + 1) - n2
    BY DEF Filled
  <2> HIDE DEF n1, n2
  <2>4. /\ (forks + 1 + 1) * (BitmapPages + 2) = (forks + 1) * (BitmapPages + 2) + BitmapPages + 2
        /\ (n1 + 1) * (BitmapPages + 1) = n1 * (BitmapPages + 1) + BitmapPages + 1
        /\ (forks + 1) * (BitmapPages + 2) \in Nat /\ n1 * (BitmapPages + 1) \in Nat
    BY <1>0, <2>2
  <2> QED BY <2>1, <2>2, <2>3, <2>4
<1>14. used' \subseteq 0..Filled'
  BY <1>1, <1>4, <1>8, <1>13
<1>15. pids' \subseteq 1..forks' + 3
  BY <1>0, <1>1, <1>6, <1>8
<1>16. \A t \in At("fork1")' : task'[t].len + 5 <= MaxName
  <2>1. \A t \in At("fork1") : t \in Pcbs /\ t # p /\ t # c
    BY <1>10, <1>11 DEF At
  <2> QED BY <1>0, <1>9, <1>11, <2>1 DEF FilledFromBelow
<1> QED BY <1>8, <1>14, <1>15, <1>16 DEF FilledFromBelow

(* fork takes the pages of the child's bitmap: the first run of free ones. *)
LEMMA ForkBitmapFills ==
    ASSUME Roomy, Inv, FilledFromBelow, ~panic, NEW p \in Pages, ForkBitmap(p)
    PROVE  FilledFromBelow' /\ ~panic'
<1> DEFINE c == task[p].child
           b == Run(BitmapPages)
           n == task[p].len + 5
<1>0. TypeOK /\ p \in Pcbs /\ task[p].at = "fork1" /\ c # None /\ forks' = forks /\ pids' = pids
  BY Ranges DEF Inv, ForkBitmap
<1>1. At("fork1") # {}
  BY <1>0 DEF At
<1>2. Filled \in Nat /\ Filled + 1 + BitmapPages <= Size /\ used \subseteq 0..Filled
  BY <1>1, FilledFacts DEF FilledFromBelow
<1>3. BitmapPages \in Nat \ {0}
  BY ProcessAssumption
<1>4. ~MapFull(used) /\ b # None /\ Block(b, BitmapPages) \subseteq 0..Filled + BitmapPages
  <2> HIDE DEF Filled
  <2> QED BY <1>2, <1>3, TakesBelow
<1>5. /\ used' = used \cup Block(b, BitmapPages)
      /\ task' = [task EXCEPT ![p].at = "fork2", ![c].bits = b, ![c].len = n]
      /\ panic' = (task[p].len >= NameLen)
  BY <1>4 DEF ForkBitmap
<1>6. c \in Pcbs /\ c # p /\ task[c].at = "user"
  <2>1. c \in Pcbs /\ task[c].at = "user"
    BY <1>0, AliveFacts DEF Inv, Tasks, ForksWhole
  <2> QED BY <1>0, <2>1
<1>a. ~panic' /\ task[p].len \in Nat
  <2>1. task[p].len + 5 <= MaxName /\ task[p].len \in Nat /\ MaxName \in Nat
    BY <1>0, PcbFacts, ProcessAssumption DEF FilledFromBelow, At
  <2>2. ~(task[p].len >= NameLen)
    BY <2>1 DEF Roomy, NameLen
  <2> QED BY <1>5, <2>1, <2>2, Zenon
<1> HIDE DEF c, b, n
<1>7. /\ \A t \in Pcbs : t # p /\ t # c => task'[t] = task[t]
      /\ task'[p].at = "fork2" /\ task'[c].at = "user"
  <2>1. task \in [Pcbs -> TaskType] /\ task[p] \in TaskType /\ task[c] \in TaskType
    BY <1>0, <1>6 DEF TypeOK
  <2>2. task' = [task EXCEPT ![p] = [task[p] EXCEPT !.at = "fork2"],
                             ![c] = [task[c] EXCEPT !.bits = b, !.len = n]]
    BY <1>0, <1>5, <1>6, <2>1
  <2>3. /\ task'[p] = [task[p] EXCEPT !.at = "fork2"] /\ task'[c] = [task[c] EXCEPT !.bits = b, !.len = n]
        /\ \A t \in Pcbs : t # p /\ t # c => task'[t] = task[t]
    BY <1>0, <1>6, <2>1, <2>2
  <2> QED BY <1>6, <2>1, <2>3 DEF TaskType
<1>8. /\ At("fork1")' = At("fork1") \ {p} /\ p \in At("fork1")
      /\ At("fork2")' = At("fork2") \cup {p} /\ p \notin At("fork2")
  BY <1>0, <1>6, <1>7 DEF At
<1>9. /\ Cardinality(At("fork1")') = Cardinality(At("fork1")) - 1
      /\ Cardinality(At("fork2")') = Cardinality(At("fork2")) + 1
  BY <1>8, AtFinite, FS_AddElement, FS_RemoveElement
<1>10. Filled' = Filled + BitmapPages
  <2> DEFINE n1 == Cardinality(At("fork1"))
             n2 == Cardinality(At("fork2"))
             a == (forks + 1) * (BitmapPages + 2)
  <2>1. Filled' = a - (n1 - 1) * (BitmapPages + 1) - (n2 + 1)
    BY <1>0, <1>9 DEF Filled
  <2>2. n1 \in Nat /\ n2 \in Nat /\ BitmapPages \in Nat /\ forks \in Nat
    BY <1>0, <1>3, AtFinite DEF TypeOK
  <2>3. Filled = a - n1 * (BitmapPages + 1) - n2
    BY DEF Filled
  <2>a. a \in Int
    BY <2>2
  <2> HIDE DEF n1, n2, a
  <2>4. /\ (n1 - 1) * (BitmapPages + 1) = n1 * (BitmapPages + 1) - (BitmapPages + 1)
        /\ n1 * (BitmapPages + 1) \in Nat
    BY <2>2
  <2> QED BY <2>1, <2>2, <2>3, <2>4, <2>a
<1>11. used' \subseteq 0..Filled'
  BY <1>2, <1>3, <1>4, <1>5, <1>10
<1>12. \A t \in At("fork1")' : task'[t].len + 5 <= MaxName
  <2>1. \A t \in At("fork1") \ {p} : t \in Pcbs /\ t # c
    BY <1>6 DEF At
  <2> QED BY <1>7, <1>8, <2>1 DEF FilledFromBelow
<1> QED BY <1>0, <1>a, <1>11, <1>12 DEF FilledFromBelow

(* fork takes a page for the child's page directory: the lowest free one. *)
LEMMA ForkDirFills ==
    ASSUME Roomy, Inv, FilledFromBelow, ~panic, NEW p \in Pages, ForkDir(p)
    PROVE  FilledFromBelow' /\ ~panic'
<1> DEFINE c == task[p].child
           d == Run(1)
<1>0. TypeOK /\ p \in Pcbs /\ task[p].at = "fork2" /\ c # None /\ forks' = forks /\ pids' = pids
  BY Ranges DEF Inv, ForkDir
<1>1. At("fork2") # {}
  BY <1>0 DEF At
<1>2. Filled \in Nat /\ Filled + 2 <= Size /\ used \subseteq 0..Filled
  BY <1>1, FilledFacts DEF FilledFromBelow
<1>3. ~MapFull(used) /\ Block(d, 1) \subseteq 0..Filled + 1
  <2> HIDE DEF Filled
  <2>1. 1 \in Nat \ {0} /\ Filled + 1 + 1 <= Size
    BY <1>2
  <2> QED BY <1>2, <2>1, TakesBelow
<1>4. d \in 0..Filled + 1
  <2>1. d \in Pages
    BY <1>3, NewPage
  <2> QED BY <2>1, <1>3, Ranges DEF Block
<1>5. c \in Pcbs /\ c # p /\ task[c].at = "user" /\ ~InList(c, all)
  <2>1. c \in Pcbs /\ task[c].at = "user" /\ c \notin Listed
    BY <1>0, AliveFacts DEF Inv, Tasks, ForksWhole
  <2> QED BY <1>0, <2>1 DEF Listed
<1>6. /\ used' = used \cup {d} /\ panic' = panic
      /\ task' = [task EXCEPT ![p].at = "user", ![p].child = None, ![c].dir = d]
  BY <1>3, <1>5 DEF ForkDir
<1> HIDE DEF c, d
<1>7. /\ \A t \in Pcbs : t # p /\ t # c => task'[t] = task[t]
      /\ task'[p].at = "user" /\ task'[c].at = "user"
  <2>1. task \in [Pcbs -> TaskType] /\ task[p] \in TaskType /\ task[c] \in TaskType
    BY <1>0, <1>5 DEF TypeOK
  <2>2. task' = [task EXCEPT ![p] = [task[p] EXCEPT !.at = "user", !.child = None],
                             ![c] = [task[c] EXCEPT !.dir = d]]
    BY <1>0, <1>5, <1>6, <2>1
  <2>3. /\ task'[p] = [task[p] EXCEPT !.at = "user", !.child = None]
        /\ task'[c] = [task[c] EXCEPT !.dir = d]
        /\ \A t \in Pcbs : t # p /\ t # c => task'[t] = task[t]
    BY <1>0, <1>5, <2>1, <2>2
  <2> QED BY <1>5, <2>1, <2>3 DEF TaskType
<1>8. /\ At("fork2")' = At("fork2") \ {p} /\ p \in At("fork2")
      /\ At("fork1")' = At("fork1")
  BY <1>0, <1>5, <1>7 DEF At
<1>9. Cardinality(At("fork2")') = Cardinality(At("fork2")) - 1
  BY <1>8, AtFinite, FS_RemoveElement
<1>10. Filled' = Filled + 1
  <2> DEFINE n2 == Cardinality(At("fork2"))
             a == (forks + 1) * (BitmapPages + 2) - Cardinality(At("fork1")) * (BitmapPages + 1)
  <2>1. Filled' = a - (n2 - 1) /\ Filled = a - n2
    BY <1>0, <1>8, <1>9 DEF Filled
  <2>2. n2 \in Nat /\ a \in Int
    <3>1. Cardinality(At("fork1")) \in Nat /\ BitmapPages \in Nat /\ forks \in Nat
      BY <1>0, AtFinite, ProcessAssumption DEF TypeOK
    <3> QED BY <3>1, AtFinite
  <2> HIDE DEF n2, a
  <2> QED BY <2>1, <2>2
<1>11. used' \subseteq 0..Filled'
  BY <1>2, <1>4, <1>6, <1>10
<1>12. \A t \in At("fork1")' : task'[t].len + 5 <= MaxName
  <2>1. \A t \in At("fork1") : t \in Pcbs /\ t # p /\ t # c
    BY <1>0, <1>5 DEF At
  <2> QED BY <1>7, <1>8, <2>1 DEF FilledFromBelow
<1> QED BY <1>0, <1>6, <1>11, <1>12 DEF FilledFromBelow

(* No step takes a page or a pid above what the forks so far account for. *)
LEMMA FillStep ==
    ASSUME Roomy, Inv, FilledFromBelow, ~panic, [Next]_vars
    PROVE  FilledFromBelow' /\ ~panic'
<1>1. ASSUME NEW p \in Pages,
             \/ Exec(p) \/ (\E code \in ExitCodes : ExitBegin(p, code))
             \/ ExitEnd(p) \/ Wait(p) \/ MainExit
      PROVE  FilledFromBelow' /\ ~panic'
  <2>1. /\ At("fork1")' = At("fork1") /\ At("fork2")' = At("fork2")
        /\ used' \subseteq used /\ pids' \subseteq pids /\ forks' = forks
        /\ panic' = panic
        /\ \A t \in At("fork1") : task'[t].len = task[t].len
    BY <1>1, OtherSteps
  <2>2. Filled' = Filled
    BY <2>1 DEF Filled
  <2> QED BY <2>1, <2>2 DEF FilledFromBelow
<1>2. CASE UNCHANGED vars
  BY <1>2 DEF vars, FilledFromBelow, Filled, At
<1>3. CASE MainExit
  BY <1>1, <1>3, Ranges
<1>4. ASSUME NEW p \in Pages, ForkPcb(p) \/ ForkBitmap(p) \/ ForkDir(p)
      PROVE  FilledFromBelow' /\ ~panic'
  BY <1>4, ForkPcbFills, ForkBitmapFills, ForkDirFills
<1> QED BY <1>1, <1>2, <1>3, <1>4 DEF Next

(* At boot the pages and pids in use are the lowest ones. *)
LEMMA FillInit == Init => FilledFromBelow /\ ~panic
<1> SUFFICES ASSUME Init PROVE FilledFromBelow /\ ~panic
  OBVIOUS
<1>1. used = 0..BitmapPages + 2 /\ pids = 1..3 /\ forks = 0 /\ panic = FALSE
  BY DEF Init
<1>2. BitmapPages \in Nat
  BY ProcessAssumption
<1>3. \A t \in Pcbs : task[t].child = None
  <2>1. \A t \in Pcbs : task[t] = [Kernel(1) EXCEPT !.bits = 1, !.dir = BitmapPages + 1]
                        \/ task[t] = Kernel(2) \/ task[t] = Kernel(3) \/ task[t] = Empty
    BY DEF Init
  <2>2. [Kernel(1) EXCEPT !.bits = 1, !.dir = BitmapPages + 1].child = None
    BY DEF Kernel, Empty
  <2>3. Kernel(2).child = None /\ Kernel(3).child = None /\ Empty.child = None
    BY DEF Kernel, Empty
  <2> QED BY <2>1, <2>2, <2>3
<1>4. At("fork1") = {} /\ At("fork2") = {}
  BY <1>3, InitInv DEF At, Inv, Tasks, ForksWhole
<1>5. Filled = BitmapPages + 2
  <2>1. Cardinality(At("fork1")) = 0 /\ Cardinality(At("fork2")) = 0
    BY <1>4, FS_EmptySet
  <2>2. Filled = (0 + 1) * (BitmapPages + 2) - 0 * (BitmapPages + 1) - 0
    BY <1>1, <2>1 DEF Filled
  <2> QED BY <1>2, <2>2
<1> QED BY <1>1, <1>4, <1>5 DEF FilledFromBelow

\* sys_fork on a heap with room for every fork: it always finds its pages, its
\* pid and room in the name, and the kernel never stops.
THEOREM NoPanicWithRoom == ASSUME Roomy PROVE Spec => []NoPanic
<1> DEFINE J == Inv /\ FilledFromBelow /\ ~panic
<1>1. Init => J
  BY InitInv, FillInit
<1>2. J /\ [Next]_vars => J'
  BY FillStep, NextInv, RoomyFindsBitmap
<1>3. J => NoPanic
  BY DEF NoPanic
<1> HIDE DEF J
<1> QED BY <1>1, <1>2, <1>3, PTL DEF Spec

\* The same for the invariants: with room for every fork nothing has to be
\* assumed about the steps.
THEOREM SafeWithRoom ==
    ASSUME Roomy
    PROVE  Spec => [](PidsUnique /\ ParentAlive /\ NoMissedExit /\ PagesDisjoint)
<1> DEFINE J == Inv /\ FilledFromBelow /\ ~panic
<1>1. Init => J
  BY InitInv, FillInit
<1>2. J /\ [Next]_vars => J'
  BY FillStep, NextInv, RoomyFindsBitmap
<1>3. J => BitmapFound
  BY RoomyFindsBitmap
<1> HIDE DEF J
<1>4. Spec => []BitmapFound
  BY <1>1, <1>2, <1>3, PTL DEF Spec
<1> QED BY <1>4, PidsNeverShared, NoOrphans, ExitsNotMissed, PagesNeverShared, PTL

-----------------------------------------------------------------------------
(* The heap allocator (Arena): the inductive invariant. *)

Blocks == HeapPages \X Nat
Header == [large : BOOLEAN, desc : Procs, class : Classes \cup {0}, cnt : Int]

HeapTypeOK ==
    /\ free \in [Procs -> [Classes -> Seq(Blocks)]]
    /\ arena \in [Procs -> [HeapPages -> Header]]
    /\ mapped \in [Procs -> SUBSET HeapPages]
    /\ held \in [Procs -> SUBSET Blocks]
    /\ shared \subseteq HeapPages
    /\ old \subseteq Blocks
    /\ Parent \in alive /\ alive \subseteq Procs
    /\ failed \in BOOLEAN

\* A process that does not exist yet has no heap, and nothing is shared.
Unborn ==
    \A p \in Procs \ alive :
        /\ shared = {} /\ old = {} /\ held[p] = {}
        /\ \A c \in Classes : free[p][c] = << >>

\* A header of a large block has no class; an unmapped page is no arena; the
\* first process has no arenas of another one.
HeadersPlain ==
    \A p \in Procs : \A g \in HeapPages :
        /\ arena[p][g].large => arena[p][g].class = 0 /\ g \in mapped[p]
        /\ arena[p][g].class # 0 => g \in mapped[p]
        /\ arena[p][g].desc \in {Parent, p}

\* What parent and child share they see alike, and both have it.
SharedAlike ==
    \A p \in Procs :
        /\ shared \subseteq mapped[p]
        /\ \A g \in shared : arena[p][g] = arena[Parent][g]

\* The blocks of page g that process p has in its list of class c
FreeIn(p, g, c) == {i \in 1..Per[c] : InList(<<g, i>>, free[p][c])}

\* An arena of the process counts the blocks it has in the list.
CountsExact ==
    \A p \in Procs : \A g \in HeapPages :
        LET a == arena[p][g] IN
        a.class # 0 /\ a.desc = p => a.cnt = Cardinality(FreeIn(p, g, a.class))

\* A list holds blocks of arenas of the process that are of its class.
ListsOwn ==
    \A p \in Procs : \A c \in Classes :
        /\ NoRepeat(free[p][c])
        /\ \A b \in Blocks : InList(b, free[p][c]) =>
              /\ b[2] \in 1..Per[c]
              /\ arena[p][b[1]].class = c /\ arena[p][b[1]].desc = p

\* A held block is a block of its arena, and one the process may free lies in
\* an arena of its own, not in the list; the child may not free an old one.
HeldOwn ==
    \A p \in Procs : \A b \in held[p] :
        LET a == arena[p][b[1]] IN
        /\ b[2] # 0 => /\ a.class # 0 /\ b[2] \in 1..Per[a.class]
                       /\ a.desc = p => ~InList(b, free[p][a.class])
        /\ b[2] = 0 => a.large
        /\ p # Parent => (a.desc = Parent <=> b \in old)

OldHeld == \A p \in Procs \ {Parent} : old \subseteq held[p]

\* A large block is a run of pages of which only the first is a header.
RunsWhole ==
    \A p \in Procs : \A b \in held[p] : b[2] = 0 =>
        LET n == arena[p][b[1]].cnt IN
        /\ n >= 1
        /\ b[1]..b[1] + n - 1 \subseteq mapped[p]
        /\ \A g \in b[1] + 1..b[1] + n - 1 :
              arena[p][g].class = 0 /\ ~arena[p][g].large

IInv == /\ HeapTypeOK /\ Unborn /\ HeadersPlain /\ SharedAlike /\ CountsExact /\ ListsOwn
        /\ HeldOwn /\ OldHeld /\ RunsWhole /\ ~failed

-----------------------------------------------------------------------------
(* The heap allocator: facts about the operators of the model. *)

\* There is one process beside the first.
LEMMA OneChild ==
    ASSUME NEW p \in Procs \ {Parent}, NEW q \in Procs \ {Parent}
    PROVE  p = q
<1>1. IsFiniteSet(Procs \ {Parent}) /\ Cardinality(Procs \ {Parent}) = 2 - 1
  BY FS_RemoveElement, ArenaAssumption
<1>2. \E x : Procs \ {Parent} = {x}
  BY <1>1, FS_Singleton
<1> QED BY <1>2

\* vaddr_get finds the lowest run, and it is free.
LEMMA FitsFacts ==
    ASSUME NEW p \in Procs, NEW n \in Nat \ {0}, Fits(p, n) # {}
    PROVE  LET s == Lowest(Fits(p, n)) IN
           /\ s \in HeapPages /\ s + n - 1 \in HeapPages
           /\ \A g \in s..s + n - 1 : g \in HeapPages /\ g \notin mapped[p]
<1> DEFINE s == Lowest(Fits(p, n))
<1>1. HeapSize \in Nat
  BY ArenaAssumption
<1>2. Fits(p, n) \subseteq Nat
  BY <1>1 DEF Fits
<1>3. \E i \in Fits(p, n) : \A j \in Fits(p, n) : i <= j
  BY <1>2, LeastNat
<1>4. s \in Fits(p, n)
  BY <1>3 DEF Lowest
<1>5. s \in 1..HeapSize + 1 - n /\ s..s + n - 1 \cap mapped[p] = {}
  BY <1>4 DEF Fits
<1> HIDE DEF s
<1>6. s \in HeapPages /\ s + n - 1 \in HeapPages
  BY <1>1, <1>5 DEF HeapPages
<1>7. \A g \in s..s + n - 1 : g \in HeapPages /\ g \notin mapped[p]
  BY <1>1, <1>5, <1>6 DEF HeapPages
<1> QED BY <1>6, <1>7 DEF s

\* A write to a header changes it for the process that writes and, if the
\* page is shared, for both.
LEMMA SetHeaderFacts ==
    ASSUME HeapTypeOK, NEW p \in Procs, NEW g \in HeapPages, NEW h \in Header,
           SetHeader(p, g, h)
    PROVE  /\ arena' \in [Procs -> [HeapPages -> Header]]
           /\ arena'[p][g] = h
           /\ \A r \in Procs : g \in shared => arena'[r][g] = h
           /\ \A r \in Procs : r # p /\ g \notin shared => arena'[r] = arena[r]
           /\ \A r \in Procs : \A k \in HeapPages \ {g} : arena'[r][k] = arena[r][k]
<1>1. arena \in [Procs -> [HeapPages -> Header]]
  BY DEF HeapTypeOK
<1>2. \A r \in Procs : [arena[r] EXCEPT ![g] = h] \in [HeapPages -> Header]
  BY <1>1
<1> QED BY <1>1, <1>2 DEF SetHeader

\* Counting a block more or less leaves the rest of a header alone.
LEMMA HeaderFacts ==
    ASSUME NEW a \in Header, NEW k \in Int
    PROVE  /\ [a EXCEPT !.cnt = k] \in Header
           /\ [a EXCEPT !.cnt = k].large = a.large
           /\ [a EXCEPT !.cnt = k].desc = a.desc
           /\ [a EXCEPT !.cnt = k].class = a.class
           /\ [a EXCEPT !.cnt = k].cnt = k
  BY DEF Header

\* The blocks of a fresh arena are all different.
LEMMA CutFacts ==
    ASSUME NEW g \in HeapPages, NEW c \in Classes
    PROVE  /\ Cut(g, c) \in Seq(Blocks) /\ Cut(g, c) # << >>
           /\ NoRepeat(Cut(g, c)) /\ Head(Cut(g, c)) = <<g, 1>>
           /\ \A b : InList(b, Cut(g, c)) <=> \E i \in 1..Per[c] : b = <<g, i>>
<1>1. Per[c] \in Nat \ {0}
  BY ArenaAssumption
<1>2. Cut(g, c) \in Seq(Blocks)
  BY <1>1 DEF Cut, Blocks
<1>3. DOMAIN Cut(g, c) = 1..Per[c] /\ Len(Cut(g, c)) = Per[c]
  BY <1>1 DEF Cut
<1>4. \A i \in 1..Per[c] : Cut(g, c)[i] = <<g, i>>
  BY DEF Cut
<1>5. Cut(g, c) # << >> /\ Head(Cut(g, c)) = <<g, 1>>
  BY <1>1, <1>2, <1>3, <1>4
<1>6. NoRepeat(Cut(g, c))
  BY <1>3, <1>4 DEF NoRepeat
<1>7. \A b : InList(b, Cut(g, c)) <=> \E i \in 1..Per[c] : b = <<g, i>>
  BY <1>3, <1>4 DEF InList
<1> QED BY <1>2, <1>5, <1>6, <1>7

\* The lists that sys_free goes through when it takes an arena apart
Rest(q, g, c) ==
    CHOOSE rest : rest = [n \in 0..Per[c] |->
                            IF n = 0 THEN q ELSE list_remove(<<g, n>>, rest[n - 1])]

\* There is such a row of lists.
LEMMA RestExists ==
    ASSUME NEW q, NEW g, NEW c \in Classes
    PROVE  Rest(q, g, c) = [n \in 0..Per[c] |->
               IF n = 0 THEN q ELSE list_remove(<<g, n>>, Rest(q, g, c)[n - 1])]
<1> DEFINE F(f, m) == f = [n \in 0..m |->
                             IF n = 0 THEN q ELSE list_remove(<<g, n>>, f[n - 1])]
           Bad == {m \in Nat : ~\E f : F(f, m)}
<1>1. ASSUME NEW m \in Nat, NEW f, F(f, m) PROVE \E f2 : F(f2, m + 1)
  <2> DEFINE f2 == [n \in 0..(m + 1) |-> IF n = m + 1 THEN list_remove(<<g, n>>, f[m]) ELSE f[n]]
  <2>1. ASSUME NEW n \in 0..(m + 1)
        PROVE  f2[n] = IF n = 0 THEN q ELSE list_remove(<<g, n>>, f2[n - 1])
    <3>1. CASE n = m + 1
      <4>1. n - 1 = m /\ m \in 0..(m + 1) /\ m # m + 1 /\ n # 0
        BY <3>1
      <4> QED BY <3>1, <4>1
    <3>2. CASE n # m + 1 /\ n # 0
      <4>1. n \in 0..m /\ n - 1 \in 0..(m + 1) /\ n - 1 # m + 1
        BY <3>2
      <4>2. f[n] = list_remove(<<g, n>>, f[n - 1])
        BY <1>1, <3>2, <4>1
      <4> QED BY <3>2, <4>1, <4>2
    <3>3. CASE n # m + 1 /\ n = 0
      BY <1>1, <3>3
    <3> QED BY <3>1, <3>2, <3>3
  <2>2. F(f2, m + 1)
    <3> DEFINE f3 == [n \in 0..(m + 1) |->
                        IF n = 0 THEN q ELSE list_remove(<<g, n>>, f2[n - 1])]
    <3>1. \A n \in 0..(m + 1) : f2[n] = f3[n]
      BY <2>1
    <3> QED BY <3>1
  <2> QED BY <2>2
<1>2. \E f : F(f, 0)
  <2> DEFINE f0 == [n \in 0..0 |-> q]
  <2>1. f0 = [n \in 0..0 |-> IF n = 0 THEN q ELSE list_remove(<<g, n>>, f0[n - 1])]
    OBVIOUS
  <2> QED BY <2>1
<1>3. Bad = {}
  <2> SUFFICES ASSUME Bad # {} PROVE FALSE
    OBVIOUS
  <2> HIDE DEF F
  <2>1. PICK m \in Bad : \A k \in Bad : m <= k
    BY LeastNat
  <2>2. m # 0
    BY <1>2
  <2>3. m - 1 \in Nat /\ ~(m - 1 \in Bad)
    BY <2>1, <2>2
  <2>4. PICK f : F(f, m - 1)
    BY <2>3
  <2>5. \E f2 : F(f2, (m - 1) + 1)
    BY <1>1, <2>3, <2>4
  <2> QED BY <2>1, <2>5
<1>4. \E f : F(f, Per[c])
  BY <1>3, ArenaAssumption
<1> QED BY <1>4 DEF Rest

\* Taking an arena apart takes its blocks from the list, and no other.
LEMMA UnlistFacts ==
    ASSUME NEW q \in Seq(Blocks), NEW g \in HeapPages, NEW c \in Classes, NoRepeat(q),
           \A i \in 1..Per[c] : InList(<<g, i>>, q)
    PROVE  /\ Unlist(q, g, c) \in Seq(Blocks) /\ NoRepeat(Unlist(q, g, c))
           /\ \A b : InList(b, Unlist(q, g, c)) <=>
                        InList(b, q) /\ ~\E i \in 1..Per[c] : b = <<g, i>>
<1> DEFINE r == Rest(q, g, c)
           Good(n) == /\ r[n] \in Seq(Blocks) /\ NoRepeat(r[n])
                      /\ \A b : InList(b, r[n]) <=>
                                   InList(b, q) /\ ~\E i \in 1..n : b = <<g, i>>
           Bad == {n \in Nat : n <= Per[c] /\ ~Good(n)}
<1>0. Per[c] \in Nat \ {0}
  BY ArenaAssumption
<1>1. r[0] = q /\ \A n \in 1..Per[c] : r[n] = list_remove(<<g, n>>, r[n - 1])
  BY <1>0, RestExists
<1>2. Unlist(q, g, c) = r[Per[c]]
  BY DEF Unlist, Rest
<1> HIDE DEF r
<1>3. Good(0)
  BY <1>1
<1>4. ASSUME NEW n \in 1..Per[c], Good(n - 1) PROVE Good(n)
  <2>1. InList(<<g, n>>, r[n - 1])
    BY <1>0, <1>4
  <2>2. /\ r[n] \in Seq(Blocks) /\ NoRepeat(r[n])
        /\ \A b : InList(b, r[n]) <=> InList(b, r[n - 1]) /\ b # <<g, n>>
    BY <1>1, <1>4, <2>1, RemoveFacts
  <2>3. ASSUME NEW b
        PROVE  InList(b, r[n]) <=> InList(b, q) /\ ~\E i \in 1..n : b = <<g, i>>
    <3>1. (\E i \in 1..n : b = <<g, i>>) <=> (b = <<g, n>> \/ \E i \in 1..n - 1 : b = <<g, i>>)
      BY <1>0
    <3> QED BY <1>4, <2>2, <3>1
  <2> QED BY <2>2, <2>3
<1>5. Good(Per[c])
  <2> HIDE DEF Good
  <2>1. Bad = {}
    <3> SUFFICES ASSUME Bad # {} PROVE FALSE
      OBVIOUS
    <3>1. PICK n \in Bad : \A k \in Bad : n <= k
      BY LeastNat
    <3>2. n # 0
      BY <1>3
    <3>3. n \in 1..Per[c] /\ n - 1 \in Nat /\ n - 1 <= Per[c] /\ ~(n - 1 \in Bad)
      BY <1>0, <3>1, <3>2
    <3> QED BY <1>4, <3>3
  <2> QED BY <1>0, <2>1
<1> QED BY <1>2, <1>5

\* Of n numbers up to n none is left out.
LEMMA AllCounted ==
    ASSUME NEW n \in Nat, NEW S, S \subseteq 1..n
    PROVE  /\ IsFiniteSet(S) /\ Cardinality(S) \in Nat
           /\ Cardinality(S) = n => S = 1..n
           /\ S = 1..n => Cardinality(S) = n
<1>1. IsFiniteSet(1..n) /\ Cardinality(1..n) = n
  BY FS_Interval
<1>2. IsFiniteSet(S) /\ (Cardinality(1..n) = Cardinality(S) => S = 1..n)
  BY <1>1, FS_Subset
<1>3. Cardinality(S) \in Nat
  BY <1>2, FS_CardinalityType
<1> QED BY <1>1, <1>2, <1>3

\* Taking an element out lowers the size by one.
LEMMA OneLess ==
    ASSUME NEW n \in Nat, NEW S, S \subseteq 1..n, NEW T, NEW i,
           i \in S, \A j : j \in T <=> j \in S /\ j # i
    PROVE  Cardinality(T) = Cardinality(S) - 1
<1>1. T = S \ {i}
  OBVIOUS
<1>2. IsFiniteSet(S)
  BY AllCounted
<1> QED BY <1>1, <1>2, FS_RemoveElement

\* Adding a new element to a set of numbers raises its size by one.
LEMMA OneMore ==
    ASSUME NEW n \in Nat, NEW S, S \subseteq 1..n, NEW T, NEW i,
           i \notin S, \A j : j \in T <=> j \in S \/ j = i
    PROVE  Cardinality(T) = Cardinality(S) + 1
<1>1. T = S \cup {i}
  OBVIOUS
<1>2. IsFiniteSet(S)
  BY AllCounted
<1> QED BY <1>1, <1>2, FS_AddElement

-----------------------------------------------------------------------------
(* The heap allocator: what the invariant says of a process that exists. *)

\* HeldNotFree and HeldMapped are consequences of the invariant.
LEMMA InvImplies ==
    ASSUME IInv
    PROVE  HeldNotFree /\ HeldMapped
<1> USE DEF IInv
<1>1. HeldNotFree
  <2> SUFFICES ASSUME NEW p \in alive, NEW c \in Classes
               PROVE  NoRepeat(free[p][c]) /\ \A b \in held[p] : ~InList(b, free[p][c])
    BY DEF HeldNotFree
  <2>1. p \in Procs
    BY DEF HeapTypeOK
  <2>2. NoRepeat(free[p][c])
    BY <2>1 DEF ListsOwn
  <2>3. ASSUME NEW b \in held[p], InList(b, free[p][c]) PROVE FALSE
    <3>1. b \in Blocks
      BY <2>1 DEF HeapTypeOK
    <3>2. b[2] \in 1..Per[c] /\ arena[p][b[1]].class = c /\ arena[p][b[1]].desc = p
      BY <2>1, <2>3, <3>1 DEF ListsOwn
    <3>3. b[2] # 0
      BY <3>2
    <3>4. ~InList(b, free[p][arena[p][b[1]].class])
      BY <2>1, <3>2, <3>3 DEF HeldOwn
    <3> QED BY <2>3, <3>2, <3>4
  <2> QED BY <2>2, <2>3
<1>2. HeldMapped
  <2> SUFFICES ASSUME NEW p \in alive, NEW b \in held[p]
               PROVE  LET last == IF b[2] = 0 THEN b[1] + arena[p][b[1]].cnt - 1 ELSE b[1] IN
                      /\ b[1]..last \subseteq mapped[p]
                      /\ \A d \in held[p] \ {b} : d[1] \notin b[1] + 1..last
                                                  /\ (d[1] = b[1] => b[2] # 0)
    BY DEF HeldMapped
  <2> DEFINE last == IF b[2] = 0 THEN b[1] + arena[p][b[1]].cnt - 1 ELSE b[1]
  <2>1. p \in Procs /\ held[p] \subseteq Blocks
    BY DEF HeapTypeOK
  <2>2. ASSUME NEW d \in held[p]
        PROVE  /\ d = <<d[1], d[2]>> /\ d[1] \in HeapPages /\ d[2] \in Nat
               /\ d[1] \in Int
    BY <2>1 DEF Blocks, HeapPages
  <2>3. ASSUME NEW d \in held[p]
        PROVE  /\ d[2] # 0 => arena[p][d[1]].class # 0 /\ ~arena[p][d[1]].large
               /\ d[2] = 0 => arena[p][d[1]].class = 0 /\ arena[p][d[1]].large
    BY <2>1, <2>2 DEF HeldOwn, HeadersPlain
  <2>4. CASE b[2] = 0
    <3>1. last = b[1] + arena[p][b[1]].cnt - 1
      BY <2>4
    <3>2. /\ b[1]..last \subseteq mapped[p]
          /\ \A g \in b[1] + 1..last : arena[p][g].class = 0 /\ ~arena[p][g].large
      BY <2>1, <2>4, <3>1 DEF RunsWhole
    <3>3. ASSUME NEW d \in held[p] \ {b}
          PROVE  d[1] \notin b[1] + 1..last /\ d[1] # b[1]
      BY <2>2, <2>3, <2>4, <3>2
    <3> QED BY <3>2, <3>3
  <2>5. CASE b[2] # 0
    <3>1. b[1] \in mapped[p] /\ last = b[1] /\ b[1] \in Int
      BY <2>1, <2>2, <2>3, <2>5 DEF HeadersPlain
    <3>2. b[1]..last = {b[1]} /\ b[1] + 1..last = {}
      BY <3>1
    <3> QED BY <2>5, <3>1, <3>2
  <2> QED BY <2>4, <2>5
<1> QED BY <1>1, <1>2

-----------------------------------------------------------------------------
(* The heap allocator: one lemma per action. *)

\* A heap is empty when the first process starts.
LEMMA HeapInitInv == HeapInit => IInv
<1> SUFFICES ASSUME HeapInit PROVE IInv
  OBVIOUS
<1> USE DEF HeapInit
<1>1. Parent \in Procs /\ NoArena \in Header
  BY ArenaAssumption DEF NoArena, Header
<1>2. << >> \in Seq(Blocks) /\ \A b : ~InList(b, << >>)
  BY DEF InList
<1>3. HeapTypeOK
  BY <1>1, <1>2 DEF HeapTypeOK
<1>4. \A p \in Procs : \A c \in Classes : free[p][c] = << >>
  OBVIOUS
<1>5. Unborn
  BY <1>4 DEF Unborn
<1>6. \A p \in Procs : \A g \in HeapPages :
         /\ arena[p][g] = NoArena
         /\ ~arena[p][g].large /\ arena[p][g].class = 0 /\ arena[p][g].desc = Parent
  BY DEF NoArena
<1>7. HeadersPlain
  BY <1>6 DEF HeadersPlain
<1>8. CountsExact
  BY <1>6 DEF CountsExact
<1>9. SharedAlike
  BY DEF SharedAlike
<1>10. ListsOwn
  BY <1>2, <1>4 DEF ListsOwn, NoRepeat
<1>11. HeldOwn /\ OldHeld /\ RunsWhole
  BY DEF HeldOwn, OldHeld, RunsWhole
<1> QED BY <1>3, <1>5, <1>7, <1>8, <1>9, <1>10, <1>11 DEF IInv

\* sys_fork: what the child holds it may not free, and its lists are empty.
LEMMA ForkInv ==
    ASSUME IInv, NEW c \in Procs, Fork(c)
    PROVE  IInv'
<1> USE DEF IInv
<1>1. /\ c \notin alive /\ c # Parent /\ Parent \in Procs /\ c \in Procs \ alive
      /\ \A p \in Procs : p = Parent \/ p = c
  BY OneChild DEF Fork, HeapTypeOK
<1>2. /\ mapped'[c] = mapped[Parent] /\ held'[c] = held[Parent] /\ arena'[c] = arena[Parent]
      /\ mapped'[Parent] = mapped[Parent] /\ held'[Parent] = held[Parent]
      /\ arena'[Parent] = arena[Parent]
      /\ shared' = mapped[Parent] /\ old' = held[Parent] /\ alive' = alive \cup {c}
      /\ free' = free /\ failed' = failed
  BY <1>1 DEF Fork, HeapTypeOK
<1>3. HeapTypeOK'
  <2>1. /\ mapped' \in [Procs -> SUBSET HeapPages] /\ held' \in [Procs -> SUBSET Blocks]
        /\ arena' \in [Procs -> [HeapPages -> Header]]
    BY <1>1 DEF Fork, HeapTypeOK
  <2>2. shared' \subseteq HeapPages /\ old' \subseteq Blocks
    BY <1>1, <1>2 DEF HeapTypeOK
  <2> QED BY <1>1, <1>2, <2>1, <2>2 DEF HeapTypeOK
<1>4. Unborn'
  BY <1>1, <1>2 DEF Unborn, HeapTypeOK
<1>5. \A g \in HeapPages : arena[Parent][g].desc = Parent
  BY <1>1 DEF HeadersPlain
<1>6. HeadersPlain'
  <2> SUFFICES ASSUME NEW p \in Procs, NEW g \in HeapPages
               PROVE  /\ arena'[p][g].large => arena'[p][g].class = 0 /\ g \in mapped'[p]
                      /\ arena'[p][g].class # 0 => g \in mapped'[p]
                      /\ arena'[p][g].desc \in {Parent, p}
    BY DEF HeadersPlain
  <2>1. arena'[p][g] = arena[Parent][g] /\ mapped'[p] = mapped[Parent]
    BY <1>1, <1>2
  <2> QED BY <1>1, <1>5, <2>1 DEF HeadersPlain
<1>7. SharedAlike'
  BY <1>1, <1>2 DEF SharedAlike
<1>8. \A b : \A s \in Classes : ~InList(b, free[c][s])
  BY <1>1 DEF Unborn, InList
<1>9. CountsExact'
  <2> SUFFICES ASSUME NEW p \in Procs, NEW g \in HeapPages,
                      arena'[p][g].class # 0, arena'[p][g].desc = p
               PROVE  arena'[p][g].cnt = Cardinality(FreeIn(p, g, arena'[p][g].class))
    BY <1>2 DEF CountsExact, FreeIn
  <2>1. p = Parent /\ arena'[p][g] = arena[p][g]
    BY <1>1, <1>2, <1>5
  <2> QED BY <1>1, <2>1 DEF CountsExact
<1>10. ListsOwn'
  <2> SUFFICES ASSUME NEW p \in Procs, NEW s \in Classes
               PROVE  /\ NoRepeat(free[p][s])
                      /\ \A b \in Blocks : InList(b, free[p][s]) =>
                            /\ b[2] \in 1..Per[s]
                            /\ arena'[p][b[1]].class = s /\ arena'[p][b[1]].desc = p
    BY <1>2 DEF ListsOwn
  <2>1. CASE p = Parent
    BY <1>2, <2>1 DEF ListsOwn
  <2>2. CASE p = c
    BY <1>8, <2>2 DEF ListsOwn
  <2> QED BY <1>1, <2>1, <2>2
<1>11. HeldOwn'
  <2> SUFFICES ASSUME NEW p \in Procs, NEW b \in held'[p]
               PROVE  /\ b[2] # 0 => /\ arena'[p][b[1]].class # 0
                                     /\ b[2] \in 1..Per[arena'[p][b[1]].class]
                                     /\ arena'[p][b[1]].desc = p =>
                                           ~InList(b, free[p][arena'[p][b[1]].class])
                      /\ b[2] = 0 => arena'[p][b[1]].large
                      /\ p # Parent => (arena'[p][b[1]].desc = Parent <=> b \in old')
    BY <1>2 DEF HeldOwn
  <2>1. b \in held[Parent] /\ arena'[p][b[1]] = arena[Parent][b[1]] /\ b \in old'
    BY <1>1, <1>2
  <2>2. b[1] \in HeapPages
    BY <1>1, <2>1 DEF HeapTypeOK, Blocks
  <2>3. arena[Parent][b[1]].desc = Parent
    BY <1>5, <2>2
  <2> QED BY <1>1, <2>1, <2>3 DEF HeldOwn
<1>12. OldHeld'
  BY <1>1, <1>2 DEF OldHeld
<1>13. RunsWhole'
  <2> SUFFICES ASSUME NEW p \in Procs, NEW b \in held'[p], b[2] = 0
               PROVE  LET n == arena'[p][b[1]].cnt IN
                      /\ n >= 1
                      /\ b[1]..b[1] + n - 1 \subseteq mapped'[p]
                      /\ \A g \in b[1] + 1..b[1] + n - 1 :
                            arena'[p][g].class = 0 /\ ~arena'[p][g].large
    BY DEF RunsWhole
  <2>1. b \in held[Parent] /\ arena'[p] = arena[Parent] /\ mapped'[p] = mapped[Parent]
    BY <1>1, <1>2
  <2> QED BY <1>1, <2>1 DEF RunsWhole
<1> QED BY <1>2, <1>3, <1>4, <1>6, <1>7, <1>9, <1>10, <1>11, <1>12, <1>13

\* A page the process has not mapped holds nothing of its heap.
LEMMA Unmapped ==
    ASSUME IInv, NEW p \in Procs, NEW g \in HeapPages, g \notin mapped[p]
    PROVE  /\ g \notin shared
           /\ arena[p][g].class = 0 /\ ~arena[p][g].large
           /\ \A b \in held[p] : b[1] # g
           /\ \A c \in Classes : \A b \in Blocks : InList(b, free[p][c]) => b[1] # g
<1> USE DEF IInv
<1>1. g \notin shared /\ arena[p][g].class = 0 /\ ~arena[p][g].large
  BY DEF SharedAlike, HeadersPlain
<1>2. \A b \in held[p] : b[1] # g
  BY <1>1 DEF HeldOwn
<1>3. ASSUME NEW c \in Classes, NEW b \in Blocks, InList(b, free[p][c])
      PROVE  b[1] # g
  <2>1. arena[p][b[1]].class = c
    BY <1>3 DEF ListsOwn
  <2>2. c # 0
    BY ArenaAssumption
  <2> QED BY <1>1, <2>1, <2>2
<1> QED BY <1>1, <1>2, <1>3

\* A process that is not alive is neither the first nor the one that acts.
LEMMA OtherUnborn ==
    ASSUME IInv, NEW p \in alive
    PROVE  \A r \in Procs \ alive : r # p /\ r # Parent /\ p = Parent
<1>1. p \in Procs /\ Parent \in alive
  BY DEF IInv, HeapTypeOK
<1> QED BY <1>1, OneChild

\* A large block gets pages nobody of the process uses.
LEMMA MallocLargeInv ==
    ASSUME IInv, NEW p \in Procs, NEW n \in Larges, MallocLarge(p, n)
    PROVE  IInv'
<1> USE DEF IInv
<1> DEFINE s == Lowest(Fits(p, n))
           h == [large |-> TRUE, desc |-> p, class |-> 0, cnt |-> n]
<1>1. n \in Nat \ {0} /\ n \in Int
  BY ArenaAssumption
<1>2. /\ p \in alive /\ SetHeader(p, s, h)
      /\ mapped' = [mapped EXCEPT ![p] = @ \cup s..s + n - 1]
      /\ held' = [held EXCEPT ![p] = @ \cup {<<s, 0>>}]
      /\ UNCHANGED <<free, shared, old, alive, failed>>
  BY DEF MallocLarge
<1>3. /\ s \in HeapPages /\ s + n - 1 \in HeapPages
      /\ \A g \in s..s + n - 1 : g \in HeapPages /\ g \notin mapped[p]
  BY <1>1, FitsFacts DEF MallocLarge
<1> HIDE DEF s
<1>4. h \in Header
  BY <1>1 DEF Header
<1>5. /\ h.large /\ h.desc = p /\ h.class = 0 /\ h.cnt = n
  OBVIOUS
<1> HIDE DEF h
<1>6. s \in Int /\ s \in s..s + n - 1 /\ s \notin mapped[p]
  BY <1>1, <1>3 DEF HeapPages
<1>7. \A g \in s..s + n - 1 :
          /\ g \notin shared /\ arena[p][g].class = 0 /\ ~arena[p][g].large
          /\ \A b \in held[p] : b[1] # g
          /\ \A c \in Classes : \A b \in Blocks : InList(b, free[p][c]) => b[1] # g
  BY <1>3, Unmapped
<1>8. /\ arena' \in [Procs -> [HeapPages -> Header]] /\ arena'[p][s] = h
      /\ \A r \in Procs : r # p => arena'[r] = arena[r]
      /\ \A r \in Procs : \A k \in HeapPages \ {s} : arena'[r][k] = arena[r][k]
  BY <1>2, <1>3, <1>4, <1>6, <1>7, SetHeaderFacts
<1>9. /\ mapped'[p] = mapped[p] \cup s..s + n - 1
      /\ held'[p] = held[p] \cup {<<s, 0>>}
      /\ \A r \in Procs : r # p => mapped'[r] = mapped[r] /\ held'[r] = held[r]
      /\ \A r \in Procs : mapped[r] \subseteq mapped'[r]
  BY <1>2 DEF HeapTypeOK
<1>10. HeapTypeOK'
  <2>1. s..s + n - 1 \subseteq HeapPages /\ <<s, 0>> \in Blocks
    BY <1>3 DEF Blocks
  <2>2. mapped' \in [Procs -> SUBSET HeapPages] /\ held' \in [Procs -> SUBSET Blocks]
    BY <1>2, <2>1 DEF HeapTypeOK
  <2> QED BY <1>2, <1>8, <2>2 DEF HeapTypeOK
<1>11. Unborn'
  BY <1>2, <1>9, OtherUnborn DEF Unborn
<1>12. HeadersPlain'
  <2> SUFFICES ASSUME NEW r \in Procs, NEW g \in HeapPages
               PROVE  /\ arena'[r][g].large => arena'[r][g].class = 0 /\ g \in mapped'[r]
                      /\ arena'[r][g].class # 0 => g \in mapped'[r]
                      /\ arena'[r][g].desc \in {Parent, r}
    BY DEF HeadersPlain
  <2>1. CASE r = p /\ g = s
    BY <1>5, <1>6, <1>8, <1>9, <2>1
  <2>2. CASE ~(r = p /\ g = s)
    <3>1. arena'[r][g] = arena[r][g]
      BY <1>8, <2>2
    <3> QED BY <1>9, <3>1 DEF HeadersPlain
  <2> QED BY <2>1, <2>2
<1>13. SharedAlike'
  <2>1. \A r \in Procs : \A g \in shared : arena'[r][g] = arena[r][g]
    <3>1. s \notin shared /\ shared \subseteq HeapPages
      BY <1>6, <1>7 DEF HeapTypeOK
    <3> QED BY <1>8, <3>1
  <2>2. Parent \in Procs
    BY ArenaAssumption
  <2> QED BY <1>2, <1>9, <2>1, <2>2 DEF SharedAlike
<1>14. CountsExact'
  <2> SUFFICES ASSUME NEW r \in Procs, NEW g \in HeapPages,
                      arena'[r][g].class # 0, arena'[r][g].desc = r
               PROVE  arena'[r][g].cnt = Cardinality(FreeIn(r, g, arena'[r][g].class))
    BY <1>2 DEF CountsExact, FreeIn
  <2>1. arena'[r][g] = arena[r][g]
    BY <1>5, <1>8
  <2> QED BY <2>1 DEF CountsExact
<1>15. ListsOwn'
  <2> SUFFICES ASSUME NEW r \in Procs, NEW c \in Classes,
                      NEW b \in Blocks, InList(b, free[r][c])
               PROVE  arena'[r][b[1]] = arena[r][b[1]]
    BY <1>2 DEF ListsOwn
  <2>1. b[1] \in HeapPages /\ (r = p => b[1] # s)
    BY <1>6, <1>7 DEF Blocks
  <2> QED BY <1>8, <2>1
<1>16. ASSUME NEW r \in Procs, NEW b \in held[r]
       PROVE  b[1] \in HeapPages /\ arena'[r][b[1]] = arena[r][b[1]] /\ b \in held'[r]
  <2>1. b[1] \in HeapPages /\ (r = p => b[1] # s)
    BY <1>6, <1>7 DEF Blocks, HeapTypeOK
  <2> QED BY <1>8, <1>9, <2>1
<1>17. \A r \in Procs : \A b \in held'[r] : b \in held[r] \/ (r = p /\ b = <<s, 0>>)
  BY <1>9
<1>18. p # Parent => <<s, 0>> \notin old
  BY <1>6, <1>7 DEF OldHeld
<1>19. HeldOwn'
  <2> SUFFICES ASSUME NEW r \in Procs, NEW b \in held'[r]
               PROVE  /\ b[2] # 0 => /\ arena'[r][b[1]].class # 0
                                     /\ b[2] \in 1..Per[arena'[r][b[1]].class]
                                     /\ arena'[r][b[1]].desc = r =>
                                           ~InList(b, free[r][arena'[r][b[1]].class])
                      /\ b[2] = 0 => arena'[r][b[1]].large
                      /\ r # Parent => (arena'[r][b[1]].desc = Parent <=> b \in old)
    BY <1>2 DEF HeldOwn
  <2>1. CASE b \in held[r]
    <3>1. arena'[r][b[1]] = arena[r][b[1]]
      BY <1>16, <2>1
    <3> QED BY <2>1, <3>1 DEF HeldOwn
  <2>2. CASE r = p /\ b = <<s, 0>>
    BY <1>5, <1>8, <1>18, <2>2
  <2> QED BY <1>17, <2>1, <2>2
<1>20. OldHeld'
  BY <1>2, <1>9 DEF OldHeld
<1>21. RunsWhole'
  <2> SUFFICES ASSUME NEW r \in Procs, NEW b \in held'[r], b[2] = 0
               PROVE  LET k == arena'[r][b[1]].cnt IN
                      /\ k >= 1
                      /\ b[1]..b[1] + k - 1 \subseteq mapped'[r]
                      /\ \A g \in b[1] + 1..b[1] + k - 1 :
                            arena'[r][g].class = 0 /\ ~arena'[r][g].large
    BY DEF RunsWhole
  <2>1. CASE b \in held[r]
    <3> DEFINE k == arena[r][b[1]].cnt
    <3>1. /\ arena'[r][b[1]] = arena[r][b[1]] /\ k \in Int
          /\ b[1] \in HeapPages /\ b[1] \in Int
      <4>1. arena'[r][b[1]] = arena[r][b[1]] /\ b[1] \in HeapPages
        BY <1>16, <2>1
      <4>2. arena[r][b[1]] \in Header
        BY <4>1 DEF HeapTypeOK
      <4> QED BY <4>1, <4>2 DEF Header, HeapPages
    <3>2. /\ k >= 1 /\ b[1]..b[1] + k - 1 \subseteq mapped[r]
          /\ \A g \in b[1] + 1..b[1] + k - 1 : arena[r][g].class = 0 /\ ~arena[r][g].large
      BY <2>1 DEF RunsWhole
    <3> HIDE DEF k
    <3>3. ASSUME NEW g \in b[1] + 1..b[1] + k - 1
          PROVE  arena'[r][g] = arena[r][g]
      <4>1. g \in b[1]..b[1] + k - 1
        BY <3>1
      <4>2. g \in mapped[r] /\ g \in HeapPages
        BY <3>2, <4>1 DEF HeapTypeOK
      <4>3. r = p => g # s
        BY <1>6, <4>2
      <4> QED BY <1>8, <4>2, <4>3
    <3>4. b[1]..b[1] + k - 1 \subseteq mapped'[r]
      BY <1>9, <3>2
    <3> QED BY <3>1, <3>2, <3>3, <3>4 DEF k
  <2>2. CASE r = p /\ b = <<s, 0>>
    <3>1. b[1] = s /\ arena'[r][b[1]].cnt = n
      BY <1>5, <1>8, <2>2
    <3>2. \A g \in s + 1..s + n - 1 : g \in HeapPages \ {s} /\ g \in s..s + n - 1
      BY <1>1, <1>3, <1>6
    <3>3. \A g \in s + 1..s + n - 1 : arena'[p][g].class = 0 /\ ~arena'[p][g].large
      BY <1>7, <1>8, <3>2
    <3> QED BY <1>1, <1>9, <2>2, <3>1, <3>3
  <2> QED BY <1>17, <2>1, <2>2
<1> QED BY <1>2, <1>10, <1>11, <1>12, <1>13, <1>14, <1>15, <1>19, <1>20, <1>21

\* A large block stays a run if its pages stay mapped and no header is
\* written into them.
LEMMA RunKept ==
    ASSUME IInv, NEW r \in Procs, NEW b \in held[r], b[2] = 0,
           arena'[r][b[1]].cnt = arena[r][b[1]].cnt,
           b[1]..b[1] + arena[r][b[1]].cnt - 1 \subseteq mapped'[r],
           \A g \in mapped[r] : arena[r][g].class = 0 /\ ~arena[r][g].large =>
                                arena'[r][g].class = 0 /\ ~arena'[r][g].large
    PROVE  LET k == arena'[r][b[1]].cnt IN
           /\ k >= 1
           /\ b[1]..b[1] + k - 1 \subseteq mapped'[r]
           /\ \A g \in b[1] + 1..b[1] + k - 1 :
                 arena'[r][g].class = 0 /\ ~arena'[r][g].large
<1> DEFINE k == arena[r][b[1]].cnt
<1>1. b[1] \in HeapPages /\ b[1] \in Int
  BY DEF IInv, HeapTypeOK, Blocks, HeapPages
<1>2. k \in Int
  <2>1. arena[r][b[1]] \in Header
    BY <1>1 DEF IInv, HeapTypeOK
  <2> QED BY <2>1 DEF Header
<1>3. /\ k >= 1 /\ b[1]..b[1] + k - 1 \subseteq mapped[r]
      /\ \A g \in b[1] + 1..b[1] + k - 1 : arena[r][g].class = 0 /\ ~arena[r][g].large
  BY DEF IInv, RunsWhole
<1>4. b[1]..b[1] + k - 1 \subseteq mapped'[r]
  OBVIOUS
<1> HIDE DEF k
<1>5. \A g \in b[1] + 1..b[1] + k - 1 : g \in b[1]..b[1] + k - 1
  BY <1>1, <1>2
<1> QED BY <1>3, <1>4, <1>5 DEF k

\* A fresh arena: its first block is handed out, the others are listed.
LEMMA MallocFreshInv ==
    ASSUME IInv, NEW p \in Procs, NEW c \in Classes, Malloc(p, c), free[p][c] = << >>
    PROVE  IInv'
<1> USE DEF IInv
<1> DEFINE s == Lowest(Fits(p, 1))
           q == Cut(s, c)
           h == [large |-> FALSE, desc |-> p, class |-> c, cnt |-> Per[c] - 1]
<1>1. Per[c] \in Nat \ {0} /\ c # 0
  BY ArenaAssumption
<1>2. /\ p \in alive /\ Fits(p, 1) # {}
      /\ free' = [free EXCEPT ![p][c] = Tail(q)]
      /\ SetHeader(p, Head(q)[1], h)
      /\ mapped' = [mapped EXCEPT ![p] = @ \cup {Head(q)[1]}]
      /\ held' = [held EXCEPT ![p] = @ \cup {Head(q)}]
      /\ UNCHANGED <<shared, old, alive, failed>>
  BY DEF Malloc
<1>3. s \in HeapPages /\ s \notin mapped[p]
  BY <1>2, FitsFacts DEF HeapPages
<1> HIDE DEF s
<1>4. /\ q \in Seq(Blocks) /\ q # << >> /\ NoRepeat(q) /\ Head(q) = <<s, 1>>
      /\ \A b : InList(b, q) <=> \E i \in 1..Per[c] : b = <<s, i>>
  BY <1>3, CutFacts
<1> HIDE DEF q
<1>5. /\ Tail(q) \in Seq(Blocks) /\ NoRepeat(Tail(q))
      /\ \A b : InList(b, Tail(q)) => b[1] = s /\ b[2] \in 2..Per[c]
      /\ \A g, i : InList(<<g, i>>, Tail(q)) <=> g = s /\ i \in 2..Per[c]
  <2>1. /\ Tail(q) \in Seq(Blocks) /\ NoRepeat(Tail(q)) /\ ~InList(Head(q), Tail(q))
        /\ \A y : InList(y, Tail(q)) => InList(y, q)
        /\ \A y : InList(y, q) => InList(y, Tail(q)) \/ y = Head(q)
    BY <1>4, PopFacts
  <2>2. \A b : InList(b, Tail(q)) <=> InList(b, q) /\ b # <<s, 1>>
    BY <1>4, <2>1
  <2>3. \A b : (\E i \in 2..Per[c] : b = <<s, i>>) <=>
                 (\E i \in 1..Per[c] : b = <<s, i>>) /\ b # <<s, 1>>
    BY <1>1
  <2>4. \A b : InList(b, Tail(q)) <=> \E i \in 2..Per[c] : b = <<s, i>>
    BY <1>4, <2>2, <2>3
  <2>5. \A b : InList(b, Tail(q)) => b[1] = s /\ b[2] \in 2..Per[c]
    BY <2>4
  <2>6. ASSUME NEW g, NEW i
        PROVE  InList(<<g, i>>, Tail(q)) <=> g = s /\ i \in 2..Per[c]
    <3>1. InList(<<g, i>>, Tail(q)) <=> \E j \in 2..Per[c] : <<g, i>> = <<s, j>>
      BY <2>4
    <3>2. (\E j \in 2..Per[c] : <<g, i>> = <<s, j>>) <=> g = s /\ i \in 2..Per[c]
      OBVIOUS
    <3> QED BY <3>1, <3>2
  <2> QED BY <2>1, <2>5, <2>6
<1>6. h \in Header /\ ~h.large /\ h.desc = p /\ h.class = c /\ h.cnt = Per[c] - 1
  BY <1>1 DEF Header
<1> HIDE DEF h
<1>7. /\ s \notin shared /\ arena[p][s].class = 0 /\ ~arena[p][s].large
      /\ \A b \in held[p] : b[1] # s
      /\ \A e \in Classes : \A b \in Blocks : InList(b, free[p][e]) => b[1] # s
  BY <1>3, Unmapped
<1>8. /\ arena' \in [Procs -> [HeapPages -> Header]] /\ arena'[p][s] = h
      /\ \A r \in Procs : r # p => arena'[r] = arena[r]
      /\ \A r \in Procs : \A k \in HeapPages \ {s} : arena'[r][k] = arena[r][k]
  <2>1. Head(q)[1] = s
    BY <1>4
  <2> QED BY <1>2, <1>3, <1>6, <1>7, <2>1, SetHeaderFacts
<1>9. /\ mapped'[p] = mapped[p] \cup {s} /\ held'[p] = held[p] \cup {<<s, 1>>}
      /\ \A r \in Procs : r # p => mapped'[r] = mapped[r] /\ held'[r] = held[r]
      /\ \A r \in Procs : mapped[r] \subseteq mapped'[r] /\ held[r] \subseteq held'[r]
      /\ \A r \in Procs : \A b \in held'[r] : b \in held[r] \/ (r = p /\ b = <<s, 1>>)
  <2>1. Head(q)[1] = s
    BY <1>4
  <2>2. /\ mapped'[p] = mapped[p] \cup {s} /\ held'[p] = held[p] \cup {<<s, 1>>}
        /\ \A r \in Procs : r # p => mapped'[r] = mapped[r] /\ held'[r] = held[r]
    BY <1>2, <1>4, <2>1 DEF HeapTypeOK
  <2> QED BY <2>2
<1>10. /\ free'[p][c] = Tail(q)
       /\ \A r \in Procs : \A e \in Classes : ~(r = p /\ e = c) => free'[r][e] = free[r][e]
       /\ free' \in [Procs -> [Classes -> Seq(Blocks)]]
  BY <1>2, <1>5 DEF HeapTypeOK
<1>11. HeapTypeOK'
  <2>1. <<s, 1>> \in Blocks
    BY <1>3 DEF Blocks
  <2>2. mapped' \in [Procs -> SUBSET HeapPages] /\ held' \in [Procs -> SUBSET Blocks]
    BY <1>2, <1>3, <1>4, <2>1 DEF HeapTypeOK
  <2> QED BY <1>2, <1>8, <1>10, <2>2 DEF HeapTypeOK
<1>12. Unborn'
  <2>1. \A r \in Procs \ alive : r # p /\ \A e \in Classes : free'[r][e] = free[r][e]
    BY <1>2, <1>10
  <2> QED BY <1>2, <1>9, <2>1 DEF Unborn
<1>13. HeadersPlain'
  <2> SUFFICES ASSUME NEW r \in Procs, NEW g \in HeapPages
               PROVE  /\ arena'[r][g].large => arena'[r][g].class = 0 /\ g \in mapped'[r]
                      /\ arena'[r][g].class # 0 => g \in mapped'[r]
                      /\ arena'[r][g].desc \in {Parent, r}
    BY DEF HeadersPlain
  <2>1. CASE r = p /\ g = s
    BY <1>6, <1>8, <1>9, <2>1
  <2>2. CASE ~(r = p /\ g = s)
    <3>1. arena'[r][g] = arena[r][g]
      BY <1>8, <2>2
    <3> QED BY <1>9, <3>1 DEF HeadersPlain
  <2> QED BY <2>1, <2>2
<1>14. SharedAlike'
  <2>1. \A r \in Procs : \A g \in shared : arena'[r][g] = arena[r][g]
    <3>1. s \notin shared /\ shared \subseteq HeapPages
      BY <1>7 DEF HeapTypeOK
    <3> QED BY <1>8, <3>1
  <2>2. Parent \in Procs
    BY ArenaAssumption
  <2> QED BY <1>2, <1>9, <2>1, <2>2 DEF SharedAlike
<1>15. CountsExact'
  <2> DEFINE Now(r, g, e) == {i \in 1..Per[e] : InList(<<g, i>>, free'[r][e])}
  <2> SUFFICES ASSUME NEW r \in Procs, NEW g \in HeapPages,
                      arena'[r][g].class # 0, arena'[r][g].desc = r
               PROVE  arena'[r][g].cnt = Cardinality(Now(r, g, arena'[r][g].class))
    BY DEF CountsExact, FreeIn
  <2>1. CASE r = p /\ g = s
    <3>1. arena'[r][g].class = c /\ arena'[r][g].cnt = Per[c] - 1
      BY <1>6, <1>8, <2>1
    <3>2. ASSUME NEW j PROVE j \in Now(r, g, c) <=> j \in 1..Per[c] /\ j # 1
      <4>1. free'[r][c] = Tail(q) /\ g = s
        BY <1>10, <2>1
      <4>2. InList(<<g, j>>, free'[r][c]) <=> j \in 2..Per[c]
        BY <1>5, <4>1
      <4>3. j \in Now(r, g, c) <=> j \in 1..Per[c] /\ InList(<<g, j>>, free'[r][c])
        OBVIOUS
      <4> HIDE DEF Now
      <4> QED BY <1>1, <4>2, <4>3
    <3>3. Cardinality(Now(r, g, c)) = Cardinality(1..Per[c]) - 1
      <4> HIDE DEF Now
      <4>1. 1 \in 1..Per[c] /\ 1..Per[c] \subseteq 1..Per[c] /\ Per[c] \in Nat
        BY <1>1
      <4> QED BY <3>2, <4>1, OneLess
    <3>4. Cardinality(1..Per[c]) = Per[c]
      BY <1>1, AllCounted
    <3> QED BY <3>1, <3>3, <3>4
  <2>2. CASE ~(r = p /\ g = s)
    <3>1. arena'[r][g] = arena[r][g]
      BY <1>8, <2>2
    <3> DEFINE e == arena[r][g].class
    <3>2. e \in Classes
      <4>1. arena[r][g] \in Header
        BY DEF HeapTypeOK
      <4> QED BY <3>1, <4>1 DEF Header
    <3> HIDE DEF e
    <3>3. ASSUME NEW i PROVE InList(<<g, i>>, free'[r][e]) <=> InList(<<g, i>>, free[r][e])
      <4>1. CASE r = p /\ e = c
        <5>1. g # s
          BY <2>2, <4>1
        <5>2. ~InList(<<g, i>>, free'[r][e])
          BY <1>5, <1>10, <4>1, <5>1
        <5>3. ~InList(<<g, i>>, free[r][e])
          BY <4>1 DEF InList
        <5> QED BY <5>2, <5>3
      <4>2. CASE ~(r = p /\ e = c)
        BY <1>10, <3>2, <4>2
      <4> QED BY <4>1, <4>2
    <3>4. Now(r, g, e) = FreeIn(r, g, e)
      BY <3>3 DEF FreeIn
    <3>5. arena[r][g].cnt = Cardinality(FreeIn(r, g, e))
      BY <3>1 DEF CountsExact, e
    <3> QED BY <3>1, <3>4, <3>5 DEF e
  <2> QED BY <2>1, <2>2
<1>16. ListsOwn'
  <2> SUFFICES ASSUME NEW r \in Procs, NEW e \in Classes
               PROVE  /\ NoRepeat(free'[r][e])
                      /\ \A b \in Blocks : InList(b, free'[r][e]) =>
                            /\ b[2] \in 1..Per[e]
                            /\ arena'[r][b[1]].class = e /\ arena'[r][b[1]].desc = r
    BY DEF ListsOwn
  <2>1. CASE r = p /\ e = c
    <3>1. ASSUME NEW b \in Blocks, InList(b, free'[r][e])
          PROVE  b[2] \in 1..Per[e] /\ b[1] = s
      <4>1. InList(b, Tail(q))
        BY <1>10, <2>1, <3>1
      <4>2. b[1] = s /\ b[2] \in 2..Per[c]
        BY <1>5, <4>1
      <4> QED BY <1>1, <2>1, <4>2
    <3> QED BY <1>5, <1>6, <1>8, <1>10, <2>1, <3>1
  <2>2. CASE ~(r = p /\ e = c)
    <3>1. free'[r][e] = free[r][e]
      BY <1>10, <2>2
    <3>2. ASSUME NEW b \in Blocks, InList(b, free[r][e])
          PROVE  arena'[r][b[1]] = arena[r][b[1]]
      <4>1. b[1] \in HeapPages /\ (r = p => b[1] # s)
        BY <1>7, <3>2 DEF Blocks
      <4> QED BY <1>8, <4>1
    <3> QED BY <3>1, <3>2 DEF ListsOwn
  <2> QED BY <2>1, <2>2
<1>17. ASSUME NEW r \in Procs, NEW b \in held[r]
       PROVE  b[1] \in HeapPages /\ arena'[r][b[1]] = arena[r][b[1]]
  <2>1. b[1] \in HeapPages /\ (r = p => b[1] # s)
    BY <1>7 DEF Blocks, HeapTypeOK
  <2> QED BY <1>8, <2>1
<1>18. p # Parent => <<s, 1>> \notin old
  BY <1>7 DEF OldHeld
<1>19. HeldOwn'
  <2> SUFFICES ASSUME NEW r \in Procs, NEW b \in held'[r]
               PROVE  /\ b[2] # 0 => /\ arena'[r][b[1]].class # 0
                                     /\ b[2] \in 1..Per[arena'[r][b[1]].class]
                                     /\ arena'[r][b[1]].desc = r =>
                                           ~InList(b, free'[r][arena'[r][b[1]].class])
                      /\ b[2] = 0 => arena'[r][b[1]].large
                      /\ r # Parent => (arena'[r][b[1]].desc = Parent <=> b \in old)
    BY <1>2 DEF HeldOwn
  <2>1. CASE b \in held[r]
    <3> DEFINE e == arena[r][b[1]].class
    <3>1. arena'[r][b[1]] = arena[r][b[1]] /\ b[1] \in HeapPages
      BY <1>17, <2>1
    <3>2. e \in Classes \cup {0}
      <4>1. arena[r][b[1]] \in Header
        <5> HIDE DEF e
        <5> QED BY <3>1 DEF HeapTypeOK
      <4> QED BY <4>1 DEF Header
    <3>3. ASSUME e # 0, ~InList(b, free[r][e]) PROVE ~InList(b, free'[r][e])
      <4>1. CASE r = p /\ e = c
        <5>1. b[1] # s
          BY <1>7, <2>1, <4>1
        <5> QED BY <1>5, <1>10, <4>1, <5>1
      <4>2. CASE ~(r = p /\ e = c)
        <5>1. free'[r][e] = free[r][e]
          BY <1>10, <3>2, <3>3, <4>2
        <5> QED BY <3>3, <5>1
      <4> QED BY <4>1, <4>2
    <3>4. /\ b[2] # 0 => /\ e # 0 /\ b[2] \in 1..Per[e]
                         /\ arena[r][b[1]].desc = r => ~InList(b, free[r][e])
          /\ b[2] = 0 => arena[r][b[1]].large
          /\ r # Parent => (arena[r][b[1]].desc = Parent <=> b \in old)
      BY <2>1 DEF HeldOwn
    <3> QED BY <3>1, <3>3, <3>4
  <2>2. CASE r = p /\ b = <<s, 1>>
    <3>1. arena'[r][b[1]] = h /\ b[2] = 1 /\ free'[r][c] = Tail(q)
      BY <1>8, <1>10, <2>2
    <3>2. ~InList(b, free'[r][c])
      BY <1>1, <1>5, <2>2, <3>1
    <3>3. /\ arena'[r][b[1]].class = c /\ arena'[r][b[1]].desc = r
          /\ b[2] \in 1..Per[c] /\ b[2] # 0
      BY <1>1, <1>6, <2>2, <3>1
    <3>4. r # Parent => b \notin old /\ r # Parent
      BY <1>18, <2>2
    <3> QED BY <1>1, <3>2, <3>3, <3>4
  <2> QED BY <1>9, <2>1, <2>2
<1>20. OldHeld'
  BY <1>2, <1>9 DEF OldHeld
<1>21. RunsWhole'
  <2> SUFFICES ASSUME NEW r \in Procs, NEW b \in held'[r], b[2] = 0
               PROVE  LET k == arena'[r][b[1]].cnt IN
                      /\ k >= 1
                      /\ b[1]..b[1] + k - 1 \subseteq mapped'[r]
                      /\ \A g \in b[1] + 1..b[1] + k - 1 :
                            arena'[r][g].class = 0 /\ ~arena'[r][g].large
    BY DEF RunsWhole
  <2>1. b \in held[r]
    BY <1>9
  <2>2. arena'[r][b[1]] = arena[r][b[1]]
    BY <1>17, <2>1
  <2>3. b[1]..b[1] + arena[r][b[1]].cnt - 1 \subseteq mapped'[r]
    BY <1>9, <2>1 DEF RunsWhole
  <2>4. \A g \in mapped[r] : arena'[r][g] = arena[r][g]
    BY <1>3, <1>8 DEF HeapTypeOK
  <2> QED BY <2>1, <2>2, <2>3, <2>4, RunKept
<1> QED BY <1>2, <1>11, <1>12, <1>13, <1>14, <1>15, <1>16, <1>19, <1>20, <1>21

\* To count a block in the header of an own arena changes no layout, and no
\* count of another arena: the other process only sees it if it shares the page.
LEMMA CountWritten ==
    ASSUME IInv, NEW p \in Procs, NEW g \in HeapPages, NEW k \in Int,
           arena[p][g].class # 0, arena[p][g].desc = p,
           SetHeader(p, g, [arena[p][g] EXCEPT !.cnt = k])
    PROVE  /\ arena' \in [Procs -> [HeapPages -> Header]]
           /\ \A r \in Procs : \A x \in HeapPages :
                 /\ arena'[r][x].large = arena[r][x].large
                 /\ arena'[r][x].class = arena[r][x].class
                 /\ arena'[r][x].desc = arena[r][x].desc
           /\ arena'[p][g].cnt = k
           /\ \A r \in Procs : \A x \in HeapPages :
                 /\ x # g => arena'[r][x] = arena[r][x]
                 /\ arena[r][x].large => arena'[r][x] = arena[r][x]
                 /\ arena[r][x].desc = r /\ r # p => arena'[r][x] = arena[r][x]
           /\ \A r \in Procs : \A x \in shared : arena'[r][x] = arena'[Parent][x]
<1> DEFINE a == arena[p][g]
           h == [a EXCEPT !.cnt = k]
<1> USE DEF IInv
<1>1. a \in Header /\ Parent \in Procs
  BY ArenaAssumption DEF HeapTypeOK
<1>2. h \in Header /\ h.large = a.large /\ h.desc = a.desc /\ h.class = a.class /\ h.cnt = k
  BY <1>1, HeaderFacts
<1>3. a.class # 0 /\ a.desc = p /\ ~a.large
  BY DEF HeadersPlain
<1>4. SetHeader(p, g, h)
  OBVIOUS
<1>5. \A r \in Procs : g \in shared => arena[r][g] = a
  BY <1>1 DEF SharedAlike
<1> HIDE DEF h
<1>6. /\ arena' \in [Procs -> [HeapPages -> Header]] /\ arena'[p][g] = h
      /\ \A r \in Procs : g \in shared => arena'[r][g] = h
      /\ \A r \in Procs : r # p /\ g \notin shared => arena'[r] = arena[r]
      /\ \A r \in Procs : \A x \in HeapPages \ {g} : arena'[r][x] = arena[r][x]
  BY <1>2, <1>4, SetHeaderFacts
<1>7. \A r \in Procs : (r = p \/ g \in shared) => arena'[r][g] = h /\ arena[r][g] = a
  BY <1>5, <1>6
<1>8. \A r \in Procs : ~(r = p \/ g \in shared) => arena'[r][g] = arena[r][g]
  BY <1>6
<1> HIDE DEF a
<1>9. \A r \in Procs : /\ arena'[r][g].large = arena[r][g].large
                       /\ arena'[r][g].class = arena[r][g].class
                       /\ arena'[r][g].desc = arena[r][g].desc
  BY <1>2, <1>7, <1>8
<1>10. \A r \in Procs : /\ arena[r][g].large => arena'[r][g] = arena[r][g]
                        /\ arena[r][g].desc = r /\ r # p => arena'[r][g] = arena[r][g]
  BY <1>3, <1>7, <1>8
<1>11. shared \subseteq HeapPages /\ \A r \in Procs : \A x \in shared : arena[r][x] = arena[Parent][x]
  BY DEF HeapTypeOK, SharedAlike
<1>12. \A r \in Procs : \A x \in shared : arena'[r][x] = arena'[Parent][x]
  <2> SUFFICES ASSUME NEW r \in Procs, NEW x \in shared
               PROVE  arena'[r][x] = arena'[Parent][x]
    OBVIOUS
  <2>1. CASE x = g
    BY <1>1, <1>7, <2>1
  <2>2. CASE x # g
    BY <1>1, <1>6, <1>11, <2>2
  <2> QED BY <2>1, <2>2
<1>13. \A r \in Procs : \A x \in HeapPages :
         /\ arena'[r][x].large = arena[r][x].large
         /\ arena'[r][x].class = arena[r][x].class
         /\ arena'[r][x].desc = arena[r][x].desc
  BY <1>6, <1>9
<1>14. \A r \in Procs : \A x \in HeapPages :
         /\ x # g => arena'[r][x] = arena[r][x]
         /\ arena[r][x].large => arena'[r][x] = arena[r][x]
         /\ arena[r][x].desc = r /\ r # p => arena'[r][x] = arena[r][x]
  BY <1>6, <1>10
<1> QED BY <1>2, <1>6, <1>12, <1>13, <1>14

\* What holds after such a write, as far as the lists do not matter.
LEMMA CountWrittenInv ==
    ASSUME IInv, NEW p \in Procs, NEW g \in HeapPages, NEW k \in Int,
           arena[p][g].class # 0, arena[p][g].desc = p,
           SetHeader(p, g, [arena[p][g] EXCEPT !.cnt = k]),
           UNCHANGED <<mapped, shared>>
    PROVE  HeadersPlain' /\ SharedAlike'
<1> USE DEF IInv
<1>1. /\ \A r \in Procs : \A x \in HeapPages :
            /\ arena'[r][x].large = arena[r][x].large
            /\ arena'[r][x].class = arena[r][x].class
            /\ arena'[r][x].desc = arena[r][x].desc
      /\ \A r \in Procs : \A x \in shared : arena'[r][x] = arena'[Parent][x]
  BY CountWritten
<1>2. HeadersPlain'
  BY <1>1 DEF HeadersPlain
<1>3. SharedAlike'
  BY <1>1 DEF SharedAlike
<1> QED BY <1>2, <1>3

\* The first block of the list is handed out.
LEMMA MallocListedInv ==
    ASSUME IInv, NEW p \in Procs, NEW c \in Classes, Malloc(p, c), free[p][c] # << >>
    PROVE  IInv'
<1> USE DEF IInv
<1> DEFINE q == free[p][c]
           b == Head(q)
           g == b[1]
           a == arena[p][g]
<1>1. c # 0 /\ Per[c] \in Nat \ {0}
  BY ArenaAssumption
<1>2. /\ p \in alive
      /\ free' = [free EXCEPT ![p][c] = Tail(q)]
      /\ SetHeader(p, g, [a EXCEPT !.cnt = @ - 1])
      /\ mapped' = [mapped EXCEPT ![p] = @ \cup {g}]
      /\ held' = [held EXCEPT ![p] = @ \cup {b}]
      /\ UNCHANGED <<shared, old, alive, failed>>
  BY DEF Malloc
<1>3. q \in Seq(Blocks) /\ NoRepeat(q)
  BY DEF HeapTypeOK, ListsOwn
<1>4. /\ b \in Blocks /\ Tail(q) \in Seq(Blocks) /\ InList(b, q)
      /\ \A y : InList(y, Tail(q)) <=> InList(y, q) /\ y # b
      /\ NoRepeat(Tail(q))
  BY <1>3, PopFacts
<1> HIDE DEF b
<1>5. /\ g \in HeapPages /\ b[2] \in Nat /\ b = <<g, b[2]>>
  BY <1>4 DEF Blocks
<1>6. /\ b[2] \in 1..Per[c] /\ b[2] # 0 /\ a.class = c /\ a.desc = p /\ a \in Header
  BY <1>1, <1>4, <1>5 DEF ListsOwn, HeapTypeOK
<1>7. g \in mapped[p] /\ ~a.large
  BY <1>1, <1>5, <1>6 DEF HeadersPlain
<1>8. a.cnt \in Int /\ a.cnt - 1 \in Int
  BY <1>6 DEF Header
<1> HIDE DEF g
<1>9. SetHeader(p, g, [arena[p][g] EXCEPT !.cnt = a.cnt - 1])
  BY <1>2
<1>10. /\ arena' \in [Procs -> [HeapPages -> Header]]
       /\ \A r \in Procs : \A x \in HeapPages :
             /\ arena'[r][x].large = arena[r][x].large
             /\ arena'[r][x].class = arena[r][x].class
             /\ arena'[r][x].desc = arena[r][x].desc
       /\ arena'[p][g].cnt = a.cnt - 1
       /\ \A r \in Procs : \A x \in HeapPages :
             /\ x # g => arena'[r][x] = arena[r][x]
             /\ arena[r][x].large => arena'[r][x] = arena[r][x]
             /\ arena[r][x].desc = r /\ r # p => arena'[r][x] = arena[r][x]
  BY <1>1, <1>5, <1>6, <1>8, <1>9, CountWritten
<1>11. mapped' = mapped
  BY <1>2, <1>7 DEF HeapTypeOK
<1>12. HeadersPlain' /\ SharedAlike'
  BY <1>1, <1>2, <1>5, <1>6, <1>8, <1>9, <1>11, CountWrittenInv
<1>13. /\ free'[p][c] = Tail(q)
       /\ \A r \in Procs : \A e \in Classes : ~(r = p /\ e = c) => free'[r][e] = free[r][e]
       /\ free' \in [Procs -> [Classes -> Seq(Blocks)]]
  BY <1>2, <1>4 DEF HeapTypeOK
<1>14. /\ held' \in [Procs -> SUBSET Blocks] /\ held'[p] = held[p] \cup {b}
       /\ \A r \in Procs : r # p => held'[r] = held[r]
       /\ \A r \in Procs : held[r] \subseteq held'[r]
       /\ \A r \in Procs : \A d \in held'[r] : d \in held[r] \/ (r = p /\ d = b)
  BY <1>2, <1>4 DEF HeapTypeOK
<1>15. HeapTypeOK'
  BY <1>2, <1>10, <1>11, <1>13, <1>14 DEF HeapTypeOK
<1>16. Unborn'
  <2>1. \A r \in Procs \ alive : r # p /\ \A e \in Classes : free'[r][e] = free[r][e]
    BY <1>2, <1>13
  <2> QED BY <1>2, <1>14, <2>1 DEF Unborn
<1>17. \A r \in Procs : \A e \in Classes : \A y :
          InList(y, free'[r][e]) <=> InList(y, free[r][e]) /\ ~(r = p /\ e = c /\ y = b)
  BY <1>4, <1>13
<1>18. ASSUME NEW r \in Procs, NEW e \in Classes PROVE NoRepeat(free'[r][e])
  <2>1. CASE r = p /\ e = c
    BY <1>4, <1>13, <2>1
  <2>2. CASE ~(r = p /\ e = c)
    <3>1. free'[r][e] = free[r][e]
      BY <1>13, <2>2
    <3>2. NoRepeat(free[r][e])
      BY DEF ListsOwn
    <3> QED BY <3>1, <3>2
  <2> QED BY <2>1, <2>2
<1>19. CountsExact'
  <2> DEFINE Now(r, x, e) == {i \in 1..Per[e] : InList(<<x, i>>, free'[r][e])}
  <2> SUFFICES ASSUME NEW r \in Procs, NEW x \in HeapPages,
                      arena'[r][x].class # 0, arena'[r][x].desc = r
               PROVE  arena'[r][x].cnt = Cardinality(Now(r, x, arena'[r][x].class))
    BY DEF CountsExact, FreeIn
  <2> DEFINE e == arena[r][x].class
  <2>1. e \in Classes /\ arena'[r][x].class = e /\ arena[r][x].desc = r
    <3>1. arena[r][x] \in Header
      BY DEF HeapTypeOK
    <3> QED BY <1>10, <3>1 DEF Header
  <2>2. arena[r][x].cnt = Cardinality(FreeIn(r, x, e))
    BY <1>10, <2>1 DEF CountsExact
  <2>3. CASE r = p /\ x = g
    <3>1. e = c /\ arena'[r][x].cnt = arena[r][x].cnt - 1
      BY <1>6, <1>10, <2>3
    <3>2. ASSUME NEW j PROVE j \in Now(r, x, c) <=> j \in FreeIn(r, x, c) /\ j # b[2]
      <4>1. <<x, j>> = b <=> j = b[2]
        BY <1>5, <2>3
      <4>2. InList(<<x, j>>, free'[r][c]) <=> InList(<<x, j>>, free[r][c]) /\ j # b[2]
        BY <1>17, <2>3, <4>1
      <4> QED BY <4>2 DEF FreeIn
    <3>3. b[2] \in FreeIn(r, x, c)
      BY <1>4, <1>5, <1>6, <2>3 DEF FreeIn
    <3>4. FreeIn(r, x, c) \subseteq 1..Per[c]
      BY DEF FreeIn
    <3> HIDE DEF Now
    <3>5. Cardinality(Now(r, x, c)) = Cardinality(FreeIn(r, x, c)) - 1
      BY <1>1, <3>2, <3>3, <3>4, OneLess
    <3> QED BY <2>1, <2>2, <3>1, <3>5
  <2>4. CASE ~(r = p /\ x = g)
    <3>1. arena'[r][x] = arena[r][x]
      BY <1>10, <2>1, <2>4
    <3>2. \A j : <<x, j>> = b => x = g
      BY <1>5
    <3>3. \A j : InList(<<x, j>>, free'[r][e]) <=> InList(<<x, j>>, free[r][e])
      BY <1>17, <2>1, <2>4, <3>2
    <3>4. Now(r, x, e) = FreeIn(r, x, e)
      BY <3>3 DEF FreeIn
    <3> QED BY <2>1, <2>2, <3>1, <3>4
  <2> QED BY <2>3, <2>4
<1>20. ListsOwn'
  <2> SUFFICES ASSUME NEW r \in Procs, NEW e \in Classes,
                      NEW y \in Blocks, InList(y, free'[r][e])
               PROVE  /\ y[2] \in 1..Per[e]
                      /\ arena'[r][y[1]].class = e /\ arena'[r][y[1]].desc = r
    BY <1>18 DEF ListsOwn
  <2>1. InList(y, free[r][e]) /\ y[1] \in HeapPages
    BY <1>17 DEF Blocks
  <2> QED BY <1>10, <2>1 DEF ListsOwn
<1>21. ASSUME NEW r \in Procs, NEW d \in held[r]
       PROVE  d[1] \in HeapPages /\ arena[r][d[1]] \in Header /\ arena[r][d[1]].class \in Classes \cup {0}
  <2>1. d[1] \in HeapPages
    BY DEF Blocks, HeapTypeOK
  <2>2. arena[r][d[1]] \in Header
    BY <2>1 DEF HeapTypeOK
  <2> QED BY <2>1, <2>2 DEF Header
<1>22. p # Parent => b \notin old
  <2>1. ASSUME p # Parent, b \in old PROVE FALSE
    <3>1. b \in held[p]
      BY <2>1 DEF OldHeld
    <3>2. arena[p][b[1]].desc = Parent
      BY <2>1, <3>1 DEF HeldOwn
    <3> QED BY <1>6, <2>1, <3>2 DEF g
  <2> QED BY <2>1
<1>23. HeldOwn'
  <2> SUFFICES ASSUME NEW r \in Procs, NEW d \in held'[r]
               PROVE  /\ d[2] # 0 => /\ arena'[r][d[1]].class # 0
                                     /\ d[2] \in 1..Per[arena'[r][d[1]].class]
                                     /\ arena'[r][d[1]].desc = r =>
                                           ~InList(d, free'[r][arena'[r][d[1]].class])
                      /\ d[2] = 0 => arena'[r][d[1]].large
                      /\ r # Parent => (arena'[r][d[1]].desc = Parent <=> d \in old)
    BY <1>2 DEF HeldOwn
  <2>1. CASE d \in held[r]
    <3> DEFINE e == arena[r][d[1]].class
    <3>1. d[1] \in HeapPages /\ e \in Classes \cup {0}
      BY <1>21, <2>1
    <3>2. /\ arena'[r][d[1]].large = arena[r][d[1]].large
          /\ arena'[r][d[1]].class = e
          /\ arena'[r][d[1]].desc = arena[r][d[1]].desc
      BY <1>10, <3>1
    <3>3. ASSUME e # 0, ~InList(d, free[r][e]) PROVE ~InList(d, free'[r][e])
      BY <1>17, <3>1, <3>3
    <3>4. /\ d[2] # 0 => /\ e # 0 /\ d[2] \in 1..Per[e]
                         /\ arena[r][d[1]].desc = r => ~InList(d, free[r][e])
          /\ d[2] = 0 => arena[r][d[1]].large
          /\ r # Parent => (arena[r][d[1]].desc = Parent <=> d \in old)
      BY <2>1 DEF HeldOwn
    <3> HIDE DEF e
    <3> QED BY <3>2, <3>3, <3>4
  <2>2. CASE r = p /\ d = b
    <3>1. d[1] = g /\ arena'[r][d[1]].class = c /\ arena'[r][d[1]].desc = p
      BY <1>5, <1>6, <1>10, <2>2 DEF g
    <3>2. ~InList(d, free'[r][c])
      BY <1>17, <2>2
    <3> QED BY <1>1, <1>6, <1>22, <2>2, <3>1, <3>2
  <2> QED BY <1>14, <2>1, <2>2
<1>24. OldHeld'
  BY <1>2, <1>14 DEF OldHeld
<1>25. RunsWhole'
  <2> SUFFICES ASSUME NEW r \in Procs, NEW d \in held'[r], d[2] = 0
               PROVE  LET k == arena'[r][d[1]].cnt IN
                      /\ k >= 1
                      /\ d[1]..d[1] + k - 1 \subseteq mapped'[r]
                      /\ \A x \in d[1] + 1..d[1] + k - 1 :
                            arena'[r][x].class = 0 /\ ~arena'[r][x].large
    BY DEF RunsWhole
  <2>1. d \in held[r]
    BY <1>6, <1>14
  <2>2. arena[r][d[1]].large /\ d[1] \in HeapPages
    BY <1>21, <2>1 DEF HeldOwn
  <2>3. arena'[r][d[1]].cnt = arena[r][d[1]].cnt
    BY <1>10, <2>2
  <2>4. d[1]..d[1] + arena[r][d[1]].cnt - 1 \subseteq mapped'[r]
    BY <1>11, <2>1 DEF RunsWhole
  <2>5. \A x \in mapped[r] : arena[r][x].class = 0 /\ ~arena[r][x].large =>
                             arena'[r][x].class = 0 /\ ~arena'[r][x].large
    BY <1>10 DEF HeapTypeOK
  <2> QED BY <2>1, <2>3, <2>4, <2>5, RunKept
<1> QED BY <1>2, <1>12, <1>15, <1>16, <1>19, <1>20, <1>23, <1>24, <1>25

\* A block a process may free lies in an arena of its own, is not in the list
\* yet, and is no block the fork left it.
LEMMA FreesOwn ==
    ASSUME IInv, ~Inherited, NEW p \in Procs, NEW b \in Frees(p)
    PROVE  /\ b \in held[p] /\ b[1] \in HeapPages /\ b = <<b[1], b[2]>> /\ b[2] \in Nat
           /\ arena[p][b[1]] \in Header /\ arena[p][b[1]].desc = p
           /\ p # Parent => b \notin old
           /\ b[2] = 0 <=> arena[p][b[1]].large
           /\ b[2] # 0 => /\ arena[p][b[1]].class \in Classes
                          /\ b[2] \in 1..Per[arena[p][b[1]].class]
                          /\ ~InList(b, free[p][arena[p][b[1]].class])
<1> USE DEF IInv
<1> DEFINE a == arena[p][b[1]]
<1>1. b \in held[p] /\ (p # Parent => b \notin old)
  BY DEF Frees
<1>2. b \in Blocks
  BY <1>1 DEF HeapTypeOK
<1>3. b[1] \in HeapPages /\ b = <<b[1], b[2]>> /\ b[2] \in Nat
  BY <1>2 DEF Blocks
<1>4. a \in Header
  BY <1>3 DEF HeapTypeOK
<1>5. a.desc = p
  BY <1>1, <1>3 DEF HeldOwn, HeadersPlain
<1>6. b[2] = 0 <=> a.large
  BY <1>1, <1>3 DEF HeldOwn, HeadersPlain
<1>7. b[2] # 0 => a.class # 0 /\ b[2] \in 1..Per[a.class] /\ ~InList(b, free[p][a.class])
  BY <1>1, <1>5 DEF HeldOwn
<1>8. b[2] # 0 => a.class \in Classes
  BY <1>4, <1>7 DEF Header
<1> QED BY <1>1, <1>3, <1>4, <1>5, <1>6, <1>7, <1>8

\* The arena keeps other blocks: the block goes to the end of the list.
LEMMA FreePartInv ==
    ASSUME IInv, ~Inherited, NEW p \in Procs, NEW b \in Frees(p), Free(p, b),
           arena[p][b[1]].cnt + 1 # Per[arena[p][b[1]].class]
    PROVE  IInv'
<1> USE DEF IInv
<1> DEFINE g == b[1]
           a == arena[p][g]
           c == a.class
           q == Append(free[p][c], b)
<1>1. /\ b \in held[p] /\ g \in HeapPages /\ b = <<g, b[2]>> /\ b[2] \in Nat
      /\ a \in Header /\ a.desc = p
      /\ p # Parent => b \notin old
      /\ b[2] = 0 <=> a.large
      /\ b[2] # 0 => c \in Classes /\ b[2] \in 1..Per[c] /\ ~InList(b, free[p][c])
  BY FreesOwn
<1>2. ~a.large
  BY DEF Free
<1>3. /\ b[2] # 0 /\ c \in Classes /\ c # 0 /\ b[2] \in 1..Per[c] /\ ~InList(b, free[p][c])
      /\ Per[c] \in Nat \ {0} /\ a.cnt \in Int /\ a.cnt + 1 \in Int
  BY <1>1, <1>2, ArenaAssumption DEF Header
<1>4. [a EXCEPT !.cnt = @ + 1].cnt = a.cnt + 1
  BY <1>1, <1>3, HeaderFacts
<1>5. /\ p \in alive
      /\ free' = [free EXCEPT ![p][c] = q]
      /\ SetHeader(p, g, [a EXCEPT !.cnt = @ + 1])
      /\ held' = [held EXCEPT ![p] = @ \ {b}]
      /\ UNCHANGED <<mapped, shared, failed, alive>>
      /\ old' = IF p = Parent THEN old ELSE old \ {b}
  BY <1>1, <1>4 DEF Free
<1>6. old' = old
  BY <1>1, <1>5
<1>7. /\ q \in Seq(Blocks) /\ NoRepeat(q)
      /\ \A y : InList(y, q) <=> InList(y, free[p][c]) \/ y = b
  <2>1. free[p][c] \in Seq(Blocks) /\ b \in Blocks /\ NoRepeat(free[p][c])
    BY <1>1, <1>3 DEF HeapTypeOK, ListsOwn
  <2> DEFINE l == free[p][c]
  <2>2. l \in Seq(Blocks) /\ b \in Blocks /\ NoRepeat(l) /\ ~InList(b, l)
    BY <1>3, <2>1
  <2> HIDE DEF l, IInv
  <2>3. /\ Append(l, b) \in Seq(Blocks) /\ NoRepeat(Append(l, b))
        /\ \A y : InList(y, Append(l, b)) <=> InList(y, l) \/ y = b
    BY <2>2, AppendFacts
  <2> QED BY <2>3 DEF l
<1> HIDE DEF q
<1>8. SetHeader(p, g, [arena[p][g] EXCEPT !.cnt = a.cnt + 1])
  BY <1>5
<1>9. /\ arena' \in [Procs -> [HeapPages -> Header]]
      /\ \A r \in Procs : \A x \in HeapPages :
            /\ arena'[r][x].large = arena[r][x].large
            /\ arena'[r][x].class = arena[r][x].class
            /\ arena'[r][x].desc = arena[r][x].desc
      /\ arena'[p][g].cnt = a.cnt + 1
      /\ \A r \in Procs : \A x \in HeapPages :
            /\ x # g => arena'[r][x] = arena[r][x]
            /\ arena[r][x].large => arena'[r][x] = arena[r][x]
            /\ arena[r][x].desc = r /\ r # p => arena'[r][x] = arena[r][x]
  BY <1>1, <1>3, <1>8, CountWritten
<1>10. HeadersPlain' /\ SharedAlike'
  BY <1>1, <1>3, <1>5, <1>8, CountWrittenInv
<1>11. /\ free'[p][c] = q
       /\ \A r \in Procs : \A e \in Classes : ~(r = p /\ e = c) => free'[r][e] = free[r][e]
       /\ free' \in [Procs -> [Classes -> Seq(Blocks)]]
  BY <1>3, <1>5, <1>7 DEF HeapTypeOK
<1>12. /\ held' \in [Procs -> SUBSET Blocks] /\ held'[p] = held[p] \ {b}
       /\ \A r \in Procs : r # p => held'[r] = held[r]
       /\ \A r \in Procs : held'[r] \subseteq held[r]
  BY <1>5 DEF HeapTypeOK
<1>13. HeapTypeOK'
  BY <1>5, <1>6, <1>9, <1>11, <1>12 DEF HeapTypeOK
<1>14. Unborn'
  <2>1. \A r \in Procs \ alive : r # p /\ \A e \in Classes : free'[r][e] = free[r][e]
    BY <1>5, <1>11
  <2> QED BY <1>5, <1>6, <1>12, <2>1 DEF Unborn
<1>15. \A r \in Procs : \A e \in Classes : \A y :
          InList(y, free'[r][e]) <=> InList(y, free[r][e]) \/ (r = p /\ e = c /\ y = b)
  BY <1>7, <1>11
<1>16. ASSUME NEW r \in Procs, NEW e \in Classes PROVE NoRepeat(free'[r][e])
  <2>1. CASE r = p /\ e = c
    BY <1>7, <1>11, <2>1
  <2>2. CASE ~(r = p /\ e = c)
    <3>1. free'[r][e] = free[r][e]
      BY <1>11, <2>2
    <3>2. NoRepeat(free[r][e])
      BY DEF ListsOwn
    <3> QED BY <3>1, <3>2
  <2> QED BY <2>1, <2>2
<1>17. CountsExact'
  <2> DEFINE Now(r, x, e) == {i \in 1..Per[e] : InList(<<x, i>>, free'[r][e])}
  <2> SUFFICES ASSUME NEW r \in Procs, NEW x \in HeapPages,
                      arena'[r][x].class # 0, arena'[r][x].desc = r
               PROVE  arena'[r][x].cnt = Cardinality(Now(r, x, arena'[r][x].class))
    BY DEF CountsExact, FreeIn
  <2> DEFINE e == arena[r][x].class
  <2>1. e \in Classes /\ arena'[r][x].class = e /\ arena[r][x].desc = r
    <3>1. arena[r][x] \in Header
      BY DEF HeapTypeOK
    <3> QED BY <1>9, <3>1 DEF Header
  <2>2. arena[r][x].cnt = Cardinality(FreeIn(r, x, e))
    BY <1>9, <2>1 DEF CountsExact
  <2>3. CASE r = p /\ x = g
    <3>1. e = c /\ arena'[r][x].cnt = arena[r][x].cnt + 1
      BY <1>9, <2>3
    <3>2. ASSUME NEW j PROVE j \in Now(r, x, c) <=> j \in FreeIn(r, x, c) \/ j = b[2]
      <4>1. <<x, j>> = b <=> j = b[2]
        BY <1>1, <2>3
      <4>2. InList(<<x, j>>, free'[r][c]) <=> InList(<<x, j>>, free[r][c]) \/ j = b[2]
        BY <1>3, <1>15, <2>3, <4>1
      <4> QED BY <1>3, <4>2 DEF FreeIn
    <3>3. b[2] \notin FreeIn(r, x, c)
      BY <1>1, <1>3, <2>3 DEF FreeIn
    <3>4. FreeIn(r, x, c) \subseteq 1..Per[c]
      BY DEF FreeIn
    <3> HIDE DEF Now
    <3>5. Cardinality(Now(r, x, c)) = Cardinality(FreeIn(r, x, c)) + 1
      BY <1>3, <3>2, <3>3, <3>4, OneMore
    <3> QED BY <2>1, <2>2, <3>1, <3>5
  <2>4. CASE ~(r = p /\ x = g)
    <3>1. arena'[r][x] = arena[r][x]
      BY <1>9, <2>1, <2>4
    <3>2. \A j : <<x, j>> = b => x = g
      BY <1>1
    <3>3. \A j : InList(<<x, j>>, free'[r][e]) <=> InList(<<x, j>>, free[r][e])
      BY <1>15, <2>1, <2>4, <3>2
    <3>4. Now(r, x, e) = FreeIn(r, x, e)
      BY <3>3 DEF FreeIn
    <3> QED BY <2>1, <2>2, <3>1, <3>4
  <2> QED BY <2>3, <2>4
<1>18. ListsOwn'
  <2> SUFFICES ASSUME NEW r \in Procs, NEW e \in Classes,
                      NEW y \in Blocks, InList(y, free'[r][e])
               PROVE  /\ y[2] \in 1..Per[e]
                      /\ arena'[r][y[1]].class = e /\ arena'[r][y[1]].desc = r
    BY <1>16 DEF ListsOwn
  <2>1. y[1] \in HeapPages
    BY DEF Blocks
  <2>2. CASE InList(y, free[r][e])
    BY <1>9, <2>1, <2>2 DEF ListsOwn
  <2>3. CASE r = p /\ e = c /\ y = b
    BY <1>1, <1>3, <1>9, <2>3
  <2> QED BY <1>15, <2>2, <2>3
<1>19. ASSUME NEW r \in Procs, NEW d \in held[r]
       PROVE  d[1] \in HeapPages /\ arena[r][d[1]] \in Header /\ arena[r][d[1]].class \in Classes \cup {0}
  <2>1. d[1] \in HeapPages
    BY DEF Blocks, HeapTypeOK
  <2>2. arena[r][d[1]] \in Header
    BY <2>1 DEF HeapTypeOK
  <2> QED BY <2>1, <2>2 DEF Header
<1>20. HeldOwn'
  <2> SUFFICES ASSUME NEW r \in Procs, NEW d \in held'[r]
               PROVE  /\ d[2] # 0 => /\ arena'[r][d[1]].class # 0
                                     /\ d[2] \in 1..Per[arena'[r][d[1]].class]
                                     /\ arena'[r][d[1]].desc = r =>
                                           ~InList(d, free'[r][arena'[r][d[1]].class])
                      /\ d[2] = 0 => arena'[r][d[1]].large
                      /\ r # Parent => (arena'[r][d[1]].desc = Parent <=> d \in old)
    BY <1>6 DEF HeldOwn
  <2> DEFINE e == arena[r][d[1]].class
  <2>1. d \in held[r] /\ ~(r = p /\ d = b)
    BY <1>12
  <2>2. d[1] \in HeapPages /\ e \in Classes \cup {0}
    BY <1>19, <2>1
  <2>3. /\ arena'[r][d[1]].large = arena[r][d[1]].large
        /\ arena'[r][d[1]].class = e
        /\ arena'[r][d[1]].desc = arena[r][d[1]].desc
    BY <1>9, <2>2
  <2>4. ASSUME e # 0, ~InList(d, free[r][e]) PROVE ~InList(d, free'[r][e])
    BY <1>15, <2>1, <2>2, <2>4
  <2>5. /\ d[2] # 0 => /\ e # 0 /\ d[2] \in 1..Per[e]
                       /\ arena[r][d[1]].desc = r => ~InList(d, free[r][e])
        /\ d[2] = 0 => arena[r][d[1]].large
        /\ r # Parent => (arena[r][d[1]].desc = Parent <=> d \in old)
    BY <2>1 DEF HeldOwn
  <2> HIDE DEF e
  <2> QED BY <2>3, <2>4, <2>5
<1>21. OldHeld'
  BY <1>1, <1>6, <1>12 DEF OldHeld
<1>22. RunsWhole'
  <2> SUFFICES ASSUME NEW r \in Procs, NEW d \in held'[r], d[2] = 0
               PROVE  LET k == arena'[r][d[1]].cnt IN
                      /\ k >= 1
                      /\ d[1]..d[1] + k - 1 \subseteq mapped'[r]
                      /\ \A x \in d[1] + 1..d[1] + k - 1 :
                            arena'[r][x].class = 0 /\ ~arena'[r][x].large
    BY DEF RunsWhole
  <2>1. d \in held[r]
    BY <1>12
  <2>2. arena[r][d[1]].large /\ d[1] \in HeapPages
    BY <1>19, <2>1 DEF HeldOwn
  <2>3. arena'[r][d[1]].cnt = arena[r][d[1]].cnt
    BY <1>9, <2>2
  <2>4. d[1]..d[1] + arena[r][d[1]].cnt - 1 \subseteq mapped'[r]
    BY <1>5, <2>1 DEF RunsWhole
  <2>5. \A x \in mapped[r] : arena[r][x].class = 0 /\ ~arena[r][x].large =>
                             arena'[r][x].class = 0 /\ ~arena'[r][x].large
    BY <1>9 DEF HeapTypeOK
  <2> QED BY <2>1, <2>3, <2>4, <2>5, RunKept
<1> QED BY <1>5, <1>10, <1>13, <1>14, <1>17, <1>18, <1>20, <1>21, <1>22

\* The pages of a large block hold no arena beside its own header, and no
\* other block the process holds.
LEMMA RunApart ==
    ASSUME IInv, NEW p \in Procs, NEW b \in held[p], b[2] = 0,
           NEW g \in b[1]..b[1] + arena[p][b[1]].cnt - 1
    PROVE  /\ g \in HeapPages /\ g \in mapped[p]
           /\ arena[p][g].class = 0 /\ (arena[p][g].large => g = b[1])
           /\ \A d \in held[p] \ {b} : d[1] # g
           /\ \A d \in held[p] \ {b} : d[2] = 0 =>
                 g \notin d[1]..d[1] + arena[p][d[1]].cnt - 1
<1> USE DEF IInv
<1>1. ASSUME NEW d \in held[p], d[2] = 0
      PROVE  /\ d[1] \in HeapPages /\ d[1] \in Int /\ arena[p][d[1]].cnt \in Int
             /\ arena[p][d[1]].large /\ arena[p][d[1]].class = 0
             /\ arena[p][d[1]].cnt >= 1
             /\ d[1]..d[1] + arena[p][d[1]].cnt - 1 \subseteq mapped[p]
             /\ \A x \in d[1] + 1..d[1] + arena[p][d[1]].cnt - 1 :
                   arena[p][x].class = 0 /\ ~arena[p][x].large
  <2>1. d[1] \in HeapPages /\ d[1] \in Int
    BY DEF HeapTypeOK, Blocks, HeapPages
  <2>2. arena[p][d[1]] \in Header
    BY <2>1 DEF HeapTypeOK
  <2>3. arena[p][d[1]].cnt \in Int
    BY <2>2 DEF Header
  <2>4. arena[p][d[1]].large /\ arena[p][d[1]].class = 0
    BY <1>1, <2>1 DEF HeldOwn, HeadersPlain
  <2>5. /\ arena[p][d[1]].cnt >= 1
        /\ d[1]..d[1] + arena[p][d[1]].cnt - 1 \subseteq mapped[p]
        /\ \A x \in d[1] + 1..d[1] + arena[p][d[1]].cnt - 1 :
              arena[p][x].class = 0 /\ ~arena[p][x].large
    BY <1>1 DEF RunsWhole
  <2> QED BY <2>1, <2>3, <2>4, <2>5
<1>2. ASSUME NEW d \in held[p] PROVE d[1] \in HeapPages /\ d[1] \in Int /\ d = <<d[1], d[2]>>
  BY DEF HeapTypeOK, Blocks, HeapPages
<1>3. ASSUME NEW d \in held[p]
      PROVE  arena[p][d[1]].class # 0 \/ (d[2] = 0 /\ arena[p][d[1]].large)
  BY DEF HeldOwn
<1>4. g \in mapped[p] /\ g \in HeapPages
  BY <1>1 DEF HeapTypeOK
<1>5. g = b[1] \/ (arena[p][g].class = 0 /\ ~arena[p][g].large)
  <2>1. g = b[1] \/ g \in b[1] + 1..b[1] + arena[p][b[1]].cnt - 1
    BY <1>1
  <2> QED BY <1>1, <2>1
<1>6. arena[p][g].class = 0 /\ (arena[p][g].large => g = b[1])
  BY <1>1, <1>5
<1>7. \A d \in held[p] \ {b} : d[1] # g
  <2> SUFFICES ASSUME NEW d \in held[p] \ {b}, d[1] = g PROVE FALSE
    OBVIOUS
  <2>1. d[2] = 0 /\ d[1] = b[1]
    BY <1>3, <1>5, <1>6
  <2> QED BY <1>2, <2>1
<1>8. \A d \in held[p] \ {b} : d[2] = 0 => g \notin d[1]..d[1] + arena[p][d[1]].cnt - 1
  <2> SUFFICES ASSUME NEW d \in held[p] \ {b}, d[2] = 0,
                      g \in d[1]..d[1] + arena[p][d[1]].cnt - 1
               PROVE  FALSE
    OBVIOUS
  <2>1. d[1] # b[1]
    BY <1>2
  <2>2. CASE d[1] < b[1]
    <3>1. b[1] \in d[1] + 1..d[1] + arena[p][d[1]].cnt - 1
      BY <1>1, <2>2
    <3> QED BY <1>1, <3>1
  <2>3. CASE b[1] < d[1]
    <3>1. d[1] \in b[1] + 1..b[1] + arena[p][b[1]].cnt - 1
      BY <1>1, <2>3
    <3> QED BY <1>1, <3>1
  <2> QED BY <1>2, <2>1, <2>2, <2>3
<1> QED BY <1>4, <1>6, <1>7, <1>8

\* A large block gives back its pages, and only those.
LEMMA FreeLargeInv ==
    ASSUME IInv, ~Inherited, NEW p \in Procs, NEW b \in Frees(p), FreeLarge(p, b)
    PROVE  IInv'
<1> USE DEF IInv
<1> DEFINE g == b[1]
           a == arena[p][g]
           run == g..g + a.cnt - 1
<1>1. /\ b \in held[p] /\ g \in HeapPages /\ b = <<g, b[2]>>
      /\ p # Parent => b \notin old
      /\ b[2] = 0 <=> a.large
  BY FreesOwn
<1>2. /\ p \in alive /\ a.large
      /\ mapped' = [mapped EXCEPT ![p] = @ \ run]
      /\ shared' = shared \ run
      /\ arena' = [arena EXCEPT ![p][g] = NoArena]
      /\ held' = [held EXCEPT ![p] = @ \ {b}]
      /\ old' = IF p = Parent THEN old ELSE old \ {b}
      /\ UNCHANGED <<free, alive, failed>>
  BY DEF FreeLarge, Unmap
<1>3. old' = old /\ b[2] = 0
  BY <1>1, <1>2
<1>4. \A x \in run : /\ x \in HeapPages /\ x \in mapped[p]
                     /\ arena[p][x].class = 0 /\ (arena[p][x].large => x = g)
                     /\ \A d \in held[p] \ {b} : d[1] # x
                     /\ \A d \in held[p] \ {b} : d[2] = 0 =>
                           x \notin d[1]..d[1] + arena[p][d[1]].cnt - 1
  BY <1>1, <1>3, RunApart
<1>5. g \in run
  <2>1. a.cnt >= 1
    BY <1>1, <1>3 DEF RunsWhole
  <2>2. a \in Header
    BY <1>1 DEF HeapTypeOK
  <2>4. g \in Int
    BY <1>1 DEF HeapPages
  <2>3. a.cnt \in Int
    BY <2>2 DEF Header
  <2> HIDE DEF a
  <2> QED BY <2>1, <2>3, <2>4
<1> HIDE DEF run, a
<1>6. /\ NoArena \in Header /\ ~NoArena.large /\ NoArena.class = 0 /\ NoArena.desc = Parent
  BY ArenaAssumption DEF NoArena, Header
<1>7. /\ arena' \in [Procs -> [HeapPages -> Header]] /\ arena'[p][g] = NoArena
      /\ \A r \in Procs : \A x \in HeapPages : ~(r = p /\ x = g) => arena'[r][x] = arena[r][x]
  BY <1>1, <1>2, <1>6 DEF HeapTypeOK
<1>8. /\ mapped' \in [Procs -> SUBSET HeapPages] /\ mapped'[p] = mapped[p] \ run
      /\ held' \in [Procs -> SUBSET Blocks] /\ held'[p] = held[p] \ {b}
      /\ \A r \in Procs : r # p => mapped'[r] = mapped[r] /\ held'[r] = held[r]
      /\ \A r \in Procs : held'[r] \subseteq held[r]
  BY <1>2 DEF HeapTypeOK
<1>9. HeapTypeOK'
  BY <1>2, <1>3, <1>7, <1>8 DEF HeapTypeOK
<1>10. Unborn'
  <2>1. \A r \in Procs \ alive : r # p
    BY <1>2
  <2> QED BY <1>2, <1>3, <1>8, <2>1 DEF Unborn
<1>11. HeadersPlain'
  <2> SUFFICES ASSUME NEW r \in Procs, NEW x \in HeapPages
               PROVE  /\ arena'[r][x].large => arena'[r][x].class = 0 /\ x \in mapped'[r]
                      /\ arena'[r][x].class # 0 => x \in mapped'[r]
                      /\ arena'[r][x].desc \in {Parent, r}
    BY DEF HeadersPlain
  <2>1. CASE r = p /\ x = g
    BY <1>6, <1>7, <2>1
  <2>2. CASE ~(r = p /\ x = g)
    <3>1. arena'[r][x] = arena[r][x]
      BY <1>7, <2>2
    <3>2. /\ arena[r][x].large => arena[r][x].class = 0 /\ x \in mapped[r]
          /\ arena[r][x].class # 0 => x \in mapped[r]
          /\ arena[r][x].desc \in {Parent, r}
      BY DEF HeadersPlain
    <3>3. arena[r][x].large \/ arena[r][x].class # 0 => ~(r = p /\ x \in run)
      BY <1>4, <2>2
    <3> QED BY <1>8, <3>1, <3>2, <3>3
  <2> QED BY <2>1, <2>2
<1>12. SharedAlike'
  <2> SUFFICES ASSUME NEW r \in Procs
               PROVE  /\ shared' \subseteq mapped'[r]
                      /\ \A x \in shared' : arena'[r][x] = arena'[Parent][x]
    BY DEF SharedAlike
  <2>1. shared' \subseteq mapped'[r]
    BY <1>2, <1>8 DEF SharedAlike
  <2>2. \A x \in shared' : x \in shared /\ x # g /\ x \in HeapPages
    BY <1>2, <1>5 DEF HeapTypeOK
  <2>3. Parent \in Procs
    BY ArenaAssumption
  <2> QED BY <1>7, <2>1, <2>2, <2>3 DEF SharedAlike
<1>13. CountsExact'
  <2> SUFFICES ASSUME NEW r \in Procs, NEW x \in HeapPages,
                      arena'[r][x].class # 0, arena'[r][x].desc = r
               PROVE  arena'[r][x].cnt = Cardinality(FreeIn(r, x, arena'[r][x].class))
    BY <1>2 DEF CountsExact, FreeIn
  <2>1. arena'[r][x] = arena[r][x]
    BY <1>6, <1>7
  <2> QED BY <2>1 DEF CountsExact
<1>14. ListsOwn'
  <2> SUFFICES ASSUME NEW r \in Procs, NEW c \in Classes,
                      NEW y \in Blocks, InList(y, free[r][c])
               PROVE  arena'[r][y[1]] = arena[r][y[1]]
    BY <1>2 DEF ListsOwn
  <2>1. y[1] \in HeapPages /\ arena[r][y[1]].class = c /\ c # 0
    BY ArenaAssumption DEF Blocks, ListsOwn
  <2> QED BY <1>4, <1>5, <1>7, <2>1
<1>15. ASSUME NEW r \in Procs, NEW d \in held'[r]
       PROVE  d \in held[r] /\ d[1] \in HeapPages /\ arena'[r][d[1]] = arena[r][d[1]]
  <2>1. d \in held[r]
    BY <1>8
  <2>2. d[1] \in HeapPages
    BY <2>1 DEF Blocks, HeapTypeOK
  <2>3. r = p => d[1] # g
    BY <1>4, <1>5, <1>8
  <2> QED BY <1>7, <2>1, <2>2, <2>3
<1>16. HeldOwn'
  BY <1>2, <1>3, <1>15 DEF HeldOwn
<1>17. OldHeld'
  BY <1>1, <1>3, <1>8 DEF OldHeld
<1>18. RunsWhole'
  <2> SUFFICES ASSUME NEW r \in Procs, NEW d \in held'[r], d[2] = 0
               PROVE  LET k == arena'[r][d[1]].cnt IN
                      /\ k >= 1
                      /\ d[1]..d[1] + k - 1 \subseteq mapped'[r]
                      /\ \A x \in d[1] + 1..d[1] + k - 1 :
                            arena'[r][x].class = 0 /\ ~arena'[r][x].large
    BY DEF RunsWhole
  <2>1. d \in held[r] /\ arena'[r][d[1]].cnt = arena[r][d[1]].cnt
    BY <1>15
  <2>2. d[1]..d[1] + arena[r][d[1]].cnt - 1 \subseteq mapped[r]
    BY <2>1 DEF RunsWhole
  <2>3. d[1]..d[1] + arena[r][d[1]].cnt - 1 \subseteq mapped'[r]
    <3>1. CASE r = p
      <4>1. \A x \in run : x \notin d[1]..d[1] + arena[r][d[1]].cnt - 1
        BY <1>4, <1>8, <3>1
      <4> QED BY <1>8, <2>2, <3>1, <4>1
    <3>2. CASE r # p
      BY <1>8, <2>2, <3>2
    <3> QED BY <3>1, <3>2
  <2>4. \A x \in mapped[r] : arena[r][x].class = 0 /\ ~arena[r][x].large =>
                             arena'[r][x].class = 0 /\ ~arena'[r][x].large
    BY <1>6, <1>7 DEF HeapTypeOK
  <2> QED BY <2>1, <2>3, <2>4, RunKept
<1> QED BY <1>2, <1>9, <1>10, <1>11, <1>12, <1>13, <1>14, <1>16, <1>17, <1>18

\* The last block of an arena comes back: no block of it is held any more, the
\* ASSERTs of sys_free hold, and the page goes with all its blocks.
LEMMA FreeWholeInv ==
    ASSUME IInv, ~Inherited, NEW p \in Procs, NEW b \in Frees(p), Free(p, b),
           arena[p][b[1]].cnt + 1 = Per[arena[p][b[1]].class]
    PROVE  IInv'
<1> USE DEF IInv
<1> DEFINE g == b[1]
           a == arena[p][g]
           c == a.class
           q == Append(free[p][c], b)
           h == [a EXCEPT !.cnt = @ + 1]
<1>1. /\ b \in held[p] /\ g \in HeapPages /\ b = <<g, b[2]>> /\ b[2] \in Nat
      /\ a \in Header /\ a.desc = p
      /\ p # Parent => b \notin old
      /\ b[2] = 0 <=> a.large
      /\ b[2] # 0 => c \in Classes /\ b[2] \in 1..Per[c] /\ ~InList(b, free[p][c])
  BY FreesOwn
<1>2. ~a.large
  BY DEF Free
<1>3. /\ b[2] # 0 /\ c \in Classes /\ c # 0 /\ b[2] \in 1..Per[c] /\ ~InList(b, free[p][c])
      /\ Per[c] \in Nat \ {0} /\ a.cnt \in Int /\ a.cnt + 1 \in Int /\ g \in Int
  BY <1>1, <1>2, ArenaAssumption DEF Header, HeapPages
<1>4. /\ h.cnt = a.cnt + 1 /\ h \in Header
      /\ h.large = a.large /\ h.desc = a.desc /\ h.class = a.class
  BY <1>1, <1>3, HeaderFacts
<1>5. /\ p \in alive
      /\ failed' = \E i \in 1..Per[c] : ~InList(<<g, i>>, q)
      /\ free' = [free EXCEPT ![p][c] = IF failed' THEN q ELSE Unlist(q, g, c)]
      /\ arena' = [r \in Procs |->
                     IF r = p THEN [arena[r] EXCEPT ![g] = NoArena]
                     ELSE IF g \in shared THEN [arena[r] EXCEPT ![g] = h]
                     ELSE arena[r]]
      /\ mapped' = [mapped EXCEPT ![p] = @ \ (g..g + 1 - 1)]
      /\ shared' = shared \ (g..g + 1 - 1)
      /\ held' = [held EXCEPT ![p] = @ \ {b}]
      /\ alive' = alive
      /\ old' = IF p = Parent THEN old ELSE old \ {b}
  BY <1>1, <1>4 DEF Free, Unmap
<1>6. old' = old /\ g..g + 1 - 1 = {g}
  <2>1. old' = old
    BY <1>1, <1>5
  <2>2. ASSUME NEW k \in Int PROVE k..k + 1 - 1 = {k}
    OBVIOUS
  <2> QED BY <1>3, <2>1, <2>2
<1>7. /\ q \in Seq(Blocks) /\ NoRepeat(q)
      /\ \A y : InList(y, q) <=> InList(y, free[p][c]) \/ y = b
  <2>1. free[p][c] \in Seq(Blocks) /\ b \in Blocks /\ NoRepeat(free[p][c])
    BY <1>1, <1>3 DEF HeapTypeOK, ListsOwn
  <2> DEFINE l == free[p][c]
  <2>2. l \in Seq(Blocks) /\ b \in Blocks /\ NoRepeat(l) /\ ~InList(b, l)
    BY <1>3, <2>1
  <2> HIDE DEF l, IInv
  <2>3. /\ Append(l, b) \in Seq(Blocks) /\ NoRepeat(Append(l, b))
        /\ \A y : InList(y, Append(l, b)) <=> InList(y, l) \/ y = b
    BY <2>2, AppendFacts
  <2> QED BY <2>3 DEF l
<1> HIDE DEF q, h
<1>8. \A i \in 1..Per[c] : InList(<<g, i>>, q)
  <2> DEFINE T == {i \in 1..Per[c] : InList(<<g, i>>, q)}
  <2>1. a.cnt = Cardinality(FreeIn(p, g, c))
    BY <1>1, <1>3 DEF CountsExact
  <2>2. ASSUME NEW j PROVE j \in T <=> j \in FreeIn(p, g, c) \/ j = b[2]
    <3>1. <<g, j>> = b <=> j = b[2]
      BY <1>1
    <3> QED BY <1>3, <1>7, <3>1 DEF FreeIn
  <2>3. b[2] \notin FreeIn(p, g, c) /\ FreeIn(p, g, c) \subseteq 1..Per[c]
    BY <1>1, <1>3 DEF FreeIn
  <2>4. T \subseteq 1..Per[c] /\ Per[c] \in Nat
    BY <1>3
  <2> HIDE DEF T
  <2>5. Cardinality(T) = Cardinality(FreeIn(p, g, c)) + 1
    BY <2>2, <2>3, <2>4, OneMore
  <2>6. Cardinality(T) = Per[c]
    BY <2>1, <2>5
  <2>7. T = 1..Per[c]
    BY <2>4, <2>6, AllCounted
  <2> QED BY <2>7 DEF T
<1>9. ~failed' /\ failed' = FALSE
  BY <1>5, <1>8
<1> DEFINE u == Unlist(q, g, c)
<1>10. /\ u \in Seq(Blocks) /\ NoRepeat(u)
       /\ \A y : InList(y, u) <=> InList(y, q) /\ ~\E i \in 1..Per[c] : y = <<g, i>>
  BY <1>1, <1>3, <1>7, <1>8, UnlistFacts
<1> HIDE DEF u
<1>11. /\ free'[p][c] = u
       /\ \A r \in Procs : \A e \in Classes : ~(r = p /\ e = c) => free'[r][e] = free[r][e]
       /\ free' \in [Procs -> [Classes -> Seq(Blocks)]]
  <2>1. free' = [free EXCEPT ![p][c] = u]
    BY <1>5, <1>9 DEF u
  <2> QED BY <1>3, <1>10, <2>1 DEF HeapTypeOK
<1>12. /\ NoArena \in Header /\ ~NoArena.large /\ NoArena.class = 0 /\ NoArena.desc = Parent
  BY ArenaAssumption DEF NoArena, Header
<1>13. g \in shared => p = Parent /\ \A r \in Procs : arena[r][g] = a
  <2> SUFFICES ASSUME g \in shared
               PROVE  p = Parent /\ \A r \in Procs : arena[r][g] = a
    OBVIOUS
  <2>1. Parent \in Procs /\ \A r \in Procs : arena[r][g] = arena[Parent][g]
    BY ArenaAssumption DEF SharedAlike
  <2>2. arena[Parent][g].desc = Parent
    BY <1>1, <2>1 DEF HeadersPlain
  <2> QED BY <1>1, <2>1, <2>2
<1>14. /\ arena' \in [Procs -> [HeapPages -> Header]] /\ arena'[p][g] = NoArena
       /\ \A r \in Procs : \A x \in HeapPages : x # g => arena'[r][x] = arena[r][x]
       /\ \A r \in Procs : r # p /\ g \in shared => arena'[r][g] = h
       /\ \A r \in Procs : r # p /\ g \notin shared => arena'[r][g] = arena[r][g]
  <2>1. arena \in [Procs -> [HeapPages -> Header]]
    BY DEF HeapTypeOK
  <2>2. \A r \in Procs : /\ [arena[r] EXCEPT ![g] = NoArena] \in [HeapPages -> Header]
                         /\ [arena[r] EXCEPT ![g] = h] \in [HeapPages -> Header]
    BY <1>4, <1>12, <2>1
  <2> QED BY <1>1, <1>5, <2>1, <2>2
<1> HIDE DEF a, c
<1>15. \A r \in Procs : \A x \in HeapPages : ~(r = p /\ x = g) =>
          /\ arena'[r][x].large = arena[r][x].large
          /\ arena'[r][x].class = arena[r][x].class
          /\ arena'[r][x].desc = arena[r][x].desc
          /\ arena[r][x].large => arena'[r][x].cnt = arena[r][x].cnt
          /\ arena[r][x].desc = r => arena'[r][x] = arena[r][x]
  <2> SUFFICES ASSUME NEW r \in Procs, NEW x \in HeapPages, ~(r = p /\ x = g)
               PROVE  /\ arena'[r][x].large = arena[r][x].large
                      /\ arena'[r][x].class = arena[r][x].class
                      /\ arena'[r][x].desc = arena[r][x].desc
                      /\ arena[r][x].large => arena'[r][x].cnt = arena[r][x].cnt
                      /\ arena[r][x].desc = r => arena'[r][x] = arena[r][x]
    OBVIOUS
  <2>1. CASE x # g \/ g \notin shared
    <3>1. arena'[r][x] = arena[r][x]
      BY <1>14, <2>1
    <3> QED BY <3>1
  <2>2. CASE x = g /\ g \in shared
    <3>1. arena'[r][x] = h /\ arena[r][x] = a /\ r # p
      BY <1>13, <1>14, <2>2
    <3> QED BY <1>1, <1>2, <1>4, <3>1
  <2> QED BY <2>1, <2>2
<1>16. /\ mapped' \in [Procs -> SUBSET HeapPages] /\ mapped'[p] = mapped[p] \ {g}
       /\ held' \in [Procs -> SUBSET Blocks] /\ held'[p] = held[p] \ {b}
       /\ shared' = shared \ {g} /\ shared' \subseteq HeapPages
       /\ \A r \in Procs : r # p => mapped'[r] = mapped[r] /\ held'[r] = held[r]
       /\ \A r \in Procs : held'[r] \subseteq held[r]
  BY <1>5, <1>6 DEF HeapTypeOK
<1>17. HeapTypeOK'
  <2>1. old' \subseteq Blocks /\ Parent \in alive' /\ alive' \subseteq Procs /\ failed' \in BOOLEAN
    BY <1>5, <1>6, <1>9 DEF HeapTypeOK
  <2> QED BY <1>11, <1>14, <1>16, <2>1 DEF HeapTypeOK
<1>18. Unborn'
  <2>1. \A r \in Procs \ alive : r # p /\ \A e \in Classes : free'[r][e] = free[r][e]
    BY <1>5, <1>11
  <2> QED BY <1>5, <1>6, <1>16, <2>1 DEF Unborn
<1>19. HeadersPlain'
  <2> SUFFICES ASSUME NEW r \in Procs, NEW x \in HeapPages
               PROVE  /\ arena'[r][x].large => arena'[r][x].class = 0 /\ x \in mapped'[r]
                      /\ arena'[r][x].class # 0 => x \in mapped'[r]
                      /\ arena'[r][x].desc \in {Parent, r}
    BY DEF HeadersPlain
  <2>1. CASE r = p /\ x = g
    BY <1>12, <1>14, <2>1
  <2>2. CASE ~(r = p /\ x = g)
    <3>1. /\ arena'[r][x].large = arena[r][x].large
          /\ arena'[r][x].class = arena[r][x].class
          /\ arena'[r][x].desc = arena[r][x].desc
      BY <1>15, <2>2
    <3>2. x \in mapped[r] => x \in mapped'[r]
      BY <1>16, <2>2
    <3> QED BY <3>1, <3>2 DEF HeadersPlain
  <2> QED BY <2>1, <2>2
<1>20. SharedAlike'
  <2> SUFFICES ASSUME NEW r \in Procs
               PROVE  /\ shared' \subseteq mapped'[r]
                      /\ \A x \in shared' : arena'[r][x] = arena'[Parent][x]
    BY DEF SharedAlike
  <2>1. shared' \subseteq mapped'[r]
    BY <1>16 DEF SharedAlike
  <2>2. \A x \in shared' : x \in shared /\ x # g /\ x \in HeapPages
    BY <1>16
  <2>3. Parent \in Procs
    BY ArenaAssumption
  <2> QED BY <1>14, <2>1, <2>2, <2>3 DEF SharedAlike
<1>21. ASSUME NEW r \in Procs, NEW e \in Classes, NEW y, y[1] # g \/ r # p
       PROVE  InList(y, free'[r][e]) <=> InList(y, free[r][e])
  <2>1. CASE r = p /\ e = c
    <3>1. y # b /\ ~\E i \in 1..Per[c] : y = <<g, i>>
      BY <1>1, <1>21, <2>1
    <3> QED BY <1>7, <1>10, <1>11, <2>1, <3>1
  <2>2. CASE ~(r = p /\ e = c)
    BY <1>11, <2>2
  <2> QED BY <2>1, <2>2
<1>22. \A e \in Classes : \A y \in Blocks : InList(y, free'[p][e]) => y[1] # g
  <2> SUFFICES ASSUME NEW e \in Classes, NEW y \in Blocks, InList(y, free'[p][e]), y[1] = g
               PROVE  FALSE
    OBVIOUS
  <2>1. CASE e = c
    <3>1. InList(y, q) /\ ~\E i \in 1..Per[c] : y = <<g, i>>
      BY <1>10, <1>11, <2>1
    <3>2. y[2] \in 1..Per[c]
      <4>1. CASE y = b
        BY <1>3, <4>1
      <4>2. CASE InList(y, free[p][c])
        BY <1>3, <4>2 DEF ListsOwn
      <4> QED BY <1>7, <3>1, <4>1, <4>2
    <3>3. y = <<g, y[2]>>
      BY DEF Blocks
    <3> QED BY <3>1, <3>2, <3>3
  <2>2. CASE e # c
    <3>1. InList(y, free[p][e])
      BY <1>11, <2>2
    <3>2. arena[p][g].class = e
      BY <3>1 DEF ListsOwn
    <3> QED BY <2>2, <3>2 DEF c, a
  <2> QED BY <2>1, <2>2
<1>23. ASSUME NEW r \in Procs, NEW e \in Classes PROVE NoRepeat(free'[r][e])
  <2>1. CASE r = p /\ e = c
    BY <1>10, <1>11, <2>1
  <2>2. CASE ~(r = p /\ e = c)
    <3>1. free'[r][e] = free[r][e]
      BY <1>11, <2>2
    <3>2. NoRepeat(free[r][e])
      BY DEF ListsOwn
    <3> QED BY <3>1, <3>2
  <2> QED BY <2>1, <2>2
<1>24. CountsExact'
  <2> DEFINE Now(r, x, e) == {i \in 1..Per[e] : InList(<<x, i>>, free'[r][e])}
  <2> SUFFICES ASSUME NEW r \in Procs, NEW x \in HeapPages,
                      arena'[r][x].class # 0, arena'[r][x].desc = r
               PROVE  arena'[r][x].cnt = Cardinality(Now(r, x, arena'[r][x].class))
    BY DEF CountsExact, FreeIn
  <2> DEFINE e == arena[r][x].class
  <2>1. ~(r = p /\ x = g)
    BY <1>12, <1>14
  <2>2. arena[r][x].desc = r /\ arena'[r][x] = arena[r][x]
    BY <1>15, <2>1
  <2>3. e \in Classes
    <3>1. arena[r][x] \in Header
      BY DEF HeapTypeOK
    <3> QED BY <2>2, <3>1 DEF Header
  <2>4. arena[r][x].cnt = Cardinality(FreeIn(r, x, e))
    BY <2>2 DEF CountsExact
  <2>5. \A j : InList(<<x, j>>, free'[r][e]) <=> InList(<<x, j>>, free[r][e])
    <3> HIDE DEF e
    <3> TAKE j
    <3>1. <<x, j>>[1] # g \/ r # p
      BY <2>1
    <3> QED BY <1>21, <2>3, <3>1
  <2>6. Now(r, x, e) = FreeIn(r, x, e)
    BY <2>5 DEF FreeIn
  <2> QED BY <2>2, <2>4, <2>6
<1>25. ListsOwn'
  <2> SUFFICES ASSUME NEW r \in Procs, NEW e \in Classes,
                      NEW y \in Blocks, InList(y, free'[r][e])
               PROVE  /\ y[2] \in 1..Per[e]
                      /\ arena'[r][y[1]].class = e /\ arena'[r][y[1]].desc = r
    BY <1>23 DEF ListsOwn
  <2>1. y[1] \in HeapPages /\ (y[1] # g \/ r # p)
    BY <1>22 DEF Blocks
  <2>2. InList(y, free[r][e])
    BY <1>21, <2>1
  <2>3. /\ y[2] \in 1..Per[e]
        /\ arena[r][y[1]].class = e /\ arena[r][y[1]].desc = r
    BY <2>2 DEF ListsOwn
  <2> QED BY <1>15, <2>1, <2>3
<1>26. ASSUME NEW r \in Procs, NEW d \in held'[r]
       PROVE  /\ d \in held[r] /\ d[1] \in HeapPages /\ (d[1] # g \/ r # p)
              /\ arena[r][d[1]].class \in Classes \cup {0}
  <2>1. d \in held[r]
    BY <1>16
  <2>2. d[1] \in HeapPages /\ d \in Blocks /\ d = <<d[1], d[2]>>
    BY <2>1 DEF Blocks, HeapTypeOK
  <2>3. arena[r][d[1]] \in Header
    BY <2>2 DEF HeapTypeOK
  <2>4. ASSUME r = p, d[1] = g PROVE FALSE
    <3>1. d # b /\ ~a.large
      BY <1>2, <1>16, <2>4
    <3>2. d[2] # 0
      BY <1>2, <2>1, <2>4 DEF HeldOwn, a
    <3>3. d[2] \in 1..Per[c] /\ ~InList(d, free[p][c])
      BY <1>1, <2>1, <2>4, <3>2 DEF HeldOwn, c, a
    <3>4. InList(d, q)
      BY <1>8, <2>2, <2>4, <3>3
    <3> QED BY <1>7, <3>1, <3>3, <3>4
  <2> QED BY <2>1, <2>2, <2>3, <2>4 DEF Header
<1>27. HeldOwn'
  <2> SUFFICES ASSUME NEW r \in Procs, NEW d \in held'[r]
               PROVE  /\ d[2] # 0 => /\ arena'[r][d[1]].class # 0
                                     /\ d[2] \in 1..Per[arena'[r][d[1]].class]
                                     /\ arena'[r][d[1]].desc = r =>
                                           ~InList(d, free'[r][arena'[r][d[1]].class])
                      /\ d[2] = 0 => arena'[r][d[1]].large
                      /\ r # Parent => (arena'[r][d[1]].desc = Parent <=> d \in old)
    BY <1>6 DEF HeldOwn
  <2> DEFINE e == arena[r][d[1]].class
  <2>1. d \in held[r] /\ d[1] \in HeapPages /\ (d[1] # g \/ r # p) /\ e \in Classes \cup {0}
    BY <1>26
  <2>2. /\ arena'[r][d[1]].large = arena[r][d[1]].large
        /\ arena'[r][d[1]].class = e
        /\ arena'[r][d[1]].desc = arena[r][d[1]].desc
    BY <1>15, <2>1
  <2>3. ASSUME e # 0, ~InList(d, free[r][e]) PROVE ~InList(d, free'[r][e])
    BY <1>21, <2>1, <2>3
  <2>4. /\ d[2] # 0 => /\ e # 0 /\ d[2] \in 1..Per[e]
                       /\ arena[r][d[1]].desc = r => ~InList(d, free[r][e])
        /\ d[2] = 0 => arena[r][d[1]].large
        /\ r # Parent => (arena[r][d[1]].desc = Parent <=> d \in old)
    BY <2>1 DEF HeldOwn
  <2> HIDE DEF e
  <2> QED BY <2>2, <2>3, <2>4
<1>28. OldHeld'
  BY <1>1, <1>6, <1>16 DEF OldHeld
<1>29. RunsWhole'
  <2> SUFFICES ASSUME NEW r \in Procs, NEW d \in held'[r], d[2] = 0
               PROVE  LET k == arena'[r][d[1]].cnt IN
                      /\ k >= 1
                      /\ d[1]..d[1] + k - 1 \subseteq mapped'[r]
                      /\ \A x \in d[1] + 1..d[1] + k - 1 :
                            arena'[r][x].class = 0 /\ ~arena'[r][x].large
    BY DEF RunsWhole
  <2>1. d \in held[r] /\ d[1] \in HeapPages /\ (d[1] # g \/ r # p)
    BY <1>26
  <2>2. arena'[r][d[1]].cnt = arena[r][d[1]].cnt
    BY <1>15, <2>1 DEF HeldOwn
  <2>3. d[1]..d[1] + arena[r][d[1]].cnt - 1 \subseteq mapped'[r]
    <3>1. d[1]..d[1] + arena[r][d[1]].cnt - 1 \subseteq mapped[r]
      BY <2>1 DEF RunsWhole
    <3>2. r = p => g \notin d[1]..d[1] + arena[r][d[1]].cnt - 1
      BY <1>3, <2>1, RunApart DEF a, c
    <3> QED BY <1>16, <3>1, <3>2
  <2>4. \A x \in mapped[r] : arena[r][x].class = 0 /\ ~arena[r][x].large =>
                             arena'[r][x].class = 0 /\ ~arena'[r][x].large
    <3> SUFFICES ASSUME NEW x \in mapped[r], arena[r][x].class = 0, ~arena[r][x].large
                 PROVE  arena'[r][x].class = 0 /\ ~arena'[r][x].large
      OBVIOUS
    <3>1. x \in HeapPages /\ ~(r = p /\ x = g)
      BY <1>3 DEF HeapTypeOK, a, c
    <3> QED BY <1>15, <3>1
  <2> QED BY <2>1, <2>2, <2>3, <2>4, RunKept
<1> QED BY <1>9, <1>17, <1>18, <1>19, <1>20, <1>24, <1>25, <1>27, <1>28, <1>29

-----------------------------------------------------------------------------
(* The heap allocator: the theorems. *)

\* The invariant holds at every moment if the child frees no block it got from
\* its parent.  (With Inherited a block is handed out twice: see the README.)
THEOREM HeapInvariance == ASSUME ~Inherited PROVE HeapSpec => []IInv
<1>1. IInv /\ [HeapNext]_heap_vars => IInv'
  <2> SUFFICES ASSUME IInv, [HeapNext]_heap_vars PROVE IInv'
    OBVIOUS
  <2>1. CASE UNCHANGED heap_vars
    BY <2>1 DEF heap_vars, IInv, HeapTypeOK, Unborn, HeadersPlain, SharedAlike, CountsExact,
                FreeIn, ListsOwn, HeldOwn, OldHeld, RunsWhole
  <2>2. ASSUME NEW p \in Procs, NEW c \in Classes, Malloc(p, c) PROVE IInv'
    BY <2>2, MallocFreshInv, MallocListedInv
  <2>3. ASSUME NEW p \in Procs, NEW n \in Larges, MallocLarge(p, n) PROVE IInv'
    BY <2>3, MallocLargeInv
  <2>4. ASSUME NEW p \in Procs, NEW b \in Frees(p), Free(p, b) PROVE IInv'
    BY <2>4, FreePartInv, FreeWholeInv
  <2>5. ASSUME NEW p \in Procs, NEW b \in Frees(p), FreeLarge(p, b) PROVE IInv'
    BY <2>5, FreeLargeInv
  <2>6. ASSUME NEW p \in Procs, Fork(p) PROVE IInv'
    BY <2>6, ForkInv
  <2> QED BY <2>1, <2>2, <2>3, <2>4, <2>5, <2>6 DEF HeapNext
<1> QED BY <1>1, HeapInitInv, PTL DEF HeapSpec

\* sys_malloc returns no block that is held, or that is still in a free list.
THEOREM NeverHandedOutTwice == ASSUME ~Inherited PROVE HeapSpec => []HeldNotFree
<1>1. IInv => HeldNotFree
  BY InvImplies
<1> QED BY <1>1, HeapInvariance, PTL

\* What a process holds stays mapped and apart: sys_free unmaps an arena with
\* its last block only, and a large block with no page of another one.
THEOREM HeldStaysMapped == ASSUME ~Inherited PROVE HeapSpec => []HeldMapped
<1>1. IInv => HeldMapped
  BY InvImplies
<1> QED BY <1>1, HeapInvariance, PTL

\* The ASSERT of sys_free holds and free_cnt is exact: no block is lost.
THEOREM NoBlockLost == ASSUME ~Inherited PROVE HeapSpec => []FreeCountExact
<1>1. IInv => FreeCountExact
  <2> SUFFICES ASSUME IInv PROVE FreeCountExact
    OBVIOUS
  <2>1. ~failed
    BY DEF IInv
  <2>2. ASSUME NEW p \in alive, NEW g \in mapped[p],
               arena[p][g].class # 0, arena[p][g].desc = p
        PROVE  arena[p][g].cnt = Cardinality({i \in 1..Per[arena[p][g].class] :
                                    InList(<<g, i>>, free[p][arena[p][g].class])})
    <3>1. p \in Procs /\ g \in HeapPages
      BY DEF IInv, HeapTypeOK
    <3> QED BY <2>2, <3>1 DEF IInv, CountsExact, FreeIn
  <2> QED BY <2>1, <2>2 DEF FreeCountExact
<1> QED BY <1>1, HeapInvariance, PTL
=============================================================================
