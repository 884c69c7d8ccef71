----------------------------- MODULE KernelFacts ----------------------------
(***************************************************************************)
(* Facts the other proofs rest on: every nonempty set of naturals has a    *)
(* least element (the provers' substitute for induction), and what the     *)
(* list operations of lib/list.c do to membership and to the absence of    *)
(* duplicates.                                                             *)
(***************************************************************************)
EXTENDS KList, WellFoundedInduction, TLAPS

-----------------------------------------------------------------------------
\* Where the code looks for the lowest index with some property, there is one.
LEMMA LeastNat ==
    ASSUME NEW S, S \subseteq Nat, S # {}
    PROVE  \E x \in S : \A y \in S : x <= y
<1> DEFINE R == {ss \in Nat \X Nat : ss[1] < ss[2]}
<1>1. PICK x \in S : \A y \in S : ~(<<y, x>> \in R)
  <2>1. IsWellFoundedOn(R, Nat)
    BY NatLessThanWellFounded DEF OpToRel
  <2> HIDE DEF R
  <2> QED BY <2>1, WFMin
<1>2. \A y \in S : ~(y < x)
  BY <1>1
<1> QED BY <1>2

-----------------------------------------------------------------------------
(* Facts about lists (lib/list.c) as sequences.                             *)

\* list_append adds the element at the end and loses nothing.
LEMMA AppendFacts ==
    ASSUME NEW S, NEW q \in Seq(S), NEW x \in S
    PROVE  /\ Append(q, x) \in Seq(S)
           /\ Append(q, x) # << >>
           /\ \A y : InList(y, Append(q, x)) <=> InList(y, q) \/ y = x
           /\ NoRepeat(q) /\ ~InList(x, q) => NoRepeat(Append(q, x))
<1>1. Append(q, x) \in Seq(S) /\ Append(q, x) # << >>
  <2>1. Len(Append(q, x)) = Len(q) + 1 /\ Len(q) \in Nat /\ Len(<< >>) = 0
    OBVIOUS
  <2> QED BY <2>1
<1>2. /\ DOMAIN Append(q, x) = 1..(Len(q) + 1)
      /\ DOMAIN q = 1..Len(q) /\ Len(q) \in Nat
      /\ Append(q, x)[Len(q) + 1] = x
      /\ \A i \in 1..Len(q) : Append(q, x)[i] = q[i]
  OBVIOUS
<1>3. \A y : InList(y, Append(q, x)) <=> InList(y, q) \/ y = x
  <2> TAKE y
  <2>1. InList(y, Append(q, x)) => InList(y, q) \/ y = x
    BY <1>2 DEF InList
  <2>2. InList(y, q) => InList(y, Append(q, x))
    BY <1>2 DEF InList
  <2>3. y = x => InList(y, Append(q, x))
    BY <1>2 DEF InList
  <2> QED BY <2>1, <2>2, <2>3
<1>4. ASSUME NoRepeat(q), ~InList(x, q) PROVE NoRepeat(Append(q, x))
  BY <1>2, <1>4 DEF NoRepeat, InList
<1> QED BY <1>1, <1>3, <1>4

\* list_push adds the element at the front and loses nothing.
LEMMA PushFacts ==
    ASSUME NEW S, NEW q \in Seq(S), NEW x \in S
    PROVE  /\ <<x>> \o q \in Seq(S)
           /\ \A y : InList(y, <<x>> \o q) <=> InList(y, q) \/ y = x
           /\ NoRepeat(q) /\ ~InList(x, q) => NoRepeat(<<x>> \o q)
<1> DEFINE p == <<x>> \o q
<1>1. p \in Seq(S)
  OBVIOUS
<1>2. /\ DOMAIN p = 1..(Len(q) + 1)
      /\ DOMAIN q = 1..Len(q) /\ Len(q) \in Nat
      /\ p[1] = x
      /\ \A i \in 1..Len(q) : p[i + 1] = q[i]
  OBVIOUS
<1>3. \A j \in DOMAIN p : j # 1 => j - 1 \in DOMAIN q /\ p[j] = q[j - 1]
  BY <1>2
<1> HIDE DEF p
<1>4. \A y : InList(y, p) <=> InList(y, q) \/ y = x
  <2> TAKE y
  <2>1. InList(y, p) => InList(y, q) \/ y = x
    BY <1>2, <1>3 DEF InList
  <2>2. InList(y, q) => InList(y, p)
    BY <1>2 DEF InList
  <2>3. y = x => InList(y, p)
    BY <1>2 DEF InList
  <2> QED BY <2>1, <2>2, <2>3
<1>5. ASSUME NoRepeat(q), ~InList(x, q) PROVE NoRepeat(p)
  <2> SUFFICES ASSUME NEW i \in DOMAIN p, NEW j \in DOMAIN p, p[i] = p[j]
               PROVE  i = j
    BY DEF NoRepeat
  <2>1. CASE i = 1 /\ j # 1
    BY <2>1, <1>2, <1>3, <1>5 DEF InList
  <2>2. CASE j = 1 /\ i # 1
    BY <2>2, <1>2, <1>3, <1>5 DEF InList
  <2>3. CASE i # 1 /\ j # 1
    <3>1. i - 1 = j - 1
      BY <2>3, <1>3, <1>5 DEF NoRepeat
    <3> QED BY <3>1, <1>2
  <2> QED BY <2>1, <2>2, <2>3
<1> QED BY <1>1, <1>4, <1>5 DEF p

\* list_pop takes the head off and keeps the rest.
LEMMA PopFacts ==
    ASSUME NEW S, NEW q \in Seq(S), q # << >>
    PROVE  /\ Head(q) \in S /\ Tail(q) \in Seq(S) /\ InList(Head(q), q)
           /\ \A y : InList(y, Tail(q)) => InList(y, q)
           /\ \A y : InList(y, q) => InList(y, Tail(q)) \/ y = Head(q)
           /\ NoRepeat(q) => NoRepeat(Tail(q)) /\ ~InList(Head(q), Tail(q))
<1>1. Head(q) \in S /\ Tail(q) \in Seq(S)
  OBVIOUS
<1>2. /\ DOMAIN q = 1..Len(q) /\ Len(q) \in Nat /\ Len(q) > 0
      /\ DOMAIN Tail(q) = 1..(Len(q) - 1)
      /\ Head(q) = q[1]
      /\ \A i \in 1..(Len(q) - 1) : Tail(q)[i] = q[i + 1]
  OBVIOUS
<1>3. InList(Head(q), q)
  BY <1>2 DEF InList
<1>4. \A y : InList(y, Tail(q)) => InList(y, q)
  BY <1>2 DEF InList
<1>5. ASSUME NEW y, InList(y, q) PROVE InList(y, Tail(q)) \/ y = Head(q)
  <2>1. PICK i \in DOMAIN q : q[i] = y
    BY <1>5 DEF InList
  <2>2. CASE i = 1
    BY <2>1, <2>2, <1>2
  <2>3. CASE i # 1
    <3>1. i - 1 \in 1..(Len(q) - 1) /\ Tail(q)[i - 1] = q[(i - 1) + 1]
      BY <2>1, <2>3, <1>2
    <3>2. Tail(q)[i - 1] = y
      BY <3>1, <2>1, <1>2
    <3> QED BY <3>1, <3>2, <1>2 DEF InList
  <2> QED BY <2>2, <2>3
<1>6. ASSUME NoRepeat(q)
      PROVE  NoRepeat(Tail(q)) /\ ~InList(Head(q), Tail(q))
  <2>1. NoRepeat(Tail(q))
    BY <1>2, <1>6 DEF NoRepeat
  <2>2. ~InList(Head(q), Tail(q))
    BY <1>2, <1>6 DEF NoRepeat, InList
  <2> QED BY <2>1, <2>2
<1> QED BY <1>1, <1>3, <1>4, <1>5, <1>6

\* list_remove takes the node out and keeps the rest.
LEMMA RemoveFacts ==
    ASSUME NEW S, NEW q \in Seq(S), NEW x, NoRepeat(q), InList(x, q)
    PROVE  /\ list_remove(x, q) \in Seq(S) /\ NoRepeat(list_remove(x, q))
           /\ \A y : InList(y, list_remove(x, q)) <=> InList(y, q) /\ y # x
<1> DEFINE k == CHOOSE i \in DOMAIN q : q[i] = x
           r == list_remove(x, q)
           n == Len(q) - 1
<1>1. k \in DOMAIN q /\ q[k] = x
  BY DEF InList
<1>2. DOMAIN q = 1..Len(q) /\ Len(q) \in Nat /\ n \in Nat /\ k \in 1..Len(q)
  BY <1>1
<1>3. r = [i \in 1..n |-> IF i < k THEN q[i] ELSE q[i + 1]]
  BY DEF list_remove
<1> HIDE DEF k, r
<1>4. \A i \in 1..n : (IF i < k THEN q[i] ELSE q[i + 1]) \in S
  BY <1>2
<1>5. r \in Seq(S)
  BY <1>2, <1>3, <1>4
<1>6. /\ DOMAIN r = 1..n
      /\ \A i \in 1..n : r[i] = IF i < k THEN q[i] ELSE q[i + 1]
  BY <1>3
<1>7. NoRepeat(r)
  <2> SUFFICES ASSUME NEW i \in 1..n, NEW j \in 1..n, r[i] = r[j] PROVE i = j
    BY <1>6 DEF NoRepeat
  <2> DEFINE a == IF i < k THEN i ELSE i + 1
             b == IF j < k THEN j ELSE j + 1
  <2>1. a \in DOMAIN q /\ b \in DOMAIN q /\ r[i] = q[a] /\ r[j] = q[b]
    BY <1>2, <1>6
  <2>2. a = b
    BY <2>1 DEF NoRepeat
  <2> QED BY <1>2, <2>2
<1>8. ASSUME NEW y, InList(y, r) PROVE InList(y, q) /\ y # x
  <2>1. PICK i \in 1..n : r[i] = y
    BY <1>6, <1>8 DEF InList
  <2> DEFINE a == IF i < k THEN i ELSE i + 1
  <2>2. a \in DOMAIN q /\ q[a] = y /\ a # k
    BY <1>2, <1>6, <2>1
  <2> QED BY <1>1, <2>2 DEF InList, NoRepeat
<1>9. ASSUME NEW y, InList(y, q), y # x PROVE InList(y, r)
  <2>1. PICK a \in DOMAIN q : q[a] = y
    BY <1>9 DEF InList
  <2>2. a # k
    BY <1>1, <1>9, <2>1
  <2> DEFINE i == IF a < k THEN a ELSE a - 1
  <2>3. i \in 1..n /\ (IF i < k THEN i ELSE i + 1) = a
    BY <1>2, <2>1, <2>2
  <2>4. r[i] = y
    BY <1>6, <2>1, <2>3
  <2> QED BY <1>6, <2>3, <2>4 DEF InList
<1> QED BY <1>5, <1>7, <1>8, <1>9 DEF r
=============================================================================
