---------------------------- MODULE Heap4Proofs ----------------------------
(***************************************************************************)
(* Proofs about Heap4 for every size of the heap, of the header and of the *)
(* requests, and any number of tasks and blocks.                           *)
(***************************************************************************)
EXTENDS Heap4, FiniteSetTheorems, SequenceTheorems, WellFoundedInduction, TLAPS

-----------------------------------------------------------------------------
(* Lists in the order of the addresses.                                    *)

Sorted(l) == \A i, j \in 1 .. Len(l) : i < j => l[i] < l[j]

\* A set of naturals has a least element.
LEMMA LeastElement ==
  ASSUME NEW S \in SUBSET Nat, S # {}
  PROVE  \E x \in S : \A y \in S : x <= y
<1>1. PICK x \in S : \A y \in S : ~(<<y, x>> \in OpToRel(<, Nat))
  BY WFMin, NatLessThanWellFounded, Zenon
<1>2. \A y \in S : ~(y < x)
  BY <1>1 DEF OpToRel
<1> QED BY <1>2

LEMMA MinIsLeast ==
  ASSUME NEW S \in SUBSET Nat, S # {}
  PROVE  Min(S) \in S /\ \A y \in S : Min(S) <= y
<1>1. \E x \in S : \A y \in S : x =< y
  BY LeastElement
<1> QED BY <1>1 DEF Min

\* The search for the place of b stops behind all blocks before b.
LEMMA PositionBounds ==
  ASSUME NEW l \in Seq(Address), NEW b \in Address, Sorted(l), b \notin ToSet(l)
  PROVE  /\ PositionOf(l, b) \in 1 .. Len(l) + 1
         /\ \A i \in 1 .. Len(l) : i < PositionOf(l, b) => l[i] < b
         /\ \A i \in 1 .. Len(l) : i >= PositionOf(l, b) => l[i] > b
<1> DEFINE I == {i \in 1 .. Len(l) : l[i] >= b}
<1>1. Len(l) \in Nat /\ DOMAIN l = 1 .. Len(l) /\ \A i \in 1 .. Len(l) : l[i] \in Address
  BY LenProperties, ElementOfSeq
<1>2. \A a \in Address : a \in Nat
  BY HeapAssumption DEF Address
<1>3. \A i \in 1 .. Len(l) : l[i] # b
  BY <1>1 DEF ToSet
<1>4. SelectInSeq(l, LAMBDA a : a >= b) = IF I # {} THEN Min(I) ELSE 0
  BY DEF SelectInSeq
<1>5. CASE I = {}
  <2>1. PositionOf(l, b) = Len(l) + 1
    BY <1>4, <1>5 DEF PositionOf
  <2> QED BY <2>1, <1>1, <1>2, <1>5
<1>6. CASE I # {}
  <2>1. I \in SUBSET Nat
    BY <1>1
  <2>2. Min(I) \in I /\ \A y \in I : Min(I) <= y
    BY <2>1, <1>6, MinIsLeast
  <2>3. PositionOf(l, b) = Min(I)
    BY <2>2, <1>4, <1>6, <1>1 DEF PositionOf
  <2>4. \A i \in 1 .. Len(l) : i < Min(I) => l[i] < b
    BY <2>2, <1>1, <1>2
  <2>5. \A i \in 1 .. Len(l) : i >= Min(I) => l[i] > b
    BY <2>2, <1>1, <1>2, <1>3 DEF Sorted
  <2> QED BY <2>2, <2>3, <2>4, <2>5, <1>1
<1> QED BY <1>5, <1>6

LEMMA PartOfList ==
  ASSUME NEW l \in Seq(Address), Sorted(l), NEW m \in 1 .. Len(l) + 1,
         NEW n \in 0 .. Len(l)
  PROVE  /\ SubSeq(l, m, n) \in Seq(Address) /\ Sorted(SubSeq(l, m, n))
         /\ ToSet(SubSeq(l, m, n)) = {l[i] : i \in m .. n}
<1> DEFINE s == SubSeq(l, m, n)
<1>1. Len(l) \in Nat /\ \A i \in 1 .. Len(l) : l[i] \in Address
  BY LenProperties, ElementOfSeq
<1>2. /\ s \in Seq(Address) /\ Len(s) = IF m <= n THEN n - m + 1 ELSE 0
      /\ \A i \in 1 .. n - m + 1 : s[i] = l[m + i - 1]
  BY <1>1, SubSeqProperties
<1>3. DOMAIN s = 1 .. Len(s)
  BY <1>2, LenProperties
<1> HIDE DEF s
<1>5. \A i \in 1 .. Len(s) : m + i - 1 \in m .. n /\ s[i] = l[m + i - 1]
  BY <1>1, <1>2
<1>4. Sorted(s)
  <2> SUFFICES ASSUME NEW i \in 1 .. Len(s), NEW j \in 1 .. Len(s), i < j
               PROVE  s[i] < s[j]
    BY DEF Sorted
  <2>1. /\ m + i - 1 \in 1 .. Len(l) /\ m + j - 1 \in 1 .. Len(l)
        /\ m + i - 1 < m + j - 1
    BY <1>1, <1>2
  <2>2. l[m + i - 1] < l[m + j - 1]
    BY <2>1 DEF Sorted
  <2> QED BY <2>2, <1>5
<1>6. \A i \in m .. n : i - m + 1 \in 1 .. Len(s) /\ s[i - m + 1] = l[i]
  BY <1>1, <1>2
<1>7. ToSet(s) = {l[i] : i \in m .. n}
  <2>1. ASSUME NEW x \in ToSet(s) PROVE x \in {l[i] : i \in m .. n}
    BY <1>3, <1>5 DEF ToSet
  <2>2. ASSUME NEW i \in m .. n PROVE l[i] \in ToSet(s)
    BY <1>3, <1>6 DEF ToSet
  <2> QED BY <2>1, <2>2
<1> QED BY <1>2, <1>4, <1>7 DEF s

LEMMA JoinedLists ==
  ASSUME NEW s \in Seq(Address), NEW t \in Seq(Address), Sorted(s), Sorted(t),
         \A x \in ToSet(s), y \in ToSet(t) : x < y
  PROVE  /\ s \o t \in Seq(Address) /\ Sorted(s \o t)
         /\ ToSet(s \o t) = ToSet(s) \cup ToSet(t)
<1> DEFINE r == s \o t
<1>1. /\ r \in Seq(Address) /\ Len(r) = Len(s) + Len(t)
      /\ \A i \in 1 .. Len(s) + Len(t) :
           r[i] = IF i <= Len(s) THEN s[i] ELSE t[i - Len(s)]
  BY ConcatProperties
<1>2. /\ Len(s) \in Nat /\ DOMAIN s = 1 .. Len(s)
      /\ Len(t) \in Nat /\ DOMAIN t = 1 .. Len(t)
      /\ DOMAIN r = 1 .. Len(r)
  BY <1>1, LenProperties
<1> HIDE DEF r
<1>3. \A i \in 1 .. Len(s) : i \in 1 .. Len(r) /\ r[i] = s[i]
  BY <1>1, <1>2
<1>4. \A i \in 1 .. Len(t) : Len(s) + i \in 1 .. Len(r) /\ r[Len(s) + i] = t[i]
  BY <1>1, <1>2
<1>5. ToSet(r) = ToSet(s) \cup ToSet(t)
  <2>1. ASSUME NEW i \in DOMAIN r PROVE r[i] \in ToSet(s) \cup ToSet(t)
    <3>1. CASE i <= Len(s)
      <4>1. i \in DOMAIN s /\ r[i] = s[i]
        BY <3>1, <1>1, <1>2
      <4> QED BY <4>1 DEF ToSet
    <3>2. CASE ~(i <= Len(s))
      <4>1. i - Len(s) \in DOMAIN t /\ r[i] = t[i - Len(s)]
        BY <3>2, <1>1, <1>2
      <4> QED BY <4>1 DEF ToSet
    <3> QED BY <3>1, <3>2
  <2>2. ASSUME NEW i \in DOMAIN s PROVE s[i] \in ToSet(r)
    BY <1>2, <1>3 DEF ToSet
  <2>3. ASSUME NEW i \in DOMAIN t PROVE t[i] \in ToSet(r)
    BY <1>2, <1>4 DEF ToSet
  <2> QED BY <2>1, <2>2, <2>3 DEF ToSet
<1>6. Sorted(r)
  <2> SUFFICES ASSUME NEW i \in 1 .. Len(r), NEW j \in 1 .. Len(r), i < j
               PROVE  r[i] < r[j]
    BY DEF Sorted
  <2>1. CASE j <= Len(s)
    BY <2>1, <1>1, <1>2 DEF Sorted
  <2>2. CASE i > Len(s)
    <3>1. i - Len(s) \in 1 .. Len(t) /\ j - Len(s) \in 1 .. Len(t)
          /\ i - Len(s) < j - Len(s)
      BY <2>2, <1>1, <1>2
    <3>2. r[i] = t[i - Len(s)] /\ r[j] = t[j - Len(s)]
      BY <2>2, <1>1, <1>2
    <3> QED BY <3>1, <3>2 DEF Sorted
  <2>3. CASE i <= Len(s) /\ j > Len(s)
    <3>1. i \in DOMAIN s /\ j - Len(s) \in DOMAIN t
      BY <2>3, <1>1, <1>2
    <3>2. r[i] = s[i] /\ r[j] = t[j - Len(s)]
      BY <2>3, <1>1, <1>2
    <3>3. s[i] \in ToSet(s) /\ t[j - Len(s)] \in ToSet(t)
      BY <3>1 DEF ToSet
    <3> QED BY <3>2, <3>3
  <2> QED BY <2>1, <2>2, <2>3, <1>1, <1>2
<1> QED BY <1>1, <1>5, <1>6 DEF r

LEMMA SingleList ==
  ASSUME NEW b \in Address
  PROVE  <<b>> \in Seq(Address) /\ Sorted(<<b>>) /\ ToSet(<<b>>) = {b}
<1>1. Len(<<b>>) = 1 /\ DOMAIN <<b>> = {1} /\ <<b>>[1] = b
  OBVIOUS
<1> QED BY <1>1 DEF Sorted, ToSet

LEMMA EmptyList ==
  <<>> \in Seq(Address) /\ Sorted(<<>>) /\ ToSet(<<>>) = {}
<1>1. Len(<<>>) = 0 /\ DOMAIN <<>> = {}
  OBVIOUS
<1> QED BY <1>1 DEF Sorted, ToSet

-----------------------------------------------------------------------------
(* Blocks as sets.                                                         *)

\* The blocks of B fit into the heap, do not overlap and leave no gap.
Tiled(B, sz) ==
  /\ \A b \in B : sz[b] >= 1 /\ b + sz[b] <= HeapEnd
  /\ \A b, c \in B : b < c => b + sz[b] <= c
  /\ \A a \in Address : \E b \in B : b <= a /\ a < b + sz[b]

Coalesced(F, sz) == \A x, y \in F : x < y => x + sz[x] < y

Covered(F, sz) == {a \in Address : \E b \in F : b <= a /\ a < b + sz[b]}

\* The outcome h of an insertion of b: in the place of b and of the free
\* blocks it touches there is one block from a to e, and all else is as it was.
OneBlock(l, sz, b, h, a, e) ==
  /\ a = b \/ (a \in ToSet(l) /\ a + sz[a] = b)
  /\ \/ e = b + sz[b]
     \/ b + sz[b] \in ToSet(l) /\ e = b + sz[b] + sz[b + sz[b]]
  /\ \A x \in ToSet(l) : x + sz[x] # a /\ x # e
  /\ ToSet(h.free) = {x \in ToSet(l) : x < a \/ x >= e} \cup {a}
  /\ h.free \in Seq(Address) /\ Sorted(h.free)
  /\ h.size \in [Address -> 0 .. HeapEnd]
  /\ h.size[a] = e - a
  /\ \A x \in Address : x < a \/ x >= e => h.size[x] = sz[x]

\* That is what prvInsertBlockIntoFreeList does.
LEMMA Insertion ==
  ASSUME NEW l \in Seq(Address), Sorted(l),
         NEW b \in Address, b \notin ToSet(l),
         NEW sz \in [Address -> 0 .. HeapEnd],
         NEW B \in SUBSET Address, ToSet(l) \subseteq B, b \in B, Tiled(B, sz),
         Coalesced(ToSet(l), sz),
         NEW h, h = InsertBlockIntoFreeList(l, sz, b)
  PROVE  \E a \in Address, e \in 1 .. HeapEnd : OneBlock(l, sz, b, h, a, e)
<1> DEFINE F    == ToSet(l)
           pos  == PositionOf(l, b)
           prev == MergesPrevious(l, sz, pos, b)
           a    == IF prev THEN l[pos - 1] ELSE b
           n    == IF prev THEN sz[a] + sz[b] ELSE sz[b]
           next == MergesNext(l, pos, a, n)
           e    == IF next THEN a + n + sz[l[pos]] ELSE a + n
           gone == (IF prev THEN {b} ELSE {}) \cup (IF next THEN {l[pos]} ELSE {})
<1>1. /\ Len(l) \in Nat /\ DOMAIN l = 1 .. Len(l)
      /\ \A i \in 1 .. Len(l) : l[i] \in F
      /\ F \subseteq Address
      /\ \A x \in F : \E i \in 1 .. Len(l) : x = l[i]
  BY LenProperties, ElementOfSeq DEF ToSet
<1>2. \A x \in Address : x \in Nat /\ x < HeapEnd /\ sz[x] \in 0 .. HeapEnd
  BY HeapAssumption DEF Address
<1>3. /\ pos \in 1 .. Len(l) + 1
      /\ \A i \in 1 .. Len(l) : i < pos => l[i] < b
      /\ \A i \in 1 .. Len(l) : i >= pos => l[i] > b
  BY PositionBounds
<1>4. /\ h.free = SubSeq(l, 1, pos - 1) \o (IF prev THEN <<>> ELSE <<b>>)
                   \o SubSeq(l, IF next THEN pos + 1 ELSE pos, Len(l))
      /\ h.size = [c \in Address |->
                     IF c \in gone THEN 0
                     ELSE IF c = a THEN (IF next THEN n + sz[l[pos]] ELSE n)
                     ELSE sz[c]]
  BY DEF InsertBlockIntoFreeList
<1>5. /\ \A x \in F : sz[x] >= 1 /\ x + sz[x] <= HeapEnd
      /\ sz[b] >= 1 /\ b + sz[b] <= HeapEnd
      /\ \A x \in F : (x < b => x + sz[x] <= b) /\ (b < x => b + sz[b] <= x)
      /\ \A x, y \in F : x < y => x + sz[x] < y
  BY DEF Tiled, Coalesced
<1>6. prev <=> pos > 1 /\ l[pos - 1] + sz[l[pos - 1]] = b
  BY DEF MergesPrevious
<1>7. prev => pos - 1 \in 1 .. Len(l) /\ l[pos - 1] \in F
  BY <1>1, <1>3, <1>6
<1>8. /\ a \in Address /\ n \in Nat /\ a <= b /\ a + n = b + sz[b]
      /\ prev => a \in F /\ a = l[pos - 1] /\ a + sz[a] = b
      /\ ~prev => a = b
  <2>1. CASE prev
    <3>1. a = l[pos - 1] /\ n = sz[a] + sz[b]
      BY <2>1
    <3> HIDE DEF a, n
    <3>2. a \in F /\ a + sz[a] = b /\ sz[a] \in Nat /\ sz[b] \in Nat /\ b \in Nat
      BY <3>1, <2>1, <1>1, <1>2, <1>6, <1>7
    <3>3. a \in Address /\ a \in Nat
      BY <3>2, <1>1, <1>2
    <3> HIDE DEF prev, pos
    <3>4. n \in Nat /\ a <= b /\ a + n = b + sz[b]
      <4>1. \A s, v, c \in Nat : c + s >= c /\ c + (s + v) = (c + s) + v
        OBVIOUS
      <4>2. n = sz[a] + sz[b] /\ a + sz[a] = b
        BY <3>1, <3>2
      <4> QED BY <3>2, <3>3, <4>1, <4>2
    <3> QED BY <2>1, <3>1, <3>2, <3>3, <3>4
  <2>2. CASE ~prev
    <3>1. a = b /\ n = sz[b]
      BY <2>2
    <3> QED BY <3>1, <2>2, <1>2
  <2> QED BY <2>1, <2>2
<1>9. next <=> pos <= Len(l) /\ l[pos] = b + sz[b]
  BY <1>8 DEF MergesNext
<1>10. next => pos \in 1 .. Len(l) /\ l[pos] \in F
  BY <1>1, <1>3, <1>9
<1>11. /\ next => e = b + sz[b] + sz[l[pos]] /\ b + sz[b] = l[pos]
       /\ ~next => e = b + sz[b]
  BY <1>8, <1>9
<1>12. e \in 1 .. HeapEnd /\ b + sz[b] <= e
  <2>1. CASE next
    BY <2>1, <1>1, <1>2, <1>5, <1>10, <1>11
  <2>2. CASE ~next
    BY <2>2, <1>2, <1>5, <1>11
  <2> QED BY <2>1, <2>2
<1>13. /\ \A i \in 1 .. pos - 1 : l[i] < a \/ (prev /\ l[i] = a)
       /\ \A i \in pos .. Len(l) : l[i] >= e \/ (next /\ i = pos)
  <2>1. ASSUME NEW i \in 1 .. pos - 1 PROVE l[i] < a \/ (prev /\ l[i] = a)
    <3>1. i \in 1 .. Len(l) /\ l[i] < b
      BY <1>1, <1>3
    <3>2. CASE prev
      <4>1. i = pos - 1 \/ l[i] < l[pos - 1]
        BY <3>1, <3>2, <1>3, <1>7 DEF Sorted
      <4> QED BY <4>1, <3>2, <1>8
    <3> QED BY <3>1, <3>2, <1>8
  <2>2. ASSUME NEW i \in pos .. Len(l) PROVE l[i] >= e \/ (next /\ i = pos)
    <3>1. i \in 1 .. Len(l) /\ l[i] > b /\ l[i] \in F
      BY <1>1, <1>3
    <3>2. l[i] >= b + sz[b]
      BY <3>1, <1>5
    <3>3. CASE next /\ i # pos
      <4>1. l[pos] < l[i]
        BY <3>1, <3>3, <1>3, <1>10 DEF Sorted
      <4>2. l[pos] + sz[l[pos]] < l[i]
        BY <4>1, <3>1, <3>3, <1>5, <1>10
      <4> QED BY <4>2, <3>1, <3>3, <1>1, <1>2, <1>10, <1>11
    <3> QED BY <3>2, <3>3, <1>11
  <2> QED BY <2>1, <2>2
<1> HIDE DEF pos, prev, a, n, next, e, F
<1>14. \A x \in F : x + sz[x] # a /\ x # e
  <2> SUFFICES ASSUME NEW x \in F PROVE x + sz[x] # a /\ x # e
    OBVIOUS
  <2>0. x \in Address /\ sz[x] >= 1
    BY <1>1, <1>5
  <2>1. PICK i \in 1 .. Len(l) : x = l[i]
    BY <1>1
  <2>2. ASSUME x + sz[x] = a PROVE FALSE
    <3>1. x < a
      BY <2>0, <2>2, <1>2, <1>8
    <3>2. CASE prev
      BY <3>1, <3>2, <2>2, <1>2, <1>5, <1>8, <2>0
    <3>3. CASE ~prev
      <4>1. a = b /\ x < b
        BY <3>1, <3>3, <1>8
      <4>2. i < pos
        BY <4>1, <2>1, <1>2, <1>3, <2>0
      <4>3. i # pos - 1
        BY <4>1, <4>2, <2>1, <2>2, <3>3, <1>3, <1>6
      <4>4. pos - 1 \in 1 .. Len(l) /\ i < pos - 1
        BY <4>2, <4>3, <1>1, <1>3
      <4>5. x < l[pos - 1] /\ l[pos - 1] \in F /\ l[pos - 1] < b
        BY <4>4, <2>1, <1>1, <1>3 DEF Sorted
      <4>6. x + sz[x] < l[pos - 1]
        BY <4>5, <1>5
      <4>7. l[pos - 1] \in Nat /\ b \in Nat /\ x + sz[x] = b
        BY <4>1, <4>5, <2>2, <1>1, <1>2
      <4> QED BY <4>5, <4>6, <4>7, <2>0, <1>2
    <3> QED BY <3>2, <3>3
  <2>3. ASSUME x = e PROVE FALSE
    <3>1. i \in pos .. Len(l)
      <4>1. l[i] > b /\ l[i] \in Nat /\ b \in Nat
        BY <2>0, <2>1, <2>3, <1>2, <1>5, <1>12
      <4>2. ~(i < pos)
        BY <4>1, <1>3
      <4> QED BY <4>2, <1>1, <1>3
    <3>2. CASE next
      <4>0. /\ l[pos] \in Nat /\ sz[l[pos]] \in Nat /\ sz[l[pos]] >= 1
            /\ e = l[pos] + sz[l[pos]]
        BY <3>2, <1>1, <1>2, <1>5, <1>10, <1>11
      <4>1. l[i] # l[pos]
        BY <4>0, <2>1, <2>3
      <4>5. pos \in 1 .. Len(l) /\ pos # i /\ pos < i
        BY <4>1, <3>1, <3>2, <1>3, <1>10
      <4>2. l[pos] < x
        BY <4>5, <2>1 DEF Sorted
      <4>3. l[pos] + sz[l[pos]] < x
        BY <4>2, <3>2, <1>5, <1>10
      <4> QED BY <4>3, <3>2, <2>3, <1>1, <1>2, <1>10, <1>11
    <3>3. CASE ~next
      <4>1. i # pos
        <5>1. ASSUME i = pos PROVE FALSE
          <6>1. pos <= Len(l) /\ l[pos] = e
            BY <5>1, <2>1, <2>3, <3>1
          <6> QED BY <6>1, <3>3, <1>9, <1>11
        <5> QED BY <5>1
      <4>2. pos \in 1 .. Len(l) /\ pos < i
        BY <4>1, <3>1, <1>1, <1>3
      <4>3. l[pos] < x /\ l[pos] \in F /\ l[pos] > b
        BY <4>2, <2>1, <1>1, <1>3 DEF Sorted
      <4>4. b + sz[b] <= l[pos]
        BY <4>3, <1>5
      <4>5. x = b + sz[b] /\ x \in Nat /\ l[pos] \in Nat
        BY <4>3, <3>3, <2>0, <2>3, <1>1, <1>2, <1>11
      <4> QED BY <4>3, <4>4, <4>5
    <3> QED BY <3>2, <3>3
  <2> QED BY <2>2, <2>3
<1>15. /\ h.size \in [Address -> 0 .. HeapEnd] /\ h.size[a] = e - a
       /\ \A x \in Address : x < a \/ x >= e => h.size[x] = sz[x]
  <2>0. /\ a \in Nat /\ b \in Nat /\ e \in Nat /\ HeapEnd \in Nat /\ e <= HeapEnd
        /\ sz[b] \in Nat /\ sz[b] >= 1 /\ n \in Nat
        /\ next => l[pos] \in Address /\ l[pos] \in Nat /\ sz[l[pos]] \in Nat
                   /\ sz[l[pos]] >= 1
    BY <1>1, <1>2, <1>5, <1>8, <1>10, <1>12, HeapAssumption
  <2>1. /\ \A x \in gone : x \in Address /\ a < x /\ x < e
        /\ (IF next THEN n + sz[l[pos]] ELSE n) = e - a
        /\ e - a \in 0 .. HeapEnd
    <3>1. prev => a < b /\ b < e
      BY <1>1, <1>2, <1>5, <1>8, <1>12
    <3>2. next => l[pos] \in Address /\ a < l[pos] /\ l[pos] < e
      <4> SUFFICES ASSUME next
                   PROVE  l[pos] \in Address /\ a < l[pos] /\ l[pos] < e
        OBVIOUS
      <4>1. /\ l[pos] \in Address /\ l[pos] \in Nat /\ sz[l[pos]] \in Nat
            /\ sz[l[pos]] >= 1
            /\ l[pos] = b + sz[b] /\ e = b + sz[b] + sz[l[pos]] /\ a <= b
        BY <2>0, <1>8, <1>11
      <4> QED BY <2>0, <4>1
    <3>3. next => n + sz[l[pos]] = e - a
      BY <1>1, <1>2, <1>8, <1>10, <1>11
    <3>4. ~next => n = e - a
      BY <1>2, <1>8, <1>11
    <3>5. e - a \in 0 .. HeapEnd
      BY <2>0, <1>8, <1>12
    <3> QED BY <3>1, <3>2, <3>3, <3>4, <3>5
  <2> HIDE DEF gone
  <2>2. a \notin gone
    BY <2>1, <1>2, <1>8
  <2>3. \A x \in Address : x < a \/ x >= e => x \notin gone /\ x # a
    BY <2>0, <2>1, <1>2, <1>8, <1>12
  <2>4. h.size = [c \in Address |->
                   IF c \in gone THEN 0 ELSE IF c = a THEN e - a ELSE sz[c]]
    BY <1>4, <2>1
  <2>5. \A c \in Address : (IF c \in gone THEN 0 ELSE IF c = a THEN e - a ELSE sz[c])
                             \in 0 .. HeapEnd
    BY <2>0, <2>1, <1>2
  <2>6. h.size \in [Address -> 0 .. HeapEnd]
    BY <2>4, <2>5
  <2>7. h.size[a] = e - a /\ \A x \in Address : x < a \/ x >= e => h.size[x] = sz[x]
    BY <2>2, <2>3, <2>4, <1>8
  <2> QED BY <2>6, <2>7
<1>16. /\ h.free \in Seq(Address) /\ Sorted(h.free)
       /\ ToSet(h.free) = {x \in F : x < a \/ x >= e} \cup {a}
  <2> DEFINE m == IF prev THEN <<>> ELSE <<b>>
             k == IF next THEN pos + 1 ELSE pos
             s == SubSeq(l, 1, pos - 1)
             t == SubSeq(l, k, Len(l))
  <2>1. k \in 1 .. Len(l) + 1 /\ pos - 1 \in 0 .. Len(l) /\ Len(l) \in 0 .. Len(l)
        /\ 1 \in 1 .. Len(l) + 1
    BY <1>1, <1>3, <1>10
  <2> HIDE DEF k
  <2>2. /\ s \in Seq(Address) /\ Sorted(s) /\ ToSet(s) = {l[i] : i \in 1 .. pos - 1}
        /\ t \in Seq(Address) /\ Sorted(t) /\ ToSet(t) = {l[i] : i \in k .. Len(l)}
    BY <2>1, PartOfList, Zenon
  <2>3. /\ m \in Seq(Address) /\ Sorted(m)
        /\ ToSet(m) = IF prev THEN {} ELSE {b}
    BY SingleList, EmptyList
  <2> HIDE DEF m, s, t
  <2>4. \A x \in ToSet(s) : x \in Address /\ x < b
    BY <2>2, <1>1, <1>3
  <2>5. \A x \in ToSet(t) : x \in Address /\ x > b
    <3> SUFFICES ASSUME NEW i \in k .. Len(l) PROVE l[i] \in Address /\ l[i] > b
      BY <2>2
    <3>1. i \in 1 .. Len(l) /\ i >= pos
      BY <2>1, <1>1, <1>3 DEF k
    <3> QED BY <3>1, <1>1, <1>3
  <2>6. \A x \in ToSet(s), y \in ToSet(m) : x < y
    BY <2>3, <2>4
  <2>7. /\ s \o m \in Seq(Address) /\ Sorted(s \o m)
        /\ ToSet(s \o m) = ToSet(s) \cup ToSet(m)
    BY <2>2, <2>3, <2>6, JoinedLists, Zenon
  <2>8. \A x \in ToSet(s \o m), y \in ToSet(t) : x < y
    BY <2>3, <2>4, <2>5, <2>7, <1>2
  <2>9. /\ (s \o m) \o t \in Seq(Address) /\ Sorted((s \o m) \o t)
        /\ ToSet((s \o m) \o t) = ToSet(s \o m) \cup ToSet(t)
    BY <2>2, <2>7, <2>8, JoinedLists, Zenon
  <2>10. h.free = (s \o m) \o t
    BY <1>4 DEF s, m, t, k
  <2>11. ASSUME NEW x \in ToSet(s) \cup ToSet(m) \cup ToSet(t)
         PROVE  x \in {y \in F : y < a \/ y >= e} \cup {a}
    <3>1. CASE x \in ToSet(s)
      <4>1. PICK i \in 1 .. pos - 1 : x = l[i]
        BY <3>1, <2>2
      <4>2. l[i] \in F
        BY <1>1, <1>3
      <4> QED BY <4>1, <4>2, <1>13
    <3>2. CASE x \in ToSet(m)
      BY <3>2, <2>3, <1>8
    <3>3. CASE x \in ToSet(t)
      <4>1. PICK i \in k .. Len(l) : x = l[i]
        BY <3>3, <2>2
      <4>2. i \in pos .. Len(l) /\ (next => i # pos) /\ i \in 1 .. Len(l)
        BY <2>1, <1>1, <1>3 DEF k
      <4> QED BY <4>1, <4>2, <1>1, <1>13
    <3> QED BY <3>1, <3>2, <3>3
  <2>12. a \in ToSet(s) \cup ToSet(m)
    <3>1. CASE prev
      <4>1. pos - 1 \in 1 .. pos - 1
        BY <3>1, <1>3, <1>7
      <4> QED BY <4>1, <3>1, <2>2, <1>8
    <3>2. CASE ~prev
      BY <3>2, <2>3, <1>8
    <3> QED BY <3>1, <3>2
  <2>13. ASSUME NEW x \in F, x < a PROVE x \in ToSet(s)
    <3>1. PICK i \in 1 .. Len(l) : x = l[i]
      BY <1>1
    <3>2. x < b /\ x \in Nat
      BY <2>13, <1>1, <1>2, <1>8
    <3>3. i \in 1 .. pos - 1
      BY <3>1, <3>2, <1>1, <1>2, <1>3
    <3> QED BY <3>1, <3>3, <2>2
  <2>14. ASSUME NEW x \in F, x >= e PROVE x \in ToSet(t)
    <3>1. PICK i \in 1 .. Len(l) : x = l[i]
      BY <1>1
    <3>2. x > b /\ x \in Nat
      BY <2>14, <1>1, <1>2, <1>5, <1>12
    <3>3. i \in pos .. Len(l)
      BY <3>1, <3>2, <1>1, <1>2, <1>3
    <3>4. next => i # pos
      <4> SUFFICES ASSUME next PROVE l[pos] # x
        BY <3>1
      <4> QED BY <2>14, <1>1, <1>2, <1>5, <1>10, <1>11
    <3>5. i \in k .. Len(l)
      BY <3>3, <3>4, <1>3 DEF k
    <3> QED BY <3>1, <3>5, <2>2
  <2>15. ToSet(h.free) = ToSet(s) \cup ToSet(m) \cup ToSet(t)
    BY <2>7, <2>9, <2>10
  <2> QED BY <2>9, <2>10, <2>11, <2>12, <2>13, <2>14, <2>15
<1>17. \/ e = b + sz[b]
       \/ b + sz[b] \in F /\ e = b + sz[b] + sz[b + sz[b]]
  BY <1>10, <1>11
<1>18. OneBlock(l, sz, b, h, a, e)
  BY <1>8, <1>14, <1>15, <1>16, <1>17 DEF F, OneBlock
<1> QED BY <1>8, <1>12, <1>18

\* After it the blocks, the others U among them, fill the heap as before, free
\* blocks do not touch, and what is free is what was free, and b.
Joins(l, sz, b, U, h) ==
  /\ h.free \in Seq(Address) /\ Sorted(h.free)
  /\ h.size \in [Address -> 0 .. HeapEnd]
  /\ ToSet(h.free) \subseteq ToSet(l) \cup {b}
  /\ \A x \in U : h.size[x] = sz[x]
  /\ Tiled(ToSet(h.free) \cup U, h.size)
  /\ Coalesced(ToSet(h.free), h.size)
  /\ Covered(ToSet(h.free), h.size) = Covered(ToSet(l), sz) \cup Covered({b}, sz)

\* prvInsertBlockIntoFreeList joins.
LEMMA InsertionJoins ==
  ASSUME NEW l \in Seq(Address), Sorted(l),
         NEW b \in Address, b \notin ToSet(l),
         NEW sz \in [Address -> 0 .. HeapEnd],
         NEW B \in SUBSET Address, ToSet(l) \subseteq B, b \in B, Tiled(B, sz),
         Coalesced(ToSet(l), sz),
         NEW h, h = InsertBlockIntoFreeList(l, sz, b),
         NEW U, U = B \ (ToSet(l) \cup {b})
  PROVE  Joins(l, sz, b, U, h)
<1> DEFINE F == ToSet(l)
           G == ToSet(h.free)
<1>0. PICK a \in Address, e \in 1 .. HeapEnd : OneBlock(l, sz, b, h, a, e)
  BY Insertion
<1>1. /\ a = b \/ (a \in F /\ a + sz[a] = b)
      /\ \/ e = b + sz[b]
         \/ b + sz[b] \in F /\ e = b + sz[b] + sz[b + sz[b]]
      /\ \A x \in F : x + sz[x] # a /\ x # e
      /\ G = {x \in F : x < a \/ x >= e} \cup {a}
      /\ h.free \in Seq(Address) /\ Sorted(h.free)
      /\ h.size \in [Address -> 0 .. HeapEnd]
      /\ h.size[a] = e - a
      /\ \A x \in Address : x < a \/ x >= e => h.size[x] = sz[x]
  BY <1>0 DEF OneBlock
<1>2. PICK sy \in [Address -> 0 .. HeapEnd] : sy = h.size
  BY <1>1
<1> HIDE DEF F, G
<1>3. /\ HeapEnd \in Nat /\ a \in Nat /\ b \in Nat /\ e \in Nat
      /\ \A x \in Address : x \in Nat /\ x < HeapEnd /\ sz[x] \in Nat /\ sy[x] \in Nat
  BY HeapAssumption DEF Address
<1>4. /\ F \subseteq B /\ F \subseteq Address /\ b \notin F /\ b \in B /\ B \subseteq Address
      /\ \A x \in B : x \in F \/ x = b \/ x \in U
      /\ U \subseteq B /\ \A x \in U : x \notin F /\ x # b
  BY DEF F
<1>5. /\ \A x \in B : sz[x] >= 1 /\ x + sz[x] <= HeapEnd
      /\ \A x, y \in B : x < y => x + sz[x] <= y
      /\ \A x \in Address : \E y \in B : y <= x /\ x < y + sz[y]
  BY DEF Tiled
<1>6. \A x, y \in F : x < y => x + sz[x] < y
  BY DEF Coalesced, F
<1>7. a \in B /\ a <= b /\ b + sz[b] <= e /\ a < e /\ b < e /\ a \notin U
  <2>1. a \in B /\ a \notin U /\ a <= b
    BY <1>1, <1>3, <1>4
  <2>2. b + sz[b] <= e /\ sz[b] >= 1
    <3>1. sz[b] >= 1 /\ sz[b] \in Nat
      BY <1>3, <1>4, <1>5
    <3>2. b + sz[b] \in F => sz[b + sz[b]] \in Nat
      BY <1>3, <1>4
    <3> QED BY <3>1, <3>2, <1>1, <1>3
  <2>3. sz[b] \in Nat
    BY <1>3
  <2> QED BY <2>1, <2>2, <2>3, <1>3
<1>8. ASSUME NEW x \in B, a <= x, x < e
      PROVE  x + sz[x] <= e /\ x \notin U /\ (x \in F \/ x = b)
  <2>0. x \in Nat /\ sz[x] \in Nat /\ sz[x] >= 1 /\ sz[a] \in Nat /\ sz[b] \in Nat
    BY <1>3, <1>4, <1>5
  <2>1. CASE x < b
    <3>1. a \in F /\ a + sz[a] = b
      BY <2>0, <2>1, <1>1, <1>3, <1>8
    <3>2. x = a
      BY <2>0, <2>1, <3>1, <1>3, <1>5, <1>7, <1>8
    <3> QED BY <3>1, <3>2, <2>0, <1>3, <1>4, <1>7
  <2>2. CASE x = b
    BY <2>2, <1>4, <1>7
  <2>3. CASE x > b
    <3>1. x >= b + sz[b]
      BY <2>0, <2>3, <1>3, <1>4, <1>5
    <3>2. b + sz[b] \in F /\ e = b + sz[b] + sz[b + sz[b]]
      BY <3>1, <2>0, <1>1, <1>3, <1>8
    <3>3. x = b + sz[b]
      <4> DEFINE c == b + sz[b]
      <4>1. c \in B /\ c \in Nat /\ sz[c] \in Nat
        BY <3>2, <1>3, <1>4
      <4>2. c <= x /\ x < c + sz[c]
        BY <3>1, <3>2, <1>8
      <4> HIDE DEF c
      <4>3. c = x
        <5>1. ASSUME c < x PROVE FALSE
          <6>1. c + sz[c] <= x
            BY <5>1, <4>1, <1>5
          <6> QED BY <6>1, <4>1, <4>2, <2>0
        <5> QED BY <5>1, <4>1, <4>2, <2>0
      <4> QED BY <4>3 DEF c
    <3> QED BY <3>2, <3>3, <2>0, <1>3, <1>4
  <2> QED BY <2>0, <2>1, <2>2, <2>3, <1>3
<1>9. /\ G = {x \in F : x < a \/ x >= e} \cup {a} /\ sy[a] = e - a
      /\ \A x \in Address : x < a \/ x >= e => sy[x] = sz[x]
  BY <1>1, <1>2
<1>10. ASSUME NEW x \in G \cup U, x # a
       PROVE  x \in B /\ sy[x] = sz[x] /\ (x < a \/ x >= e)
  <2>1. x \in B /\ (x < a \/ x >= e)
    BY <1>3, <1>4, <1>8, <1>9, <1>10
  <2> QED BY <2>1, <1>4, <1>9
<1>11. \A x \in B : x < a \/ x >= e => x \in G \cup U
  <2>1. ~(b < a \/ b >= e)
    BY <1>3, <1>4, <1>5, <1>7
  <2> QED BY <2>1, <1>4, <1>9
<1>12. \A x \in U : sy[x] = sz[x]
  BY <1>7, <1>10
<1>13. G \subseteq F \cup {b}
  BY <1>1, <1>9
<1>14. Tiled(G \cup U, sy)
  <2>1. ASSUME NEW x \in G \cup U PROVE sy[x] >= 1 /\ x + sy[x] <= HeapEnd
    <3>1. CASE x = a
      BY <3>1, <1>3, <1>7, <1>9
    <3>2. CASE x # a
      BY <3>2, <1>5, <1>10
    <3> QED BY <3>1, <3>2
  <2>2. ASSUME NEW x \in G \cup U, NEW y \in G \cup U, x < y
        PROVE  x + sy[x] <= y
    <3>1. CASE x # a /\ y # a
      BY <3>1, <2>2, <1>5, <1>10
    <3>2. CASE x = a /\ y # a
      <4>1. y >= e /\ y \in Nat
        BY <3>2, <2>2, <1>3, <1>4, <1>10
      <4> QED BY <4>1, <3>2, <1>3, <1>9
    <3>3. CASE x # a /\ y = a
      BY <3>3, <2>2, <1>5, <1>7, <1>10
    <3>4. CASE x = a /\ y = a
      BY <3>4, <2>2, <1>3
    <3> QED BY <3>1, <3>2, <3>3, <3>4
  <2>3. ASSUME NEW x \in Address PROVE \E y \in G \cup U : y <= x /\ x < y + sy[y]
    <3>1. CASE a <= x /\ x < e
      <4>1. a \in G /\ x < a + sy[a]
        BY <3>1, <1>3, <1>9
      <4> QED BY <4>1, <3>1
    <3>2. CASE ~(a <= x /\ x < e)
      <4>1. PICK y \in B : y <= x /\ x < y + sz[y]
        BY <1>5
      <4>2. x \in Nat /\ y \in Nat /\ sz[y] \in Nat
        BY <1>3, <1>4
      <4>3. y < a \/ y >= e
        <5> SUFFICES ASSUME a <= y, y < e PROVE FALSE
          BY <4>2, <1>3
        <5>1. y + sz[y] <= e
          BY <1>8
        <5> QED BY <5>1, <4>1, <4>2, <3>2, <1>3
      <4>4. y \in G \cup U /\ sy[y] = sz[y]
        BY <4>3, <1>4, <1>9, <1>11
      <4> QED BY <4>1, <4>4
    <3> QED BY <3>1, <3>2
  <2> QED BY <2>1, <2>2, <2>3 DEF Tiled
<1>15. Coalesced(G, sy)
  <2> SUFFICES ASSUME NEW x \in G, NEW y \in G, x < y
               PROVE  x + sy[x] < y
    BY DEF Coalesced
  <2>0. x \in Address /\ y \in Address /\ x \in Nat /\ y \in Nat
    BY <1>3, <1>4, <1>9
  <2>1. CASE x # a /\ y # a
    BY <2>1, <1>6, <1>9, <1>10
  <2>2. CASE x = a /\ y # a
    <3>1. y >= e /\ y # e
      BY <2>0, <2>2, <1>1, <1>3, <1>7, <1>9
    <3> QED BY <3>1, <2>0, <2>2, <1>3, <1>9
  <2>3. CASE x # a /\ y = a
    <3>1. x \in F /\ x \in B /\ x + sz[x] # a /\ sy[x] = sz[x]
      BY <2>3, <1>1, <1>4, <1>9, <1>10
    <3>2. x + sz[x] <= a
      BY <3>1, <2>3, <1>5, <1>7
    <3>3. sz[x] \in Nat
      BY <2>0, <1>3
    <3> QED BY <3>1, <3>2, <3>3, <2>0, <2>3, <1>3
  <2>4. CASE x = a /\ y = a
    BY <2>0, <2>4
  <2> QED BY <2>1, <2>2, <2>3, <2>4
<1>16. Covered(G, sy) = Covered(F, sz) \cup Covered({b}, sz)
  <2>1. ASSUME NEW x \in Address, NEW y \in G, y <= x, x < y + sy[y]
        PROVE  \E z \in F \cup {b} : z <= x /\ x < z + sz[z]
    <3>1. CASE y # a
      BY <3>1, <2>1, <1>9, <1>10
    <3>2. CASE y = a
      <4>1. a <= x /\ x < e /\ x \in Nat
        BY <3>2, <2>1, <1>3, <1>9
      <4>2. PICK z \in B : z <= x /\ x < z + sz[z]
        BY <1>5
      <4>3. z >= a
        <5>1. ASSUME z < a PROVE FALSE
          <6>1. z + sz[z] <= a /\ z \in Nat /\ sz[z] \in Nat
            BY <5>1, <1>3, <1>4, <1>5, <1>7
          <6> QED BY <6>1, <4>1, <4>2, <1>3
        <5> QED BY <5>1, <1>3, <1>4
      <4>4. z < e
        BY <4>1, <4>2, <1>3, <1>4
      <4>5. z \in F \cup {b}
        BY <4>3, <4>4, <1>8
      <4> QED BY <4>2, <4>5
    <3> QED BY <3>1, <3>2
  <2>2. ASSUME NEW x \in Address, NEW z \in F \cup {b}, z <= x, x < z + sz[z]
        PROVE  \E y \in G : y <= x /\ x < y + sy[y]
    <3>0. x \in Nat /\ z \in Nat /\ z \in B /\ sz[z] \in Nat
      BY <1>3, <1>4
    <3>1. CASE a <= z /\ z < e
      <4>1. z + sz[z] <= e
        BY <3>0, <3>1, <1>8
      <4>2. a <= x /\ x < a + sy[a]
        BY <4>1, <3>0, <3>1, <2>2, <1>3, <1>9
      <4> QED BY <4>2, <1>9
    <3>2. CASE z < a \/ z >= e
      <4>1. z \in G /\ sy[z] = sz[z]
        <5>1. z # b
          BY <3>2, <1>3, <1>4, <1>5, <1>7
        <5>2. z \in F
          BY <5>1
        <5> QED BY <5>2, <3>2, <1>4, <1>9
      <4> QED BY <4>1, <2>2
    <3> QED BY <3>0, <3>1, <3>2, <1>3
  <2> QED BY <2>1, <2>2 DEF Covered
<1> QED BY <1>1, <1>2, <1>12, <1>13, <1>14, <1>15, <1>16 DEF F, G, Joins

\* An element taken out of a list.
LEMMA Removal ==
  ASSUME NEW l \in Seq(Address), Sorted(l), NEW i \in 1 .. Len(l)
  PROVE  /\ l[i] \in ToSet(l)
         /\ RemoveAt(l, i) \in Seq(Address) /\ Sorted(RemoveAt(l, i))
         /\ ToSet(RemoveAt(l, i)) = ToSet(l) \ {l[i]}
<1>1. /\ Len(l) \in Nat /\ DOMAIN l = 1 .. Len(l)
      /\ \A k \in 1 .. Len(l) : l[k] \in Address
      /\ \A a \in Address : a \in Nat
  BY LenProperties, ElementOfSeq, HeapAssumption DEF Address
<1>2. /\ 1 \in 1 .. Len(l) + 1 /\ i - 1 \in 0 .. Len(l)
      /\ i + 1 \in 1 .. Len(l) + 1 /\ Len(l) \in 0 .. Len(l)
  BY <1>1
<1> DEFINE s == SubSeq(l, 1, i - 1)
           t == SubSeq(l, i + 1, Len(l))
<1>3. /\ s \in Seq(Address) /\ Sorted(s) /\ ToSet(s) = {l[k] : k \in 1 .. i - 1}
      /\ t \in Seq(Address) /\ Sorted(t) /\ ToSet(t) = {l[k] : k \in i + 1 .. Len(l)}
  BY <1>2, PartOfList, Zenon
<1>4. RemoveAt(l, i) = s \o t
  BY DEF RemoveAt
<1> HIDE DEF s, t
<1>5. \A k \in 1 .. i - 1 : l[k] < l[i]
  BY <1>1 DEF Sorted
<1>6. \A k \in i + 1 .. Len(l) : l[i] < l[k]
  BY <1>1 DEF Sorted
<1>7. \A x \in ToSet(s), y \in ToSet(t) : x < y
  <2> SUFFICES ASSUME NEW j \in 1 .. i - 1, NEW k \in i + 1 .. Len(l)
               PROVE  l[j] < l[k]
    BY <1>3
  <2> QED BY <1>1 DEF Sorted
<1>8. /\ s \o t \in Seq(Address) /\ Sorted(s \o t)
      /\ ToSet(s \o t) = ToSet(s) \cup ToSet(t)
  BY <1>3, <1>7, JoinedLists, Zenon
<1>9. ToSet(s) \cup ToSet(t) = ToSet(l) \ {l[i]}
  <2>1. ASSUME NEW k \in 1 .. i - 1 PROVE l[k] \in ToSet(l) \ {l[i]}
    BY <1>1, <1>5 DEF ToSet
  <2>2. ASSUME NEW k \in i + 1 .. Len(l) PROVE l[k] \in ToSet(l) \ {l[i]}
    BY <1>1, <1>6 DEF ToSet
  <2>3. ASSUME NEW k \in DOMAIN l, l[k] # l[i] PROVE l[k] \in ToSet(s) \cup ToSet(t)
    <3>1. k \in 1 .. i - 1 \/ k \in i + 1 .. Len(l)
      BY <2>3, <1>1
    <3> QED BY <3>1, <1>3
  <2>4. ToSet(l) = {l[k] : k \in DOMAIN l}
    BY DEF ToSet
  <2> QED BY <2>1, <2>2, <2>3, <2>4, <1>3
<1> QED BY <1>1, <1>4, <1>8, <1>9 DEF ToSet

\* First fit finds a place of the list whose block is large enough.
LEMMA FirstFitFits ==
  ASSUME NEW l \in Seq(Address), NEW sz \in [Address -> 0 .. HeapEnd],
         NEW w \in Nat, FirstFit(l, sz, w) # 0
  PROVE  FirstFit(l, sz, w) \in 1 .. Len(l) /\ sz[l[FirstFit(l, sz, w)]] >= w
<1> DEFINE I == {i \in 1 .. Len(l) : sz[l[i]] >= w}
<1>1. SelectInSeq(l, LAMBDA a : sz[a] >= w) = IF I # {} THEN Min(I) ELSE 0
  BY DEF SelectInSeq
<1>2. I # {} /\ FirstFit(l, sz, w) = Min(I)
  BY <1>1 DEF FirstFit
<1>3. I \in SUBSET Nat
  BY LenProperties
<1>4. Min(I) \in I
  BY <1>2, <1>3, MinIsLeast
<1> QED BY <1>2, <1>4

\* The outcome h of the allocation of b: b is at least as large as asked for,
\* what was free is b or still free, and the others W are as they were.
Allocates(l, sz, W, b, w, h) ==
  /\ h.free \in Seq(Address) /\ Sorted(h.free)
  /\ h.size \in [Address -> 0 .. HeapEnd]
  /\ ToSet(h.free) \cap (W \cup {b}) = {}
  /\ \A x \in W : h.size[x] = sz[x]
  /\ h.size[b] >= w
  /\ Tiled(ToSet(h.free) \cup W \cup {b}, h.size)
  /\ Coalesced(ToSet(h.free), h.size)
  /\ Covered(ToSet(l), sz) = Covered(ToSet(h.free), h.size) \cup Covered({b}, h.size)

\* The sizes cut are those of sz with a new block c, the tail of b.
Cuts(F, W, sz, b, w, c, cut) ==
  /\ c \in Address /\ c \notin F \cup W
  /\ cut \in [Address -> 0 .. HeapEnd]
  /\ cut[b] = w /\ cut[c] = sz[b] - w
  /\ \A x \in F \cup W : x # b => cut[x] = sz[x]
  /\ Tiled(F \cup W \cup {c}, cut)
  /\ Coalesced(F \ {b}, cut)
  /\ Covered(F, sz) = Covered(F \ {b}, cut) \cup Covered({c}, cut)
                       \cup Covered({b}, cut)

\* Cutting the tail of n - w units off a block of n leaves the rest as it was.
LEMMA Cutting ==
  ASSUME NEW F, NEW W, NEW sz \in [Address -> 0 .. HeapEnd],
         F \subseteq Address, W \subseteq Address,
         Tiled(F \cup W, sz), Coalesced(F, sz), F \cap W = {},
         NEW b \in F, NEW w \in Nat \ {0}, w < sz[b],
         NEW c, c = b + w,
         NEW cut, cut = [sz EXCEPT ![b] = w, ![c] = sz[b] - w]
  PROVE  Cuts(F, W, sz, b, w, c, cut)
<1> DEFINE B == F \cup W
<1>1. /\ HeapEnd \in Nat /\ B \subseteq Address /\ b \in B
      /\ \A x \in Address : x \in Nat /\ x < HeapEnd /\ sz[x] \in Nat /\ sz[x] <= HeapEnd
  BY HeapAssumption DEF Address
<1>2. /\ \A x \in B : sz[x] >= 1 /\ x + sz[x] <= HeapEnd
      /\ \A x, y \in B : x < y => x + sz[x] <= y
      /\ \A x \in Address : \E y \in B : y <= x /\ x < y + sz[y]
  BY DEF Tiled
<1> HIDE DEF B
<1>3. b \in Address /\ b \in Nat /\ sz[b] \in Nat /\ w \in Nat /\ w > 0
  BY <1>1
<1>4. c \in Address /\ c \in Nat /\ b < c /\ c < b + sz[b]
  <2>1. b + sz[b] <= HeapEnd /\ w < sz[b]
    BY <1>1, <1>2
  <2> QED BY <2>1, <1>1, <1>3 DEF Address
<1>5. c \notin B
  <2> SUFFICES ASSUME c \in B PROVE FALSE
    OBVIOUS
  <2>1. b + sz[b] <= c
    BY <1>1, <1>2, <1>4
  <2> QED BY <2>1, <1>3, <1>4
<1>6. /\ cut \in [Address -> 0 .. HeapEnd]
      /\ \A x \in Address : cut[x] = IF x = c THEN sz[b] - w ELSE IF x = b THEN w ELSE sz[x]
  <2>1. sz[b] - w \in 0 .. HeapEnd /\ w \in 0 .. HeapEnd
    BY <1>1, <1>3
  <2> QED BY <2>1, <1>3, <1>4
<1>7. /\ cut[b] = w /\ cut[c] = sz[b] - w /\ c + cut[c] = b + sz[b]
      /\ b + cut[b] = c
      /\ \A x \in B : x # b => cut[x] = sz[x]
  BY <1>1, <1>3, <1>4, <1>5, <1>6
<1>8. Tiled(B \cup {c}, cut)
  <2>1. ASSUME NEW x \in B \cup {c} PROVE cut[x] >= 1 /\ x + cut[x] <= HeapEnd
    <3>1. CASE x = c
      BY <3>1, <1>1, <1>2, <1>3, <1>4, <1>7
    <3>2. CASE x = b
      BY <3>2, <1>1, <1>2, <1>3, <1>4, <1>7
    <3>3. CASE x # b /\ x # c
      BY <3>3, <1>2, <1>7
    <3> QED BY <3>1, <3>2, <3>3
  <2>2. ASSUME NEW x \in B \cup {c}, NEW y \in B \cup {c}, x < y
        PROVE  x + cut[x] <= y
    <3>0. x \in Nat /\ y \in Nat
      BY <1>1, <1>4
    <3>1. CASE x = c
      <4>1. y \in B /\ b < y
        BY <3>0, <3>1, <2>2, <1>3, <1>4
      <4>2. b + sz[b] <= y
        BY <4>1, <1>1, <1>2
      <4> QED BY <4>2, <3>1, <1>7
    <3>2. CASE x = b
      <4>1. CASE y = c
        BY <4>1, <3>2, <1>4, <1>7
      <4>2. CASE y # c
        <5>1. b + sz[b] <= y
          BY <4>2, <3>2, <2>2, <1>1, <1>2
        <5> QED BY <5>1, <3>0, <3>2, <1>3, <1>4, <1>7
      <4> QED BY <4>1, <4>2
    <3>3. CASE x # b /\ x # c
      <4>1. x \in B /\ cut[x] = sz[x] /\ sz[x] \in Nat
        BY <3>3, <1>1, <1>7
      <4>2. CASE y = c
        <5>1. x < b
          <6>1. ~(b < x)
            <7> SUFFICES ASSUME b < x PROVE FALSE
              OBVIOUS
            <7>1. b + sz[b] <= x
              BY <4>1, <1>1, <1>2
            <7> QED BY <7>1, <4>2, <3>0, <2>2, <1>3, <1>4
          <6> QED BY <6>1, <3>0, <3>3, <1>3
        <5>2. x + sz[x] <= b
          BY <5>1, <4>1, <1>1, <1>2
        <5> QED BY <5>2, <4>1, <4>2, <3>0, <1>3, <1>4
      <4>3. CASE y # c
        BY <4>1, <4>3, <2>2, <1>2
      <4> QED BY <4>2, <4>3
    <3> QED BY <3>1, <3>2, <3>3
  <2>3. ASSUME NEW x \in Address
        PROVE  \E y \in B \cup {c} : y <= x /\ x < y + cut[y]
    <3>1. PICK y \in B : y <= x /\ x < y + sz[y]
      BY <1>2
    <3>2. CASE y # b
      BY <3>1, <3>2, <1>7
    <3>3. CASE y = b
      BY <3>1, <3>3, <1>1, <1>3, <1>4, <1>7
    <3> QED BY <3>2, <3>3
  <2> QED BY <2>1, <2>2, <2>3 DEF Tiled
<1>9. Coalesced(F \ {b}, cut)
  BY <1>7 DEF Coalesced, B
<1>10. Covered(F, sz) = Covered(F \ {b}, cut) \cup Covered({c}, cut) \cup Covered({b}, cut)
  <2>1. ASSUME NEW x \in Address, NEW y \in F, y <= x, x < y + sz[y]
        PROVE  \E z \in (F \ {b}) \cup {c} \cup {b} : z <= x /\ x < z + cut[z]
    <3>1. CASE y # b
      BY <3>1, <2>1, <1>7 DEF B
    <3>2. CASE y = b
      BY <2>1, <3>2, <1>1, <1>3, <1>4, <1>7
    <3> QED BY <3>1, <3>2
  <2>2. ASSUME NEW x \in Address, NEW z \in (F \ {b}) \cup {c} \cup {b},
               z <= x, x < z + cut[z]
        PROVE  \E y \in F : y <= x /\ x < y + sz[y]
    <3>1. CASE z = c
      BY <3>1, <2>2, <1>1, <1>3, <1>4, <1>7
    <3>2. CASE z = b
      BY <3>2, <2>2, <1>1, <1>3, <1>4, <1>7
    <3>3. CASE z # b /\ z # c
      BY <3>3, <2>2, <1>7 DEF B
    <3> QED BY <3>1, <3>2, <3>3
  <2>3. Covered(F, sz) = Covered((F \ {b}) \cup {c} \cup {b}, cut)
    BY <2>1, <2>2 DEF Covered
  <2>4. Covered((F \ {b}) \cup {c} \cup {b}, cut)
          = Covered(F \ {b}, cut) \cup Covered({c}, cut) \cup Covered({b}, cut)
    BY DEF Covered
  <2> QED BY <2>3, <2>4
<1> QED BY <1>4, <1>5, <1>6, <1>7, <1>8, <1>9, <1>10 DEF B, Cuts

\* pvPortMalloc allocates, with a rest to put back or without.
LEMMA Allocation ==
  ASSUME NEW l \in Seq(Address), Sorted(l), NEW W \in SUBSET Address,
         NEW sz \in [Address -> 0 .. HeapEnd],
         ToSet(l) \subseteq Address, ToSet(l) \cap W = {},
         Tiled(ToSet(l) \cup W, sz), Coalesced(ToSet(l), sz),
         NEW i \in 1 .. Len(l), NEW b, b = l[i],
         NEW w \in Nat \ {0}, w <= sz[b],
         NEW h, h = IF Splits(sz[b], w)
                    THEN InsertBlockIntoFreeList(RemoveAt(l, i),
                           [sz EXCEPT ![b] = w, ![b + w] = sz[b] - w], b + w)
                    ELSE [free |-> RemoveAt(l, i), size |-> sz]
  PROVE  Allocates(l, sz, W, b, w, h)
<1> DEFINE F    == ToSet(l)
           rest == RemoveAt(l, i)
           cut  == [sz EXCEPT ![b] = w, ![b + w] = sz[b] - w]
<1>1. b \in F /\ rest \in Seq(Address) /\ Sorted(rest) /\ ToSet(rest) = F \ {b}
  BY Removal, Zenon
<1>2. b \in Address /\ sz[b] \in Nat
  BY <1>1, HeapAssumption
<1>3. CASE Splits(sz[b], w)
  <2>1. w < sz[b]
    BY <1>2, <1>3, HeapAssumption DEF Splits, MinimumBlock
  <2>2. h = InsertBlockIntoFreeList(rest, cut, b + w)
    BY <1>3
  <2> DEFINE c == b + w
             U == W \cup {b}
  <2> HIDE DEF rest, cut
  <2>3. /\ c \in Address /\ c \notin F \cup W
        /\ cut \in [Address -> 0 .. HeapEnd]
        /\ cut[b] = w /\ cut[c] = sz[b] - w
        /\ \A x \in F \cup W : x # b => cut[x] = sz[x]
        /\ Tiled(F \cup W \cup {c}, cut)
        /\ Coalesced(F \ {b}, cut)
        /\ Covered(F, sz) = Covered(F \ {b}, cut) \cup Covered({c}, cut)
                             \cup Covered({b}, cut)
    <3>4. b \in F
      BY <1>1
    <3>2. F \subseteq Address /\ W \subseteq Address /\ F \cap W = {}
      OBVIOUS
    <3>3. Tiled(F \cup W, sz) /\ Coalesced(F, sz)
      OBVIOUS
    <3>5. PICK cc : cc = c
      OBVIOUS
    <3>6. cc = b + w /\ cut = [sz EXCEPT ![b] = w, ![cc] = sz[b] - w]
      BY <3>5 DEF cut
    <3> HIDE DEF F, c
    <3>7. Cuts(F, W, sz, b, w, cc, cut)
      BY <2>1, <3>2, <3>3, <3>4, <3>6, Cutting
    <3> QED BY <3>5, <3>7 DEF Cuts
  <2>4. Joins(rest, cut, c, U, h)
    <3> DEFINE B == F \cup W \cup {c}
    <3>1. B \in SUBSET Address /\ ToSet(rest) \subseteq B /\ c \in B /\ c \notin ToSet(rest)
      BY <1>1, <2>3
    <3>2. U = B \ (ToSet(rest) \cup {c})
      BY <1>1, <2>3
    <3>3. Coalesced(ToSet(rest), cut)
      BY <1>1, <2>3
    <3> HIDE DEF B, c, U
    <3>4. Tiled(B, cut) /\ c \in Address /\ cut \in [Address -> 0 .. HeapEnd]
      BY <2>3 DEF B
    <3>5. h = InsertBlockIntoFreeList(rest, cut, c)
      BY <2>2 DEF c
    <3> QED BY <1>1, <3>1, <3>2, <3>3, <3>4, <3>5, InsertionJoins
  <2> HIDE DEF c
  <2>5. /\ h.free \in Seq(Address) /\ Sorted(h.free)
        /\ h.size \in [Address -> 0 .. HeapEnd]
        /\ ToSet(h.free) \subseteq ToSet(rest) \cup {c}
        /\ \A x \in U : h.size[x] = cut[x]
        /\ Tiled(ToSet(h.free) \cup U, h.size)
        /\ Coalesced(ToSet(h.free), h.size)
        /\ Covered(ToSet(h.free), h.size) = Covered(ToSet(rest), cut) \cup Covered({c}, cut)
    BY <2>4 DEF Joins
  <2>13. F \cap W = {} /\ b \notin W /\ c # b /\ c \notin W
    BY <1>1, <2>3
  <2>6. ToSet(h.free) \cap U = {}
    <3>1. ToSet(rest) \cap U = {} /\ c \notin U
      BY <1>1, <2>13
    <3> QED BY <3>1, <2>5
  <2>7. \A x \in W : h.size[x] = sz[x]
    <3>1. \A x \in W : x # b /\ x \in F \cup W /\ x \in U
      BY <2>13
    <3> QED BY <3>1, <2>3, <2>5
  <2>8. h.size[b] = w /\ cut[b] = w
    BY <2>3, <2>5
  <2>9. Covered({b}, h.size) = Covered({b}, cut)
    BY <2>8 DEF Covered
  <2>10. Covered(F, sz) = Covered(ToSet(h.free), h.size) \cup Covered({b}, h.size)
    BY <1>1, <2>3, <2>5, <2>9
  <2>11. h.size[b] >= w
    BY <2>8
  <2>12. ToSet(h.free) \cup W \cup {b} = ToSet(h.free) \cup U
    OBVIOUS
  <2> QED BY <2>5, <2>6, <2>7, <2>10, <2>11, <2>12 DEF Allocates
<1>4. CASE ~Splits(sz[b], w)
  <2>1. h.free = rest /\ h.size = sz
    BY <1>4
  <2> HIDE DEF rest
  <2>2. ToSet(rest) \cup W \cup {b} = F \cup W
    BY <1>1
  <2>3. Coalesced(ToSet(rest), sz)
    BY <1>1 DEF Coalesced
  <2>4. Covered(F, sz) = Covered(ToSet(rest), sz) \cup Covered({b}, sz)
    BY <1>1 DEF Covered
  <2>5. ToSet(rest) \cap (W \cup {b}) = {}
    BY <1>1
  <2> QED BY <1>1, <2>1, <2>2, <2>3, <2>4, <2>5 DEF Allocates
<1> QED BY <1>3, <1>4

-----------------------------------------------------------------------------
(* How many units there are.                                               *)

\* A set of units has at most HeapEnd.
LEMMA UnitsAreFinite ==
  ASSUME NEW S \in SUBSET Address
  PROVE  IsFiniteSet(S) /\ Cardinality(S) \in 0 .. HeapEnd
<1>1. HeapEnd \in Nat /\ 0 \in Int /\ HeapEnd - 1 \in Int /\ HeapEnd > 0
  BY HeapAssumption
<1>2. IsFiniteSet(Address) /\ Cardinality(Address) = HeapEnd
  BY <1>1, FS_Interval DEF Address
<1>3. IsFiniteSet(S) /\ Cardinality(S) <= Cardinality(Address)
  BY <1>2, FS_Subset
<1>4. Cardinality(S) \in Nat
  BY <1>3, FS_CardinalityType
<1> QED BY <1>1, <1>2, <1>3, <1>4

\* A block adds its units to those of blocks beside it.
LEMMA BlockCounts ==
  ASSUME NEW F, NEW b, NEW sz \in [Address -> 0 .. HeapEnd],
         F \subseteq Address, b \in Address, b \notin F,
         NEW B \in SUBSET Address, F \subseteq B, b \in B, Tiled(B, sz)
  PROVE  Cardinality(Covered(F, sz) \cup Covered({b}, sz))
           = Cardinality(Covered(F, sz)) + sz[b]
<1>1. /\ HeapEnd \in Nat
      /\ \A x \in Address : x \in Nat /\ sz[x] \in Nat
  BY HeapAssumption DEF Address
<1>2. Covered(F, sz) \cap Covered({b}, sz) = {}
  <2> SUFFICES ASSUME NEW x \in Address, NEW y \in F, y <= x, x < y + sz[y],
                      b <= x, x < b + sz[b]
               PROVE  FALSE
    BY DEF Covered
  <2>1. /\ y < b => y + sz[y] <= b
        /\ b < y => b + sz[b] <= y
        /\ y \in Nat /\ b \in Nat /\ sz[y] \in Nat /\ sz[b] \in Nat /\ y # b /\ x \in Nat
    BY <1>1 DEF Tiled
  <2> QED BY <2>1
<1>3. /\ IsFiniteSet(Covered(F, sz)) /\ Cardinality(Covered(F, sz)) \in Nat
      /\ IsFiniteSet(Covered({b}, sz))
  <2>1. Covered(F, sz) \in SUBSET Address /\ Covered({b}, sz) \in SUBSET Address
    BY DEF Covered
  <2> QED BY <2>1, UnitsAreFinite
<1>4. Cardinality(Covered({b}, sz)) = sz[b]
  <2>1. /\ b \in Int /\ b + sz[b] - 1 \in Int /\ sz[b] >= 1 /\ b + sz[b] <= HeapEnd
        /\ sz[b] \in Nat /\ b >= 0
    BY <1>1 DEF Tiled
  <2>2. Covered({b}, sz) = b .. b + sz[b] - 1
    BY <2>1, <1>1 DEF Covered, Address
  <2>3. Cardinality(b .. b + sz[b] - 1) = b + sz[b] - 1 - b + 1
    BY <2>1, FS_Interval
  <2> QED BY <2>1, <2>2, <2>3
<1>5. /\ Cardinality(Covered(F, sz) \cup Covered({b}, sz))
           = Cardinality(Covered(F, sz)) + Cardinality(Covered({b}, sz))
             - Cardinality({})
      /\ Cardinality({}) = 0
  BY <1>2, <1>3, FS_Union, FS_EmptySet
<1> QED BY <1>1, <1>3, <1>4, <1>5

\* The size of the list that pvPortMalloc compares with, block by block, is
\* the number of its units (SizeOf picks the blocks in an order of its own).
LEMMA SizeIsCovered ==
  ASSUME size \in [Address -> 0 .. HeapEnd],
         NEW B \in SUBSET Address, Tiled(B, size), NEW F \in SUBSET B
  PROVE  SizeOf(F) = Cardinality(Covered(F, size))
<1> DEFINE pick(s) == CHOOSE x \in s : TRUE
           Body(f) == [s \in SUBSET F |->
                         IF s = {} THEN 0 ELSE size[pick(s)] + f[s \ {pick(s)}]]
           iter == CHOOSE f : f = Body(f)
           g    == [s \in SUBSET F |-> Cardinality(Covered(s, size))]
<1>1. SizeOf(F) = iter[F]
  BY DEF SizeOf, FoldSet, MapThenFoldSet
<1>2. ASSUME NEW s \in SUBSET F
      PROVE  /\ g[s] \in Nat
             /\ s = {} => g[s] = 0
             /\ s # {} => /\ pick(s) \in s /\ s \ {pick(s)} \in SUBSET F
                          /\ g[s] = size[pick(s)] + g[s \ {pick(s)}]
  <2>1. s \subseteq Address /\ \A r \in SUBSET F : Covered(r, size) \in SUBSET Address
    BY DEF Covered
  <2>2. \A r \in SUBSET F : Cardinality(Covered(r, size)) \in Nat
    BY <2>1, UnitsAreFinite
  <2>3. CASE s = {}
    <3>1. Covered({}, size) = {}
      BY DEF Covered
    <3> QED BY <2>2, <2>3, <3>1, FS_EmptySet
  <2>4. CASE s # {}
    <3> DEFINE x == pick(s)
               r == s \ {x}
    <3>1. x \in s
      BY <2>4
    <3> HIDE DEF x
    <3>2. /\ r \subseteq Address /\ x \in Address /\ x \notin r /\ r \subseteq B /\ x \in B
          /\ r \in SUBSET F
      BY <2>1, <3>1
    <3>3. Cardinality(Covered(r, size) \cup Covered({x}, size))
            = Cardinality(Covered(r, size)) + size[x]
      BY <3>2, BlockCounts
    <3>4. Covered(r, size) \cup Covered({x}, size) = Covered(s, size)
      BY <3>1 DEF Covered
    <3>5. size[x] \in Nat /\ Cardinality(Covered(r, size)) \in Nat
      BY <2>2, <3>2
    <3>6. g[s] = size[x] + g[r] /\ g[s] \in Nat
      <4>1. g[s] = Cardinality(Covered(s, size)) /\ g[r] = Cardinality(Covered(r, size))
        BY <3>2
      <4> HIDE DEF g, r
      <4>2. g[s] = g[r] + size[x]
        BY <4>1, <3>3, <3>4, Zenon
      <4>3. g[r] \in Nat
        BY <4>1, <3>5, Zenon
      <4> QED BY <4>2, <4>3, <3>5
    <3> QED BY <2>4, <3>1, <3>2, <3>6 DEF x
  <2> QED BY <2>3, <2>4
<1> HIDE DEF pick
<1>3. g = Body(g)
  <2>1. \A s \in SUBSET F :
          g[s] = IF s = {} THEN 0 ELSE size[pick(s)] + g[s \ {pick(s)}]
    BY <1>2
  <2> HIDE DEF g
  <2>2. g = [s \in SUBSET F |-> g[s]]
    BY DEF g
  <2> QED BY <2>1, <2>2
<1>4. iter = Body(iter)
  BY <1>3
<1> HIDE DEF g, iter
<1>5. \A s \in SUBSET F :
        iter[s] = IF s = {} THEN 0 ELSE size[pick(s)] + iter[s \ {pick(s)}]
  BY <1>4
<1>6. IsFiniteSet(F)
  BY UnitsAreFinite
<1>7. \A s \in SUBSET F : IsFiniteSet(s) /\ Cardinality(s) \in Nat
  BY <1>6, FS_Subset, FS_CardinalityType
<1>8. \A s \in SUBSET F : iter[s] = g[s]
  <2> DEFINE N == {Cardinality(s) : s \in {r \in SUBSET F : iter[r] # g[r]}}
  <2> SUFFICES ASSUME N # {} PROVE FALSE
    OBVIOUS
  <2>1. N \in SUBSET Nat
    BY <1>7
  <2>2. PICK n \in N : \A m \in N : n <= m
    BY <2>1, LeastElement
  <2>3. PICK s \in SUBSET F : iter[s] # g[s] /\ n = Cardinality(s)
    BY <2>2
  <2>4. s # {}
    BY <2>3, <1>2, <1>5
  <2> DEFINE x == pick(s)
  <2>5. x \in s /\ s \ {x} \in SUBSET F /\ g[s] = size[x] + g[s \ {x}]
    BY <2>4, <1>2
  <2>6. Cardinality(s \ {x}) = Cardinality(s) - 1
    BY <2>5, <1>7, FS_RemoveElement
  <2>7. iter[s \ {x}] = g[s \ {x}]
    <3>1. Cardinality(s \ {x}) \notin N
      BY <2>1, <2>2, <2>3, <2>6, <1>7
    <3> QED BY <2>5, <3>1
  <2> QED BY <2>3, <2>4, <2>5, <2>7, <1>5
<1>9. iter[F] = g[F] /\ g[F] = Cardinality(Covered(F, size))
  BY <1>8 DEF g
<1> QED BY <1>1, <1>9

-----------------------------------------------------------------------------
(* The inductive invariant.                                                *)

Types ==
  /\ free \in Seq(Address) /\ used \in SUBSET Address
  /\ size \in [Address -> 0 .. HeapEnd]
  /\ has \in [Task -> SUBSET [at : Address, bytes : Request]]
  /\ freeing \in [Task -> SUBSET Address]

\* A block is free, or used, or being freed by one task, which frees one only.
Apart ==
  /\ ToSet(free) \cap used = {}
  /\ \A t \in Task : freeing[t] \cap (ToSet(free) \cup used) = {}
  /\ \A t, u \in Task : t # u => freeing[t] \cap freeing[u] = {}
  /\ \A t \in Task : \A b, c \in freeing[t] : b = c

\* A used block belongs to one task, in one piece.
Owners ==
  /\ \A t \in Task : \A x \in has[t] : x.at \in used
  /\ \A a \in used : \E t \in Task : \E x \in has[t] : x.at = a
  /\ \A t, u \in Task : \A x \in has[t], y \in has[u] :
       x.at = y.at => t = u /\ x = y

\* The memory behind the header is enough for what was asked for.
Enough ==
  \A t \in Task : \A x \in has[t] :
    /\ x.bytes > 0 /\ size[x.at] > Header
    /\ x.bytes <= Alignment * (size[x.at] - Header)

Lists == Sorted(free) /\ Coalesced(ToSet(free), size) /\ Tiled(Block, size)

\* xFreeBytesRemaining counts the free units.
Counts ==
  /\ remaining = Cardinality(Covered(ToSet(free), size))
  /\ least \in 0 .. HeapEnd /\ least <= remaining

IInv == Types /\ Apart /\ Owners /\ Enough /\ Lists /\ Counts

\* The invariant says what is wanted of the heap.
LEMMA InvariantImplies ==
  ASSUME IInv
  PROVE  HeapConsistent /\ RemainingIsListed
<1> USE DEF IInv
<1>1. /\ HeapEnd \in Nat /\ Block \subseteq Address /\ ToSet(free) \subseteq Block
      /\ \A a \in Address : a \in Nat /\ size[a] \in Nat /\ a < HeapEnd
  <2>1. ToSet(free) \subseteq Address
    BY LenProperties, ElementOfSeq DEF Types, ToSet
  <2>2. Between \subseteq Address
    BY DEF Types, Between
  <2>3. HeapEnd \in Nat /\ \A a \in Address : a \in Nat /\ size[a] \in Nat /\ a < HeapEnd
    BY HeapAssumption DEF Types, Address
  <2> QED BY <2>1, <2>2, <2>3 DEF Block, Types
<1>2. TypeOK
  <2>1. Covered(ToSet(free), size) \in SUBSET Address
    BY DEF Covered
  <2>2. remaining \in 0 .. HeapEnd
    BY <2>1, UnitsAreFinite DEF Counts
  <2> QED BY <2>2 DEF TypeOK, Types, Counts
<1>3. BlocksTileHeap
  <2>0. /\ \A b \in Block : size[b] >= 1 /\ b + size[b] <= HeapEnd
        /\ \A b, c \in Block : b < c => b + size[b] <= c
        /\ \A a \in Address : \E b \in Block : b <= a /\ a < b + size[b]
    BY DEF Lists, Tiled
  <2>1. ASSUME NEW b \in Block, NEW c \in Block, b # c
        PROVE  Units(b) \cap Units(c) = {}
    <3>1. /\ b \in Nat /\ c \in Nat /\ size[b] \in Nat /\ size[c] \in Nat
          /\ b + size[b] <= c \/ c + size[c] <= b
      BY <2>0, <2>1, <1>1
    <3> QED BY <3>1 DEF Units
  <2>2. ASSUME NEW b \in Block PROVE Units(b) \subseteq Address
    <3>1. b \in Nat /\ size[b] \in Nat /\ b + size[b] <= HeapEnd
      BY <2>0, <1>1
    <3> QED BY <3>1, <1>1 DEF Units, Address
  <2>3. ASSUME NEW a \in Address PROVE \E b \in Block : a \in Units(b)
    <3>1. PICK b \in Block : b <= a /\ a < b + size[b]
      BY <2>0
    <3>2. b \in Nat /\ size[b] \in Nat /\ a \in Nat
      BY <1>1
    <3> QED BY <3>1, <3>2 DEF Units
  <2> QED BY <2>1, <2>2, <2>3 DEF BlocksTileHeap
<1>4. ListCoalesced
  <2> SUFFICES ASSUME NEW i \in 1 .. Len(free) - 1
               PROVE  free[i] + size[free[i]] < free[i + 1]
    BY DEF ListCoalesced
  <2>1. /\ i \in 1 .. Len(free) /\ i + 1 \in 1 .. Len(free) /\ i < i + 1
        /\ DOMAIN free = 1 .. Len(free)
    BY LenProperties DEF Types
  <2>2. free[i] < free[i + 1] /\ free[i] \in ToSet(free) /\ free[i + 1] \in ToSet(free)
    BY <2>1 DEF Lists, Sorted, ToSet
  <2> QED BY <2>2 DEF Lists, Coalesced
<1>5. RemainingIsListed
  <2>1. SizeOf(ToSet(free)) = Cardinality(Covered(ToSet(free), size))
    BY <1>1, SizeIsCovered DEF Types, Lists
  <2> QED BY <2>1 DEF Counts, RemainingIsListed
<1> QED BY <1>2, <1>3, <1>4, <1>5 DEF HeapConsistent

\* The parts of the invariant in the next state.
LEMMA NextLists ==
  ASSUME Sorted(free'), Coalesced(ToSet(free'), size'), Tiled(Block', size')
  PROVE  Lists'
BY DEF Lists, Sorted, Coalesced, Tiled, ToSet

LEMMA NextCounts ==
  ASSUME remaining' = Cardinality(Covered(ToSet(free'), size')),
         least' \in 0 .. HeapEnd, least' <= remaining'
  PROVE  Counts'
BY DEF Counts, Covered, ToSet

LEMMA InitIInv == Init => IInv
<1> SUFFICES ASSUME Init PROVE IInv
  OBVIOUS
<1> USE DEF Init
<1>1. /\ HeapEnd \in Nat /\ HeapEnd > 0 /\ 0 \in Address
      /\ \A a \in Address : a \in Nat /\ a < HeapEnd
  BY HeapAssumption DEF Address
<1>2. free \in Seq(Address) /\ Sorted(free) /\ ToSet(free) = {0}
  BY <1>1, SingleList
<1>3. Block = {0}
  BY <1>2 DEF Block, Between
<1>4. Types
  BY <1>1, <1>2 DEF Types
<1>5. Apart /\ Owners /\ Enough
  BY <1>2 DEF Apart, Owners, Enough
<1>6. size[0] = HeapEnd
  BY <1>1
<1>7. Lists
  <2>1. Coalesced({0}, size)
    BY DEF Coalesced
  <2>2. Tiled({0}, size)
    BY <1>1, <1>6 DEF Tiled
  <2> QED BY <1>2, <1>3, <2>1, <2>2 DEF Lists
<1>8. Counts
  <2>1. Covered({0}, size) = 0 .. HeapEnd - 1
    BY <1>1, <1>6 DEF Covered, Address
  <2>2. 0 \in Int /\ HeapEnd - 1 \in Int /\ ~(0 > HeapEnd - 1) /\ HeapEnd - 1 - 0 + 1 = HeapEnd
    BY <1>1
  <2>3. Cardinality(0 .. HeapEnd - 1) = HeapEnd
    BY <2>2, FS_Interval
  <2>4. remaining = Cardinality(Covered(ToSet(free), size))
    BY <1>2, <2>1, <2>3
  <2>5. least \in 0 .. HeapEnd /\ least <= remaining
    BY <1>1
  <2> QED BY <2>4, <2>5 DEF Counts
<1> QED BY <1>4, <1>5, <1>7, <1>8 DEF IInv

\* vPortFree up to vTaskSuspendAll: the block changes its state, the heap stays.
LEMMA FreeMarkKeepsIInv ==
  ASSUME IInv, NEW t \in Task, FreeMark(t)
  PROVE  IInv'
<1> USE DEF IInv
<1>1. PICK x \in has[t] :
        /\ x.at \in used
        /\ used' = used \ {x.at}
        /\ has' = [has EXCEPT ![t] = @ \ {x}]
        /\ freeing' = [freeing EXCEPT ![t] = {x.at}]
  BY DEF FreeMark
<1>2. freeing[t] = {} /\ UNCHANGED <<free, size, remaining, least>>
  BY DEF FreeMark
<1>3. /\ x.at \in Address
      /\ \A u \in Task : has'[u] = IF u = t THEN has[t] \ {x} ELSE has[u]
      /\ \A u \in Task : freeing'[u] = IF u = t THEN {x.at} ELSE freeing[u]
  BY <1>1 DEF Types
<1>4. Types'
  BY <1>1, <1>2, <1>3 DEF Types
<1>5. Apart'
  BY <1>1, <1>2, <1>3 DEF Apart
<1>6. Owners'
  <2>1. \A u \in Task : has'[u] \subseteq has[u]
    BY <1>3
  <2>2. ASSUME NEW u \in Task, NEW y \in has'[u] PROVE y.at \in used'
    <3>1. y \in has[u] /\ (u = t => y # x)
      BY <1>3
    <3> QED BY <3>1, <1>1 DEF Owners
  <2>3. ASSUME NEW a \in used' PROVE \E u \in Task : \E y \in has'[u] : y.at = a
    <3>1. a \in used /\ a # x.at
      BY <1>1
    <3>2. PICK u \in Task : \E y \in has[u] : y.at = a
      BY <3>1 DEF Owners
    <3>3. PICK y \in has[u] : y.at = a
      BY <3>2
    <3>4. y \in has'[u]
      BY <3>1, <3>3, <1>3
    <3> QED BY <3>3, <3>4
  <2>4. ASSUME NEW u \in Task, NEW v \in Task, NEW y \in has'[u], NEW z \in has'[v],
               y.at = z.at
        PROVE  u = v /\ y = z
    BY <2>1, <2>4 DEF Owners
  <2> QED BY <2>2, <2>3, <2>4 DEF Owners
<1>7. Enough'
  BY <1>2, <1>3 DEF Enough
<1>8. Block' = Block
  <2>1. Between' = Between \cup {x.at}
    BY <1>2, <1>3 DEF Between
  <2>2. ToSet(free') = ToSet(free)
    BY <1>2
  <2>3. Block' = ToSet(free') \cup used' \cup Between'
    BY DEF Block, ToSet
  <2> QED BY <1>1, <2>1, <2>2, <2>3 DEF Block
<1>9. Lists'
  <2>1. Sorted(free') /\ Coalesced(ToSet(free'), size') /\ Tiled(Block', size')
    BY <1>2, <1>8 DEF Lists
  <2> QED BY <2>1, NextLists
<1>10. Counts'
  BY <1>2, NextCounts DEF Counts
<1> QED BY <1>4, <1>5, <1>6, <1>7, <1>9, <1>10

\* vPortFree with the scheduler suspended: the block is joined with the free
\* ones, the used blocks and those of other tasks stay.
LEMMA FreeInsertKeepsIInv ==
  ASSUME IInv, NEW t \in Task, FreeInsert(t)
  PROVE  IInv' /\ \A a \in used : size'[a] = size[a]
<1> USE DEF IInv
<1> DEFINE F == ToSet(free)
<1>1. PICK b \in freeing[t] :
        LET h == InsertBlockIntoFreeList(free, size, b)
        IN  /\ free' = h.free /\ size' = h.size
            /\ remaining' = remaining + size[b]
  BY DEF FreeInsert
<1>2. PICK h : /\ h = InsertBlockIntoFreeList(free, size, b)
               /\ free' = h.free /\ size' = h.size
               /\ remaining' = remaining + size[b]
  BY <1>1
<1>3. freeing' = [freeing EXCEPT ![t] = {}] /\ UNCHANGED <<used, least, has>>
  BY DEF FreeInsert
<1>4. /\ b \in Address /\ b \notin F /\ b \notin used /\ freeing[t] = {b}
      /\ \A u \in Task : u # t => b \notin freeing[u]
  BY DEF Types, Apart
<1>5. \A u \in Task : freeing'[u] = IF u = t THEN {} ELSE freeing[u]
  BY <1>3 DEF Types
<1> DEFINE U == used \cup Between'
<1>6. /\ Between = Between' \cup {b} /\ b \notin Between'
      /\ Between' \cap (F \cup used) = {}
  BY <1>4, <1>5 DEF Between, Apart
<1>7. /\ Block \in SUBSET Address /\ F \subseteq Block /\ b \in Block
      /\ U = Block \ (F \cup {b})
  <2>1. F \subseteq Address
    BY LenProperties, ElementOfSeq DEF Types, ToSet
  <2>2. Between \subseteq Address
    BY DEF Types, Between
  <2>3. F \cap used = {}
    BY DEF Apart
  <2> QED BY <2>1, <2>2, <2>3, <1>4, <1>6 DEF Block, Types
<1> HIDE DEF U
<1>8. Joins(free, size, b, U, h)
  BY <1>2, <1>4, <1>7, InsertionJoins DEF Types, Lists
<1>9. /\ free' \in Seq(Address) /\ Sorted(free')
      /\ size' \in [Address -> 0 .. HeapEnd]
      /\ ToSet(free') \subseteq F \cup {b}
      /\ \A x \in U : size'[x] = size[x]
      /\ Tiled(ToSet(free') \cup U, size')
      /\ Coalesced(ToSet(free'), size')
      /\ Covered(ToSet(free'), size') = Covered(F, size) \cup Covered({b}, size)
  BY <1>2, <1>8 DEF Joins
<1>10. \A a \in used : size'[a] = size[a]
  BY <1>9 DEF U
<1>11. ToSet(free)' = ToSet(free')
  BY DEF ToSet
<1>12. Types'
  <2>1. freeing' \in [Task -> SUBSET Address]
    BY <1>3 DEF Types
  <2> QED BY <2>1, <1>3, <1>9 DEF Types
<1>13. Apart'
  <2>1. ToSet(free') \cap used = {}
    BY <1>4, <1>9 DEF Apart
  <2>2. \A u \in Task : freeing'[u] \cap (ToSet(free') \cup used) = {}
    BY <1>4, <1>5, <1>9 DEF Apart
  <2>3. /\ \A u, v \in Task : u # v => freeing'[u] \cap freeing'[v] = {}
        /\ \A u \in Task : \A x, y \in freeing'[u] : x = y
    BY <1>5 DEF Apart
  <2> QED BY <1>3, <1>11, <2>1, <2>2, <2>3 DEF Apart
<1>14. Owners'
  BY <1>3 DEF Owners
<1>15. Enough'
  <2>1. \A u \in Task : \A x \in has[u] : size'[x.at] = size[x.at]
    BY <1>10 DEF Owners
  <2> QED BY <2>1, <1>3 DEF Enough
<1>16. Lists'
  <2>1. Block' = ToSet(free') \cup U
    BY <1>3, <1>11 DEF Block, U
  <2> QED BY <2>1, <1>9, NextLists
<1>17. Counts'
  <2>1. Cardinality(Covered(F, size) \cup Covered({b}, size))
          = Cardinality(Covered(F, size)) + size[b]
    <3>1. size \in [Address -> 0 .. HeapEnd] /\ Tiled(Block, size)
      BY DEF Types, Lists
    <3> QED BY <3>1, <1>4, <1>7, BlockCounts
  <2>2. remaining' = Cardinality(Covered(ToSet(free'), size'))
    BY <2>1, <1>2, <1>9 DEF Counts
  <2>3. remaining \in Nat
    <3>1. Covered(F, size) \in SUBSET Address
      BY DEF Covered
    <3> QED BY <3>1, UnitsAreFinite DEF Counts
  <2>4. least' \in 0 .. HeapEnd /\ least' <= remaining'
    <3>1. size[b] \in Nat
      BY <1>4 DEF Types
    <3>2. least \in Nat /\ least <= remaining
      BY DEF Counts
    <3>3. least \in 0 .. HeapEnd
      BY DEF Counts
    <3> QED BY <3>1, <3>2, <3>3, <2>3, <1>2, <1>3
  <2> QED BY <2>2, <2>4, NextCounts
<1> QED BY <1>10, <1>12, <1>13, <1>14, <1>15, <1>16, <1>17

\* Rounding up: q units hold the m bytes asked for.
LEMMA RoundedUp ==
  ASSUME NEW m \in Nat \ {0}, NEW a \in Nat \ {0}, NEW q, q = (m + a - 1) \div a
  PROVE  q \in Nat /\ q >= 1 /\ m <= a * q
<1>1. q \in Int /\ a * q <= m + a - 1 /\ m + a - 1 < a * q + a
  OBVIOUS
<1>2. m <= a * q
  BY <1>1
<1>3. q >= 1
  <2>1. q <= 0 => a * q <= 0
    BY <1>1
  <2> QED BY <2>1, <1>1, <1>2
<1> QED BY <1>1, <1>2, <1>3

LEMMA Larger ==
  ASSUME NEW a \in Nat, NEW p \in Nat, NEW q \in Nat, p <= q
  PROVE  a * p <= a * q
<1>1. PICK d \in Nat : q = p + d
  <2>1. q - p \in Nat /\ q = p + (q - p)
    OBVIOUS
  <2> QED BY <2>1
<1>2. a * q = a * p + a * d /\ a * d >= 0 /\ a * p \in Int
  BY <1>1
<1> QED BY <1>2

\* A block of at least that size has room for the bytes behind its header.
LEMMA WantedIsEnough ==
  ASSUME NEW n \in Nat, WantedSize(n) > 0
  PROVE  /\ n > 0 /\ WantedSize(n) \in Nat \ {0}
         /\ \A k \in Nat : k >= WantedSize(n) => k > Header /\ n <= Alignment * (k - Header)
<1>1. /\ n \in Nat \ {0} /\ Alignment \in Nat \ {0} /\ Header \in Nat
      /\ WantedSize(n) = Header + (n + Alignment - 1) \div Alignment
  BY HeapAssumption DEF WantedSize
<1>2. PICK q : q = (n + Alignment - 1) \div Alignment
  OBVIOUS
<1>3. q \in Nat /\ q >= 1 /\ n <= Alignment * q
  BY <1>1, <1>2, RoundedUp
<1>4. WantedSize(n) = Header + q
  BY <1>1, <1>2
<1>5. ASSUME NEW k \in Nat, k >= WantedSize(n)
      PROVE  k > Header /\ n <= Alignment * (k - Header)
  <2>1. k - Header \in Nat /\ q <= k - Header /\ k > Header
    BY <1>1, <1>3, <1>4, <1>5
  <2>2. PICK d \in Nat : d = k - Header
    BY <2>1
  <2>3. Alignment * q <= Alignment * d
    BY <1>1, <1>3, <2>1, <2>2, Larger
  <2>4. Alignment * q \in Int /\ Alignment * d \in Int
    BY <1>1, <1>3, <2>2
  <2>5. n <= Alignment * d
    BY <1>1, <1>3, <2>3, <2>4
  <2> QED BY <2>1, <2>2, <2>5
<1> QED BY <1>1, <1>3, <1>4, <1>5

\* What a call of pvPortMalloc does: it gives block b for n bytes to t.
Gives(t, n, b) ==
  /\ WantedSize(n) > 0
  /\ b \in ToSet(free)
  /\ Allocates(free, size, used \cup Between, b, WantedSize(n),
               [free |-> free', size |-> size'])
  /\ used' = used \cup {b}
  /\ has' = [has EXCEPT ![t] = @ \cup {[at |-> b, bytes |-> n]}]
  /\ remaining' = remaining - size'[b]
  /\ least' = IF remaining' < least THEN remaining' ELSE least
  /\ UNCHANGED freeing

LEMMA MallocGives ==
  ASSUME IInv, NEW t \in Task, Malloc(t)
  PROVE  \E n \in Request : \E b \in Address : Gives(t, n, b)
<1> USE DEF IInv
<1>1. PICK n \in Request :
        LET w    == WantedSize(n)
            i    == FirstFit(free, size, w)
            b    == free[i]
            rest == RemoveAt(free, i)
            cut  == [size EXCEPT ![b] = w, ![b + w] = size[b] - w]
            h    == IF Splits(size[b], w) THEN InsertBlockIntoFreeList(rest, cut, b + w)
                    ELSE [free |-> rest, size |-> size]
        IN  /\ w > 0 /\ w <= remaining /\ i # 0
            /\ free' = h.free /\ size' = h.size
            /\ used' = used \cup {b}
            /\ has' = [has EXCEPT ![t] = @ \cup {[at |-> b, bytes |-> n]}]
            /\ remaining' = remaining - h.size[b]
            /\ least' = IF remaining' < least THEN remaining' ELSE least
  BY DEF Malloc
<1> DEFINE w == WantedSize(n)
           i == FirstFit(free, size, w)
           b == free[i]
           W == used \cup Between
<1>2. PICK h : h = IF Splits(size[b], w)
                   THEN InsertBlockIntoFreeList(RemoveAt(free, i),
                          [size EXCEPT ![b] = w, ![b + w] = size[b] - w], b + w)
                   ELSE [free |-> RemoveAt(free, i), size |-> size]
  OBVIOUS
<1>3. /\ w > 0 /\ i # 0
      /\ free' = h.free /\ size' = h.size
      /\ used' = used \cup {b}
      /\ has' = [has EXCEPT ![t] = @ \cup {[at |-> b, bytes |-> n]}]
      /\ remaining' = remaining - size'[b]
      /\ least' = IF remaining' < least THEN remaining' ELSE least
      /\ freeing' = freeing
  BY <1>1, <1>2 DEF Malloc
<1>4. n \in Nat /\ w \in Nat \ {0}
  BY <1>3, HeapAssumption, WantedIsEnough
<1> HIDE DEF w
<1>5. i \in 1 .. Len(free) /\ size[b] >= w
  BY <1>3, <1>4, FirstFitFits DEF Types
<1> HIDE DEF i
<1>6. b \in ToSet(free) /\ b \in Address /\ ToSet(free) \subseteq Address
  BY <1>5, LenProperties, ElementOfSeq DEF Types, ToSet
<1>7. W \in SUBSET Address /\ ToSet(free) \cap W = {} /\ ToSet(free) \cup W = Block
  BY DEF Types, Between, Apart, Block
<1>8. w <= size[b]
  <2>1. size[b] \in Nat
    BY <1>6 DEF Types
  <2> QED BY <2>1, <1>4, <1>5
<1> HIDE DEF W
<1>9. Allocates(free, size, W, b, w, h)
  <2>1. /\ free \in Seq(Address) /\ Sorted(free) /\ size \in [Address -> 0 .. HeapEnd]
        /\ Tiled(ToSet(free) \cup W, size) /\ Coalesced(ToSet(free), size)
    BY <1>7 DEF Types, Lists
  <2>2. PICK bb : bb = b
    OBVIOUS
  <2>3. bb = free[i]
    BY <2>2
  <2> HIDE DEF b
  <2> QED BY <2>1, <2>2, <2>3, <1>2, <1>4, <1>5, <1>6, <1>7, <1>8, Allocation
<1>10. Allocates(free, size, W, b, w, [free |-> free', size |-> size'])
  BY <1>3, <1>9 DEF Allocates
<1>11. Gives(t, n, b)
  BY <1>3, <1>6, <1>10 DEF Gives, W, w
<1> QED BY <1>6, <1>11

\* pvPortMalloc: the block leaves the list, and a rest comes back to it.
LEMMA GivesKeepsIInv ==
  ASSUME IInv, NEW t \in Task, NEW n \in Request, NEW b \in Address, Gives(t, n, b)
  PROVE  IInv' /\ b \notin used /\ \A a \in used : size'[a] = size[a]
<1> USE DEF IInv
<1> DEFINE W == used \cup Between
           w == WantedSize(n)
<1>1. /\ w > 0 /\ b \in ToSet(free)
      /\ used' = used \cup {b}
      /\ has' = [has EXCEPT ![t] = @ \cup {[at |-> b, bytes |-> n]}]
      /\ remaining' = remaining - size'[b]
      /\ least' = IF remaining' < least THEN remaining' ELSE least
      /\ freeing' = freeing
  BY DEF Gives
<1>2. /\ free' \in Seq(Address) /\ Sorted(free')
      /\ size' \in [Address -> 0 .. HeapEnd]
      /\ ToSet(free') \cap (W \cup {b}) = {}
      /\ \A x \in W : size'[x] = size[x]
      /\ size'[b] >= w
      /\ Tiled(ToSet(free') \cup W \cup {b}, size')
      /\ Coalesced(ToSet(free'), size')
      /\ Covered(ToSet(free), size) = Covered(ToSet(free'), size') \cup Covered({b}, size')
  BY DEF Gives, Allocates
<1> HIDE DEF w
<1>3. ToSet(free)' = ToSet(free')
  BY DEF ToSet
<1>4. b \notin used /\ b \notin Between
  BY <1>1 DEF Apart, Between
<1>5. \A u \in Task : has'[u] = IF u = t THEN has[t] \cup {[at |-> b, bytes |-> n]} ELSE has[u]
  BY <1>1 DEF Types
<1>6. Types'
  <2>1. [at |-> b, bytes |-> n] \in [at : Address, bytes : Request]
    OBVIOUS
  <2>2. has' \in [Task -> SUBSET [at : Address, bytes : Request]]
    BY <2>1, <1>1 DEF Types
  <2>3. free' \in Seq(Address) /\ size' \in [Address -> 0 .. HeapEnd]
    BY <1>2
  <2> QED BY <2>2, <2>3, <1>1 DEF Types
<1>7. Apart'
  <2>1. ToSet(free') \cap used' = {}
    BY <1>1, <1>2
  <2>2. \A u \in Task : freeing[u] \cap (ToSet(free') \cup used') = {}
    <3>1. \A u \in Task : freeing[u] \subseteq Between
      BY DEF Between
    <3>2. \A u \in Task : freeing[u] \cap used = {}
      BY DEF Apart
    <3> QED BY <3>1, <3>2, <1>1, <1>2, <1>4
  <2>3. /\ \A u, v \in Task : u # v => freeing[u] \cap freeing[v] = {}
        /\ \A u \in Task : \A x, y \in freeing[u] : x = y
    BY DEF Apart
  <2> QED BY <1>1, <1>3, <2>1, <2>2, <2>3 DEF Apart
<1>8. Owners'
  <2>0. ASSUME NEW u \in Task, NEW x \in has'[u]
        PROVE  \/ x \in has[u] /\ x.at \in used /\ x.at # b
               \/ u = t /\ x = [at |-> b, bytes |-> n]
    <3>1. CASE x \in has[u]
      <4>1. x.at \in used
        BY <3>1 DEF Owners
      <4> QED BY <4>1, <3>1, <1>4
    <3>2. CASE x \notin has[u]
      BY <3>2, <1>5
    <3> QED BY <3>1, <3>2
  <2>1. ASSUME NEW u \in Task, NEW x \in has'[u] PROVE x.at \in used'
    BY <2>0, <1>1
  <2>2. ASSUME NEW a \in used' PROVE \E u \in Task : \E x \in has'[u] : x.at = a
    <3>1. CASE a \in used
      <4>1. PICK u \in Task : \E x \in has[u] : x.at = a
        BY <3>1 DEF Owners
      <4>2. has[u] \subseteq has'[u]
        BY <1>5
      <4> QED BY <4>1, <4>2
    <3>2. CASE a = b
      <4>1. [at |-> b, bytes |-> n] \in has'[t]
        BY <1>5
      <4> QED BY <4>1, <3>2
    <3> QED BY <3>1, <3>2, <1>1
  <2>3. ASSUME NEW u \in Task, NEW v \in Task, NEW x \in has'[u], NEW y \in has'[v],
               x.at = y.at
        PROVE  u = v /\ x = y
    <3>1. CASE x.at = b
      BY <3>1, <2>0, <2>3
    <3>2. CASE x.at # b
      <4>1. x \in has[u] /\ y \in has[v]
        BY <3>2, <2>0, <2>3
      <4> QED BY <4>1, <2>3 DEF Owners
    <3> QED BY <3>1, <3>2
  <2> QED BY <2>1, <2>2, <2>3 DEF Owners
<1>9. Enough'
  <2> SUFFICES ASSUME NEW u \in Task, NEW x \in has'[u]
               PROVE  /\ x.bytes > 0 /\ size'[x.at] > Header
                      /\ x.bytes <= Alignment * (size'[x.at] - Header)
    BY DEF Enough
  <2>1. CASE x \in has[u]
    <3>1. x.at \in used
      BY <2>1 DEF Owners
    <3>2. size'[x.at] = size[x.at]
      BY <3>1, <1>2
    <3> QED BY <2>1, <3>2 DEF Enough
  <2>2. CASE x \notin has[u]
    <3>1. x = [at |-> b, bytes |-> n]
      BY <2>2, <1>5
    <3>2. n \in Nat /\ size'[b] \in Nat /\ WantedSize(n) > 0 /\ size'[b] >= WantedSize(n)
      BY <1>1, <1>2, HeapAssumption DEF w
    <3>3. n > 0 /\ size'[b] > Header /\ n <= Alignment * (size'[b] - Header)
      BY <3>2, WantedIsEnough, Zenon
    <3> QED BY <3>1, <3>3
  <2> QED BY <2>1, <2>2
<1>10. Lists'
  <2>1. Between' = Between
    BY <1>1 DEF Between
  <2>2. Block' = ToSet(free') \cup W \cup {b}
    BY <2>1, <1>1, <1>3 DEF Block
  <2> QED BY <2>2, <1>2, NextLists
<1>11. Counts'
  <2>1. size'[b] \in Nat /\ 0 <= size'[b]
    BY <1>2
  <2>2. Cardinality(Covered(ToSet(free'), size') \cup Covered({b}, size'))
          = Cardinality(Covered(ToSet(free'), size')) + size'[b]
    <3> DEFINE F == ToSet(free')
               B == F \cup W \cup {b}
    <3>1. F \subseteq Address /\ W \subseteq Address
      BY <1>2, LenProperties, ElementOfSeq DEF ToSet, Types, Between
    <3>2. B \in SUBSET Address /\ F \subseteq B /\ b \in B /\ b \notin F
      BY <3>1, <1>2
    <3>3. Tiled(B, size')
      BY <1>2
    <3>4. PICK sz \in [Address -> 0 .. HeapEnd] : sz = size'
      BY <1>2
    <3>5. Tiled(B, sz)
      BY <3>3, <3>4
    <3> HIDE DEF F, B
    <3>6. Cardinality(Covered(F, sz) \cup Covered({b}, sz))
            = Cardinality(Covered(F, sz)) + sz[b]
      BY <3>1, <3>2, <3>5, BlockCounts
    <3> QED BY <3>4, <3>6 DEF F
  <2>3. Cardinality(Covered(ToSet(free'), size')) \in 0 .. HeapEnd
    <3>1. Covered(ToSet(free'), size') \in SUBSET Address
      BY DEF Covered
    <3> QED BY <3>1, UnitsAreFinite
  <2>4. remaining = Cardinality(Covered(ToSet(free'), size')) + size'[b]
    BY <2>2, <1>2 DEF Counts
  <2>5. remaining' = Cardinality(Covered(ToSet(free'), size'))
    BY <2>1, <2>3, <2>4, <1>1
  <2>6. least' \in 0 .. HeapEnd /\ least' <= remaining'
    <3>1. remaining' \in 0 .. HeapEnd /\ least \in 0 .. HeapEnd
      BY <2>3, <2>5 DEF Counts
    <3> QED BY <3>1, <1>1, HeapAssumption
  <2> QED BY <2>5, <2>6, NextCounts
<1>12. \A a \in used : size'[a] = size[a]
  BY <1>2
<1> QED BY <1>4, <1>6, <1>7, <1>8, <1>9, <1>10, <1>11, <1>12

LEMMA NextKeepsIInv == IInv /\ [Next]_vars => IInv'
<1> SUFFICES ASSUME IInv, [Next]_vars PROVE IInv'
  OBVIOUS
<1>1. CASE UNCHANGED vars
  <2>2. UNCHANGED <<free, size, used, remaining, least, has, freeing>>
    BY <1>1 DEF vars
  <2>3. Block' = Block /\ ToSet(free') = ToSet(free)
    BY <2>2 DEF Block, Between, ToSet
  <2>4. Lists' /\ Counts'
    BY <2>2, <2>3, NextLists, NextCounts DEF IInv, Lists, Counts
  <2>5. Types' /\ Apart' /\ Owners' /\ Enough'
    BY <2>2 DEF IInv, Types, Apart, Owners, Enough, ToSet
  <2> QED BY <2>4, <2>5 DEF IInv
<1>2. ASSUME NEW t \in Task, Malloc(t) PROVE IInv'
  BY <1>2, MallocGives, GivesKeepsIInv
<1>3. ASSUME NEW t \in Task, FreeMark(t) PROVE IInv'
  BY <1>3, FreeMarkKeepsIInv
<1>4. ASSUME NEW t \in Task, FreeInsert(t) PROVE IInv'
  BY <1>4, FreeInsertKeepsIInv
<1> QED BY <1>1, <1>2, <1>3, <1>4 DEF Next

LEMMA Invariance == Spec => []IInv
BY InitIInv, NextKeepsIInv, PTL DEF Spec

-----------------------------------------------------------------------------
(* What is proved of the heap.                                             *)

\* Whatever is allocated and freed in whatever order, the blocks cover the
\* heap without gap or overlap and free neighbours are joined (pvPortMalloc,
\* vPortFree, prvInsertBlockIntoFreeList).
THEOREM HeapIsConsistent == Spec => []HeapConsistent
<1>1. IInv => HeapConsistent
  BY InvariantImplies
<1> QED BY <1>1, Invariance, PTL

\* xFreeBytesRemaining is the size of the free list, and never was less than
\* xMinimumEverFreeBytesRemaining.
THEOREM RemainingIsCounted == Spec => []RemainingIsListed
<1>1. IInv => RemainingIsListed
  BY InvariantImplies
<1> QED BY <1>1, Invariance, PTL

\* The pieces the tasks have, as the refinement sees them.
Given == UNION {{Piece(t, x) : x \in has[t]} : t \in Task}

LEMMA GivenMembers ==
  /\ \A p : p \in Given <=> \E t \in Task : \E x \in has[t] : p = Piece(t, x)
  /\ \A p : p \in Given' <=> \E t \in Task : \E x \in has'[t] : p = Piece(t, x)'
<1>1. \A p : p \in Given <=> \E t \in Task : \E x \in has[t] : p = Piece(t, x)
  BY DEF Given
<1>2. \A p : p \in Given' <=> \E t \in Task : \E x \in has'[t] : p = Piece(t, x)'
  BY DEF Given, Piece
<1> QED BY <1>1, <1>2

\* A used block has the same units before and after a step, so its piece stays.
LEMMA PiecesStay ==
  ASSUME IInv, \A a \in used : size'[a] = size[a],
         NEW t \in Task, NEW x \in has[t]
  PROVE  Piece(t, x)' = Piece(t, x)
<1>1. size'[x.at] = size[x.at]
  BY DEF IInv, Owners
<1> QED BY <1>1 DEF Piece

\* pvPortMalloc gives a piece that overlaps none of those given.
LEMMA GivesAllocates ==
  ASSUME IInv, NEW t \in Task, NEW n \in Request, NEW b \in Address, Gives(t, n, b)
  PROVE  \E p \in Abstract!Piece : Abstract!Allocate(p)
<1> DEFINE x == [at |-> b, bytes |-> n]
<1>0. PICK p : p = Piece(t, x)'
  OBVIOUS
<1>1. IInv' /\ b \notin used /\ \A a \in used : size'[a] = size[a]
  BY GivesKeepsIInv
<1>2. \A u \in Task : has'[u] = IF u = t THEN has[t] \cup {x} ELSE has[u]
  BY DEF Gives, IInv, Types
<1>3. t \in Task /\ x \in has'[t] /\ x.at = b /\ x.bytes = n
  BY <1>2
<1>4. /\ size' \in [Address -> 0 .. HeapEnd] /\ used' \subseteq Block' /\ used' = used \cup {b}
      /\ \A y, z \in Block' : y < z => y + size'[y] <= z
      /\ \A y \in Block' : y + size'[y] <= HeapEnd
  BY <1>1 DEF IInv, Types, Lists, Tiled, Block, Gives
<1>5. n > 0 /\ size'[b] > Header /\ n <= Alignment * (size'[b] - Header)
  BY <1>1, <1>3 DEF IInv, Enough
<1>6. /\ n \in Nat /\ b \in Nat /\ size'[b] \in Nat /\ Header \in Nat /\ Header > 0
      /\ HeapEnd \in Nat /\ b + size'[b] <= HeapEnd
  BY <1>4, HeapAssumption DEF Address
<1>7. p = [owner |-> t, first |-> b + Header, last |-> b + size'[b] - 1, bytes |-> n]
  BY <1>0, <1>3 DEF Piece
<1>8. p \in Abstract!Piece
  <2>1. b + Header \in Address /\ b + size'[b] - 1 \in Address
    BY <1>5, <1>6 DEF Address
  <2> QED BY <2>1, <1>7 DEF Abstract!Piece
<1>9. p.bytes > 0 /\ p.bytes <= Alignment * (p.last - p.first + 1)
  <2>1. p.last - p.first + 1 = size'[b] - Header
    BY <1>6, <1>7
  <2> QED BY <2>1, <1>5, <1>7
<1>10. ASSUME NEW y \in Given PROVE ~Abstract!Overlaps(p, y)
  <2>1. PICK u \in Task : \E z \in has[u] : y = Piece(u, z)
    BY GivenMembers
  <2>2. PICK z \in has[u] : y = Piece(u, z)
    BY <2>1
  <2>3. z.at \in used /\ z.at # b /\ z.at \in Address
    BY <1>1, <2>2 DEF IInv, Owners, Types
  <2>4. y.first = z.at + Header /\ y.last = z.at + size'[z.at] - 1
    BY <1>1, <2>2, <2>3 DEF Piece
  <2>5. PICK c \in Nat : c = z.at
    BY <2>3 DEF Address
  <2>6. /\ size'[c] \in Nat /\ c # b
        /\ c < b => c + size'[c] <= b
        /\ b < c => b + size'[b] <= c
    BY <1>4, <2>3, <2>5
  <2>7. y.first = c + Header /\ y.last = c + size'[c] - 1
    BY <2>4, <2>5
  <2>8. p.first = b + Header /\ p.last = b + size'[b] - 1
    BY <1>7
  <2> QED BY <2>6, <2>7, <2>8, <1>6 DEF Abstract!Overlaps
<1>11. Given' = Given \cup {p}
  <2>1. ASSUME NEW u \in Task, NEW z \in has'[u]
        PROVE  Piece(u, z)' \in Given \cup {p}
    <3>1. CASE z \in has[u]
      <4>1. Piece(u, z)' = Piece(u, z)
        BY <3>1, <1>1, PiecesStay
      <4> QED BY <3>1, <4>1, GivenMembers
    <3>2. CASE z \notin has[u]
      <4>1. z = x /\ u = t
        BY <3>2, <1>2
      <4> QED BY <4>1, <1>0
    <3> QED BY <3>1, <3>2
  <2>2. ASSUME NEW u \in Task, NEW z \in has[u]
        PROVE  Piece(u, z) \in Given'
    <3>1. Piece(u, z)' = Piece(u, z) /\ z \in has'[u]
      BY <1>1, <1>2, PiecesStay
    <3> QED BY <3>1, GivenMembers
  <2>3. p \in Given'
    BY <1>0, <1>3, GivenMembers
  <2>4. Given' \subseteq Given \cup {p}
    BY <2>1, GivenMembers
  <2>5. Given \subseteq Given'
    BY <2>2, GivenMembers
  <2> QED BY <2>3, <2>4, <2>5
<1>12. Abstract!Allocate(p)
  BY <1>9, <1>10, <1>11 DEF Abstract!Allocate, Given
<1> QED BY <1>8, <1>12

\* vPortFree gives back one piece, in its first half.
LEMMA FreeMarkReleases ==
  ASSUME IInv, NEW t \in Task, FreeMark(t)
  PROVE  \E p \in Abstract!Piece : Abstract!Release(p)
<1>1. PICK x \in has[t] : has' = [has EXCEPT ![t] = @ \ {x}]
  BY DEF FreeMark
<1>2. \A u \in Task : has'[u] = IF u = t THEN has[t] \ {x} ELSE has[u]
  BY <1>1 DEF IInv, Types
<1>3. \A u \in Task : \A z \in has[u] : Piece(u, z)' = Piece(u, z)
  BY DEF FreeMark, Piece
<1>9. PICK p : p = Piece(t, x)
  OBVIOUS
<1>4. p \in Abstract!Piece
  <2>1. /\ x.at \in Nat /\ size[x.at] \in Nat /\ Header \in Nat /\ HeapEnd \in Nat
        /\ x.at \in Address /\ x.bytes \in Request
    BY HeapAssumption DEF IInv, Types, Address
  <2>2. x.at + size[x.at] <= HeapEnd
    <3>1. x.at \in Block
      BY DEF IInv, Owners, Block
    <3> QED BY <3>1 DEF IInv, Lists, Tiled
  <2>3. size[x.at] > Header
    BY DEF IInv, Enough
  <2>4. x.at + Header \in Address /\ x.at + size[x.at] - 1 \in Address
    BY <2>1, <2>2, <2>3 DEF Address
  <2> QED BY <2>1, <2>4, <1>9 DEF Piece, Abstract!Piece
<1>5. ASSUME NEW u \in Task, NEW z \in has[u], Piece(u, z) = p
      PROVE  u = t /\ z = x
  <2>1. z.at + Header = x.at + Header
    BY <1>5, <1>9 DEF Piece
  <2>2. z.at \in Nat /\ x.at \in Nat /\ Header \in Nat
    BY HeapAssumption DEF IInv, Types, Address
  <2>3. z.at = x.at
    <3>1. \A i, j, k \in Nat : i + k = j + k => i = j
      OBVIOUS
    <3> QED BY <2>1, <2>2, <3>1, Zenon
  <2> QED BY <2>3 DEF IInv, Owners
<1>6. Given' = Given \ {p}
  <2>1. ASSUME NEW u \in Task, NEW z \in has'[u]
        PROVE  Piece(u, z)' \in Given \ {p}
    <3>1. z \in has[u] /\ ~(u = t /\ z = x)
      BY <1>2
    <3>2. Piece(u, z)' = Piece(u, z) /\ Piece(u, z) # p
      BY <3>1, <1>3, <1>5
    <3> QED BY <3>1, <3>2, GivenMembers
  <2>2. ASSUME NEW u \in Task, NEW z \in has[u], Piece(u, z) # p
        PROVE  Piece(u, z) \in Given'
    <3>1. ~(u = t /\ z = x)
      BY <2>2, <1>9
    <3>2. z \in has'[u] /\ Piece(u, z)' = Piece(u, z)
      BY <3>1, <1>2, <1>3
    <3> QED BY <3>2, GivenMembers
  <2>3. Given' \subseteq Given \ {p}
    BY <2>1, GivenMembers
  <2>4. Given \ {p} \subseteq Given'
    BY <2>2, GivenMembers
  <2> QED BY <2>3, <2>4
<1>7. p \in Given
  BY <1>9, GivenMembers
<1>8. Abstract!Release(p)
  BY <1>6, <1>7 DEF Abstract!Release, Given
<1> QED BY <1>4, <1>8

LEMMA StepAllocates == IInv /\ [Next]_vars => [Abstract!Next]_Given
<1> SUFFICES ASSUME IInv, [Next]_vars PROVE Abstract!Next \/ UNCHANGED Given
  OBVIOUS
<1>1. ASSUME NEW t \in Task, Malloc(t) PROVE Abstract!Next
  BY <1>1, MallocGives, GivesAllocates DEF Abstract!Next
<1>2. ASSUME NEW t \in Task, FreeMark(t) PROVE Abstract!Next
  BY <1>2, FreeMarkReleases DEF Abstract!Next
<1>3. ASSUME NEW t \in Task, FreeInsert(t) PROVE UNCHANGED Given
  <2>1. \A a \in used : size'[a] = size[a]
    BY <1>3, FreeInsertKeepsIInv
  <2>2. \A u \in Task : \A z \in has[u] : Piece(u, z)' = Piece(u, z)
    BY <2>1, PiecesStay
  <2>3. has' = has
    BY <1>3 DEF FreeInsert
  <2>4. Given' \subseteq Given
    BY <2>2, <2>3, GivenMembers
  <2>5. Given \subseteq Given'
    BY <2>2, <2>3, GivenMembers
  <2> QED BY <2>4, <2>5
<1>4. CASE UNCHANGED vars
  BY <1>4 DEF vars, Given, Piece
<1> QED BY <1>1, <1>2, <1>3, <1>4 DEF Next

LEMMA InitAllocates == Init => Abstract!Init
<1> SUFFICES ASSUME Init PROVE Given = {}
  BY DEF Abstract!Init, Given
<1>1. \A t \in Task : has[t] = {}
  BY DEF Init
<1> QED BY <1>1 DEF Given

\* The heap keeps the promise of Allocator: the memory a task was given is its
\* own until it frees it, large enough and overlapping no other (pvPortMalloc,
\* vPortFree).
THEOREM HeapAllocates == Spec => ImplementsAllocator
<1>1. Spec => Abstract!Init /\ [][Abstract!Next]_Given
  BY InitAllocates, StepAllocates, Invariance, PTL DEF Spec
<1> QED BY <1>1, PTL DEF ImplementsAllocator, Abstract!Spec, Given

=============================================================================
