-------------------------- MODULE RtosTimersProofs --------------------------
(***************************************************************************)
(* Proofs about the daemon's lists and its queue, for any number of        *)
(* timers, any width of the tick count, any periods and any lateness.      *)
(***************************************************************************)
EXTENDS RtosTimers, FiniteSetTheorems, SequenceTheorems, WellFoundedInduction,
        NaturalsInduction, TLAPS

\* The tasks leave room for one reload of every periodic timer, and none of
\* those is deleted: otherwise xTimerGenericCommand, which does not wait for
\* the daemon itself, drops the reload, or the reload is queued behind the
\* deletion.
Headroom ==
  /\ IsFiniteSet(AutoReload) /\ Cardinality(AutoReload) <= Room
  /\ Deletable \cap AutoReload = {}

Ids      == {"start", "reload", "stop", "change", "delete"}
Commands ==
  {c \in [id : Ids, timer : Timer, time : Time] : c.id = "delete" => c.timer \in Deletable}
Call     == [id |-> "call", timer |-> None, time |-> 0]
Word     == Commands \cup {Call}

Types ==
  /\ TypeOK
  /\ current \in Seq(Timer) /\ overflow \in Seq(Timer)
  /\ queue \in Seq(Word)
  /\ cmd \in Commands \cup {NoCommand}

Lists ==
  /\ InOrder(current) /\ InOrder(overflow)
  /\ ToSet(current) \cap ToSet(overflow) = {}

\* Only a daemon about to execute a command holds one, and it has taken its
\* timer from the lists.
Handed ==
  /\ pc \notin {"switch", "execute"} => cmd = NoCommand
  /\ ~Listed(cmd.timer)

Queued(t) == \E i \in 1 .. Len(queue) : queue[i].timer = t

Kept == \A t \in active \cap AutoReload : Listed(t) \/ cmd.timer = t \/ Queued(t)

\* The periodic timers that may still send their reload.
Held == {t \in AutoReload : Listed(t) \/ cmd.timer = t}

RoomToReload == Len(queue) + Cardinality(Held) <= QueueLength

Gone == \A t \in freed : ~Listed(t) /\ cmd.timer # t /\ ~Queued(t)

\* Nothing is sent for a timer after its deletion.
Deletions ==
  \A i \in 1 .. Len(queue) : queue[i].id = "delete" =>
    /\ queue[i].timer \in Deletable
    /\ \A j \in i + 1 .. Len(queue) : queue[j].timer # queue[i].timer

DeletionIsLast ==
  /\ Deletions
  /\ cmd.id = "delete" => cmd.timer \in Deletable /\ ~Queued(cmd.timer)

\* What holds whether or not there is room for the reloads.
Basic == Types /\ Lists /\ Handed

Books == Kept /\ RoomToReload /\ Gone /\ DeletionIsLast
-----------------------------------------------------------------------------
(* Lists.                                                                  *)

Ord(l, v) == \A i, j \in 1 .. Len(l) : i < j => l[i] # l[j] /\ v[l[i]] <= v[l[j]]

LEMMA LeastElement ==
  ASSUME NEW S \in SUBSET Nat, S # {}
  PROVE  \E x \in S : \A y \in S : x <= y
<1>1. PICK x \in S : \A y \in S : ~(<<y, x>> \in OpToRel(<, Nat))
  BY WFMin, NatLessThanWellFounded, Zenon
<1>2. \A y \in S : ~(y < x)
  BY <1>1 DEF OpToRel
<1> QED BY <1>2

LEMMA MinIsLeast ==
  ASSUME NEW S \in SUBSET Nat, S # {}
  PROVE  Min(S) \in S /\ \A y \in S : Min(S) <= y
<1>1. \E x \in S : \A y \in S : x =< y
  BY LeastElement
<1> QED BY <1>1 DEF Min

LEMMA ListMembers ==
  ASSUME NEW T, NEW l \in Seq(T)
  PROVE  /\ Len(l) \in Nat /\ DOMAIN l = 1 .. Len(l)
         /\ \A i \in 1 .. Len(l) : l[i] \in T /\ l[i] \in ToSet(l)
         /\ \A x \in ToSet(l) : x \in T /\ \E i \in 1 .. Len(l) : l[i] = x
<1>1. Len(l) \in Nat /\ DOMAIN l = 1 .. Len(l) /\ \A i \in 1 .. Len(l) : l[i] \in T
  BY LenProperties, ElementOfSeq
<1> QED BY <1>1 DEF ToSet

\* An insertion at p shifts what is behind p.
LEMMA InsertedAt ==
  ASSUME NEW T, NEW l \in Seq(T), NEW p \in 1 .. Len(l) + 1, NEW t \in T
  PROVE  /\ InsertAt(l, p, t) \in Seq(T) /\ Len(InsertAt(l, p, t)) = Len(l) + 1
         /\ \A i \in 1 .. Len(l) + 1 :
              InsertAt(l, p, t)[i] = IF i < p THEN l[i] ELSE IF i = p THEN t ELSE l[i - 1]
<1> DEFINE a == SubSeq(l, 1, p - 1)
           b == SubSeq(l, p, Len(l))
<1>1. Len(l) \in Nat /\ \A i \in 1 .. Len(l) : l[i] \in T
  BY LenProperties, ElementOfSeq
<1>2. a \in Seq(T) /\ Len(a) = p - 1 /\ \A i \in 1 .. p - 1 : a[i] = l[i]
  <2>1. \A i \in 1 .. p - 1 : l[i] \in T
    BY <1>1
  <2> QED BY <1>1, <2>1, SubSeqProperties
<1>3. b \in Seq(T) /\ Len(b) = Len(l) - p + 1
      /\ \A i \in 1 .. Len(l) - p + 1 : b[i] = l[p + i - 1]
  <2>1. \A i \in p .. Len(l) : l[i] \in T
    BY <1>1
  <2> QED BY <1>1, <2>1, SubSeqProperties
<1>4. InsertAt(l, p, t) = (a \o <<t>>) \o b
  BY DEF InsertAt
<1> HIDE DEF a, b
<1>5. a \o <<t>> \in Seq(T) /\ Len(a \o <<t>>) = p
      /\ \A i \in 1 .. p : (a \o <<t>>)[i] = IF i < p THEN l[i] ELSE t
  BY <1>1, <1>2
<1>6. PICK c \in Seq(T) : c = a \o <<t>>
  BY <1>5
<1>7. c \o b \in Seq(T) /\ Len(c \o b) = Len(l) + 1
      /\ \A i \in 1 .. Len(l) + 1 : (c \o b)[i] = IF i <= p THEN c[i] ELSE b[i - p]
  <2>1. Len(c) = p /\ Len(b) = Len(l) - p + 1
    BY <1>3, <1>5, <1>6
  <2>2. /\ c \o b \in Seq(T) /\ Len(c \o b) = Len(c) + Len(b)
        /\ \A i \in 1 .. Len(c) + Len(b) :
             (c \o b)[i] = IF i <= Len(c) THEN c[i] ELSE b[i - Len(c)]
    <3>1. c \in Seq(T) /\ b \in Seq(T)
      BY <1>3, <1>6
    <3> QED BY <3>1, ConcatProperties
  <2> QED BY <2>1, <2>2, <1>1
<1>8. \A i \in 1 .. Len(l) + 1 :
        (c \o b)[i] = IF i < p THEN l[i] ELSE IF i = p THEN t ELSE l[i - 1]
  <2> SUFFICES ASSUME NEW i \in 1 .. Len(l) + 1
               PROVE  (c \o b)[i] = IF i < p THEN l[i] ELSE IF i = p THEN t ELSE l[i - 1]
    OBVIOUS
  <2>1. CASE i <= p
    BY <2>1, <1>5, <1>6, <1>7
  <2>2. CASE i > p
    <3>1. i - p \in 1 .. Len(l) - p + 1 /\ p + (i - p) - 1 = i - 1
      BY <2>2, <1>1
    <3>2. b[i - p] = l[i - 1]
      BY <3>1, <1>3
    <3> QED BY <2>2, <3>2, <1>7
  <2>3. i <= p \/ i > p
    BY <1>1
  <2> QED BY <2>1, <2>2, <2>3
<1> QED BY <1>4, <1>6, <1>7, <1>8

\* A removal at p closes the gap.
LEMMA RemovedAt ==
  ASSUME NEW T, NEW l \in Seq(T), NEW p \in 1 .. Len(l)
  PROVE  /\ RemoveAt(l, p) \in Seq(T) /\ Len(RemoveAt(l, p)) = Len(l) - 1
         /\ \A i \in 1 .. Len(l) - 1 : RemoveAt(l, p)[i] = IF i < p THEN l[i] ELSE l[i + 1]
<1> DEFINE a == SubSeq(l, 1, p - 1)
           b == SubSeq(l, p + 1, Len(l))
<1>1. Len(l) \in Nat /\ \A i \in 1 .. Len(l) : l[i] \in T
  BY LenProperties, ElementOfSeq
<1>2. a \in Seq(T) /\ Len(a) = p - 1 /\ \A i \in 1 .. p - 1 : a[i] = l[i]
  <2>1. \A i \in 1 .. p - 1 : l[i] \in T
    BY <1>1
  <2> QED BY <1>1, <2>1, SubSeqProperties
<1>3. b \in Seq(T) /\ Len(b) = Len(l) - p
      /\ \A i \in 1 .. Len(l) - p : b[i] = l[p + i]
  <2>1. \A i \in p + 1 .. Len(l) : l[i] \in T
    BY <1>1
  <2> QED BY <1>1, <2>1, SubSeqProperties
<1>4. RemoveAt(l, p) = a \o b
  BY DEF RemoveAt
<1> HIDE DEF a, b
<1>5. a \o b \in Seq(T) /\ Len(a \o b) = Len(l) - 1
      /\ \A i \in 1 .. Len(l) - 1 : (a \o b)[i] = IF i < p THEN a[i] ELSE b[i - p + 1]
  BY <1>1, <1>2, <1>3
<1>6. \A i \in 1 .. Len(l) - 1 : (a \o b)[i] = IF i < p THEN l[i] ELSE l[i + 1]
  <2> SUFFICES ASSUME NEW i \in 1 .. Len(l) - 1
               PROVE  (a \o b)[i] = IF i < p THEN l[i] ELSE l[i + 1]
    OBVIOUS
  <2>1. CASE i < p
    BY <2>1, <1>2, <1>5
  <2>2. CASE i >= p
    <3>1. i - p + 1 \in 1 .. Len(l) - p /\ p + (i - p + 1) = i + 1
      BY <2>2, <1>1
    <3> QED BY <2>2, <3>1, <1>3, <1>5
  <2>3. i < p \/ i >= p
    BY <1>1
  <2> QED BY <2>1, <2>2, <2>3
<1> QED BY <1>4, <1>5, <1>6

Place(l, t, v) ==
  LET i == SelectInSeq(l, LAMBDA u : u # t /\ value[u] > v)
  IN  IF i = 0 THEN Len(l) + 1 ELSE i

LEMMA PlaceBounds ==
  ASSUME NEW l \in Seq(Timer), NEW t \in Timer, NEW v \in Time, t \notin ToSet(l),
         value \in [Timer -> Time], TickMod \in Nat, Ord(l, value)
  PROVE  /\ Place(l, t, v) \in 1 .. Len(l) + 1
         /\ \A i \in 1 .. Len(l) : i < Place(l, t, v) => value[l[i]] <= v
         /\ \A i \in 1 .. Len(l) : i >= Place(l, t, v) => v <= value[l[i]]
<1> DEFINE I == {i \in 1 .. Len(l) : l[i] # t /\ value[l[i]] > v}
<1>1. Len(l) \in Nat /\ \A i \in 1 .. Len(l) : l[i] \in Timer /\ l[i] # t
  BY ListMembers
<1>2. v \in Int /\ \A u \in Timer : value[u] \in Int
  BY DEF Time
<1>3. SelectInSeq(l, LAMBDA u : u # t /\ value[u] > v) = IF I # {} THEN Min(I) ELSE 0
  BY DEF SelectInSeq
<1>4. CASE I = {}
  <2>1. Place(l, t, v) = Len(l) + 1
    BY <1>3, <1>4 DEF Place
  <2>2. \A i \in 1 .. Len(l) : value[l[i]] <= v
    BY <1>1, <1>2, <1>4
  <2> QED BY <2>1, <2>2, <1>1
<1>5. CASE I # {}
  <2>1. I \in SUBSET Nat
    BY <1>1
  <2>2. Min(I) \in I /\ \A y \in I : Min(I) <= y
    BY <2>1, <1>5, MinIsLeast
  <2>3. Place(l, t, v) = Min(I)
    BY <2>2, <1>3, <1>5, <1>1 DEF Place
  <2>4. PICK m \in 1 .. Len(l) : m = Min(I) /\ value[l[m]] > v
    BY <2>2
  <2>5. \A i \in 1 .. Len(l) : i < m => value[l[i]] <= v
    BY <2>2, <2>4, <1>1, <1>2
  <2>6. \A i \in 1 .. Len(l) : i >= m => v <= value[l[i]]
    <3> SUFFICES ASSUME NEW i \in 1 .. Len(l), i >= m PROVE v <= value[l[i]]
      OBVIOUS
    <3>1. i = m \/ value[l[m]] <= value[l[i]]
      BY <1>1 DEF Ord
    <3>2. value[l[m]] \in Int /\ value[l[i]] \in Int
      BY <1>1, <1>2
    <3> QED BY <3>1, <3>2, <2>4, <1>2
  <2> QED BY <2>3, <2>4, <2>5, <2>6, <1>1
<1> QED BY <1>4, <1>5

\* Other values do not matter.
LEMMA OrdElsewhere ==
  ASSUME NEW l \in Seq(Timer), NEW v, NEW w, Ord(l, v),
         \A u \in ToSet(l) : w[u] = v[u]
  PROVE  Ord(l, w)
<1>1. \A i \in 1 .. Len(l) : w[l[i]] = v[l[i]]
  BY ListMembers
<1> QED BY <1>1 DEF Ord

\* An insertion keeps the list in order.
LEMMA Insertion ==
  ASSUME NEW l \in Seq(Timer), NEW t \in Timer, NEW v \in Time, t \notin ToSet(l),
         value \in [Timer -> Time], TickMod \in Nat, Ord(l, value)
  PROVE  /\ Insert(l, t, v) \in Seq(Timer)
         /\ ToSet(Insert(l, t, v)) = ToSet(l) \cup {t}
         /\ Ord(Insert(l, t, v), [value EXCEPT ![t] = v])
<1> DEFINE w == [value EXCEPT ![t] = v]
<1>1. PICK p \in 1 .. Len(l) + 1 :
        /\ p = Place(l, t, v)
        /\ \A i \in 1 .. Len(l) : i < p => value[l[i]] <= v
        /\ \A i \in 1 .. Len(l) : i >= p => v <= value[l[i]]
  BY PlaceBounds
<1>2. Insert(l, t, v) = InsertAt(l, p, t)
  BY <1>1 DEF Insert, Place
<1>3. PICK m \in Seq(Timer) :
        /\ m = InsertAt(l, p, t) /\ Len(m) = Len(l) + 1
        /\ \A i \in 1 .. Len(l) + 1 :
             m[i] = IF i < p THEN l[i] ELSE IF i = p THEN t ELSE l[i - 1]
  <2>1. /\ InsertAt(l, p, t) \in Seq(Timer) /\ Len(InsertAt(l, p, t)) = Len(l) + 1
        /\ \A i \in 1 .. Len(l) + 1 :
             InsertAt(l, p, t)[i] = IF i < p THEN l[i] ELSE IF i = p THEN t ELSE l[i - 1]
    BY InsertedAt
  <2> QED BY <2>1, Zenon
<1>4. Len(l) \in Nat /\ \A i \in 1 .. Len(l) : l[i] \in Timer /\ l[i] \in ToSet(l) /\ l[i] # t
  BY ListMembers
<1>5. ToSet(m) = ToSet(l) \cup {t}
  <2>1. ASSUME NEW x \in ToSet(m) PROVE x \in ToSet(l) \cup {t}
    <3>1. PICK i \in 1 .. Len(l) + 1 : m[i] = x
      BY <1>3, ListMembers
    <3>2. i < p => i \in 1 .. Len(l)
      BY <1>4
    <3>3. i > p => i - 1 \in 1 .. Len(l)
      BY <1>4
    <3>4. i < p \/ i = p \/ i > p
      BY <1>4
    <3> QED BY <3>1, <3>2, <3>3, <3>4, <1>3, <1>4
  <2>2. ASSUME NEW x \in ToSet(l) PROVE x \in ToSet(m)
    <3>1. PICK i \in 1 .. Len(l) : l[i] = x
      BY ListMembers
    <3>2. CASE i < p
      <4>1. i \in 1 .. Len(m) /\ m[i] = x
        BY <3>1, <3>2, <1>3, <1>4
      <4> QED BY <4>1, ListMembers
    <3>3. CASE i >= p
      <4>1. i + 1 \in 1 .. Len(m) /\ ~(i + 1 < p) /\ i + 1 # p /\ (i + 1) - 1 = i
        BY <3>3, <1>3, <1>4
      <4>2. m[i + 1] = x
        BY <4>1, <3>1, <1>3
      <4> QED BY <4>1, <4>2, ListMembers
    <3>4. i < p \/ i >= p
      BY <1>4
    <3> QED BY <3>2, <3>3, <3>4
  <2>3. t \in ToSet(m)
    <3>1. p \in 1 .. Len(m) /\ m[p] = t
      BY <1>3, <1>4
    <3> QED BY <3>1, ListMembers
  <2> QED BY <2>1, <2>2, <2>3
<1>6. w[t] = v /\ \A u \in Timer : u # t => w[u] = value[u]
  OBVIOUS
<1> HIDE DEF w
<1>7. Ord(m, w)
  <2> SUFFICES ASSUME NEW i \in 1 .. Len(m), NEW j \in 1 .. Len(m), i < j
               PROVE  m[i] # m[j] /\ w[m[i]] <= w[m[j]]
    BY DEF Ord
  <2>1. CASE j < p
    <3>1. i \in 1 .. Len(l) /\ j \in 1 .. Len(l) /\ m[i] = l[i] /\ m[j] = l[j]
      BY <2>1, <1>3, <1>4
    <3> QED BY <3>1, <1>4, <1>6 DEF Ord
  <2>2. CASE j = p
    <3>1. i \in 1 .. Len(l) /\ i < p /\ m[i] = l[i] /\ m[j] = t
      BY <2>2, <1>3, <1>4
    <3> QED BY <3>1, <1>1, <1>4, <1>6
  <2>3. CASE j > p /\ i < p
    <3>1. i \in 1 .. Len(l) /\ j - 1 \in 1 .. Len(l) /\ i < j - 1
          /\ m[i] = l[i] /\ m[j] = l[j - 1]
      BY <2>3, <1>3, <1>4
    <3> QED BY <3>1, <1>4, <1>6 DEF Ord
  <2>4. CASE j > p /\ i = p
    <3>1. j - 1 \in 1 .. Len(l) /\ j - 1 >= p
      BY <2>4, <1>3, <1>4
    <3>2. m[i] = t /\ m[j] = l[j - 1]
      BY <2>4, <1>3, <1>4
    <3> QED BY <3>1, <3>2, <1>1, <1>4, <1>6
  <2>5. CASE j > p /\ i > p
    <3>1. i - 1 \in 1 .. Len(l) /\ j - 1 \in 1 .. Len(l) /\ i - 1 < j - 1
          /\ m[i] = l[i - 1] /\ m[j] = l[j - 1]
      BY <2>5, <1>3, <1>4
    <3> QED BY <3>1, <1>4, <1>6 DEF Ord
  <2>6. j < p \/ j = p \/ (j > p /\ (i < p \/ i = p \/ i > p))
    BY <1>3, <1>4
  <2> QED BY <2>1, <2>2, <2>3, <2>4, <2>5, <2>6
<1> QED BY <1>2, <1>3, <1>5, <1>7 DEF w

\* What is left when the timer at p goes.
LEMMA Without ==
  ASSUME NEW l \in Seq(Timer), NEW v, Ord(l, v), NEW p \in 1 .. Len(l),
         NEW m \in Seq(Timer), Len(m) = Len(l) - 1,
         \A i \in 1 .. Len(l) - 1 : m[i] = IF i < p THEN l[i] ELSE l[i + 1]
  PROVE  ToSet(m) = ToSet(l) \ {l[p]} /\ Ord(m, v)
<1>1. Len(l) \in Nat /\ \A i \in 1 .. Len(l) : l[i] \in Timer /\ l[i] \in ToSet(l)
  BY ListMembers
<1>2. \A i, j \in 1 .. Len(l) : i # j => l[i] # l[j]
  <2> SUFFICES ASSUME NEW i \in 1 .. Len(l), NEW j \in 1 .. Len(l), i # j
               PROVE  l[i] # l[j]
    OBVIOUS
  <2>1. i < j \/ j < i
    BY <1>1
  <2> QED BY <2>1 DEF Ord
<1>3. ASSUME NEW i \in 1 .. Len(m)
      PROVE  \E k \in 1 .. Len(l) : k # p /\ m[i] = l[k] /\ k = IF i < p THEN i ELSE i + 1
  <2>1. CASE i < p
    BY <2>1, <1>1
  <2>2. CASE i >= p
    <3>1. i + 1 \in 1 .. Len(l) /\ i + 1 # p /\ m[i] = l[i + 1] /\ ~(i < p)
      BY <2>2, <1>1
    <3> QED BY <3>1
  <2>3. i < p \/ i >= p
    BY <1>1
  <2> QED BY <2>1, <2>2, <2>3
<1>4. ASSUME NEW x \in ToSet(m) PROVE x \in ToSet(l) \ {l[p]}
  <2>1. PICK i \in 1 .. Len(m) : m[i] = x
    BY ListMembers
  <2>2. PICK k \in 1 .. Len(l) : k # p /\ x = l[k]
    BY <2>1, <1>3
  <2> QED BY <2>2, <1>1, <1>2
<1>5. ASSUME NEW x \in ToSet(l), x # l[p] PROVE x \in ToSet(m)
  <2>1. PICK k \in 1 .. Len(l) : l[k] = x
    BY ListMembers
  <2>2. CASE k < p
    <3>1. k \in 1 .. Len(m) /\ m[k] = x
      BY <2>1, <2>2, <1>1
    <3> QED BY <3>1, ListMembers
  <2>3. CASE k > p
    <3>1. k - 1 \in 1 .. Len(m) /\ ~(k - 1 < p) /\ (k - 1) + 1 = k
      BY <2>3, <1>1
    <3>2. m[k - 1] = x
      BY <3>1, <2>1
    <3> QED BY <3>1, <3>2, ListMembers
  <2>4. k < p \/ k > p
    <3>1. k # p
      BY <2>1, <1>5
    <3> QED BY <3>1, <1>1
  <2> QED BY <2>2, <2>3, <2>4
<1>6. Ord(m, v)
  <2> SUFFICES ASSUME NEW i \in 1 .. Len(m), NEW j \in 1 .. Len(m), i < j
               PROVE  m[i] # m[j] /\ v[m[i]] <= v[m[j]]
    BY DEF Ord
  <2>1. PICK h \in 1 .. Len(l) : m[i] = l[h] /\ h = IF i < p THEN i ELSE i + 1
    BY <1>3
  <2>2. PICK k \in 1 .. Len(l) : m[j] = l[k] /\ k = IF j < p THEN j ELSE j + 1
    BY <1>3
  <2>3. h < k
    BY <2>1, <2>2, <1>1
  <2> QED BY <2>1, <2>2, <2>3 DEF Ord
<1> QED BY <1>4, <1>5, <1>6

LEMMA Removal ==
  ASSUME NEW l \in Seq(Timer), NEW v, Ord(l, v), NEW t
  PROVE  /\ RemoveFirst(l, t) \in Seq(Timer) /\ ToSet(RemoveFirst(l, t)) = ToSet(l) \ {t}
         /\ Ord(RemoveFirst(l, t), v)
<1> DEFINE I == {i \in 1 .. Len(l) : l[i] = t}
<1>1. Len(l) \in Nat
  BY ListMembers
<1>2. CASE ~ \E i \in 1 .. Len(l) : l[i] = t
  <2>1. t \notin ToSet(l)
    BY <1>2, ListMembers
  <2>2. RemoveFirst(l, t) = l
    BY <1>2 DEF RemoveFirst
  <2> QED BY <2>1, <2>2
<1>3. CASE \E i \in 1 .. Len(l) : l[i] = t
  <2>1. I \in SUBSET Nat /\ I # {}
    BY <1>3, <1>1
  <2>2. Min(I) \in I
    BY <2>1, MinIsLeast
  <2>3. SelectInSeq(l, LAMBDA u : u = t) = Min(I)
    BY <2>1 DEF SelectInSeq
  <2>4. PICK p \in 1 .. Len(l) : p = Min(I) /\ l[p] = t
    BY <2>2
  <2>5. RemoveFirst(l, t) = RemoveAt(l, p)
    BY <2>3, <2>4, <1>3 DEF RemoveFirst
  <2>6. PICK m \in Seq(Timer) :
          /\ m = RemoveAt(l, p) /\ Len(m) = Len(l) - 1
          /\ \A i \in 1 .. Len(l) - 1 : m[i] = IF i < p THEN l[i] ELSE l[i + 1]
    BY RemovedAt
  <2>7. ToSet(m) = ToSet(l) \ {l[p]} /\ Ord(m, v)
    BY <2>6, Without
  <2> QED BY <2>4, <2>5, <2>6, <2>7
<1> QED BY <1>2, <1>3

LEMMA FirstGone ==
  ASSUME NEW l \in Seq(Timer), NEW v, Ord(l, v), l # <<>>
  PROVE  /\ Head(l) \in Timer /\ Head(l) \in ToSet(l) /\ Tail(l) \in Seq(Timer)
         /\ ToSet(Tail(l)) = ToSet(l) \ {Head(l)} /\ Ord(Tail(l), v)
<1>1. Len(l) \in Nat /\ Len(l) # 0 /\ \A i \in 1 .. Len(l) : l[i] \in Timer /\ l[i] \in ToSet(l)
  BY ListMembers, EmptySeq
<1>2. Head(l) = l[1] /\ 1 \in 1 .. Len(l)
  BY <1>1, HeadTailProperties
<1>3. PICK m \in Seq(Timer) : m = Tail(l) /\ Len(m) = Len(l) - 1
                              /\ \A i \in 1 .. Len(m) : m[i] = l[i + 1]
  BY HeadTailProperties
<1>4. PICK p \in 1 .. Len(l) : p = 1
  BY <1>2
<1>5. \A i \in 1 .. Len(l) - 1 : m[i] = IF i < p THEN l[i] ELSE l[i + 1]
  BY <1>1, <1>3, <1>4
<1>6. Len(m) = Len(l) - 1
  BY <1>3
<1>7. ToSet(m) = ToSet(l) \ {l[p]} /\ Ord(m, v)
  <2>1. m \in Seq(Timer)
    BY <1>3
  <2> QED BY <2>1, <1>5, <1>6, Without, Zenon
<1> QED BY <1>1, <1>2, <1>3, <1>4, <1>7
-----------------------------------------------------------------------------
(* The state: what the steps do to the lists and to the queue.             *)

LEMMA Numbers ==
  /\ TickMod \in Nat /\ TickMod > 2 /\ 0 \in Time
  /\ \A i \in Int : i % TickMod \in Time
  /\ \A p \in Periods : p \in Nat
  BY TimersAssumption DEF Time

LEMMA Limits == QueueLength \in Nat /\ Room \in Nat /\ Lag \in Nat
  BY TimersAssumption

LEMMA NoTimer ==
  ASSUME cmd \in Commands \cup {NoCommand}
  PROVE  /\ NoCommand.timer = None /\ NoCommand.id = None
         /\ None \notin Timer /\ None \notin Ids
         /\ cmd # NoCommand => cmd.timer \in Timer /\ cmd.id \in Ids /\ cmd.time \in Time
         /\ cmd.timer \in Timer => cmd # NoCommand
         /\ cmd.id \in Ids => cmd # NoCommand
  BY TimersAssumption DEF None, NoCommand, Commands, Ids

ListTypes ==
  /\ value \in [Timer -> Time] /\ current \in Seq(Timer) /\ overflow \in Seq(Timer)

\* After a step only t may have changed its place: it is in the current list if
\* c holds, in the overflow list if o holds, and its expiry time is v.
Moves(t, c, o, v) ==
  /\ ListTypes' /\ Lists' /\ value' = [value EXCEPT ![t] = v]
  /\ \A u : u \in ToSet(current') <=> (IF u = t THEN c ELSE u \in ToSet(current))
  /\ \A u : u \in ToSet(overflow') <=> (IF u = t THEN o ELSE u \in ToSet(overflow))

LEMMA MovesLists ==
  ASSUME NEW t, NEW c, NEW o, NEW v, Moves(t, c, o, v)
  PROVE  /\ ListTypes' /\ Lists'
         /\ \A u : (Listed(u))' <=> (IF u = t THEN c \/ o ELSE Listed(u))
  BY DEF Moves, Listed

LEMMA SameLists ==
  ASSUME ListTypes, Lists, UNCHANGED lists
  PROVE  ListTypes' /\ Lists' /\ \A u : (Listed(u))' <=> Listed(u)
  BY DEF ListTypes, Lists, Listed, InOrder, lists

LEMMA TakenOut ==
  ASSUME ListTypes, Lists, NEW t \in Timer, NEW v \in Time,
         value' = [value EXCEPT ![t] = v],
         current' = RemoveFirst(current, t), overflow' = RemoveFirst(overflow, t)
  PROVE  Moves(t, FALSE, FALSE, v)
<1>1. Ord(current, value) /\ Ord(overflow, value)
  BY DEF Lists, InOrder, Ord
<1>2. /\ RemoveFirst(current, t) \in Seq(Timer) /\ RemoveFirst(overflow, t) \in Seq(Timer)
      /\ ToSet(RemoveFirst(current, t)) = ToSet(current) \ {t}
      /\ ToSet(RemoveFirst(overflow, t)) = ToSet(overflow) \ {t}
      /\ Ord(RemoveFirst(current, t), value) /\ Ord(RemoveFirst(overflow, t), value)
  BY <1>1, Removal DEF ListTypes
<1>3. /\ current' \in Seq(Timer) /\ overflow' \in Seq(Timer)
      /\ ToSet(current') = ToSet(current) \ {t} /\ ToSet(overflow') = ToSet(overflow) \ {t}
      /\ Ord(current', value) /\ Ord(overflow', value)
  BY <1>2
<1>4. value' \in [Timer -> Time] /\ \A u \in Timer \ {t} : value'[u] = value[u]
  BY DEF ListTypes
<1>5. \A u \in ToSet(current') \cup ToSet(overflow') : u \in Timer
  BY <1>3, ListMembers
<1>6. Ord(current', value')
  BY <1>3, <1>4, <1>5, OrdElsewhere
<1>7. Ord(overflow', value')
  BY <1>3, <1>4, <1>5, OrdElsewhere
<1> QED BY <1>3, <1>4, <1>6, <1>7 DEF Moves, ListTypes, Lists, Listed, InOrder, Ord

\* t, which is not listed, goes into the current or the overflow list.
LEMMA PutIn ==
  ASSUME ListTypes, Lists, NEW t \in Timer, t \notin ToSet(overflow), NEW v \in Time,
         value' = [value EXCEPT ![t] = v],
         NEW c \in Seq(Timer), Ord(c, value), ToSet(c) \cap ToSet(overflow) = {},
         t \notin ToSet(c), NEW n, NEW o,
         current' = IF n THEN Insert(c, t, v) ELSE c,
         overflow' = IF o THEN Insert(overflow, t, v) ELSE overflow,
         ~(n /\ o)
  PROVE  /\ ListTypes' /\ Lists'
         /\ ToSet(current') = IF n THEN ToSet(c) \cup {t} ELSE ToSet(c)
         /\ ToSet(overflow') = IF o THEN ToSet(overflow) \cup {t} ELSE ToSet(overflow)
<1>1. Ord(overflow, value) /\ t \notin ToSet(overflow)
  BY DEF Lists, InOrder, Ord, Listed
<1>2. TickMod \in Nat /\ value \in [Timer -> Time] /\ overflow \in Seq(Timer)
  BY Numbers DEF ListTypes
<1>3. /\ Insert(c, t, v) \in Seq(Timer) /\ ToSet(Insert(c, t, v)) = ToSet(c) \cup {t}
      /\ Ord(Insert(c, t, v), value')
  BY <1>2, Insertion
<1>4. /\ Insert(overflow, t, v) \in Seq(Timer)
      /\ ToSet(Insert(overflow, t, v)) = ToSet(overflow) \cup {t}
      /\ Ord(Insert(overflow, t, v), value')
  BY <1>1, <1>2, Insertion
<1>5. value' \in [Timer -> Time] /\ \A u \in Timer \ {t} : value'[u] = value[u]
  BY <1>2
<1>6. \A u \in ToSet(c) \cup ToSet(overflow) : u \in Timer /\ u # t
  BY <1>1, <1>2, ListMembers
<1>7. Ord(c, value') /\ Ord(overflow, value')
  <2>1. \A u \in ToSet(c) : value'[u] = value[u]
    BY <1>5, <1>6
  <2>2. \A u \in ToSet(overflow) : value'[u] = value[u]
    BY <1>5, <1>6
  <2>3. Ord(c, value')
    BY <2>1, OrdElsewhere
  <2>4. Ord(overflow, value')
    BY <2>2, <1>1, <1>2, OrdElsewhere
  <2> QED BY <2>3, <2>4
<1>8. /\ current' \in Seq(Timer) /\ Ord(current', value')
      /\ ToSet(current') = IF n THEN ToSet(c) \cup {t} ELSE ToSet(c)
  BY <1>3, <1>7
<1>9. /\ overflow' \in Seq(Timer) /\ Ord(overflow', value')
      /\ ToSet(overflow') = IF o THEN ToSet(overflow) \cup {t} ELSE ToSet(overflow)
  BY <1>4, <1>7, <1>2
<1>10. ToSet(current') \cap ToSet(overflow') = {}
  BY <1>8, <1>9, <1>6
<1> QED BY <1>5, <1>8, <1>9, <1>10 DEF ListTypes, Lists, InOrder, Ord

LEMMA Activation ==
  ASSUME ListTypes, Lists, NEW t \in Timer, t \notin ToSet(overflow), NEW next \in Time,
         NEW time \in Time, NEW from, InsertTimerInActiveList(t, next, time, from)
  PROVE  LET kept == ~ExpiredAlready(t, next, time, from)
         IN  Moves(t, kept /\ next > time, kept /\ next <= time, next)
<1>1. Ord(current, value) /\ current \in Seq(Timer)
  BY DEF Lists, InOrder, Ord, ListTypes
<1>2. PICK c \in Seq(Timer) : c = RemoveFirst(current, t) /\ ToSet(c) = ToSet(current) \ {t}
                              /\ Ord(c, value)
  BY <1>1, Removal
<1>3. PICK kept \in BOOLEAN : kept = ~ExpiredAlready(t, next, time, from)
  BY DEF ExpiredAlready
<1>4. /\ value' = [value EXCEPT ![t] = next]
      /\ current' = IF kept /\ next > time THEN Insert(c, t, next) ELSE c
      /\ overflow' = IF kept /\ next <= time THEN Insert(overflow, t, next) ELSE overflow
  BY <1>2, <1>3 DEF InsertTimerInActiveList
<1>5. ToSet(c) \cap ToSet(overflow) = {} /\ t \notin ToSet(c)
  BY <1>2 DEF Lists
<1>6. ~((kept /\ next > time) /\ (kept /\ next <= time))
  BY DEF Time
<1>7. /\ ListTypes' /\ Lists'
      /\ ToSet(current') = IF kept /\ next > time THEN ToSet(c) \cup {t} ELSE ToSet(c)
      /\ ToSet(overflow') = IF kept /\ next <= time THEN ToSet(overflow) \cup {t}
                                                  ELSE ToSet(overflow)
  BY <1>2, <1>4, <1>5, <1>6, PutIn
<1>8. /\ \A u : u \in ToSet(current')
                  <=> (IF u = t THEN kept /\ next > time ELSE u \in ToSet(current))
      /\ \A u : u \in ToSet(overflow')
                  <=> (IF u = t THEN kept /\ next <= time ELSE u \in ToSet(overflow))
  BY <1>2, <1>7
<1> QED BY <1>3, <1>4, <1>7, <1>8 DEF Moves

\* prvSwitchTimerLists puts a timer that starts again into this round or
\* gives it up for a reload.
Again(t) == t \in AutoReload /\ (value[t] + period[t]) % TickMod > value[t]

LEMMA SwitchMoves ==
  ASSUME ListTypes, Lists, SwitchExpired, period \in [Timer -> Periods]
  PROVE  Head(current) \in Timer /\ Listed(Head(current))
         /\ Moves(Head(current), Again(Head(current)), FALSE,
                  IF Again(Head(current))
                    THEN (value[Head(current)] + period[Head(current)]) % TickMod ELSE 0)
<1> DEFINE h == Head(current)
           next == (value[h] + period[h]) % TickMod
<1>1. Ord(current, value) /\ current \in Seq(Timer) /\ current # <<>>
  BY DEF Lists, InOrder, Ord, ListTypes, SwitchExpired
<1>2. /\ h \in Timer /\ h \in ToSet(current) /\ Tail(current) \in Seq(Timer)
      /\ ToSet(Tail(current)) = ToSet(current) \ {h} /\ Ord(Tail(current), value)
  BY <1>1, FirstGone
<1>3. h \notin ToSet(overflow)
  BY <1>2 DEF Lists
<1>4. Again(h) \in BOOLEAN /\ next \in Time
  <2>1. value[h] \in Time /\ period[h] \in Nat
    BY <1>2, Numbers DEF ListTypes
  <2>2. value[h] + period[h] \in Int
    BY <2>1 DEF Time
  <2> QED BY <2>2, Numbers DEF Again
<1>5. /\ current' = IF Again(h) THEN Insert(Tail(current), h, next) ELSE Tail(current)
      /\ value' = [value EXCEPT ![h] = IF Again(h) THEN next ELSE 0]
      /\ overflow' = overflow
  BY DEF SwitchExpired, Again
<1> HIDE DEF h, next
<1>6. ToSet(Tail(current)) \cap ToSet(overflow) = {} /\ h \notin ToSet(Tail(current))
  BY <1>2 DEF Lists
<1>7. PICK c \in Seq(Timer) : c = Tail(current)
  BY <1>2
<1>8. PICK v \in Time : v = IF Again(h) THEN next ELSE 0
  BY <1>4, Numbers
<1>9. /\ value' = [value EXCEPT ![h] = v]
      /\ current' = IF Again(h) THEN Insert(c, h, v) ELSE c
      /\ overflow' = IF FALSE THEN Insert(overflow, h, v) ELSE overflow
  BY <1>5, <1>7, <1>8
<1>10. /\ ListTypes' /\ Lists'
       /\ ToSet(current') = IF Again(h) THEN ToSet(c) \cup {h} ELSE ToSet(c)
       /\ ToSet(overflow') = IF FALSE THEN ToSet(overflow) \cup {h} ELSE ToSet(overflow)
  <2>1. /\ h \in Timer /\ Ord(c, value) /\ ToSet(c) \cap ToSet(overflow) = {}
        /\ h \notin ToSet(c) /\ ~(Again(h) /\ FALSE)
    BY <1>2, <1>6, <1>7
  <2> QED BY <2>1, <1>3, <1>9, PutIn
<1>11. /\ \A u : u \in ToSet(current') <=> (IF u = h THEN Again(h) ELSE u \in ToSet(current))
       /\ \A u : u \in ToSet(overflow') <=> (IF u = h THEN FALSE ELSE u \in ToSet(overflow))
  BY <1>2, <1>3, <1>7, <1>10
<1>12. Moves(h, Again(h), FALSE, v)
  BY <1>9, <1>10, <1>11 DEF Moves
<1>13. Listed(h)
  BY <1>2 DEF Listed
<1> QED BY <1>2, <1>8, <1>12, <1>13 DEF h, next

LEMMA ChangeMoves ==
  ASSUME ListTypes, Lists, NEW t \in Timer, ~Listed(t), NEW v \in Time, now \in Time,
         value' = [value EXCEPT ![t] = v],
         current' = IF v > now THEN Insert(current, t, v) ELSE current,
         overflow' = IF v <= now THEN Insert(overflow, t, v) ELSE overflow
  PROVE  Moves(t, v > now, v <= now, v)
<1>1. Ord(current, value) /\ current \in Seq(Timer)
  BY DEF Lists, InOrder, Ord, ListTypes
<1>2. t \notin ToSet(current) /\ t \notin ToSet(overflow)
      /\ ToSet(current) \cap ToSet(overflow) = {}
  BY DEF Lists, Listed
<1>3. ~(v > now /\ v <= now)
  BY DEF Time
<1>4. /\ ListTypes' /\ Lists'
      /\ ToSet(current') = IF v > now THEN ToSet(current) \cup {t} ELSE ToSet(current)
      /\ ToSet(overflow') = IF v <= now THEN ToSet(overflow) \cup {t} ELSE ToSet(overflow)
  BY <1>1, <1>2, <1>3, PutIn
<1> QED BY <1>2, <1>4 DEF Moves

\* A timer that has come due and starts again.
LEMMA ExpiryMoves ==
  ASSUME ListTypes, Lists, tick \in Time, NextExpired, period \in [Timer -> Periods]
  PROVE  /\ Head(current) \in Timer /\ Listed(Head(current)) /\ value[Head(current)] \in Time
         /\ Head(current) \in ToSet(current)
         /\ Head(current) \in AutoReload =>
              LET t    == Head(current)
                  next == (value[t] + period[t]) % TickMod
                  kept == ~ExpiredAlready(t, next, tick, value[t])
              IN  Moves(t, kept /\ next > tick, kept /\ next <= tick, next)
         /\ Head(current) \notin AutoReload => Moves(Head(current), FALSE, FALSE, 0)
<1> DEFINE h == Head(current)
           next == (value[h] + period[h]) % TickMod
<1>1. Ord(current, value) /\ current \in Seq(Timer) /\ current # <<>>
  BY DEF Lists, InOrder, Ord, ListTypes, NextExpired, Due
<1>2. /\ h \in Timer /\ h \in ToSet(current) /\ Tail(current) \in Seq(Timer)
      /\ ToSet(Tail(current)) = ToSet(current) \ {h} /\ Ord(Tail(current), value)
  BY <1>1, FirstGone
<1>3. h \notin ToSet(overflow) /\ Listed(h)
  BY <1>2 DEF Lists, Listed
<1>4. value[h] \in Time /\ period[h] \in Nat /\ next \in Time
  <2>1. value[h] \in Time /\ period[h] \in Nat
    BY <1>2, Numbers DEF ListTypes
  <2>2. value[h] + period[h] \in Int
    BY <2>1 DEF Time
  <2> QED BY <2>1, <2>2, Numbers
<1>5. ASSUME h \in AutoReload PROVE InsertTimerInActiveList(h, next, tick, value[h])
  BY <1>5 DEF NextExpired
<1>6. ASSUME h \notin AutoReload
      PROVE  current' = Tail(current) /\ value' = [value EXCEPT ![h] = 0]
             /\ overflow' = overflow
  BY <1>6 DEF NextExpired
<1> HIDE DEF h, next
<1>7. ASSUME h \in AutoReload, NEW kept, kept = ~ExpiredAlready(h, next, tick, value[h])
      PROVE  Moves(h, kept /\ next > tick, kept /\ next <= tick, next)
  BY <1>2, <1>3, <1>4, <1>5, <1>7, Activation
<1>8. ASSUME h \notin AutoReload PROVE Moves(h, FALSE, FALSE, 0)
  <2>1. PICK c \in Seq(Timer) : c = Tail(current)
    BY <1>2
  <2>2. /\ Ord(c, value) /\ ToSet(c) \cap ToSet(overflow) = {} /\ h \notin ToSet(c)
        /\ 0 \in Time /\ ~(FALSE /\ FALSE)
    BY <1>2, <2>1, Numbers DEF Lists
  <2>3. /\ value' = [value EXCEPT ![h] = 0]
        /\ current' = IF FALSE THEN Insert(c, h, 0) ELSE c
        /\ overflow' = IF FALSE THEN Insert(overflow, h, 0) ELSE overflow
    BY <2>1, <1>6, <1>8
  <2>4. /\ ListTypes' /\ Lists'
        /\ ToSet(current') = IF FALSE THEN ToSet(c) \cup {h} ELSE ToSet(c)
        /\ ToSet(overflow') = IF FALSE THEN ToSet(overflow) \cup {h} ELSE ToSet(overflow)
    BY <1>2, <1>3, <2>2, <2>3, PutIn
  <2> QED BY <1>2, <1>3, <2>1, <2>3, <2>4 DEF Moves
<1> QED BY <1>2, <1>3, <1>4, <1>7, <1>8 DEF h, next

LEMMA Appended ==
  ASSUME queue \in Seq(Word), NEW c \in Word, queue' = Append(queue, c)
  PROVE  /\ queue' \in Seq(Word) /\ Len(queue) \in Nat /\ Len(queue') = Len(queue) + 1
         /\ \A i \in 1 .. Len(queue) : queue'[i] = queue[i]
         /\ queue'[Len(queue) + 1] = c
         /\ \A u : (Queued(u))' <=> (Queued(u) \/ u = c.timer)
<1>1. /\ queue' \in Seq(Word) /\ Len(queue) \in Nat /\ Len(queue') = Len(queue) + 1
      /\ \A i \in 1 .. Len(queue) : queue'[i] = queue[i]
      /\ queue'[Len(queue) + 1] = c
  BY AppendProperties, LenProperties
<1>2. ASSUME NEW u PROVE (Queued(u))' <=> (Queued(u) \/ u = c.timer)
  <2>1. ASSUME NEW i \in 1 .. Len(queue'), queue'[i].timer = u
        PROVE  Queued(u) \/ u = c.timer
    <3>1. i \in 1 .. Len(queue) \/ i = Len(queue) + 1
      BY <1>1
    <3> QED BY <3>1, <2>1, <1>1 DEF Queued
  <2>2. ASSUME NEW i \in 1 .. Len(queue), queue[i].timer = u PROVE (Queued(u))'
    <3>1. i \in 1 .. Len(queue') /\ queue'[i].timer = u
      BY <2>2, <1>1
    <3> QED BY <3>1 DEF Queued
  <2>3. (Queued(c.timer))'
    <3>1. Len(queue) + 1 \in 1 .. Len(queue')
      BY <1>1
    <3> QED BY <3>1, <1>1 DEF Queued
  <2> QED BY <2>1, <2>2, <2>3 DEF Queued
<1> QED BY <1>1, <1>2

LEMMA Taken ==
  ASSUME queue \in Seq(Word), queue # <<>>, queue' = Tail(queue)
  PROVE  /\ queue' \in Seq(Word) /\ Len(queue') \in Nat /\ Len(queue) = Len(queue') + 1
         /\ Head(queue) \in Word /\ Head(queue) = queue[1]
         /\ \A i \in 1 .. Len(queue') : queue'[i] = queue[i + 1]
         /\ \A u : Queued(u) <=> ((Queued(u))' \/ u = Head(queue).timer)
<1>1. /\ queue' \in Seq(Word) /\ Len(queue') \in Nat /\ Len(queue) = Len(queue') + 1
      /\ Head(queue) \in Word /\ Head(queue) = queue[1]
      /\ \A i \in 1 .. Len(queue') : queue'[i] = queue[i + 1]
  <2>1. Len(queue) \in Nat \ {0}
    BY EmptySeq
  <2>2. /\ Head(queue) \in Word /\ Tail(queue) \in Seq(Word)
        /\ Len(Tail(queue)) = Len(queue) - 1
        /\ \A i \in 1 .. Len(Tail(queue)) : Tail(queue)[i] = queue[i + 1]
    BY HeadTailProperties
  <2>3. Head(queue) = queue[1]
    BY <2>1
  <2> QED BY <2>1, <2>2, <2>3
<1>2. ASSUME NEW u PROVE Queued(u) <=> ((Queued(u))' \/ u = Head(queue).timer)
  <2>1. ASSUME NEW i \in 1 .. Len(queue), queue[i].timer = u
        PROVE  (Queued(u))' \/ u = Head(queue).timer
    <3>1. CASE i = 1
      BY <3>1, <2>1, <1>1
    <3>2. CASE i # 1
      <4>1. i - 1 \in 1 .. Len(queue') /\ (i - 1) + 1 = i
        BY <3>2, <1>1
      <4>2. queue'[i - 1].timer = u
        BY <4>1, <2>1, <1>1
      <4> QED BY <4>1, <4>2 DEF Queued
    <3> QED BY <3>1, <3>2
  <2>2. ASSUME NEW i \in 1 .. Len(queue'), queue'[i].timer = u PROVE Queued(u)
    <3>1. i + 1 \in 1 .. Len(queue) /\ queue[i + 1].timer = u
      BY <2>2, <1>1
    <3> QED BY <3>1 DEF Queued
  <2>3. Queued(Head(queue).timer)
    <3>1. 1 \in 1 .. Len(queue)
      BY <1>1
    <3> QED BY <3>1, <1>1 DEF Queued
  <2> QED BY <2>1, <2>2, <2>3 DEF Queued
<1> QED BY <1>1, <1>2

LEMMA DeletionsAppended ==
  ASSUME queue \in Seq(Word), NEW c \in Word, queue' = Append(queue, c), Deletions,
         c.id = "delete" => c.timer \in Deletable,
         \A i \in 1 .. Len(queue) : queue[i].id = "delete" => queue[i].timer # c.timer
  PROVE  Deletions'
<1>1. /\ Len(queue) \in Nat /\ Len(queue') = Len(queue) + 1
      /\ \A i \in 1 .. Len(queue) : queue'[i] = queue[i]
      /\ queue'[Len(queue) + 1] = c
  BY Appended
<1> SUFFICES ASSUME NEW i \in 1 .. Len(queue'), queue'[i].id = "delete"
             PROVE  /\ queue'[i].timer \in Deletable
                    /\ \A j \in i + 1 .. Len(queue') : queue'[j].timer # queue'[i].timer
  BY DEF Deletions
<1>2. CASE i \in 1 .. Len(queue)
  <2>1. queue[i].id = "delete" /\ queue'[i] = queue[i]
    BY <1>1, <1>2
  <2>2. /\ queue[i].timer \in Deletable
        /\ \A j \in i + 1 .. Len(queue) : queue[j].timer # queue[i].timer
    BY <1>2, <2>1 DEF Deletions
  <2>3. ASSUME NEW j \in i + 1 .. Len(queue') PROVE queue'[j].timer # queue[i].timer
    <3>1. (j \in i + 1 .. Len(queue) /\ j \in 1 .. Len(queue)) \/ j = Len(queue) + 1
      BY <1>1
    <3> QED BY <3>1, <2>1, <2>2, <1>1, <1>2
  <2> QED BY <2>1, <2>2, <2>3
<1>3. CASE i = Len(queue) + 1
  BY <1>1, <1>3
<1> QED BY <1>1, <1>2, <1>3

LEMMA DeletionsTaken ==
  ASSUME queue \in Seq(Word), queue # <<>>, queue' = Tail(queue), Deletions
  PROVE  /\ Deletions'
         /\ Head(queue).id = "delete" =>
              /\ Head(queue).timer \in Deletable
              /\ \A i \in 1 .. Len(queue') : queue'[i].timer # Head(queue).timer
<1>1. /\ Len(queue') \in Nat /\ Len(queue) = Len(queue') + 1 /\ Head(queue) = queue[1]
      /\ \A i \in 1 .. Len(queue') : queue'[i] = queue[i + 1]
  BY Taken
<1>2. Deletions'
  <2> SUFFICES ASSUME NEW i \in 1 .. Len(queue'), queue'[i].id = "delete"
               PROVE  /\ queue'[i].timer \in Deletable
                      /\ \A j \in i + 1 .. Len(queue') : queue'[j].timer # queue'[i].timer
    BY DEF Deletions
  <2>1. i + 1 \in 1 .. Len(queue) /\ queue'[i] = queue[i + 1]
    BY <1>1
  <2>2. ASSUME NEW j \in i + 1 .. Len(queue')
        PROVE  j + 1 \in (i + 1) + 1 .. Len(queue) /\ queue'[j] = queue[j + 1]
    BY <1>1
  <2> QED BY <2>1, <2>2 DEF Deletions
<1>3. ASSUME Head(queue).id = "delete"
      PROVE  /\ Head(queue).timer \in Deletable
             /\ \A i \in 1 .. Len(queue') : queue'[i].timer # Head(queue).timer
  <2>1. 1 \in 1 .. Len(queue)
    BY <1>1
  <2>2. /\ queue[1].timer \in Deletable
        /\ \A j \in 1 + 1 .. Len(queue) : queue[j].timer # queue[1].timer
    BY <2>1, <1>1, <1>3 DEF Deletions
  <2>3. \A i \in 1 .. Len(queue') : i + 1 \in 1 + 1 .. Len(queue)
    BY <1>1
  <2>4. \A i \in 1 .. Len(queue') : queue'[i].timer # Head(queue).timer
    BY <2>2, <2>3, <1>1
  <2> QED BY <2>2, <2>4, <1>1
<1> QED BY <1>2, <1>3

LEMMA HeldCounts ==
  ASSUME Headroom
  PROVE  /\ IsFiniteSet(Held) /\ Cardinality(Held) \in Nat
         /\ IsFiniteSet(Held') /\ Cardinality(Held') \in Nat /\ Cardinality(Held') <= Room
<1>1. Held \subseteq AutoReload /\ Held' \subseteq AutoReload
  BY DEF Held
<1>2. IsFiniteSet(Held) /\ IsFiniteSet(Held') /\ Cardinality(Held') <= Cardinality(AutoReload)
  BY <1>1, FS_Subset DEF Headroom
<1>3. Cardinality(Held) \in Nat /\ Cardinality(Held') \in Nat /\ Cardinality(AutoReload) \in Nat
  BY <1>2, FS_CardinalityType DEF Headroom
<1> QED BY <1>2, <1>3, Limits DEF Headroom

LEMMA HeldGrows ==
  ASSUME Headroom, NEW x, Held' \subseteq Held \cup {x}
  PROVE  Cardinality(Held') <= Cardinality(Held) + 1
<1>1. IsFiniteSet(Held \cup {x}) /\ Cardinality(Held \cup {x}) <= Cardinality(Held) + 1
      /\ Cardinality(Held \cup {x}) \in Nat
  <2>1. IsFiniteSet(Held) /\ Cardinality(Held) \in Nat
    BY HeldCounts
  <2>2. IsFiniteSet(Held \cup {x})
    BY <2>1, FS_AddElement
  <2>3. Cardinality(Held \cup {x}) =
          IF x \in Held THEN Cardinality(Held) ELSE Cardinality(Held) + 1
    BY <2>1, FS_AddElement
  <2> QED BY <2>1, <2>2, <2>3
<1>2. Cardinality(Held') <= Cardinality(Held \cup {x})
  BY <1>1, FS_Subset
<1> QED BY <1>1, <1>2, HeldCounts

LEMMA HeldStays ==
  ASSUME Headroom, Held' \subseteq Held
  PROVE  Cardinality(Held') <= Cardinality(Held)
  BY HeldCounts, FS_Subset

LEMMA HeldShrinks ==
  ASSUME Headroom, NEW x \in Held, Held' \subseteq Held \ {x}
  PROVE  Cardinality(Held') <= Cardinality(Held) - 1
<1>1. IsFiniteSet(Held \ {x}) /\ Cardinality(Held \ {x}) = Cardinality(Held) - 1
  BY HeldCounts, FS_RemoveElement
<1> QED BY <1>1, FS_Subset
-----------------------------------------------------------------------------
(* The books: which timer is in a list, in the daemon's hands or in the    *)
(* queue.                                                                  *)

LEMMA SameBooks ==
  ASSUME Books, \A u : (Listed(u))' <=> Listed(u), UNCHANGED <<active, freed, queue, cmd>>
  PROVE  Books'
<1>1. Held' = Held
  BY DEF Held
<1>2. \A u : (Queued(u))' <=> Queued(u)
  BY DEF Queued
<1> QED BY <1>1, <1>2 DEF Books, Kept, RoomToReload, Gone, DeletionIsLast, Deletions

\* A task, an interrupt or a callback sends c.
LEMMA SendBooks ==
  ASSUME Headroom, Books, queue \in Seq(Word), NEW c \in Word, queue' = Append(queue, c),
         Len(queue) + Room < QueueLength, \A u : (Listed(u))' <=> Listed(u),
         UNCHANGED <<active, freed, cmd>>,
         c.timer \notin freed, c.id = "delete" => c.timer \in Deletable,
         \A i \in 1 .. Len(queue) : queue[i].id = "delete" => queue[i].timer # c.timer,
         cmd.id = "delete" => cmd.timer # c.timer
  PROVE  Books'
<1>1. /\ Len(queue) \in Nat /\ Len(queue') = Len(queue) + 1
      /\ \A u : (Queued(u))' <=> (Queued(u) \/ u = c.timer)
  BY Appended
<1>2. Kept'
  BY <1>1 DEF Books, Kept
<1>3. RoomToReload'
  <2>1. Cardinality(Held') \in Nat /\ Cardinality(Held') <= Room
    BY HeldCounts
  <2>2. Len(queue') + Cardinality(Held') <= QueueLength
    BY <1>1, <2>1, Limits
  <2> QED BY <2>2 DEF RoomToReload
<1>4. Gone'
  BY <1>1 DEF Books, Gone
<1>5. Deletions'
  BY DeletionsAppended DEF Books, DeletionIsLast
<1>6. DeletionIsLast'
  BY <1>1, <1>5 DEF Books, DeletionIsLast
<1> QED BY <1>2, <1>3, <1>4, <1>6 DEF Books

\* The daemon runs a function.
LEMMA CallBooks ==
  ASSUME Headroom, Books, queue \in Seq(Word), queue # <<>>, queue' = Tail(queue),
         Head(queue).timer \notin Timer, Deletable \subseteq Timer,
         \A u : (Listed(u))' <=> Listed(u), UNCHANGED <<active, freed, cmd>>,
         active \subseteq Timer
  PROVE  Books'
<1>1. /\ Len(queue') \in Nat /\ Len(queue) = Len(queue') + 1
      /\ \A u : Queued(u) <=> ((Queued(u))' \/ u = Head(queue).timer)
  BY Taken
<1>2. Kept'
  BY <1>1 DEF Books, Kept
<1>3. RoomToReload'
  <2>1. Held' = Held /\ Cardinality(Held) \in Nat
    BY HeldCounts DEF Held
  <2> QED BY <1>1, <2>1, Limits DEF Books, RoomToReload
<1>4. Gone'
  BY <1>1 DEF Books, Gone
<1>5. Deletions'
  BY DeletionsTaken DEF Books, DeletionIsLast
<1>6. DeletionIsLast'
  BY <1>1, <1>5 DEF Books, DeletionIsLast
<1> QED BY <1>2, <1>3, <1>4, <1>6 DEF Books

\* The daemon takes a command and its timer from the lists.
LEMMA TakeBooks ==
  ASSUME Headroom, Books, queue \in Seq(Word), queue # <<>>, queue' = Tail(queue),
         NEW c, c = Head(queue), cmd = NoCommand, cmd' = c, c.timer \in Timer,
         NEW v, Moves(c.timer, FALSE, FALSE, v), UNCHANGED <<active, freed>>, active \subseteq Timer
  PROVE  Books'
<1>1. /\ Len(queue') \in Nat /\ Len(queue) = Len(queue') + 1
      /\ \A u : Queued(u) <=> ((Queued(u))' \/ u = c.timer)
  BY Taken
<1>2. \A u : (Listed(u))' <=> (u # c.timer /\ Listed(u))
  <2>1. \A u : (Listed(u))' <=> (IF u = c.timer THEN FALSE \/ FALSE ELSE Listed(u))
    BY MovesLists
  <2> QED BY <2>1
<1>3. \A u \in Timer : u # cmd.timer
  BY TimersAssumption DEF NoCommand, None
<1>4. Kept'
  BY <1>1, <1>2, <1>3 DEF Books, Kept
<1>5. RoomToReload'
  <2>1. Held' \subseteq Held \cup {c.timer}
    BY <1>2 DEF Held
  <2>2. Cardinality(Held') <= Cardinality(Held) + 1
    BY <2>1, HeldGrows
  <2> QED BY <1>1, <2>2, Limits, HeldCounts DEF Books, RoomToReload
<1>6. Gone'
  BY <1>1, <1>2 DEF Books, Gone
<1>7. Deletions' /\ (c.id = "delete" => c.timer \in Deletable
        /\ \A i \in 1 .. Len(queue') : queue'[i].timer # c.timer)
  BY DeletionsTaken DEF Books, DeletionIsLast
<1>8. DeletionIsLast'
  BY <1>7 DEF DeletionIsLast, Queued
<1> QED BY <1>4, <1>5, <1>6, <1>8 DEF Books

\* A timer that has expired is put back, or reloaded, or it is done.
LEMMA ExpireBooks ==
  ASSUME Headroom, Books, queue \in Seq(Word), NEW t \in Timer, Listed(t), NEW p \in BOOLEAN,
         \A u : (Listed(u))' <=> (IF u = t THEN p ELSE Listed(u)), ~Listed(cmd.timer),
         NEW c \in Commands, c.timer = t, c.id = "reload",
         queue' = IF t \in AutoReload /\ ~p THEN Commanded(c) ELSE queue,
         active' \subseteq active, t \notin AutoReload => ~p, UNCHANGED <<freed, cmd>>
  PROVE  Books'
<1>1. \A u : (Listed(u))' <=> (IF u = t THEN p ELSE Listed(u))
  OBVIOUS
<1>2. cmd.timer # t /\ t \notin freed
  BY DEF Books, Gone
<1>3. CASE t \in AutoReload /\ ~p
  <2>1. t \in Held /\ Held' \subseteq Held \ {t}
    BY <1>1, <1>2, <1>3 DEF Held
  <2>2. Cardinality(Held') <= Cardinality(Held) - 1
    BY <2>1, HeldShrinks
  <2>3. Len(queue) \in Nat
    BY LenProperties
  <2>4. Len(queue) < QueueLength
    BY <2>2, <2>3, HeldCounts, Limits DEF Books, RoomToReload
  <2>5. queue' = Append(queue, c) /\ c \in Word
    BY <1>3, <2>4 DEF Commanded, Word
  <2>6. /\ Len(queue') = Len(queue) + 1
        /\ \A u : (Queued(u))' <=> (Queued(u) \/ u = t)
    BY <2>5, Appended
  <2>7. Kept'
    BY <1>1, <2>6 DEF Books, Kept
  <2>8. RoomToReload'
    BY <2>2, <2>3, <2>6, HeldCounts, Limits DEF Books, RoomToReload
  <2>9. Gone'
    BY <1>1, <1>2, <2>6 DEF Books, Gone
  <2>10. \A i \in 1 .. Len(queue) : queue[i].id = "delete" => queue[i].timer # c.timer
    BY <1>3 DEF Books, DeletionIsLast, Deletions, Headroom
  <2>11. Deletions'
    BY <2>5, <2>10, DeletionsAppended DEF Books, DeletionIsLast
  <2>12. DeletionIsLast'
    BY <1>2, <2>6, <2>11 DEF Books, DeletionIsLast
  <2> QED BY <2>7, <2>8, <2>9, <2>12 DEF Books
<1>4. CASE ~(t \in AutoReload /\ ~p)
  <2>1. queue' = queue /\ \A u : (Queued(u))' <=> Queued(u)
    BY <1>4 DEF Queued
  <2>2. Kept'
    BY <1>1, <1>4, <2>1 DEF Books, Kept
  <2>3. RoomToReload'
    <3>1. Held' \subseteq Held
      BY <1>1, <1>4 DEF Held
    <3>2. Cardinality(Held') <= Cardinality(Held)
      BY <3>1, HeldStays
    <3>3. Len(queue) \in Nat
      BY LenProperties
    <3> QED BY <2>1, <3>2, <3>3, HeldCounts, Limits DEF Books, RoomToReload
  <2>4. Gone'
    BY <1>1, <1>2, <2>1 DEF Books, Gone
  <2>5. DeletionIsLast'
    BY <2>1 DEF Books, DeletionIsLast, Deletions
  <2> QED BY <2>2, <2>3, <2>4, <2>5 DEF Books
<1> QED BY <1>3, <1>4

\* The timer of a command that the daemon has executed runs again.
LEMMA RunBooks ==
  ASSUME Headroom, Books, queue \in Seq(Word), NEW t \in Timer, t = cmd.timer,
         cmd.id # "delete", NEW p \in BOOLEAN, ~Listed(t),
         \A u : (Listed(u))' <=> (IF u = t THEN p ELSE Listed(u)), NEW c \in Commands,
         c.timer = t, c.id = "reload",
         queue' = IF t \in AutoReload /\ ~p THEN Commanded(c) ELSE queue,
         active' \subseteq active \cup {t}, freed' = freed, cmd' = NoCommand,
         ~Listed(None), freed \subseteq Timer
  PROVE  Books'
<1>1. \A u : (Listed(u))' <=> (IF u = t THEN p ELSE Listed(u))
  OBVIOUS
<1>2. t \notin freed /\ ~Listed(t)
  BY DEF Books, Gone
<1>3. NoCommand.timer = None /\ NoCommand.id = None /\ None \notin Timer /\ None # "delete"
  BY TimersAssumption DEF NoCommand, None
<1>4. \A u \in Timer : u # cmd'.timer
  BY <1>3
<1>5. freed \subseteq Timer => \A u \in freed : u # cmd'.timer
  BY <1>4
<1>6. CASE t \in AutoReload /\ ~p
  <2>1. t \in Held /\ Held' \subseteq Held \ {t}
    BY <1>1, <1>4, <1>6, TimersAssumption DEF Held
  <2>2. Cardinality(Held') <= Cardinality(Held) - 1
    BY <2>1, HeldShrinks
  <2>3. Len(queue) \in Nat
    BY LenProperties
  <2>4. Len(queue) < QueueLength
    BY <2>2, <2>3, HeldCounts, Limits DEF Books, RoomToReload
  <2>5. queue' = Append(queue, c) /\ c \in Word
    BY <1>6, <2>4 DEF Commanded, Word
  <2>6. /\ Len(queue') = Len(queue) + 1
        /\ \A u : (Queued(u))' <=> (Queued(u) \/ u = t)
    BY <2>5, Appended
  <2>7. Kept'
    BY <1>1, <2>6 DEF Books, Kept
  <2>8. RoomToReload'
    BY <2>2, <2>3, <2>6, HeldCounts, Limits DEF Books, RoomToReload
  <2>9. Gone'
    BY <1>1, <1>2, <1>5, <2>6 DEF Books, Gone
  <2>10. \A i \in 1 .. Len(queue) : queue[i].id = "delete" => queue[i].timer # c.timer
    BY <1>6 DEF Books, DeletionIsLast, Deletions, Headroom
  <2>11. Deletions'
    BY <2>5, <2>10, DeletionsAppended DEF Books, DeletionIsLast
  <2>12. DeletionIsLast'
    BY <1>3, <2>11 DEF DeletionIsLast
  <2> QED BY <2>7, <2>8, <2>9, <2>12 DEF Books
<1>7. CASE ~(t \in AutoReload /\ ~p)
  <2>1. queue' = queue /\ \A u : (Queued(u))' <=> Queued(u)
    BY <1>7 DEF Queued
  <2>2. Kept'
    BY <1>1, <1>7, <2>1 DEF Books, Kept
  <2>3. RoomToReload'
    <3>1. Held' \subseteq Held
      BY <1>1, <1>4, <1>7, TimersAssumption DEF Held
    <3>2. Cardinality(Held') <= Cardinality(Held)
      BY <3>1, HeldStays
    <3>3. Len(queue) \in Nat
      BY LenProperties
    <3> QED BY <2>1, <3>2, <3>3, HeldCounts, Limits DEF Books, RoomToReload
  <2>4. Gone'
    BY <1>1, <1>2, <1>5, <2>1 DEF Books, Gone
  <2>5. DeletionIsLast'
    BY <1>3, <2>1 DEF Books, DeletionIsLast, Deletions
  <2> QED BY <2>2, <2>3, <2>4, <2>5 DEF Books
<1> QED BY <1>6, <1>7

\* The daemon has stopped or deleted the timer of its command.
LEMMA EndBooks ==
  ASSUME Books, NEW t \in Timer, t = cmd.timer, UNCHANGED <<lists, queue>>,
         ~Listed(t), active' = active \ {t}, cmd' = NoCommand, ~Listed(None), freed \subseteq Timer,
         freed' = freed \/ (cmd.id = "delete" /\ freed' = freed \cup {t}),
         Headroom, queue \in Seq(Word)
  PROVE  Books'
<1>1. \A u : (Listed(u))' <=> Listed(u)
  BY DEF lists, Listed
<1>2. \A u : (Queued(u))' <=> Queued(u)
  BY DEF Queued
<1>3. NoCommand.timer = None /\ NoCommand.id = None /\ None \notin Timer /\ None # "delete"
  BY TimersAssumption DEF NoCommand, None
<1>4. Kept'
  BY <1>1, <1>2 DEF Books, Kept
<1>5. RoomToReload'
  <2>1. Held' \subseteq Held
    BY <1>1, <1>3, TimersAssumption DEF Held
  <2>2. Cardinality(Held') <= Cardinality(Held)
    BY <2>1, HeldStays
  <2>3. Len(queue') = Len(queue) /\ Len(queue) \in Nat
    BY LenProperties
  <2> QED BY <2>2, <2>3, HeldCounts, Limits DEF Books, RoomToReload
<1>6. Gone'
  BY <1>1, <1>2, <1>3 DEF Books, Gone, DeletionIsLast
<1>7. DeletionIsLast'
  BY <1>3 DEF Books, DeletionIsLast, Deletions
<1> QED BY <1>4, <1>5, <1>6, <1>7 DEF Books

-----------------------------------------------------------------------------
(* The steps.                                                              *)

LEMMA Parts ==
  ASSUME Basic
  PROVE  /\ TypeOK /\ ListTypes /\ Lists /\ Handed /\ ~Listed(cmd.timer)
         /\ queue \in Seq(Word) /\ Len(queue) \in Nat /\ cmd \in Commands \cup {NoCommand}
         /\ tick \in Time /\ last \in Time /\ now \in Time /\ period \in [Timer -> Periods]
         /\ active \subseteq Timer /\ freed \subseteq Timer /\ ~Listed(None)
<1>1. /\ TypeOK /\ ListTypes /\ Lists /\ Handed /\ ~Listed(cmd.timer)
      /\ queue \in Seq(Word) /\ cmd \in Commands \cup {NoCommand}
  BY DEF Basic, Handed, Types, ListTypes, TypeOK
<1>2. Len(queue) \in Nat
  BY <1>1, LenProperties
<1>3. ~Listed(None)
  <2>1. None \notin Timer
    BY TimersAssumption
  <2> QED BY <1>1, <2>1, ListMembers DEF ListTypes, Listed
<1>4. freed \subseteq Timer
  BY <1>1, TimersAssumption DEF TypeOK
<1> QED BY <1>1, <1>2, <1>3, <1>4 DEF TypeOK

\* What is left to show of a step.
LEMMA Assembled ==
  ASSUME TypeOK', ListTypes', Lists', Handed', queue' \in Seq(Word),
         cmd' \in Commands \cup {NoCommand}
  PROVE  Basic'
  BY DEF Basic, Types, ListTypes

LEMMA InitHolds == ASSUME Init PROVE Basic /\ Books
<1>1. Len(<<>>) = 0 /\ ToSet(<<>>) = {} /\ <<>> \in Seq(Timer) /\ <<>> \in Seq(Word)
  BY EmptySeq DEF ToSet
<1>2. TypeOK
  BY <1>1, Numbers, Limits DEF Init, TypeOK
<1>3. Types
  BY <1>1, <1>2 DEF Init, Types
<1>4. Lists
  BY <1>1 DEF Init, Lists, InOrder
<1>6. \A t : ~Listed(t)
  BY <1>1 DEF Init, Listed
<1>5. Handed
  BY <1>6 DEF Init, Handed
<1>7. Kept /\ Gone
  BY DEF Init, Kept, Gone
<1>8. Held = {}
  BY <1>6, TimersAssumption DEF Init, Held, NoCommand
<1>9. Cardinality(Held) = 0
  BY <1>8, FS_EmptySet
<1>10. RoomToReload
  BY <1>1, <1>9, Limits DEF Init, RoomToReload
<1>11. DeletionIsLast
  BY <1>1 DEF Init, DeletionIsLast, Deletions, NoCommand, None
<1> QED BY <1>3, <1>4, <1>5, <1>6, <1>7, <1>10, <1>11 DEF Basic, Books

Steady == Basic' /\ (Headroom /\ Books => Books')

\* Steps that leave the lists, the queue and the command alone.
LEMMA QuietSteady ==
  ASSUME Basic, UNCHANGED <<lists, active, freed, queue, cmd>>, TypeOK',
         pc' \notin {"switch", "execute"} => cmd = NoCommand
  PROVE  Steady
<1>1. ListTypes' /\ Lists' /\ \A u : (Listed(u))' <=> Listed(u)
  BY Parts, SameLists
<1>2. Handed'
  BY <1>1, Parts DEF Handed
<1>3. Basic'
  BY <1>1, <1>2, Parts, Assembled
<1>4. ASSUME Books PROVE Books'
  BY <1>1, <1>4, SameBooks
<1> QED BY <1>3, <1>4 DEF Steady

LEMMA TickSteady == ASSUME Basic, Tick PROVE Steady
<1>1. tick' \in Time
  <2>1. tick + 1 \in Int
    BY Parts DEF Time
  <2> QED BY <2>1, Numbers DEF Tick
<1>2. late' \in 0 .. Lag
  <2>1. late \in 0 .. Lag
    BY Parts DEF TypeOK
  <2>2. CASE Busy
    BY <2>1, <2>2, Limits DEF Tick
  <2>3. CASE ~Busy
    BY <2>1, <2>3, Limits DEF Tick
  <2> QED BY <2>2, <2>3
<1>3. sleep' \in -1 .. TickMod
  BY Parts, TimersAssumption DEF TypeOK, Tick
<1>4. TypeOK'
  BY <1>1, <1>2, <1>3, Parts DEF TypeOK, Tick, lists
<1>5. pc' \notin {"switch", "execute"} => cmd = NoCommand
  BY Parts DEF Handed, Tick
<1> QED BY <1>4, <1>5, QuietSteady DEF Tick

LEMMA NextWrappedSteady == ASSUME Basic, NextWrapped PROVE Steady
<1>1. cmd' = cmd
  BY Parts DEF NextWrapped, Handed
<1>2. TypeOK'
  BY Parts DEF TypeOK, NextWrapped, Goto, lists
<1>3. pc' \notin {"switch", "execute"} => cmd = NoCommand
  BY DEF NextWrapped, Goto
<1> QED BY <1>1, <1>2, <1>3, QuietSteady DEF NextWrapped

LEMMA WaitBounds == ASSUME Basic PROVE TicksToWait \in -1 .. TickMod
<1>1. CASE current = <<>> /\ overflow = <<>>
  BY <1>1, Numbers DEF TicksToWait
<1>2. CASE ~(current = <<>> /\ overflow = <<>>)
  <2>1. PICK next \in Int : next = IF current = <<>> THEN 0 ELSE value[Head(current)]
    <3>1. CASE current = <<>>
      BY <3>1
    <3>2. CASE current # <<>>
      <4>1. Head(current) \in Timer
        BY <3>2, Parts, HeadTailProperties DEF ListTypes
      <4>2. value[Head(current)] \in Time
        BY <4>1, Parts DEF ListTypes
      <4> QED BY <3>2, <4>2 DEF Time
    <3> QED BY <3>1, <3>2
  <2>2. next - tick \in Int
    BY Parts DEF Time
  <2>3. (next - tick) % TickMod \in 0 .. TickMod - 1
    BY <2>2, Numbers DEF Time
  <2>4. TicksToWait = IF (next - tick) % TickMod = 0 THEN 1 ELSE (next - tick) % TickMod
    BY <1>2, <2>1 DEF TicksToWait
  <2> QED BY <2>3, <2>4, Numbers
<1> QED BY <1>1, <1>2

LEMMA NextBlocksSteady == ASSUME Basic, NextBlocks PROVE Steady
<1>1. sleep' \in -1 .. TickMod /\ late' \in 0 .. Lag
  BY WaitBounds, Parts, Limits DEF NextBlocks, Goto, TypeOK
<1>2. TypeOK'
  BY <1>1, Parts DEF TypeOK, NextBlocks, Goto, lists
<1>3. cmd = NoCommand
  BY Parts DEF Handed, NextBlocks
<1> QED BY <1>2, <1>3, QuietSteady DEF NextBlocks

LEMMA WakeSteady == ASSUME Basic, Wake PROVE Steady
<1>1. sleep' \in -1 .. TickMod
  BY Numbers DEF Wake
<1>2. TypeOK'
  BY <1>1, Parts DEF TypeOK, Wake, Goto, lists
<1>3. cmd = NoCommand
  BY Parts DEF Handed, Wake
<1> QED BY <1>2, <1>3, QuietSteady DEF Wake

LEMMA NoMoreCommandsSteady == ASSUME Basic, NoMoreCommands PROVE Steady
<1>1. TypeOK'
  BY Parts DEF TypeOK, NoMoreCommands, Goto, lists
<1>2. cmd = NoCommand
  BY Parts DEF Handed, NoMoreCommands
<1> QED BY <1>1, <1>2, QuietSteady DEF NoMoreCommands

LEMMA CommandOf ==
  ASSUME NEW id \in Ids, NEW t \in Timer, NEW v \in Time, id = "delete" => t \in Deletable
  PROVE  \E c \in Commands : /\ c = [id |-> id, timer |-> t, time |-> v]
                            /\ c.timer = t /\ c.id = id /\ c.time = v
<1>1. [id |-> id, timer |-> t, time |-> v] \in Commands
  BY DEF Commands
<1> QED BY <1>1

LEMMA CallSent ==
  Call \in Word /\ Call.timer = None /\ Call.id = "call" /\ None \notin Timer
  BY TimersAssumption DEF Call, Word

LEMMA SendCallSteady == ASSUME Basic, SendCall PROVE Steady
<1>1. queue' = Append(queue, Call) /\ Len(queue) + Room < QueueLength
  BY DEF SendCall, Command, Call
<1>2. ListTypes' /\ Lists' /\ \A u : (Listed(u))' <=> Listed(u)
  BY Parts, SameLists DEF SendCall
<1>3. queue' \in Seq(Word) /\ Len(queue') = Len(queue) + 1
  BY <1>1, CallSent, Parts, Appended
<1>4. TypeOK'
  <2>1. Len(queue') <= QueueLength
    BY <1>1, <1>3, Parts, Limits
  <2> QED BY <2>1, Parts DEF TypeOK, SendCall, lists
<1>5. Handed'
  BY <1>2, Parts DEF Handed, SendCall
<1>6. Basic'
  BY <1>2, <1>3, <1>4, <1>5, Parts, Assembled DEF SendCall
<1>7. ASSUME Headroom, Books PROVE Books'
  <2>1. \A i \in 1 .. Len(queue) : queue[i].id = "delete" => queue[i].timer # Call.timer
    BY <1>7, CallSent, TimersAssumption DEF Books, DeletionIsLast, Deletions
  <2>2. Call.timer \notin freed /\ (cmd.id = "delete" => cmd.timer # Call.timer)
        /\ Call.id # "delete"
    BY <1>7, CallSent, Parts, TimersAssumption DEF Books, DeletionIsLast
  <2> QED BY <1>1, <1>2, <1>7, <2>1, <2>2, CallSent, Parts, SendBooks DEF SendCall
<1> QED BY <1>6, <1>7 DEF Steady

\* What Send puts into the queue.
LEMMA SentCommand ==
  ASSUME Basic, Send
  PROVE  \E c \in Commands :
           /\ queue' = Append(queue, c) /\ ~Deleted(c.timer) /\ c.id # "reload"
           /\ c.id = "start" => \E d \in 0 .. SendLag : c.time = (tick - d) % TickMod
<1>1. PICK t \in Timer :
        /\ ~Deleted(t)
        /\ \/ \E d \in 0 .. SendLag : Command("start", t, (tick - d) % TickMod)
           \/ \E id \in {"stop", "change"} : Command(id, t, 0)
           \/ t \in Deletable /\ Command("delete", t, 0)
  BY DEF Send
<1>2. CASE \E d \in 0 .. SendLag : Command("start", t, (tick - d) % TickMod)
  <2>1. PICK d \in 0 .. SendLag : Command("start", t, (tick - d) % TickMod)
    BY <1>2
  <2>2. tick - d \in Int
    BY Parts, TimersAssumption DEF Time
  <2>3. "start" \in Ids /\ (tick - d) % TickMod \in Time
    BY <2>2, Numbers DEF Ids
  <2>4. PICK c \in Commands :
          /\ c = [id |-> "start", timer |-> t, time |-> (tick - d) % TickMod]
          /\ c.timer = t /\ c.id = "start" /\ c.time = (tick - d) % TickMod
    BY <2>3, CommandOf
  <2> QED BY <1>1, <2>1, <2>4 DEF Command
<1>3. CASE \E id \in {"stop", "change"} : Command(id, t, 0)
  <2>1. PICK id \in {"stop", "change"} : Command(id, t, 0)
    BY <1>3
  <2>2. id \in Ids /\ 0 \in Time /\ id \notin {"start", "reload", "delete"}
    BY Numbers DEF Ids
  <2>3. PICK c \in Commands : /\ c = [id |-> id, timer |-> t, time |-> 0]
                              /\ c.timer = t /\ c.id = id
    BY <2>2, CommandOf
  <2> QED BY <1>1, <2>1, <2>2, <2>3 DEF Command
<1>4. CASE t \in Deletable /\ Command("delete", t, 0)
  <2>1. "delete" \in Ids /\ 0 \in Time
    BY Numbers DEF Ids
  <2>2. PICK c \in Commands : /\ c = [id |-> "delete", timer |-> t, time |-> 0]
                              /\ c.timer = t /\ c.id = "delete"
    BY <1>4, <2>1, CommandOf
  <2> QED BY <1>1, <1>4, <2>2 DEF Command
<1> QED BY <1>1, <1>2, <1>3, <1>4

LEMMA SendSteady == ASSUME Basic, Send PROVE Steady
<1>1. PICK c \in Commands : queue' = Append(queue, c) /\ ~Deleted(c.timer)
  BY SentCommand
<1>2. c \in Word /\ (c.id = "delete" => c.timer \in Deletable)
  BY DEF Word, Commands
<1>3. ListTypes' /\ Lists' /\ \A u : (Listed(u))' <=> Listed(u)
  BY Parts, SameLists DEF Send
<1>4. queue' \in Seq(Word) /\ Len(queue') = Len(queue) + 1
  BY <1>1, <1>2, Parts, Appended
<1>5. Len(queue) + Room < QueueLength
  BY DEF Send
<1>6. TypeOK'
  <2>1. Len(queue') <= QueueLength
    BY <1>4, <1>5, Parts, Limits
  <2> QED BY <2>1, Parts DEF TypeOK, Send, lists
<1>7. Handed'
  BY <1>3, Parts DEF Handed, Send
<1>8. Basic'
  BY <1>3, <1>4, <1>6, <1>7, Parts, Assembled DEF Send
<1>9. ASSUME Headroom, Books PROVE Books'
  <2>1. \A i \in 1 .. Len(queue) : queue[i].id = "delete" => queue[i].timer # c.timer
    BY <1>1 DEF Deleted, Pending
  <2>2. c.timer \notin freed /\ (cmd.id = "delete" => cmd.timer # c.timer)
    BY <1>1 DEF Deleted
  <2> QED BY <1>1, <1>2, <1>3, <1>5, <1>9, <2>1, <2>2, Parts, SendBooks DEF Send
<1> QED BY <1>8, <1>9 DEF Steady

LEMMA PendedCallSteady == ASSUME Basic, PendedCall PROVE Steady
<1>1. queue # <<>> /\ queue' = Tail(queue) /\ Head(queue).id = "call"
  BY DEF PendedCall
<1>2. queue' \in Seq(Word) /\ Len(queue) = Len(queue') + 1 /\ Len(queue') \in Nat
      /\ Head(queue) \in Word
  BY <1>1, Parts, Taken
<1>3. Head(queue).timer \notin Timer
  BY <1>1, <1>2, TimersAssumption DEF Word, Commands, Ids, Call
<1>4. ListTypes' /\ Lists' /\ \A u : (Listed(u))' <=> Listed(u)
  BY Parts, SameLists DEF PendedCall
<1>5. TypeOK'
  <2>1. Len(queue') <= QueueLength
    BY <1>2, Parts, Limits DEF TypeOK
  <2> QED BY <2>1, Parts DEF TypeOK, PendedCall, Goto, lists
<1>6. Handed'
  BY <1>4, Parts DEF Handed, PendedCall, Goto
<1>7. Basic'
  BY <1>2, <1>4, <1>5, <1>6, Parts, Assembled DEF PendedCall
<1>8. ASSUME Headroom, Books PROVE Books'
  BY <1>1, <1>3, <1>4, <1>8, Parts, TimersAssumption, CallBooks DEF PendedCall
<1> QED BY <1>7, <1>8 DEF Steady

\* The command that is taken, and what it takes from the lists.
LEMMA TakenCommand ==
  ASSUME Basic, TakeCommand
  PROVE  \E c \in Commands : /\ c = Head(queue) /\ cmd' = c /\ c.timer \in Timer
                            /\ Moves(c.timer, FALSE, FALSE, 0) /\ cmd = NoCommand
<1>1. queue # <<>> /\ queue' = Tail(queue) /\ Head(queue).id # "call" /\ cmd' = Head(queue)
  BY DEF TakeCommand
<1>2. Head(queue) \in Word
  BY <1>1, Parts, Taken
<1>3. PICK c \in Commands : c = Head(queue)
  BY <1>1, <1>2 DEF Word, Call
<1>4. c.timer \in Timer /\ cmd' = c
  BY <1>1, <1>3 DEF Commands
<1>5. Moves(c.timer, FALSE, FALSE, 0)
  <2>1. /\ value' = [value EXCEPT ![c.timer] = 0]
        /\ current' = RemoveFirst(current, c.timer)
        /\ overflow' = RemoveFirst(overflow, c.timer)
    BY <1>4 DEF TakeCommand
  <2> QED BY <2>1, <1>4, Parts, Numbers, TakenOut
<1>6. cmd = NoCommand
  BY Parts DEF Handed, TakeCommand
<1> QED BY <1>3, <1>4, <1>5, <1>6

LEMMA TakeCommandSteady == ASSUME Basic, TakeCommand PROVE Steady
<1>1. queue # <<>> /\ queue' = Tail(queue)
  BY DEF TakeCommand
<1>2. queue' \in Seq(Word) /\ Len(queue) = Len(queue') + 1 /\ Len(queue') \in Nat
  BY <1>1, Parts, Taken
<1>3. PICK c \in Commands : /\ c = Head(queue) /\ cmd' = c /\ c.timer \in Timer
                            /\ Moves(c.timer, FALSE, FALSE, 0) /\ cmd = NoCommand
  BY TakenCommand
<1>4. ListTypes' /\ Lists' /\ ~(Listed(cmd.timer))'
  BY <1>3, MovesLists
<1>5. TypeOK'
  <2>1. Len(queue') <= QueueLength
    BY <1>2, Parts, Limits DEF TypeOK
  <2>2. last' \in Time
    BY Parts DEF TakeCommand
  <2> QED BY <1>4, <2>1, <2>2, Parts DEF TypeOK, TakeCommand, Goto, ListTypes
<1>6. Handed'
  BY <1>4 DEF Handed, TakeCommand, Goto
<1>7. Basic'
  BY <1>2, <1>3, <1>4, <1>5, <1>6, Assembled
<1>8. ASSUME Headroom, Books PROVE Books'
  BY <1>1, <1>3, <1>8, Parts, TakeBooks DEF TakeCommand
<1> QED BY <1>7, <1>8 DEF Steady

LEMMA SwitchListsSteady == ASSUME Basic, SwitchLists PROVE Steady
<1>1. ToSet(<<>>) = {} /\ <<>> \in Seq(Timer) /\ Len(<<>>) = 0
  BY EmptySeq DEF ToSet
<1>2. ListTypes'
  BY <1>1, Parts DEF ListTypes, SwitchLists
<1>3. Lists'
  BY <1>1, Parts DEF Lists, InOrder, SwitchLists
<1>4. \A u : (Listed(u))' <=> Listed(u)
  BY <1>1 DEF Listed, SwitchLists
<1>5. TypeOK'
  BY Parts, Numbers DEF TypeOK, SwitchLists, Goto
<1>6. Handed'
  BY <1>4, Parts DEF Handed, SwitchLists, Goto
<1>7. Basic'
  BY <1>2, <1>3, <1>5, <1>6, Parts, Assembled DEF SwitchLists
<1>8. ASSUME Books PROVE Books'
  BY <1>4, <1>8, SameBooks DEF SwitchLists
<1> QED BY <1>7, <1>8 DEF Steady

LEMMA CommandedTypes ==
  ASSUME queue \in Seq(Word), Len(queue) <= QueueLength, NEW c \in Commands,
         queue' = queue \/ queue' = Commanded(c)
  PROVE  queue' \in Seq(Word) /\ Len(queue') <= QueueLength
<1>1. CASE queue' = queue
  BY <1>1
<1>2. CASE queue' = Append(queue, c) /\ Len(queue) < QueueLength
  <2>1. c \in Word
    BY DEF Word
  <2>2. queue' \in Seq(Word) /\ Len(queue') = Len(queue) + 1 /\ Len(queue) \in Nat
    BY <2>1, <1>2, Appended
  <2> QED BY <1>2, <2>2, Limits
<1> QED BY <1>1, <1>2 DEF Commanded

LEMMA SwitchExpiredSteady == ASSUME Basic, SwitchExpired PROVE Steady
<1>0. PICK t \in Timer :
        t = Head(current) /\ Listed(t) /\ \E v : Moves(t, Again(t), FALSE, v)
  BY Parts, SwitchMoves
<1>1. PICK v : t = Head(current) /\ Listed(t) /\ Moves(t, Again(t), FALSE, v)
  BY <1>0
<1>2. PICK c \in Commands : /\ c = [id |-> "reload", timer |-> t, time |-> value[t]]
                            /\ c.timer = t /\ c.id = "reload"
  <2>1. "reload" \in Ids /\ value[t] \in Time
    BY Parts DEF Ids, ListTypes
  <2> QED BY <2>1, CommandOf
<1>3. PICK p \in BOOLEAN : p = Again(t)
  BY DEF Again
<1>4. queue' = IF t \in AutoReload /\ ~p THEN Commanded(c) ELSE queue
  BY <1>1, <1>2, <1>3 DEF SwitchExpired, Again, Reload
<1>5. t \notin AutoReload => ~p
  BY <1>3 DEF Again
<1>6. /\ ListTypes' /\ Lists'
      /\ \A u : (Listed(u))' <=> (IF u = t THEN p ELSE Listed(u))
  <2>1. Moves(t, p, FALSE, v)
    BY <1>1, <1>3
  <2>2. /\ ListTypes' /\ Lists'
        /\ \A u : (Listed(u))' <=> (IF u = t THEN p \/ FALSE ELSE Listed(u))
    BY <2>1, MovesLists
  <2> QED BY <2>2
<1>7. queue' \in Seq(Word) /\ Len(queue') <= QueueLength
  BY <1>4, Parts, CommandedTypes DEF TypeOK
<1>8. TypeOK'
  BY <1>6, <1>7, Parts DEF TypeOK, SwitchExpired, Goto, ListTypes
<1>9. cmd' = cmd /\ ~(Listed(cmd.timer))'
  BY <1>1, <1>6, Parts DEF SwitchExpired
<1>10. Handed'
  BY <1>9 DEF Handed, SwitchExpired, Goto
<1>11. Basic'
  BY <1>6, <1>7, <1>8, <1>9, <1>10, Parts, Assembled
<1>12. ASSUME Headroom, Books PROVE Books'
  BY <1>1, <1>2, <1>4, <1>5, <1>6, <1>12, Parts, ExpireBooks DEF SwitchExpired
<1> QED BY <1>11, <1>12 DEF Steady

LEMMA NextExpiredSteady == ASSUME Basic, NextExpired PROVE Steady
<1>1. PICK t \in Timer : t = Head(current) /\ Listed(t) /\ value[t] \in Time
  BY Parts, ExpiryMoves
<1>2. PICK c \in Commands : /\ c = [id |-> "reload", timer |-> t, time |-> value[t]]
                            /\ c.timer = t /\ c.id = "reload"
  <2>1. "reload" \in Ids
    BY DEF Ids
  <2> QED BY <1>1, <2>1, CommandOf
<1>3. PICK p \in BOOLEAN :
        p <=> t \in AutoReload /\ ~ExpiredAlready(t, (value[t] + period[t]) % TickMod,
                                                  tick, value[t])
  OBVIOUS
<1>4. /\ ListTypes' /\ Lists'
      /\ \A u : (Listed(u))' <=> (IF u = t THEN p ELSE Listed(u))
  <2>1. CASE t \in AutoReload
    <3>1. PICK next \in Time : next = (value[t] + period[t]) % TickMod
      <4>1. period[t] \in Nat
        BY Parts, Numbers
      <4>2. value[t] + period[t] \in Int
        BY <1>1, <4>1 DEF Time
      <4> QED BY <4>2, Numbers
    <3>2. PICK kept \in BOOLEAN : kept = ~ExpiredAlready(t, next, tick, value[t])
      BY DEF ExpiredAlready
    <3>3. Moves(t, kept /\ next > tick, kept /\ next <= tick, next)
      BY <1>1, <2>1, <3>1, <3>2, Parts, ExpiryMoves
    <3>4. /\ ListTypes' /\ Lists'
          /\ \A u : (Listed(u))' <=> (IF u = t THEN (kept /\ next > tick) \/ (kept /\ next <= tick)
                                              ELSE Listed(u))
      BY <3>3, MovesLists
    <3>5. next > tick \/ next <= tick
      BY Parts DEF Time
    <3> QED BY <1>3, <2>1, <3>1, <3>2, <3>4, <3>5
  <2>2. CASE t \notin AutoReload
    <3>1. Moves(t, FALSE, FALSE, 0)
      BY <1>1, <2>2, Parts, ExpiryMoves
    <3> QED BY <1>3, <2>2, <3>1, MovesLists
  <2> QED BY <2>1, <2>2
<1>5. /\ queue' = IF t \in AutoReload /\ ~p THEN Commanded(c) ELSE queue
      /\ active' \subseteq active
  <2>1. CASE t \in AutoReload
    BY <1>1, <1>2, <1>3, <2>1 DEF NextExpired, Reload
  <2>2. CASE t \notin AutoReload
    BY <1>1, <1>2, <1>3, <2>2 DEF NextExpired
  <2> QED BY <2>1, <2>2
<1>6. queue' \in Seq(Word) /\ Len(queue') <= QueueLength
  BY <1>5, Parts, CommandedTypes DEF TypeOK
<1>7. TypeOK'
  BY <1>4, <1>5, <1>6, Parts DEF TypeOK, NextExpired, Goto, ListTypes
<1>8. cmd' = cmd /\ ~(Listed(cmd.timer))'
  BY <1>1, <1>4, Parts DEF NextExpired
<1>9. Handed'
  BY <1>8, Parts DEF Handed, NextExpired, Goto
<1>10. Basic'
  BY <1>4, <1>6, <1>7, <1>8, <1>9, Parts, Assembled
<1>11. ASSUME Headroom, Books PROVE Books'
  BY <1>1, <1>2, <1>3, <1>4, <1>5, <1>11, Parts, ExpireBooks DEF NextExpired
<1> QED BY <1>10, <1>11 DEF Steady

\* The next expiry of the timer of a start command, and where it goes.
LEMMA Started ==
  ASSUME Basic, Start
  PROVE  \E t \in Timer, next \in Time, kept \in BOOLEAN :
           /\ t = cmd.timer /\ cmd \in Commands /\ cmd.time \in Time /\ ~Listed(t)
           /\ next = (cmd.time + period[t]) % TickMod
           /\ kept = ~ExpiredAlready(t, next, now, cmd.time)
           /\ Moves(t, kept /\ next > now, kept /\ next <= now, next)
<1>1. cmd \in Commands
  BY Parts DEF Start, NoCommand, None
<1>2. PICK t \in Timer : t = cmd.timer /\ cmd.time \in Time /\ ~Listed(t)
  BY <1>1, Parts DEF Commands
<1>3. PICK next \in Time : next = (cmd.time + period[t]) % TickMod
  <2>1. period[t] \in Nat
    BY <1>2, Parts, Numbers
  <2>2. cmd.time + period[t] \in Int
    BY <1>2, <2>1 DEF Time
  <2> QED BY <2>2, Numbers
<1>4. PICK kept \in BOOLEAN : kept = ~ExpiredAlready(t, next, now, cmd.time)
  BY DEF ExpiredAlready
<1>5. InsertTimerInActiveList(t, next, now, cmd.time)
  BY <1>2, <1>3 DEF Start
<1>6. t \notin ToSet(overflow)
  BY <1>2 DEF Listed
<1>7. Moves(t, kept /\ next > now, kept /\ next <= now, next)
  BY <1>4, <1>5, <1>6, Parts, Activation
<1> QED BY <1>1, <1>2, <1>3, <1>4, <1>7

LEMMA StartSteady == ASSUME Basic, Start PROVE Steady
<1>1. PICK t \in Timer, next \in Time, kept \in BOOLEAN :
        /\ t = cmd.timer /\ cmd \in Commands /\ cmd.time \in Time /\ ~Listed(t)
        /\ next = (cmd.time + period[t]) % TickMod
        /\ kept = ~ExpiredAlready(t, next, now, cmd.time)
        /\ Moves(t, kept /\ next > now, kept /\ next <= now, next)
  BY Started
<1>2. PICK c \in Commands : /\ c = [id |-> "reload", timer |-> t, time |-> next]
                            /\ c.timer = t /\ c.id = "reload"
  <2>1. "reload" \in Ids
    BY DEF Ids
  <2> QED BY <2>1, CommandOf
<1>3. queue' = IF t \in AutoReload /\ ~kept THEN Commanded(c) ELSE queue
  BY <1>1, <1>2 DEF Start, Reload
<1>4. /\ ListTypes' /\ Lists'
      /\ \A u : (Listed(u))' <=> (IF u = t THEN kept ELSE Listed(u))
  <2>1. /\ ListTypes' /\ Lists'
        /\ \A u : (Listed(u))' <=> (IF u = t THEN (kept /\ next > now) \/ (kept /\ next <= now)
                                            ELSE Listed(u))
    BY <1>1, MovesLists
  <2>2. next > now \/ next <= now
    BY Parts DEF Time
  <2> QED BY <2>1, <2>2
<1>5. queue' \in Seq(Word) /\ Len(queue') <= QueueLength
  BY <1>3, Parts, CommandedTypes DEF TypeOK
<1>6. TypeOK'
  BY <1>1, <1>4, <1>5, Parts, Numbers DEF TypeOK, Start, Goto, ListTypes
<1>7. cmd' = NoCommand /\ ~(Listed(cmd.timer))'
  BY <1>1, <1>4, Parts, TimersAssumption DEF Start, NoCommand
<1>8. Handed'
  BY <1>7 DEF Handed
<1>9. Basic'
  BY <1>4, <1>5, <1>6, <1>7, <1>8, Assembled
<1>10. ASSUME Headroom, Books PROVE Books'
  <2>1. cmd.id # "delete" /\ active' \subseteq active \cup {t} /\ freed' = freed
    BY <1>1 DEF Start
  <2> QED BY <1>1, <1>2, <1>3, <1>4, <1>7, <1>10, <2>1, Parts, RunBooks
<1> QED BY <1>9, <1>10 DEF Steady

LEMMA StopSteady == ASSUME Basic, Stop PROVE Steady
<1>1. PICK t \in Timer : t = cmd.timer
  BY Parts DEF Stop, NoCommand, None, Commands
<1>2. ListTypes' /\ Lists' /\ \A u : (Listed(u))' <=> Listed(u)
  BY Parts, SameLists DEF Stop
<1>3. TypeOK'
  BY Parts, Numbers DEF TypeOK, Stop, Goto, lists
<1>4. Handed'
  BY <1>2, Parts DEF Handed, Stop, NoCommand
<1>5. Basic'
  BY <1>2, <1>3, <1>4, Parts, Assembled DEF Stop
<1>6. ASSUME Headroom, Books PROVE Books'
  BY <1>1, <1>6, Parts, EndBooks DEF Stop
<1> QED BY <1>5, <1>6 DEF Steady

LEMMA DeleteSteady == ASSUME Basic, Delete PROVE Steady
<1>1. PICK t \in Timer : t = cmd.timer /\ t \in Deletable
  BY Parts DEF Delete, NoCommand, None, Commands
<1>2. ListTypes' /\ Lists' /\ \A u : (Listed(u))' <=> Listed(u)
  BY Parts, SameLists DEF Delete
<1>3. TypeOK'
  BY <1>1, Parts, Numbers DEF TypeOK, Delete, Goto, lists
<1>4. Handed'
  BY <1>2, Parts DEF Handed, Delete, NoCommand
<1>5. Basic'
  BY <1>2, <1>3, <1>4, Parts, Assembled DEF Delete
<1>6. ASSUME Headroom, Books PROVE Books'
  BY <1>1, <1>6, Parts, EndBooks DEF Delete
<1> QED BY <1>5, <1>6 DEF Steady

\* The new period, and where the timer goes.
LEMMA Changed ==
  ASSUME Basic, ChangePeriod
  PROVE  \E t \in Timer, n \in Periods, v \in Time :
           /\ t = cmd.timer /\ ~Listed(t) /\ v = (now + n) % TickMod
           /\ period' = [period EXCEPT ![t] = n] /\ active' = active \cup {t}
           /\ left' = [left EXCEPT ![t] = n - ((tick - now) % TickMod)]
           /\ Moves(t, v > now, v <= now, v)
<1>1. PICK t \in Timer : t = cmd.timer /\ ~Listed(t)
  BY Parts DEF ChangePeriod, NoCommand, None, Commands
<1>2. PICK n \in Periods :
        /\ period' = [period EXCEPT ![t] = n] /\ active' = active \cup {t}
        /\ value' = [value EXCEPT ![t] = (now + n) % TickMod]
        /\ current' = IF value'[t] > now THEN Insert(current, t, value'[t]) ELSE current
        /\ overflow' = IF value'[t] <= now THEN Insert(overflow, t, value'[t]) ELSE overflow
        /\ left' = [left EXCEPT ![t] = n - ((tick - now) % TickMod)]
  BY <1>1 DEF ChangePeriod
<1>3. PICK v \in Time : v = (now + n) % TickMod
  <2>1. n \in Nat
    BY Numbers
  <2>2. now + n \in Int
    BY <2>1, Parts DEF Time
  <2> QED BY <2>2, Numbers
<1>4. value' = [value EXCEPT ![t] = v] /\ value'[t] = v
  BY <1>2, <1>3, Parts DEF ListTypes
<1>5. Moves(t, v > now, v <= now, v)
  <2>1. /\ current' = IF v > now THEN Insert(current, t, v) ELSE current
        /\ overflow' = IF v <= now THEN Insert(overflow, t, v) ELSE overflow
    BY <1>2, <1>4
  <2> QED BY <1>1, <1>4, <2>1, Parts, ChangeMoves
<1> QED BY <1>1, <1>2, <1>3, <1>5

LEMMA ChangePeriodSteady == ASSUME Basic, ChangePeriod PROVE Steady
<1>1. PICK t \in Timer, n \in Periods, v \in Time :
        /\ t = cmd.timer /\ ~Listed(t)
        /\ period' = [period EXCEPT ![t] = n] /\ active' = active \cup {t}
        /\ Moves(t, v > now, v <= now, v)
  BY Changed
<1>2. /\ ListTypes' /\ Lists'
      /\ \A u : (Listed(u))' <=> (IF u = t THEN TRUE ELSE Listed(u))
  <2>1. /\ ListTypes' /\ Lists'
        /\ \A u : (Listed(u))' <=> (IF u = t THEN v > now \/ v <= now ELSE Listed(u))
    BY <1>1, MovesLists
  <2>2. v > now \/ v <= now
    BY Parts DEF Time
  <2> QED BY <2>1, <2>2
<1>3. TypeOK'
  BY <1>1, <1>2, Parts, Numbers DEF TypeOK, ChangePeriod, Goto, ListTypes
<1>4. cmd' = NoCommand /\ ~(Listed(cmd.timer))'
  BY <1>2, Parts, TimersAssumption DEF ChangePeriod, NoCommand
<1>5. Handed'
  BY <1>4 DEF Handed
<1>6. Basic'
  BY <1>2, <1>3, <1>4, <1>5, Parts, Assembled DEF ChangePeriod
<1>7. ASSUME Headroom, Books PROVE Books'
  <2>1. PICK c \in Commands : c.timer = t /\ c.id = "reload"
    <3>1. "reload" \in Ids
      BY DEF Ids
    <3> QED BY <3>1, CommandOf
  <2>2. cmd.id # "delete" /\ freed' = freed /\ active' \subseteq active \cup {t}
        /\ queue' = IF t \in AutoReload /\ ~TRUE THEN Commanded(c) ELSE queue
    BY <1>1 DEF ChangePeriod
  <2> QED BY <1>1, <1>2, <1>4, <1>7, <2>1, <2>2, Parts, RunBooks
<1> QED BY <1>6, <1>7 DEF Steady

LEMMA NextSteady == ASSUME Basic, [Next]_vars PROVE Steady
<1>1. CASE Tick
  BY <1>1, TickSteady
<1>2. CASE Send
  BY <1>2, SendSteady
<1>3. CASE SendCall
  BY <1>3, SendCallSteady
<1>4. CASE Daemon
  BY <1>4, NextWrappedSteady, NextExpiredSteady, NextBlocksSteady, WakeSteady,
     SwitchExpiredSteady, SwitchListsSteady, NoMoreCommandsSteady, PendedCallSteady,
     TakeCommandSteady, StartSteady, StopSteady, DeleteSteady, ChangePeriodSteady DEF Daemon
<1>5. CASE UNCHANGED vars
  <2>1. UNCHANGED <<lists, active, freed, queue, cmd>> /\ TypeOK'
        /\ (pc' \notin {"switch", "execute"} => cmd = NoCommand)
    BY <1>5, Parts DEF vars, lists, TypeOK, Handed
  <2> QED BY <2>1, QuietSteady
<1> QED BY <1>1, <1>2, <1>3, <1>4, <1>5 DEF Next

LEMMA BasicHolds == Spec => []Basic
<1>1. Init => Basic
  BY InitHolds
<1>2. Basic /\ [Next]_vars => Basic'
  BY NextSteady DEF Steady
<1> QED BY <1>1, <1>2, PTL DEF Spec

LEMMA BooksHold == ASSUME Headroom PROVE Spec => [](Basic /\ Books)
<1>1. Headroom
  OBVIOUS
<1>2. Init => Basic /\ Books
  BY <1>1, InitHolds
<1>3. Basic /\ Books /\ [Next]_vars => (Basic /\ Books)'
  BY <1>1, NextSteady DEF Steady
<1> QED BY <1>2, <1>3, PTL DEF Spec

LEMMA BooksImplyNotForgotten == Basic /\ Books => NotForgotten
<1> SUFFICES ASSUME Basic, Books PROVE NotForgotten
  OBVIOUS
<1>1. queue \in Seq(Word) /\ DOMAIN queue = 1 .. Len(queue)
  BY Parts, LenProperties
<1>2. \A t : Queued(t) <=> Pending(t) # {}
  <2> SUFFICES ASSUME NEW t PROVE Queued(t) <=> Pending(t) # {}
    OBVIOUS
  <2>1. Queued(t) => Pending(t) # {}
    <3> SUFFICES ASSUME NEW i \in 1 .. Len(queue), queue[i].timer = t PROVE Pending(t) # {}
      BY DEF Queued
    <3>1. queue[i].id \in Pending(t)
      BY DEF Pending
    <3> QED BY <3>1
  <2>2. Pending(t) # {} => Queued(t)
    BY DEF Pending, Queued
  <2> QED BY <2>1, <2>2
<1>3. TypeOK /\ Lists /\ Kept /\ Gone
  BY Parts DEF Books
<1> QED BY <1>2, <1>3 DEF NotForgotten, Lists, Kept, Gone

\* Whatever the order of starts, stops, changes, deletions, expiries and
\* rounds, a periodic timer that runs is in a list, in the daemon's hands or in
\* the queue, and nothing is left of a timer that was freed, as long as there is
\* room for the reloads (prvTimerTask, prvSwitchTimerLists,
\* prvProcessReceivedCommands).
THEOREM NoTimerDies == ASSUME Headroom PROVE Spec => []NotForgotten
<1>1. Headroom
  OBVIOUS
<1> QED BY <1>1, BooksHold, BooksImplyNotForgotten, PTL

-----------------------------------------------------------------------------
(* Time.                                                                   *)

\* The bounds under which the tick count tells early from late: neither a
\* period nor the time a command takes, with all the lateness of the daemon,
\* goes round.
Slack ==
  /\ \A p \in Periods : p + Lag < TickMod
  /\ SendLag + Lag < TickMod

\* The longest time to an expiry.
Limit == TickMod - 1 - Lag

\* The ticks since the time x.
Since(x) == IF x <= tick THEN tick - x ELSE tick - x + TickMod

SomeListed == \E t \in Timer : Listed(t)

\* The expiry times of a list belong to the round in which the daemon last
\* looked at the time, those of the other list to the next.
Armed ==
  /\ \A t \in Timer : Listed(t) => t \in active /\ -late <= left[t] /\ left[t] <= Limit
  /\ \A t \in ToSet(current) : left[t] = value[t] - tick - IF Wrapped THEN TickMod ELSE 0
  /\ \A t \in ToSet(overflow) : left[t] = value[t] - tick + IF Wrapped THEN 0 ELSE TickMod

\* It looked at it less than a round ago.
Recent ==
  /\ SomeListed => Since(last) <= Limit + late
  /\ pc = "switch" /\ SomeListed => now <= tick /\ tick < last
  /\ pc \in {"switch", "execute"} => Since(now) <= late
  /\ pc = "execute" => last = now

Timed(c) == c.id \in {"start", "reload"}

QueueAges ==
  \A i \in 1 .. Len(queue) : Timed(queue[i]) => Since(queue[i].time) <= SendLag + late

CmdAge == Timed(cmd) => Since(now) <= Since(cmd.time) /\ Since(cmd.time) <= SendLag + late

Asleep ==
  pc = "blocked" => \A t \in Timer : Listed(t) => Since(last) + left[t] <= Limit

Clock ==
  /\ left \in [Timer -> Int]
  /\ Armed /\ Recent /\ QueueAges /\ CmdAge /\ Asleep /\ WakesInTime /\ NeverEarly

LEMMA ModSmall ==
  ASSUME NEW m \in Nat \ {0}, NEW x \in Int
  PROVE  /\ 0 <= x /\ x < m => x % m = x
         /\ m <= x /\ x < m + m => x % m = x - m
         /\ -m <= x /\ x < 0 => x % m = x + m
<1>1. ASSUME NEW q \in Int, NEW r \in 0 .. m - 1 PROVE (q * m + r) % m = r
  OBVIOUS
<1>2. ASSUME 0 <= x, x < m PROVE x % m = x
  BY <1>2
<1>3. ASSUME m <= x, x < m + m PROVE x % m = x - m
  <2>1. x - m \in 0 .. m - 1
    BY <1>3
  <2>2. (1 * m + (x - m)) % m = x - m
    BY <1>1, <2>1
  <2>3. 1 * m + (x - m) = x
    OBVIOUS
  <2> QED BY <2>2, <2>3
<1>4. ASSUME -m <= x, x < 0 PROVE x % m = x + m
  <2>1. x + m \in 0 .. m - 1
    BY <1>4
  <2>2. ((-1) * m + (x + m)) % m = x + m
    BY <1>1, <2>1
  <2>3. (-1) * m + (x + m) = x
    OBVIOUS
  <2> QED BY <2>2, <2>3
<1> QED BY <1>2, <1>3, <1>4

LEMMA Bounds ==
  ASSUME Basic, Slack, left \in [Timer -> Int]
  PROVE  /\ TickMod \in Nat \ {0} /\ Lag \in Nat /\ SendLag \in Nat /\ SendLag + Lag < TickMod
         /\ tick \in 0 .. TickMod - 1 /\ last \in 0 .. TickMod - 1 /\ now \in 0 .. TickMod - 1
         /\ late \in 0 .. Lag /\ Limit = TickMod - 1 - Lag /\ Limit \in Nat
         /\ \A p \in Periods : p \in Nat /\ p >= 1 /\ p <= Limit
         /\ \A t \in Timer : value[t] \in 0 .. TickMod - 1 /\ left[t] \in Int
                             /\ period[t] \in Periods
         /\ sleep \in -1 .. TickMod
<1>1. /\ TickMod \in Nat \ {0} /\ Lag \in Nat /\ SendLag \in Nat /\ SendLag + Lag < TickMod
      /\ \A p \in Periods : p \in Nat /\ p >= 1 /\ p + Lag < TickMod
  BY TimersAssumption DEF Slack
<1>2. Limit = TickMod - 1 - Lag /\ Limit \in Nat
  BY <1>1 DEF Limit
<1>3. \A p \in Periods : p \in Nat /\ p >= 1 /\ p <= Limit
  BY <1>1, <1>2
<1>4. /\ tick \in 0 .. TickMod - 1 /\ last \in 0 .. TickMod - 1 /\ now \in 0 .. TickMod - 1
      /\ late \in 0 .. Lag /\ sleep \in -1 .. TickMod
  BY Parts DEF TypeOK, Time
<1>5. \A t \in Timer : value[t] \in 0 .. TickMod - 1 /\ left[t] \in Int
                       /\ period[t] \in Periods
  BY Parts DEF ListTypes, Time
<1> QED BY <1>1, <1>2, <1>3, <1>4, <1>5

LEMMA Members ==
  ASSUME Basic
  PROVE  /\ \A u \in ToSet(current) : u \in Timer /\ Listed(u)
         /\ \A u \in ToSet(overflow) : u \in Timer /\ Listed(u)
         /\ \A u : Listed(u) => u \in Timer
  BY Parts, ListMembers DEF ListTypes, Listed

LEMMA DifferenceIs ==
  ASSUME TickMod \in Nat \ {0}, NEW x \in 0 .. TickMod - 1, NEW y \in 0 .. TickMod - 1
  PROVE  (y - x) % TickMod = IF x <= y THEN y - x ELSE y - x + TickMod
<1>1. PICK d \in Int : d = y - x /\ -TickMod <= d /\ d < TickMod
  OBVIOUS
<1>2. /\ 0 <= d => d % TickMod = d
      /\ d < 0 => d % TickMod = d + TickMod
  BY <1>1, ModSmall
<1> QED BY <1>1, <1>2

\* Since as the code computes it.
LEMMA SinceIs ==
  ASSUME TickMod \in Nat \ {0}, tick \in 0 .. TickMod - 1, NEW x \in 0 .. TickMod - 1
  PROVE  Since(x) = (tick - x) % TickMod /\ Since(x) \in 0 .. TickMod - 1
<1>1. (tick - x) % TickMod = IF x <= tick THEN tick - x ELSE tick - x + TickMod
  BY DifferenceIs
<1> QED BY <1>1 DEF Since

LEMMA SumIs ==
  ASSUME TickMod \in Nat \ {0}, NEW x \in 0 .. TickMod - 1, NEW p \in Nat, p < TickMod
  PROVE  (x + p) % TickMod = IF x + p < TickMod THEN x + p ELSE x + p - TickMod
<1>1. PICK y \in Int : y = x + p /\ 0 <= y /\ y < TickMod + TickMod
  OBVIOUS
<1>2. /\ y < TickMod => y % TickMod = y
      /\ TickMod <= y => y % TickMod = y - TickMod
  BY <1>1, ModSmall
<1> QED BY <1>1, <1>2

\* The clock with its rounds, as far as the daemon has noticed them.
Round == IF Wrapped THEN TickMod ELSE 0

LEMMA LastIs ==
  ASSUME Basic, TickMod \in Nat \ {0}
  PROVE  Since(last) = tick + Round - last
  BY Parts DEF Since, Round, Wrapped, Time

LEMMA ArmedIs ==
  Armed <=>
    /\ \A t \in Timer : Listed(t) => t \in active /\ -late <= left[t] /\ left[t] <= Limit
    /\ \A t \in ToSet(current) : left[t] = value[t] - tick - Round
    /\ \A t \in ToSet(overflow) : left[t] = value[t] - tick + IF Wrapped THEN 0 ELSE TickMod
  BY DEF Armed, Round

\* Steps that take no time.
LEMMA SinceSame == ASSUME tick' = tick, NEW x PROVE (Since(x))' = Since(x)
  BY DEF Since

LEMMA ArmedSame ==
  ASSUME Armed, UNCHANGED <<lists, left, active, late, tick>>, Wrapped' <=> Wrapped
  PROVE  Armed'
  BY DEF Armed, Listed, lists

LEMMA QueueAgesSame ==
  ASSUME QueueAges, UNCHANGED <<tick, late, queue>>
  PROVE  QueueAges'
  BY DEF QueueAges, Since

LEMMA QueueAgesAppended ==
  ASSUME QueueAges, UNCHANGED <<tick, late>>, queue \in Seq(Word), NEW c \in Word,
         queue' = Append(queue, c), Timed(c) => Since(c.time) <= SendLag + late
  PROVE  QueueAges'
<1>1. /\ Len(queue) \in Nat /\ Len(queue') = Len(queue) + 1
      /\ \A i \in 1 .. Len(queue) : queue'[i] = queue[i]
      /\ queue'[Len(queue) + 1] = c
  BY Appended
<1>2. ASSUME NEW i \in 1 .. Len(queue'), Timed(queue'[i])
      PROVE  Since(queue'[i].time) <= SendLag + late
  <2>1. i \in 1 .. Len(queue) \/ i = Len(queue) + 1
    BY <1>1
  <2> QED BY <2>1, <1>1, <1>2 DEF QueueAges
<1> QED BY <1>2 DEF QueueAges, Since

LEMMA QueueAgesTaken ==
  ASSUME QueueAges, UNCHANGED <<tick, late>>, queue \in Seq(Word), queue # <<>>,
         queue' = Tail(queue)
  PROVE  QueueAges' /\ (Timed(Head(queue)) => Since(Head(queue).time) <= SendLag + late)
<1>1. /\ Len(queue') \in Nat /\ Len(queue) = Len(queue') + 1 /\ Head(queue) = queue[1]
      /\ \A i \in 1 .. Len(queue') : queue'[i] = queue[i + 1]
  BY Taken
<1>2. ASSUME NEW i \in 1 .. Len(queue'), Timed(queue'[i])
      PROVE  Since(queue'[i].time) <= SendLag + late
  <2>1. i + 1 \in 1 .. Len(queue)
    BY <1>1
  <2> QED BY <2>1, <1>1, <1>2 DEF QueueAges
<1>3. 1 \in 1 .. Len(queue)
  BY <1>1
<1> QED BY <1>1, <1>2, <1>3 DEF QueueAges, Since

LEMMA QueueAgesCommanded ==
  ASSUME QueueAges, UNCHANGED <<tick, late>>, queue \in Seq(Word), NEW c \in Commands,
         NEW p, queue' = IF p THEN Commanded(c) ELSE queue,
         p => Since(c.time) <= SendLag + late
  PROVE  QueueAges'
<1>1. CASE queue' = queue
  BY <1>1, QueueAgesSame
<1>2. CASE p /\ queue' = Append(queue, c)
  <2>1. c \in Word
    BY DEF Word
  <2> QED BY <1>2, <2>1, QueueAgesAppended
<1> QED BY <1>1, <1>2 DEF Commanded

LEMMA NoCommandAge == ASSUME cmd' = NoCommand PROVE CmdAge'
  BY DEF CmdAge, Timed, NoCommand, None

\* A timer that moves: what is to show of it.
LEMMA ArmedMoves ==
  ASSUME Basic, Armed, NEW t \in Timer, NEW c, NEW o, NEW v, Moves(t, c, o, v),
         UNCHANGED <<tick, late>>, Wrapped' <=> Wrapped,
         value \in [Timer -> Time], \A u \in Timer \ {t} : left'[u] = left[u],
         \A u \in Timer \ {t} : u \in active => u \in active',
         c \/ o => t \in active' /\ -late <= left'[t] /\ left'[t] <= Limit,
         c => left'[t] = v - tick - Round,
         o => left'[t] = v - tick + IF Wrapped THEN 0 ELSE TickMod
  PROVE  Armed'
<1>1. /\ \A u : u \in ToSet(current') <=> (IF u = t THEN c ELSE u \in ToSet(current))
      /\ \A u : u \in ToSet(overflow') <=> (IF u = t THEN o ELSE u \in ToSet(overflow))
      /\ \A u : (Listed(u))' <=> (IF u = t THEN c \/ o ELSE Listed(u))
      /\ value' = [value EXCEPT ![t] = v]
  BY MovesLists DEF Moves
<1>2. value'[t] = v /\ \A u \in Timer \ {t} : value'[u] = value[u]
  BY <1>1
<1>3. Limit' = Limit /\ Round' = Round
  BY DEF Limit, Round
<1>4. ASSUME NEW u \in Timer, (Listed(u))'
      PROVE  u \in active' /\ -late <= left'[u] /\ left'[u] <= Limit
  BY <1>1, <1>4 DEF Armed
<1>5. ASSUME NEW u \in ToSet(current') PROVE left'[u] = value'[u] - tick - Round
  <2>1. CASE u = t
    BY <1>1, <1>2, <2>1
  <2>2. CASE u # t
    <3>1. u \in ToSet(current) /\ u \in Timer \ {t}
      BY <1>1, <2>2, Members
    <3>2. left[u] = value[u] - tick - Round
      BY <3>1, ArmedIs
    <3> QED BY <1>2, <3>1, <3>2
  <2> QED BY <2>1, <2>2
<1>6. ASSUME NEW u \in ToSet(overflow')
      PROVE  left'[u] = value'[u] - tick + IF Wrapped THEN 0 ELSE TickMod
  <2>1. CASE u = t
    BY <1>1, <1>2, <2>1
  <2>2. CASE u # t
    <3>1. u \in ToSet(overflow) /\ u \in Timer \ {t}
      BY <1>1, <2>2, Members
    <3>2. left[u] = value[u] - tick + IF Wrapped THEN 0 ELSE TickMod
      BY <3>1, ArmedIs
    <3> QED BY <1>2, <3>1, <3>2
  <2> QED BY <2>1, <2>2
<1> QED BY <1>3, <1>4, <1>5, <1>6 DEF Armed, Round

-----------------------------------------------------------------------------
(* The steps keep the clock.                                               *)

\* Steps that leave the lists and the time as they are.
LEMMA StillListed ==
  ASSUME UNCHANGED lists
  PROVE  (SomeListed' <=> SomeListed) /\ \A t : (Listed(t))' <=> Listed(t)
  BY DEF SomeListed, Listed, lists

LEMMA QuietTimely ==
  ASSUME Clock, UNCHANGED <<tick, last, lists, active, late, left>>,
         pc' \in {"commands", "next"}, QueueAges', CmdAge', fired'.left <= 0
  PROVE  Clock'
<1>1. Wrapped' <=> Wrapped
  BY DEF Wrapped
<1>2. Armed' /\ left' \in [Timer -> Int]
  BY <1>1, ArmedSame DEF Clock
<1>3. Recent'
  BY StillListed DEF Clock, Recent, Since, Limit
<1>4. Asleep' /\ WakesInTime' /\ NeverEarly'
  BY DEF Asleep, WakesInTime, NeverEarly
<1> QED BY <1>2, <1>3, <1>4 DEF Clock

LEMMA SentTimely ==
  ASSUME Clock, UNCHANGED <<tick, last, lists, active, late, left, pc, now, cmd>>,
         queue' # <<>>, QueueAges', fired' = Nothing
  PROVE  Clock'
<1>1. Wrapped' <=> Wrapped
  BY DEF Wrapped
<1>2. Armed' /\ left' \in [Timer -> Int]
  BY <1>1, ArmedSame DEF Clock
<1>3. Recent' /\ CmdAge'
  BY StillListed DEF Clock, Recent, Since, Limit, CmdAge, Timed
<1>4. Asleep'
  BY StillListed DEF Clock, Asleep, Since, Limit
<1>5. WakesInTime' /\ NeverEarly'
  BY DEF WakesInTime, NeverEarly, Nothing
<1> QED BY <1>2, <1>3, <1>4, <1>5 DEF Clock

LEMMA WakeTimely == ASSUME Basic, Clock, Wake PROVE Clock'
<1>1. cmd' = NoCommand /\ QueueAges'
  BY Parts, QueueAgesSame DEF Wake, Handed, Goto, Clock
<1> QED BY <1>1, NoCommandAge, QuietTimely DEF Wake, Goto, Nothing

LEMMA NoMoreCommandsTimely == ASSUME Basic, Clock, NoMoreCommands PROVE Clock'
<1>1. cmd' = NoCommand /\ QueueAges'
  BY Parts, QueueAgesSame DEF NoMoreCommands, Handed, Goto, Clock
<1> QED BY <1>1, NoCommandAge, QuietTimely DEF NoMoreCommands, Goto, Nothing

LEMMA PendedCallTimely == ASSUME Basic, Clock, PendedCall PROVE Clock'
<1>1. cmd' = NoCommand
  BY Parts DEF PendedCall, Handed
<1>2. QueueAges'
  BY Parts, QueueAgesTaken DEF PendedCall, Goto, Clock
<1> QED BY <1>1, <1>2, NoCommandAge, QuietTimely DEF PendedCall, Goto, Nothing

LEMMA SendCallTimely == ASSUME Basic, Clock, SendCall PROVE Clock'
<1>1. queue' = Append(queue, Call)
  BY DEF SendCall, Command, Call
<1>2. ~Timed(Call)
  BY CallSent DEF Timed
<1>3. queue' # <<>>
  BY <1>1, CallSent, Parts, Appended, EmptySeq
<1>4. QueueAges'
  BY <1>1, <1>2, CallSent, Parts, QueueAgesAppended DEF SendCall, Clock
<1> QED BY <1>3, <1>4, SentTimely DEF SendCall

LEMMA SendTimely == ASSUME Basic, Slack, Clock, Send PROVE Clock'
<1>1. PICK c \in Commands :
        /\ queue' = Append(queue, c) /\ c.id # "reload"
        /\ c.id = "start" => \E d \in 0 .. SendLag : c.time = (tick - d) % TickMod
  BY SentCommand
<1>2. c \in Word
  BY DEF Word
<1>3. queue' # <<>>
  BY <1>1, <1>2, Parts, Appended, EmptySeq
<1>4. Timed(c) => Since(c.time) <= SendLag + late
  <2>1. ASSUME c.id = "start" PROVE Since(c.time) <= SendLag + late
    <3>1. PICK d \in 0 .. SendLag : c.time = (tick - d) % TickMod
      BY <1>1, <2>1
    <3>2. /\ TickMod \in Nat \ {0} /\ SendLag \in Nat /\ SendLag < TickMod
          /\ tick \in 0 .. TickMod - 1 /\ late \in Nat
      BY Bounds DEF Clock
    <3>3. PICK y \in Int : y = tick - d /\ -TickMod <= y /\ y < TickMod
      BY <3>2
    <3>4. c.time = IF 0 <= y THEN y ELSE y + TickMod
      <4>1. c.time = y % TickMod
        BY <3>1, <3>3
      <4>2. (0 <= y => y % TickMod = y) /\ (y < 0 => y % TickMod = y + TickMod)
        BY <3>2, <3>3, ModSmall
      <4> QED BY <4>1, <4>2, <3>3
    <3>5. Since(c.time) = d
      BY <3>2, <3>3, <3>4 DEF Since
    <3> QED BY <3>2, <3>5
  <2> QED BY <1>1, <2>1 DEF Timed
<1>5. QueueAges'
  BY <1>1, <1>2, <1>4, Parts, QueueAgesAppended DEF Send, Clock
<1> QED BY <1>3, <1>5, SentTimely DEF Send

LEMMA NextWrappedTimely == ASSUME Basic, Clock, NextWrapped PROVE Clock'
<1>1. Wrapped' <=> Wrapped
  BY DEF Wrapped, NextWrapped, Goto
<1>2. Armed' /\ left' \in [Timer -> Int]
  BY <1>1, ArmedSame DEF Clock, NextWrapped, Goto
<1>3. UNCHANGED lists /\ tick' = tick /\ last' = last /\ late' = late /\ now' = tick
      /\ pc' = "switch" /\ tick < last
  BY DEF NextWrapped, Goto, Wrapped
<1>4. tick \in Int /\ late \in Nat
  BY Parts, Limits DEF Time, TypeOK
<1>5. Recent'
  BY <1>3, <1>4, StillListed DEF Clock, Recent, Since, Limit
<1>6. QueueAges'
  BY QueueAgesSame DEF Clock, NextWrapped, Goto
<1>7. Asleep' /\ WakesInTime' /\ NeverEarly'
  BY <1>3 DEF Asleep, WakesInTime, NeverEarly, NextWrapped, Nothing
<1> QED BY <1>2, <1>5, <1>6, <1>7, NoCommandAge DEF Clock, NextWrapped

LEMMA SwitchListsTimely == ASSUME Basic, Slack, Clock, SwitchLists PROVE Clock'
<1>1. /\ pc = "switch" /\ current = <<>> /\ current' = overflow /\ overflow' = <<>>
      /\ last' = now /\ UNCHANGED <<value, active, queue, cmd, left, tick, late>>
      /\ fired' = Nothing /\ ToSet(<<>>) = {}
      /\ \/ cmd = NoCommand /\ pc' = "commands"
         \/ pc' = "execute" /\ now' = now
  BY EmptySeq DEF SwitchLists, Goto, ToSet
<1>2. /\ \A t : (Listed(t))' <=> Listed(t)
      /\ \A t : Listed(t) <=> t \in ToSet(overflow)
      /\ \A t : Listed(t) => t \in Timer
  BY <1>1, Members DEF Listed
<1>3. SomeListed' <=> SomeListed
  BY <1>2 DEF SomeListed
<1>4. SomeListed => now <= tick /\ Wrapped
  BY <1>1 DEF Clock, Recent, Wrapped
<1>5. /\ tick \in Int /\ now \in Int /\ late \in Nat /\ Limit \in Nat /\ TickMod \in Int
      /\ \A t \in Timer : value[t] \in Int
  BY Bounds DEF Clock
<1>6. Limit' = Limit
  BY DEF Limit
<1>7. Armed'
  <2>1. ASSUME NEW t \in Timer, (Listed(t))'
        PROVE  t \in active' /\ -late' <= left'[t] /\ left'[t] <= Limit
    BY <1>1, <1>2, <2>1 DEF Clock, Armed
  <2>2. ASSUME NEW t \in ToSet(current')
        PROVE  left'[t] = value'[t] - tick' - IF tick' < last' THEN TickMod ELSE 0
    <3>1. t \in ToSet(overflow) /\ t \in Timer /\ Listed(t)
      BY <1>1, <1>2, <2>2
    <3>2. now <= tick /\ Wrapped
      BY <1>4, <3>1 DEF SomeListed
    <3>3. left[t] = value[t] - tick + IF Wrapped THEN 0 ELSE TickMod
      BY <3>1 DEF Clock, Armed
    <3>4. ~(tick' < last')
      BY <1>1, <1>5, <3>2
    <3> QED BY <1>1, <1>5, <3>1, <3>2, <3>3, <3>4
  <2>3. ToSet(overflow') = {}
    BY <1>1
  <2> QED BY <1>6, <2>1, <2>2, <2>3 DEF Armed, Wrapped
<1>8. Since(now) <= late /\ Since(now) \in Int
  BY <1>1, <1>5 DEF Clock, Recent, Since
<1>9. Recent'
  <2>1. SomeListed' => Since(last)' <= Limit' + late'
    BY <1>1, <1>5, <1>6, <1>8 DEF Since
  <2>2. pc' # "switch"
    BY <1>1
  <2>3. pc' = "execute" => last' = now' /\ Since(now)' <= late'
    BY <1>1, <1>8 DEF Since
  <2> QED BY <2>1, <2>2, <2>3 DEF Recent
<1>10. CmdAge'
  BY <1>1, NoCommandAge DEF Clock, CmdAge, Since, Timed
<1>11. QueueAges'
  BY <1>1, QueueAgesSame DEF Clock
<1>12. Asleep' /\ WakesInTime' /\ NeverEarly'
  BY <1>1 DEF Asleep, WakesInTime, NeverEarly, Nothing
<1> QED BY <1>1, <1>7, <1>9, <1>10, <1>11, <1>12 DEF Clock

LEMMA TakeCommandTimely == ASSUME Basic, Slack, Clock, TakeCommand PROVE Clock'
<1>1. PICK c \in Commands : /\ c = Head(queue) /\ cmd' = c /\ c.timer \in Timer
                            /\ Moves(c.timer, FALSE, FALSE, 0)
  BY TakenCommand
<1>2. /\ queue # <<>> /\ queue' = Tail(queue) /\ now' = tick /\ fired' = Nothing
      /\ UNCHANGED <<active, left, tick, late>>
      /\ \/ Wrapped /\ pc' = "switch" /\ last' = last
         \/ ~Wrapped /\ pc' = "execute" /\ last' = tick
  BY DEF TakeCommand, Goto
<1>3. /\ tick \in 0 .. TickMod - 1 /\ TickMod \in Nat \ {0} /\ late \in Nat /\ Limit \in Nat
      /\ c.time \in 0 .. TickMod - 1
  BY Bounds DEF Clock, Commands, Time
<1>4. Wrapped' <=> Wrapped
  BY <1>2, <1>3 DEF Wrapped
<1>5. Armed'
  BY <1>1, <1>2, <1>4, Parts, ArmedMoves DEF Clock, ListTypes
<1>6. SomeListed' => SomeListed
  BY <1>1, MovesLists DEF SomeListed
<1>7. Since(tick) = 0
  BY <1>3 DEF Since
<1>8. Limit' = Limit
  BY DEF Limit
<1>9. Recent'
  <2>1. CASE Wrapped /\ pc' = "switch" /\ last' = last
    <3>1. SomeListed' => Since(last)' <= Limit' + late'
      BY <1>2, <1>6, <1>8, <2>1 DEF Clock, Recent, Since
    <3>2. now' <= tick' /\ tick' < last' /\ Since(now)' <= late'
      BY <1>2, <1>3, <2>1, <1>7 DEF Wrapped, Since
    <3> QED BY <2>1, <3>1, <3>2 DEF Recent
  <2>2. CASE ~Wrapped /\ pc' = "execute" /\ last' = tick
    <3>1. Since(last)' <= Limit' + late'
      BY <1>2, <1>3, <1>7, <1>8, <2>2 DEF Since
    <3>2. last' = now' /\ Since(now)' <= late'
      BY <1>2, <1>3, <1>7, <2>2 DEF Since
    <3> QED BY <2>2, <3>1, <3>2 DEF Recent
  <2> QED BY <1>2, <2>1, <2>2
<1>10. QueueAges' /\ (Timed(c) => Since(c.time) <= SendLag + late)
  BY <1>1, <1>2, Parts, QueueAgesTaken DEF Clock
<1>11. CmdAge'
  <2>1. 0 <= Since(c.time)
    BY <1>3, SinceIs
  <2>2. Since(now)' = 0 /\ Since(c.time)' = Since(c.time)
    BY <1>2, <1>7 DEF Since
  <2> QED BY <1>1, <1>2, <1>10, <2>1, <2>2 DEF CmdAge, Timed, Since
<1>12. Asleep' /\ WakesInTime' /\ NeverEarly'
  BY <1>2 DEF Asleep, WakesInTime, NeverEarly, Nothing
<1> QED BY <1>2, <1>5, <1>9, <1>10, <1>11, <1>12 DEF Clock

LEMMA EndTimely ==
  ASSUME Basic, Clock, NEW t \in Timer, ~Listed(t),
         UNCHANGED <<lists, queue, tick, late, last>>, active' = active \ {t},
         left' = [left EXCEPT ![t] = 0], pc' = "commands", cmd' = NoCommand, fired' = Nothing
  PROVE  Clock'
<1>1. /\ left' \in [Timer -> Int] /\ \A u \in Timer : Listed(u) => left'[u] = left[u] /\ u # t
  BY DEF Clock
<1>2. Limit' = Limit /\ (Wrapped' <=> Wrapped)
  BY DEF Limit, Wrapped
<1>3. Armed'
  <2>1. ASSUME NEW u \in Timer, (Listed(u))'
        PROVE  u \in active' /\ -late' <= left'[u] /\ left'[u] <= Limit
    BY <1>1, <2>1, StillListed DEF Clock, Armed
  <2>2. ASSUME NEW u \in ToSet(current')
        PROVE  left'[u] = value'[u] - tick' - IF Wrapped THEN TickMod ELSE 0
    BY <1>1, Members DEF Clock, Armed, lists
  <2>3. ASSUME NEW u \in ToSet(overflow')
        PROVE  left'[u] = value'[u] - tick' + IF Wrapped THEN 0 ELSE TickMod
    BY <1>1, Members DEF Clock, Armed, lists
  <2> QED BY <1>2, <2>1, <2>2, <2>3 DEF Armed
<1>4. Recent'
  BY StillListed DEF Clock, Recent, Since, Limit
<1>5. Asleep' /\ WakesInTime' /\ NeverEarly'
  BY DEF Asleep, WakesInTime, NeverEarly, Nothing
<1> QED BY <1>1, <1>3, <1>4, <1>5, QueueAgesSame, NoCommandAge DEF Clock

LEMMA StopTimely == ASSUME Basic, Clock, Stop PROVE Clock'
<1>1. PICK t \in Timer : t = cmd.timer
  BY Parts DEF Stop, NoCommand, None, Commands
<1> QED BY <1>1, Parts, EndTimely DEF Stop, Goto

LEMMA DeleteTimely == ASSUME Basic, Clock, Delete PROVE Clock'
<1>1. PICK t \in Timer : t = cmd.timer
  BY Parts DEF Delete, NoCommand, None, Commands
<1> QED BY <1>1, Parts, EndTimely DEF Delete, Goto

\* A tick passes.
LEMMA TickedIs ==
  ASSUME Basic, Slack, Clock, Tick
  PROVE  /\ tick' = IF tick + 1 < TickMod THEN tick + 1 ELSE 0
         /\ \A x \in Time : Since(x) < TickMod - 1 => Since(x)' = Since(x) + 1
         /\ Busy => late < Lag /\ late' = late + 1
         /\ ~Busy => late' = 0
<1>1. /\ tick \in 0 .. TickMod - 1 /\ TickMod \in Nat \ {0} /\ 1 < TickMod
  BY Bounds, Numbers DEF Clock
<1>2. tick' = IF tick + 1 < TickMod THEN tick + 1 ELSE 0
  <2>1. (tick + 1) % TickMod = IF tick + 1 < TickMod THEN tick + 1 ELSE tick + 1 - TickMod
    BY <1>1, SumIs
  <2> QED BY <1>1, <2>1 DEF Tick
<1>3. ASSUME NEW x \in Time, Since(x) < TickMod - 1 PROVE Since(x)' = Since(x) + 1
  <2>1. x \in 0 .. TickMod - 1
    BY DEF Time
  <2>2. Since(x)' = IF x <= tick' THEN tick' - x ELSE tick' - x + TickMod
    BY DEF Since
  <2>3. CASE tick + 1 < TickMod
    BY <1>1, <1>2, <1>3, <2>1, <2>2, <2>3 DEF Since
  <2>4. CASE ~(tick + 1 < TickMod)
    BY <1>1, <1>2, <1>3, <2>1, <2>2, <2>4 DEF Since
  <2> QED BY <2>3, <2>4
<1> QED BY <1>2, <1>3 DEF Tick

LEMMA TickListed ==
  ASSUME Basic, Slack, Clock, Tick, SomeListed
  PROVE  /\ Since(last) < TickMod - 1 /\ Since(last) + 1 <= Limit + late'
         /\ tick' + Round' = tick + Round + 1
         /\ \A t \in Timer : Listed(t) => /\ left'[t] = left[t] - 1
                                          /\ -late' <= left'[t] /\ left'[t] <= Limit
<1>1. /\ tick \in 0 .. TickMod - 1 /\ last \in 0 .. TickMod - 1 /\ TickMod \in Nat \ {0}
      /\ Lag \in Nat /\ Lag < TickMod /\ late \in 0 .. Lag /\ Limit = TickMod - 1 - Lag
      /\ Limit \in Nat /\ sleep \in Int
      /\ \A t \in Timer : left[t] \in Int
  BY Bounds DEF Clock
<1>2. /\ tick' = IF tick + 1 < TickMod THEN tick + 1 ELSE 0
      /\ Busy => late < Lag /\ late' = late + 1
      /\ ~Busy => late' = 0
  BY TickedIs
<1>3. Since(last) \in Int /\ Since(last) <= Limit + late
  BY <1>1 DEF Clock, Recent, Since
<1>4. ASSUME ~Busy
      PROVE  \A t \in Timer : Listed(t) => left[t] >= 1 /\ Since(last) + left[t] <= Limit
  <2>1. pc = "blocked" /\ queue = <<>> /\ sleep # 0
    BY <1>4 DEF Busy
  <2> QED BY <1>1, <2>1 DEF Clock, WakesInTime, Asleep
<1>5. Since(last) < TickMod - 1 /\ Since(last) + 1 <= Limit + late'
  <2>1. CASE Busy
    BY <1>1, <1>2, <1>3, <2>1
  <2>2. CASE ~Busy
    <3>1. PICK t \in Timer : Listed(t)
      BY DEF SomeListed
    <3>2. left[t] >= 1 /\ Since(last) + left[t] <= Limit
      BY <1>4, <2>2, <3>1
    <3> QED BY <1>1, <1>2, <1>3, <2>2, <3>2
  <2> QED BY <2>1, <2>2
<1>6. tick' + Round' = tick + Round + 1
  <2>1. last' = last
    BY DEF Tick
  <2>2. CASE tick + 1 < TickMod
    BY <1>1, <1>2, <1>5, <2>1, <2>2 DEF Round, Wrapped, Since
  <2>3. CASE ~(tick + 1 < TickMod)
    BY <1>1, <1>2, <1>5, <2>1, <2>3 DEF Round, Wrapped, Since
  <2> QED BY <2>2, <2>3
<1>7. ASSUME NEW t \in Timer, Listed(t)
      PROVE  left'[t] = left[t] - 1 /\ -late' <= left'[t] /\ left'[t] <= Limit
  <2>1. t \in active /\ -late <= left[t] /\ left[t] <= Limit
    BY <1>7 DEF Clock, Armed
  <2>2. t \in Counting /\ left[t] > -TickMod
    BY <1>1, <1>7, <2>1 DEF Counting
  <2>3. left'[t] = left[t] - 1
    BY <2>2 DEF Tick
  <2>4. CASE Busy
    BY <1>1, <1>2, <2>1, <2>3, <2>4
  <2>5. CASE ~Busy
    BY <1>1, <1>2, <1>4, <1>7, <2>1, <2>3, <2>5
  <2> QED BY <2>3, <2>4, <2>5
<1> QED BY <1>5, <1>6, <1>7

LEMMA TickTimely == ASSUME Basic, Slack, Clock, Tick PROVE Clock'
<1>1. /\ tick \in 0 .. TickMod - 1 /\ last \in 0 .. TickMod - 1 /\ now \in 0 .. TickMod - 1
      /\ TickMod \in Nat \ {0} /\ Lag \in Nat /\ SendLag \in Nat /\ SendLag + Lag < TickMod
      /\ late \in 0 .. Lag /\ sleep \in Int
      /\ \A t \in Timer : value[t] \in Int /\ left[t] \in Int
  BY Bounds DEF Clock
<1>2. /\ tick' = IF tick + 1 < TickMod THEN tick + 1 ELSE 0
      /\ \A x \in Time : Since(x) < TickMod - 1 => Since(x)' = Since(x) + 1
      /\ Busy => late < Lag /\ late' = late + 1
      /\ ~Busy => late' = 0
  BY TickedIs
<1>3. UNCHANGED <<last, lists, active, queue, pc, now, cmd>> /\ fired' = Nothing
  BY DEF Tick
<1>4. /\ SomeListed' <=> SomeListed
      /\ \A t : (Listed(t))' <=> Listed(t)
      /\ \A t \in Timer : Listed(t) => SomeListed
  BY <1>3, StillListed DEF SomeListed
<1>5. ASSUME SomeListed
      PROVE  /\ Since(last) < TickMod - 1 /\ Since(last) + 1 <= Limit + late'
             /\ tick' + Round' = tick + Round + 1
             /\ \A t \in Timer : Listed(t) => /\ left'[t] = left[t] - 1
                                              /\ -late' <= left'[t] /\ left'[t] <= Limit
  BY <1>5, TickListed
<1>6. left' \in [Timer -> Int]
  <2>1. \A t \in Timer : (IF t \in Counting /\ left[t] > -TickMod THEN left[t] - 1 ELSE left[t])
                         \in Int
    BY <1>1
  <2> QED BY <2>1 DEF Tick
<1>7. Limit' = Limit /\ Since(last) \in Int /\ Round \in Int
  BY <1>1 DEF Limit, Since, Round
<1>8. Round' = (IF Wrapped' THEN TickMod ELSE 0) /\ tick' \in Int
  BY <1>1, <1>2 DEF Round
<1>9. Armed'
  <2>1. ASSUME NEW t \in Timer, (Listed(t))'
        PROVE  t \in active' /\ -late' <= left'[t] /\ left'[t] <= Limit
    <3>1. t \in active
      BY <1>4, <2>1 DEF Clock, Armed
    <3> QED BY <1>3, <1>4, <1>5, <2>1, <3>1
  <2>2. ASSUME NEW t \in ToSet(current') PROVE left'[t] = value'[t] - tick' - Round'
    <3>1. t \in Timer /\ Listed(t) /\ SomeListed /\ t \in ToSet(current)
      BY <1>3, <1>4, <2>2, Members DEF lists
    <3>2. left[t] = value[t] - tick - Round
      BY <3>1 DEF Clock, Armed, Round
    <3>3. value'[t] = value[t]
      BY <1>3 DEF lists
    <3>4. left'[t] = left[t] - 1 /\ tick' + Round' = tick + Round + 1
      BY <1>5, <3>1
    <3>5. /\ tick \in Int /\ Round \in Int /\ tick' \in Int /\ Round' \in Int
          /\ value[t] \in Int /\ left[t] \in Int /\ TickMod \in Int
      BY <1>1, <1>7, <1>8, <3>1
    <3>6. left'[t] = value[t] - (tick + Round + 1)
      BY <3>2, <3>4, <3>5
    <3>7. value[t] - (tick' + Round') = value[t] - tick' - Round'
      BY <3>5
    <3> QED BY <3>3, <3>4, <3>6, <3>7
  <2>3. ASSUME NEW t \in ToSet(overflow') PROVE left'[t] = value'[t] - tick' - Round' + TickMod
    <3>1. t \in Timer /\ Listed(t) /\ SomeListed /\ t \in ToSet(overflow)
      BY <1>3, <1>4, <2>3, Members DEF lists
    <3>2. left[t] = value[t] - tick - Round + TickMod
      <4>1. left[t] = value[t] - tick + IF Wrapped THEN 0 ELSE TickMod
        BY <3>1 DEF Clock, Armed
      <4> QED BY <1>1, <3>1, <4>1 DEF Round
    <3>3. value'[t] = value[t]
      BY <1>3 DEF lists
    <3>4. left'[t] = left[t] - 1 /\ tick' + Round' = tick + Round + 1
      BY <1>5, <3>1
    <3>5. /\ tick \in Int /\ Round \in Int /\ tick' \in Int /\ Round' \in Int
          /\ value[t] \in Int /\ left[t] \in Int /\ TickMod \in Int
      BY <1>1, <1>7, <1>8, <3>1
    <3> QED BY <3>2, <3>3, <3>4, <3>5
  <2>4. ASSUME NEW t \in ToSet(overflow')
        PROVE  left'[t] = value'[t] - tick' + IF Wrapped' THEN 0 ELSE TickMod
    <3>1. t \in Timer /\ value'[t] \in Int
      BY <1>1, <1>3, <2>4, Members DEF lists
    <3> QED BY <1>1, <1>8, <2>3, <3>1
  <2> QED BY <1>7, <1>8, <2>1, <2>2, <2>4 DEF Armed
<1>10. ASSUME pc \in {"switch", "execute"} PROVE Since(now)' = Since(now) + 1 /\ Since(now) <= late
  <2>1. Since(now) <= late /\ late < Lag /\ Since(now) \in Int
    BY <1>1, <1>2, <1>10 DEF Clock, Recent, Busy, Since
  <2> QED BY <1>1, <1>2, <1>3, <2>1 DEF Time, Since
<1>11. Recent'
  <2>1. SomeListed' => Since(last)' <= Limit' + late'
    <3>1. SomeListed => Since(last)' = Since(last) + 1
      BY <1>1, <1>2, <1>3, <1>5 DEF Time, Since
    <3> QED BY <3>1, <1>4, <1>5, <1>7
  <2>2. pc' = "switch" /\ SomeListed' => now' <= tick' /\ tick' < last'
    <3>1. pc = "switch" /\ SomeListed => now <= tick /\ tick < last
      BY DEF Clock, Recent
    <3>2. SomeListed => Since(last) < TickMod - 1
      BY <1>5
    <3> QED BY <1>1, <1>2, <1>3, <1>4, <3>1, <3>2 DEF Since
  <2>3. pc' \in {"switch", "execute"} => Since(now)' <= late'
    <3>1. pc \in {"switch", "execute"} => Busy
      BY DEF Busy
    <3>2. Since(now) \in Int
      BY <1>1 DEF Since
    <3> QED BY <1>1, <1>2, <1>3, <1>10, <3>1, <3>2
  <2>4. pc' = "execute" => last' = now'
    BY <1>3 DEF Clock, Recent
  <2> QED BY <2>1, <2>2, <2>3, <2>4 DEF Recent
<1>12. QueueAges'
  <2>1. ASSUME NEW i \in 1 .. Len(queue), Timed(queue[i])
        PROVE  Since(queue[i].time)' <= SendLag + late'
    <3>1. queue[i] \in Word
      BY Parts
    <3>2. PICK c \in Commands : c = queue[i]
      BY <2>1, <3>1 DEF Word, Call, Timed
    <3>3. c.time \in Time
      BY DEF Commands
    <3>4. Busy
      BY EmptySeq, <2>1 DEF Busy
    <3>5. Since(c.time) <= SendLag + late /\ Since(c.time) \in Int
      BY <1>1, <2>1, <3>2, <3>3 DEF Clock, QueueAges, Since, Time
    <3>6. Since(c.time)' = Since(c.time) + 1
      BY <1>1, <1>2, <3>3, <3>4, <3>5
    <3>7. Since(c.time)' <= SendLag + late'
      BY <1>1, <1>2, <3>4, <3>5, <3>6
    <3>8. Since(queue[i].time)' = Since(c.time)'
      BY <1>3, <3>2 DEF Since
    <3> QED BY <3>7, <3>8
  <2> QED BY <1>3, <2>1 DEF QueueAges, Timed, Since
<1>13. CmdAge'
  <2>1. ASSUME Timed(cmd)
        PROVE  Since(now)' <= Since(cmd.time)' /\ Since(cmd.time)' <= SendLag + late'
    <3>1. cmd \in Commands /\ cmd # NoCommand
      BY <2>1, Parts DEF Timed, NoCommand, None
    <3>2. cmd.time \in Time /\ pc \in {"switch", "execute"}
      BY <3>1, Parts DEF Commands, Handed
    <3>3. Busy
      BY <3>2 DEF Busy
    <3>4. /\ Since(now) <= Since(cmd.time) /\ Since(cmd.time) <= SendLag + late
          /\ Since(cmd.time) \in Int /\ Since(now) \in Int
      BY <1>1, <2>1, <3>2 DEF Clock, CmdAge, Since, Time
    <3>5. Since(cmd.time)' = Since(cmd.time) + 1
      <4>1. Since(cmd.time) < TickMod - 1
        BY <1>1, <1>2, <3>3, <3>4
      <4>2. PICK x \in Time : x = cmd.time
        BY <3>2
      <4>3. Since(x)' = Since(x) + 1
        BY <1>2, <4>1, <4>2
      <4> QED BY <1>3, <4>2, <4>3 DEF Since
    <3> QED BY <1>1, <1>2, <1>10, <3>2, <3>3, <3>4, <3>5
  <2> QED BY <1>3, <2>1 DEF CmdAge, Timed
<1>14. Asleep'
  <2>1. ASSUME pc = "blocked", NEW t \in Timer, Listed(t)
        PROVE  Since(last)' + left'[t] <= Limit
    <3>1. Since(last) + left[t] <= Limit
      BY <2>1 DEF Clock, Asleep
    <3>2. Since(last)' = Since(last) + 1
      BY <1>1, <1>2, <1>3, <1>4, <1>5, <2>1 DEF Time, Since
    <3>3. left'[t] = left[t] - 1
      BY <1>4, <1>5, <2>1
    <3> QED BY <1>1, <1>7, <3>1, <3>2, <3>3
  <2> QED BY <1>3, <1>4, <1>7, <2>1 DEF Asleep
<1>15. WakesInTime'
  <2>1. ASSUME pc = "blocked", queue = <<>>, sleep' # 0, NEW t \in Timer, Listed(t)
        PROVE  sleep' > 0 /\ sleep' <= left'[t]
    <3>1. sleep' = IF sleep > 0 THEN sleep - 1 ELSE sleep
      BY DEF Tick
    <3>2. sleep > 0 /\ sleep <= left[t]
      BY <1>1, <2>1, <3>1 DEF Clock, WakesInTime
    <3> QED BY <1>1, <1>4, <1>5, <2>1, <3>1, <3>2
  <2> QED BY <1>3, <1>4, <2>1 DEF WakesInTime
<1>16. NeverEarly'
  BY <1>3 DEF NeverEarly, Nothing
<1> QED BY <1>6, <1>9, <1>11, <1>12, <1>13, <1>14, <1>15, <1>16 DEF Clock

\* The first of the current list is the first to come due.
LEMMA HeadIsLeast ==
  ASSUME Basic, NEW t \in ToSet(current)
  PROVE  /\ current # <<>> /\ Head(current) \in Timer /\ Head(current) \in ToSet(current)
         /\ value[Head(current)] <= value[t]
<1>1. PICK i \in 1 .. Len(current) : t = current[i]
  BY Parts, ListMembers DEF ListTypes
<1>2. current # <<>> /\ current \in Seq(Timer) /\ Len(current) \in Nat
  BY <1>1, Parts, EmptySeq, LenProperties DEF ListTypes
<1>3. Head(current) = current[1] /\ 1 \in 1 .. Len(current)
  BY <1>1, <1>2
<1>4. Head(current) \in ToSet(current) /\ Head(current) \in Timer /\ t \in Timer
  BY <1>2, <1>3, ListMembers, ElementOfSeq
<1>5. CASE i = 1
  BY <1>1, <1>2, <1>3, <1>4, <1>5, Parts DEF ListTypes, Time
<1>6. CASE i # 1
  <2>1. 1 < i
    BY <1>1, <1>2, <1>6
  <2> QED BY <1>1, <1>2, <1>3, <1>4, <2>1, Parts DEF Lists, InOrder
<1> QED BY <1>2, <1>4, <1>5, <1>6

LEMMA NoneDue ==
  ASSUME Basic, Slack, Clock, ~Wrapped, ~Due
  PROVE  \A t \in Timer : Listed(t) =>
           left[t] > 0 /\ (current # <<>> => value[Head(current)] - tick <= left[t])
<1>1. /\ tick \in 0 .. TickMod - 1 /\ TickMod \in Nat \ {0}
      /\ \A t \in Timer : value[t] \in 0 .. TickMod - 1 /\ left[t] \in Int
  BY Bounds DEF Clock
<1>2. current # <<>> => Head(current) \in Timer /\ value[Head(current)] > tick
  <2>1. current # <<>> => Head(current) \in Timer
    BY Parts, HeadTailProperties DEF ListTypes
  <2> QED BY <1>1, <2>1 DEF Due
<1>3. ASSUME NEW t \in Timer, Listed(t)
      PROVE  left[t] > 0 /\ (current # <<>> => value[Head(current)] - tick <= left[t])
  <2>1. CASE t \in ToSet(current)
    <3>1. left[t] = value[t] - tick
      BY <1>1, <2>1 DEF Clock, Armed
    <3>2. current # <<>> /\ value[Head(current)] <= value[t]
      BY <2>1, HeadIsLeast
    <3> QED BY <1>1, <1>2, <3>1, <3>2
  <2>2. CASE t \in ToSet(overflow)
    <3>1. left[t] = value[t] - tick + TickMod
      BY <1>1, <2>2 DEF Clock, Armed
    <3> QED BY <1>1, <1>2, <3>1
  <2> QED BY <1>3, <2>1, <2>2 DEF Listed
<1> QED BY <1>3

LEMMA WaitIsShort ==
  ASSUME Basic, Slack, Clock, ~Wrapped, ~Due, NEW t \in Timer, Listed(t)
  PROVE  TicksToWait > 0 /\ TicksToWait <= left[t]
<1>1. /\ tick \in 0 .. TickMod - 1 /\ TickMod \in Nat \ {0}
      /\ value[t] \in 0 .. TickMod - 1 /\ left[t] \in Int
      /\ \A u \in Timer : value[u] \in 0 .. TickMod - 1
  BY Bounds DEF Clock
<1>2. ~(current = <<>> /\ overflow = <<>>)
  <2>1. ToSet(<<>>) = {}
    BY EmptySeq DEF ToSet
  <2> QED BY <2>1 DEF Listed
<1>3. left[t] > 0 /\ (current # <<>> => value[Head(current)] - tick <= left[t])
  BY NoneDue
<1>4. CASE current # <<>>
  <2>1. Head(current) \in Timer
    BY <1>4, Parts, HeadTailProperties DEF ListTypes
  <2>2. PICK v \in 0 .. TickMod - 1 : v = value[Head(current)]
    BY <1>1, <2>1
  <2>3. v > tick
    BY <1>1, <1>4, <2>2 DEF Due
  <2>4. PICK n \in Int : n = v - tick /\ 0 < n
    BY <1>1, <2>3
  <2>5. n % TickMod = n
    BY <1>1, <2>3, <2>4, DifferenceIs
  <2>6. TicksToWait = n
    BY <1>2, <1>4, <2>2, <2>4, <2>5 DEF TicksToWait
  <2> QED BY <1>3, <1>4, <2>2, <2>4, <2>6
<1>5. CASE current = <<>>
  <2>1. t \in ToSet(overflow)
    <3>1. ToSet(<<>>) = {}
      BY EmptySeq DEF ToSet
    <3> QED BY <1>5, <3>1 DEF Listed
  <2>2. left[t] = value[t] - tick + TickMod
    BY <2>1 DEF Clock, Armed
  <2>3. PICK n \in Int : n = 0 - tick /\ n <= 0
    BY <1>1
  <2>4. n % TickMod = IF n = 0 THEN 0 ELSE TickMod + n
    <3>1. (0 - tick) % TickMod = IF tick <= 0 THEN 0 - tick ELSE 0 - tick + TickMod
      BY <1>1, DifferenceIs
    <3> QED BY <1>1, <2>3, <3>1
  <2>5. TicksToWait = IF n = 0 THEN 1 ELSE TickMod + n
    <3>1. TicksToWait = IF n % TickMod = 0 THEN 1 ELSE n % TickMod
      BY <1>2, <1>5, <2>3 DEF TicksToWait
    <3> QED BY <1>1, <2>3, <2>4, <3>1
  <2> QED BY <1>1, <2>2, <2>3, <2>5
<1> QED BY <1>4, <1>5

LEMMA NextBlocksTimely == ASSUME Basic, Slack, Clock, NextBlocks PROVE Clock'
<1>1. /\ pc = "next" /\ ~Wrapped /\ ~Due /\ last' = tick /\ fired' = Nothing
      /\ UNCHANGED <<lists, active, queue, cmd, left, tick>>
      /\ \/ queue = <<>> /\ pc' = "blocked" /\ late' = 0 /\ sleep' = TicksToWait
         \/ queue # <<>> /\ pc' = "commands" /\ late' = late
  BY DEF NextBlocks, Goto
<1>2. /\ tick \in 0 .. TickMod - 1 /\ late \in Nat /\ Limit \in Nat
      /\ \A t \in Timer : left[t] \in Int
  BY Bounds DEF Clock
<1>3. \A t \in Timer : Listed(t) => left[t] > 0
  BY <1>1, NoneDue
<1>4. Wrapped' = FALSE /\ Limit' = Limit /\ late' \in Nat /\ Since(last)' = 0
  BY <1>1, <1>2 DEF Wrapped, Limit, Since
<1>5. Armed'
  <2>1. ASSUME NEW t \in Timer, (Listed(t))'
        PROVE  t \in active' /\ -late' <= left'[t] /\ left'[t] <= Limit
    <3>1. Listed(t)
      BY <1>1, <2>1, StillListed
    <3>2. t \in active /\ left[t] <= Limit
      BY <3>1 DEF Clock, Armed
    <3> QED BY <1>1, <1>2, <1>3, <1>4, <3>1, <3>2
  <2>2. ASSUME NEW t \in ToSet(current') PROVE left'[t] = value'[t] - tick' - 0
    BY <1>1 DEF Clock, Armed, lists
  <2>3. ASSUME NEW t \in ToSet(overflow') PROVE left'[t] = value'[t] - tick' + TickMod
    BY <1>1 DEF Clock, Armed, lists
  <2> QED BY <1>4, <2>1, <2>2, <2>3 DEF Armed
<1>6. Recent'
  <2>1. Since(last)' <= Limit' + late'
    <3>1. PICK l \in Nat, m \in Nat : l = late' /\ m = Limit'
      BY <1>2, <1>4, Zenon
    <3>2. 0 <= m + l
      OBVIOUS
    <3>3. Since(last)' = 0
      BY <1>4
    <3> QED BY <3>1, <3>2, <3>3, Zenon
  <2>2. pc' \notin {"switch", "execute"}
    BY <1>1
  <2> QED BY <2>1, <2>2 DEF Recent
<1>7. QueueAges'
  <2>1. CASE queue = <<>>
    BY <1>1, <2>1, EmptySeq DEF QueueAges
  <2>2. CASE queue # <<>>
    BY <1>1, <2>2, QueueAgesSame DEF Clock
  <2> QED BY <2>1, <2>2
<1>8. CmdAge'
  BY <1>1, Parts, NoCommandAge DEF Handed
<1>9. Asleep'
  <2>1. ASSUME NEW t \in Timer, (Listed(t))' PROVE 0 + left'[t] <= Limit
    BY <1>1, <1>2, <2>1, StillListed DEF Clock, Armed
  <2> QED BY <1>4, <2>1 DEF Asleep
<1>10. WakesInTime'
  <2>1. ASSUME pc' = "blocked", NEW t \in Timer, (Listed(t))'
        PROVE  sleep' > 0 /\ sleep' <= left'[t]
    BY <1>1, <2>1, StillListed, WaitIsShort
  <2> QED BY <2>1 DEF WakesInTime
<1>11. NeverEarly'
  BY <1>1 DEF NeverEarly, Nothing
<1> QED BY <1>1, <1>5, <1>6, <1>7, <1>8, <1>9, <1>10, <1>11 DEF Clock

\* The arithmetic of prvInsertTimerInActiveList: the daemon, which has looked
\* at the time at n, starts a timer of period p from the time x.
LEMMA Reckoned ==
  ASSUME Basic, Slack, Clock, NEW t \in Timer, NEW n \in Time, NEW x \in Time, NEW p \in Periods,
         Since(n) <= Since(x), Since(n) <= late, NEW y, y = (x + p) % TickMod,
         NEW kept \in BOOLEAN,
         kept <=> ~((y <= n /\ (n - x) % TickMod >= p) \/ (y > n /\ n < x /\ y >= x)),
         NEW r, r = IF tick < n THEN TickMod ELSE 0
  PROVE  /\ Since(x) \in Int /\ p - Since(x) \in Int
         /\ y > n \/ y <= n
         /\ kept /\ y > n => p - Since(x) = y - tick - r
         /\ kept /\ y <= n => p - Since(x) = y - tick - r + TickMod
         /\ kept => -late <= p - Since(x) /\ p - Since(x) <= Limit
         /\ ~kept => /\ p - Since(x) <= 0
                     /\ Since(y) = Since(x) - p /\ Since(y) <= Since(x)
<1>1. /\ TickMod \in Nat \ {0} /\ tick \in 0 .. TickMod - 1 /\ late \in Nat
      /\ Limit \in Nat /\ p \in Nat /\ p >= 1 /\ p <= Limit /\ Limit < TickMod
      /\ n \in 0 .. TickMod - 1 /\ x \in 0 .. TickMod - 1
  BY Bounds DEF Clock, Time
<1>2. y = IF x + p < TickMod THEN x + p ELSE x + p - TickMod
  BY <1>1, SumIs
<1>3. PICK d \in Int : d = (n - x) % TickMod /\ d = IF x <= n THEN n - x ELSE n - x + TickMod
  <2>1. (n - x) % TickMod = IF x <= n THEN n - x ELSE n - x + TickMod
    BY <1>1, DifferenceIs
  <2> QED BY <1>1, <2>1
<1>4. PICK s \in Int : s = Since(n) /\ s = IF n <= tick THEN tick - n ELSE tick - n + TickMod
  <2>1. Since(n) \in Int
    BY <1>1, SinceIs
  <2> QED BY <2>1 DEF Since
<1>5. PICK a \in Int : a = Since(x) /\ a = IF x <= tick THEN tick - x ELSE tick - x + TickMod
  BY <1>1 DEF Since
<1>6. y \in Int /\ r \in Int /\ p \in 1 .. TickMod - 1 /\ s <= a /\ 0 <= a
  BY <1>1, <1>2, <1>4, <1>5
<1>7. kept <=> ~((y <= n /\ d >= p) \/ (y > n /\ n < x /\ y >= x))
  BY <1>3
<1>8. /\ kept /\ y > n => p - a = y - tick - r
      /\ kept /\ y <= n => p - a = y - tick - r + TickMod
      /\ kept => -s <= p - a
      /\ ~kept => p - a <= 0 /\ (IF y <= tick THEN tick - y ELSE tick - y + TickMod) = a - p
  <2>1. d = a - s
    <3>1. CASE x <= n
      BY <1>1, <1>3, <1>4, <1>5, <1>6, <3>1
    <3>2. CASE ~(x <= n)
      BY <1>1, <1>3, <1>4, <1>5, <1>6, <3>2
    <3> QED BY <3>1, <3>2
  <2>2. n - tick - r = -s
    BY <1>1, <1>4, <1>6
  <2>3. CASE x <= n
    <3>1. CASE x + p < TickMod
      BY <1>1, <1>2, <1>3, <1>4, <1>5, <1>6, <1>7, <2>1, <2>2, <2>3, <3>1
    <3>2. CASE ~(x + p < TickMod)
      BY <1>1, <1>2, <1>3, <1>4, <1>5, <1>6, <1>7, <2>1, <2>2, <2>3, <3>2
    <3> QED BY <3>1, <3>2
  <2>4. CASE ~(x <= n)
    <3>1. CASE x + p < TickMod
      BY <1>1, <1>2, <1>3, <1>4, <1>5, <1>6, <1>7, <2>1, <2>2, <2>4, <3>1
    <3>2. CASE ~(x + p < TickMod)
      BY <1>1, <1>2, <1>3, <1>4, <1>5, <1>6, <1>7, <2>1, <2>2, <2>4, <3>2
    <3> QED BY <3>1, <3>2
  <2> QED BY <2>3, <2>4
<1>9. kept => -late <= p - a /\ p - a <= Limit
  BY <1>1, <1>4, <1>6, <1>8
<1>10. ~kept => Since(y) = a - p /\ Since(y) <= a
  BY <1>1, <1>6, <1>8 DEF Since
<1>11. p - a \in Int /\ (y > n \/ y <= n)
  BY <1>1, <1>6
<1> QED BY <1>5, <1>8, <1>9, <1>10, <1>11

LEMMA RecentAfter ==
  ASSUME Limit \in Nat, NEW l \in Nat, NEW s \in Nat, late' = l, Since(last)' = s, s <= l,
         pc' \notin {"switch", "execute"}
  PROVE  Recent'
<1>1. PICK m \in Nat : m = Limit'
  BY Zenon DEF Limit
<1>2. s <= m + l
  OBVIOUS
<1>3. Since(last)' <= Limit' + late'
  BY <1>1, <1>2, Zenon
<1> QED BY <1>3 DEF Recent

LEMMA NowIs ==
  ASSUME Basic, Slack, Clock, pc = "execute"
  PROVE  /\ Since(now) \in Nat /\ Since(now) <= late /\ last = now
         /\ Round = IF tick < now THEN TickMod ELSE 0
<1>1. /\ tick \in 0 .. TickMod - 1 /\ now \in 0 .. TickMod - 1 /\ TickMod \in Nat \ {0}
  BY Bounds DEF Clock
<1>2. Since(now) \in Nat
  BY <1>1, SinceIs
<1> QED BY <1>2 DEF Clock, Recent, Round, Wrapped

LEMMA ChangePeriodTimely == ASSUME Basic, Slack, Clock, ChangePeriod PROVE Clock'
<1>1. PICK t \in Timer, n \in Periods, v \in Time :
        /\ t = cmd.timer /\ ~Listed(t) /\ v = (now + n) % TickMod
        /\ active' = active \cup {t} /\ left' = [left EXCEPT ![t] = n - ((tick - now) % TickMod)]
        /\ Moves(t, v > now, v <= now, v)
  BY Changed
<1>2. /\ pc = "execute" /\ pc' = "commands" /\ cmd' = NoCommand /\ fired' = Nothing
      /\ UNCHANGED <<queue, tick, late, last>>
  BY DEF ChangePeriod, Goto
<1>3. PICK s \in Nat, l \in Nat : s = Since(now) /\ s <= l /\ l = late
  BY <1>2, NowIs, Bounds DEF Clock
<1>4. /\ TickMod \in Nat \ {0} /\ tick \in 0 .. TickMod - 1 /\ now \in 0 .. TickMod - 1
      /\ Limit \in Nat /\ now \in Time /\ n \in Nat /\ n >= 1 /\ v \in Int
  BY Bounds DEF Clock, Time
<1>5. (tick - now) % TickMod = s
  BY <1>3, <1>4, SinceIs
<1>6. PICK kept \in BOOLEAN :
        kept <=> ~((v <= now /\ (now - now) % TickMod >= n) \/ (v > now /\ now < now /\ v >= now))
  OBVIOUS
<1>7. kept
  <2>1. (now - now) % TickMod = 0
    <3>1. (now - now) % TickMod = IF now <= now THEN now - now ELSE now - now + TickMod
      BY <1>4, DifferenceIs
    <3> QED BY <1>4, <3>1
  <2>2. ~(0 >= n) /\ ~(now < now)
    BY <1>4
  <2> QED BY <1>6, <2>1, <2>2
<1>8. PICK r \in Int : r = Round /\ r = IF tick < now THEN TickMod ELSE 0
  BY <1>2, <1>4, NowIs
<1>9. PICK w \in Int : w = n - s /\ w = n - Since(now)
  BY <1>3, <1>4
<1>10. /\ v > now => w = v - tick - r
       /\ v <= now => w = v - tick - r + TickMod
       /\ -late <= w /\ w <= Limit
  <2>1. Since(now) <= Since(now) /\ Since(now) <= late
    BY <1>3
  <2>2. v = (now + n) % TickMod
    BY <1>1
  <2>3. r = IF tick < now THEN TickMod ELSE 0
    BY <1>8
  <2>4. /\ kept /\ v > now => n - Since(now) = v - tick - r
        /\ kept /\ v <= now => n - Since(now) = v - tick - r + TickMod
        /\ kept => -late <= n - Since(now) /\ n - Since(now) <= Limit
    BY <1>4, <1>6, <2>1, <2>2, <2>3, Reckoned
  <2> QED BY <1>7, <1>9, <2>4
<1>11. left' = [left EXCEPT ![t] = w] /\ left' \in [Timer -> Int]
  BY <1>1, <1>5, <1>9 DEF Clock
<1>12. left'[t] = w /\ \A u \in Timer \ {t} : left'[u] = left[u]
  BY <1>11 DEF Clock
<1>13. Wrapped' <=> Wrapped
  BY <1>2 DEF Wrapped
<1>14. Armed'
  <2>1. v > now => left'[t] = v - tick - Round
    BY <1>8, <1>10, <1>12
  <2>2. v <= now => left'[t] = v - tick + IF Wrapped THEN 0 ELSE TickMod
    BY <1>4, <1>8, <1>10, <1>12 DEF Round
  <2>3. v > now \/ v <= now => t \in active' /\ -late <= left'[t] /\ left'[t] <= Limit
    BY <1>1, <1>10, <1>12
  <2> QED BY <1>1, <1>2, <1>12, <1>13, <2>1, <2>2, <2>3, Parts, ArmedMoves DEF Clock, ListTypes
<1>15. Recent'
  <2>1. Since(last)' = s
    BY <1>2, <1>3, NowIs DEF Since
  <2> QED BY <1>2, <1>3, <1>4, <2>1, RecentAfter
<1>16. QueueAges' /\ CmdAge'
  BY <1>2, QueueAgesSame, NoCommandAge DEF Clock
<1>17. Asleep' /\ WakesInTime' /\ NeverEarly'
  BY <1>2 DEF Asleep, WakesInTime, NeverEarly, Nothing
<1> QED BY <1>11, <1>14, <1>15, <1>16, <1>17 DEF Clock

LEMMA StartTimely == ASSUME Basic, Slack, Clock, Start PROVE Clock'
<1>1. PICK t \in Timer, y \in Time, kept \in BOOLEAN :
        /\ t = cmd.timer /\ cmd \in Commands /\ cmd.time \in Time /\ ~Listed(t)
        /\ y = (cmd.time + period[t]) % TickMod
        /\ kept = ~ExpiredAlready(t, y, now, cmd.time)
        /\ Moves(t, kept /\ y > now, kept /\ y <= now, y)
  BY Started
<1>2. /\ pc = "execute" /\ pc' = "commands" /\ cmd' = NoCommand /\ active' = active \cup {t}
      /\ UNCHANGED <<tick, late, last>> /\ Timed(cmd)
  BY <1>1 DEF Start, Goto, Timed
<1>3. PICK x \in Time, p \in Periods : x = cmd.time /\ p = period[t]
  BY <1>1, Parts
<1>4. PICK s \in Nat, l \in Nat : s = Since(now) /\ s <= l /\ l = late
  BY <1>2, NowIs, Bounds DEF Clock
<1>5. /\ TickMod \in Nat \ {0} /\ tick \in 0 .. TickMod - 1 /\ now \in 0 .. TickMod - 1
      /\ Limit \in Nat /\ now \in Time /\ p \in Nat /\ y \in Int
      /\ x \in 0 .. TickMod - 1 /\ SendLag \in Nat
  BY Bounds DEF Clock, Time
<1>6. /\ kept <=> ~((y <= now /\ (now - x) % TickMod >= p) \/ (y > now /\ now < x /\ y >= x))
      /\ y = (x + p) % TickMod
  BY <1>1, <1>3 DEF ExpiredAlready
<1>7. PICK r \in Int : r = Round /\ r = IF tick < now THEN TickMod ELSE 0
  BY <1>2, <1>5, NowIs
<1>8. Since(now) <= Since(x) /\ Since(x) <= SendLag + late
  BY <1>2, <1>3 DEF Clock, CmdAge
<1>9. PICK w \in Int : w = p - Since(x)
  BY <1>5, SinceIs
<1>10. /\ y > now \/ y <= now
       /\ kept /\ y > now => w = y - tick - r
       /\ kept /\ y <= now => w = y - tick - r + TickMod
       /\ kept => -late <= w /\ w <= Limit
       /\ ~kept => w <= 0 /\ Since(y) <= Since(x) /\ Since(y) \in Int
  <2>1. Since(now) <= late
    BY <1>4
  <2>2. Since(y) \in Int
    BY <1>5 DEF Since
  <2> QED BY <1>5, <1>6, <1>7, <1>8, <1>9, <2>1, <2>2, Reckoned
<1>11. w = period[t] - ((tick - cmd.time) % TickMod)
  BY <1>3, <1>5, <1>9, SinceIs
<1>12. /\ kept => left' = [left EXCEPT ![t] = w] /\ fired' = Nothing /\ queue' = queue
       /\ ~kept => /\ fired' = [timer |-> t, left |-> w]
                   /\ left' = [left EXCEPT ![t] = IF t \in AutoReload THEN w + p ELSE 0]
                   /\ queue' = IF t \in AutoReload THEN Reload(t, y) ELSE queue
  BY <1>1, <1>3, <1>11 DEF Start, Fire
<1>13. PICK z \in Int : left' = [left EXCEPT ![t] = z] /\ (kept => z = w)
  <2>1. CASE kept
    BY <1>12, <2>1
  <2>2. CASE ~kept
    <3>1. PICK z \in Int : z = IF t \in AutoReload THEN w + p ELSE 0
      BY <1>5
    <3> QED BY <1>12, <2>2, <3>1
  <2> QED BY <2>1, <2>2
<1>14. /\ left' \in [Timer -> Int] /\ left'[t] = z
       /\ \A u \in Timer \ {t} : left'[u] = left[u]
  BY <1>13 DEF Clock
<1>15. Wrapped' <=> Wrapped
  BY <1>2 DEF Wrapped
<1>16. Armed'
  <2>1. kept /\ y > now => left'[t] = y - tick - Round
    BY <1>7, <1>10, <1>13, <1>14
  <2>2. kept /\ y <= now => left'[t] = y - tick + IF Wrapped THEN 0 ELSE TickMod
    <3>1. CASE Wrapped
      BY <1>5, <1>7, <1>10, <1>13, <1>14, <3>1 DEF Round
    <3>2. CASE ~Wrapped
      BY <1>5, <1>7, <1>10, <1>13, <1>14, <3>2 DEF Round
    <3> QED BY <3>1, <3>2
  <2>3. (kept /\ y > now) \/ (kept /\ y <= now)
          => t \in active' /\ -late <= left'[t] /\ left'[t] <= Limit
    BY <1>2, <1>10, <1>13, <1>14
  <2> QED BY <1>1, <1>2, <1>14, <1>15, <2>1, <2>2, <2>3, Parts, ArmedMoves DEF Clock, ListTypes
<1>17. Recent'
  <2>1. Since(last)' = s
    BY <1>2, <1>4, NowIs DEF Since
  <2> QED BY <1>2, <1>4, <1>5, <2>1, RecentAfter
<1>18. QueueAges'
  <2>1. CASE kept
    BY <1>2, <1>12, <2>1, QueueAgesSame DEF Clock
  <2>2. CASE ~kept
    <3>1. PICK c \in Commands : /\ c = [id |-> "reload", timer |-> t, time |-> y]
                                /\ c.time = y
      <4>1. "reload" \in Ids
        BY DEF Ids
      <4> QED BY <4>1, CommandOf
    <3>2. PICK q \in BOOLEAN : q <=> t \in AutoReload
      OBVIOUS
    <3>3. queue' = IF q THEN Commanded(c) ELSE queue
      BY <1>12, <2>2, <3>1, <3>2 DEF Reload
    <3>4. PICK a \in Int : a = Since(x)
      BY <1>5, SinceIs
    <3>5. Since(y) <= SendLag + late
      BY <1>4, <1>5, <1>8, <1>10, <2>2, <3>4
    <3>6. Since(c.time) <= SendLag + late
      BY <3>1, <3>5
    <3> QED BY <1>2, <3>3, <3>6, Parts, QueueAgesCommanded DEF Clock
  <2> QED BY <2>1, <2>2
<1>19. NeverEarly'
  <2>1. CASE kept
    BY <1>12, <2>1 DEF NeverEarly, Nothing
  <2>2. CASE ~kept
    BY <1>10, <1>12, <2>2 DEF NeverEarly
  <2> QED BY <2>1, <2>2
<1>20. CmdAge' /\ Asleep' /\ WakesInTime'
  BY <1>2, NoCommandAge DEF Asleep, WakesInTime
<1> QED BY <1>14, <1>16, <1>17, <1>18, <1>19, <1>20 DEF Clock

LEMMA NextExpiredTimely == ASSUME Basic, Slack, Clock, NextExpired PROVE Clock'
<1>1. PICK t \in Timer : t = Head(current) /\ Listed(t) /\ t \in ToSet(current)
  BY Parts, ExpiryMoves
<1>2. /\ ~Wrapped /\ value[t] <= tick /\ last' = tick /\ pc' = "commands" /\ cmd' = cmd
      /\ UNCHANGED <<tick, late>> /\ fired' = [timer |-> t, left |-> left[t]]
      /\ left' = [left EXCEPT ![t] = IF t \in AutoReload THEN left[t] + period[t] ELSE 0]
  BY <1>1 DEF NextExpired, Due, Goto, Fire
<1>3. PICK x \in Time, p \in Periods : x = value[t] /\ p = period[t]
  BY Parts DEF ListTypes
<1>4. /\ TickMod \in Nat \ {0} /\ tick \in 0 .. TickMod - 1 /\ tick \in Time
      /\ Limit \in Nat /\ p \in Nat /\ x \in 0 .. TickMod - 1 /\ SendLag \in Nat
      /\ late \in Nat /\ left[t] \in Int
  BY <1>3, Bounds DEF Clock, Time
<1>5. /\ left[t] = value[t] - tick /\ -late <= left[t] /\ t \in active
  <2>1. left[t] = value[t] - tick - IF Wrapped THEN TickMod ELSE 0
    BY <1>1 DEF Clock, Armed
  <2>2. left[t] = x - tick
    BY <1>2, <1>3, <1>4, <2>1
  <2>3. -late <= left[t] /\ t \in active
    BY <1>1 DEF Clock, Armed
  <2> QED BY <1>3, <2>2, <2>3
<1>6. PICK a \in Nat : a = Since(x) /\ left[t] = -a /\ a <= late
  <2>1. x <= tick /\ Since(x) = tick - x
    BY <1>2, <1>3 DEF Since
  <2> QED BY <1>3, <1>4, <1>5, <2>1
<1>7. Since(tick) = 0
  BY <1>4 DEF Since
<1>8. PICK y \in Time, kept \in BOOLEAN :
        /\ y = (x + p) % TickMod /\ kept = ~ExpiredAlready(t, y, tick, x)
  <2>1. x + p \in Int
    BY <1>4
  <2> QED BY <2>1, Numbers DEF ExpiredAlready
<1>9. /\ t \in AutoReload => Moves(t, kept /\ y > tick, kept /\ y <= tick, y)
      /\ t \notin AutoReload => Moves(t, FALSE, FALSE, 0)
  BY <1>1, <1>3, <1>8, Parts, ExpiryMoves
<1>10. kept <=> ~((y <= tick /\ (tick - x) % TickMod >= p) \/ (y > tick /\ tick < x /\ y >= x))
  BY <1>3, <1>8 DEF ExpiredAlready
<1>11. PICK w \in Int : w = p - Since(x) /\ w = left[t] + period[t]
  BY <1>3, <1>4, <1>6
<1>12. /\ kept /\ y > tick => w = y - tick - 0
       /\ kept /\ y <= tick => w = y - tick - 0 + TickMod
       /\ kept => -late <= w /\ w <= Limit
  <2>1. Since(tick) <= Since(x) /\ Since(tick) <= late
    BY <1>4, <1>6, <1>7
  <2>2. 0 = IF tick < tick THEN TickMod ELSE 0
    BY <1>4
  <2>3. y = (x + p) % TickMod
    BY <1>8
  <2>4. /\ kept /\ y > tick => p - Since(x) = y - tick - 0
        /\ kept /\ y <= tick => p - Since(x) = y - tick - 0 + TickMod
        /\ kept => -late <= p - Since(x) /\ p - Since(x) <= Limit
    BY <1>4, <1>10, <2>1, <2>2, <2>3, Reckoned
  <2> QED BY <1>11, <2>4
<1>13. PICK z \in Int : left' = [left EXCEPT ![t] = z] /\ (t \in AutoReload => z = w)
  <2>1. CASE t \in AutoReload
    BY <1>2, <1>11, <2>1
  <2>2. CASE t \notin AutoReload
    <3>1. PICK z \in Int : z = 0
      OBVIOUS
    <3>2. left' = [left EXCEPT ![t] = z]
      BY <1>2, <2>2, <3>1
    <3> QED BY <2>2, <3>2
  <2> QED BY <2>1, <2>2
<1>14. /\ left' \in [Timer -> Int] /\ left'[t] = z
       /\ \A u \in Timer \ {t} : left'[u] = left[u]
  BY <1>13 DEF Clock
<1>15. ~Wrapped' /\ Round = 0
  BY <1>2, <1>4 DEF Wrapped, Round
<1>16. Armed'
  <2>1. CASE t \in AutoReload
    <3>1. active' = active
      BY <1>1, <2>1 DEF NextExpired
    <3>2. kept /\ y > tick => left'[t] = y - tick - Round
      BY <1>12, <1>13, <1>14, <1>15, <2>1
    <3>3. kept /\ y <= tick => left'[t] = y - tick + IF Wrapped THEN 0 ELSE TickMod
      <4>1. y \in Int
        BY DEF Time
      <4> QED BY <1>2, <1>4, <1>12, <1>13, <1>14, <2>1, <4>1
    <3>4. (kept /\ y > tick) \/ (kept /\ y <= tick)
            => t \in active' /\ -late <= left'[t] /\ left'[t] <= Limit
      BY <1>5, <1>12, <1>13, <1>14, <2>1, <3>1
    <3> QED BY <1>2, <1>9, <1>14, <1>15, <2>1, <3>1, <3>2, <3>3, <3>4, Parts, ArmedMoves
            DEF Clock, ListTypes
  <2>2. CASE t \notin AutoReload
    <3>1. active' = active \ {t}
      BY <1>1, <2>2 DEF NextExpired
    <3> QED BY <1>2, <1>9, <1>14, <1>15, <2>2, <3>1, Parts, ArmedMoves DEF Clock, ListTypes
  <2> QED BY <2>1, <2>2
<1>17. Recent'
  <2>1. Since(last)' = 0
    BY <1>2, <1>7 DEF Since
  <2>2. pc' \notin {"switch", "execute"}
    BY <1>2
  <2> QED BY <1>2, <1>4, <2>1, <2>2, RecentAfter
<1>18. QueueAges'
  <2>1. PICK c \in Commands : /\ c = [id |-> "reload", timer |-> t, time |-> x] /\ c.time = x
    <3>1. "reload" \in Ids
      BY DEF Ids
    <3> QED BY <3>1, CommandOf
  <2>2. PICK q \in BOOLEAN : q <=> t \in AutoReload /\ ~kept
    OBVIOUS
  <2>3. queue' = IF q THEN Commanded(c) ELSE queue
    <3>1. CASE t \in AutoReload
      BY <1>1, <1>3, <1>8, <2>1, <2>2, <3>1 DEF NextExpired, Reload
    <3>2. CASE t \notin AutoReload
      BY <1>1, <2>2, <3>2 DEF NextExpired
    <3> QED BY <3>1, <3>2
  <2>4. Since(c.time) <= SendLag + late
    BY <1>4, <1>6, <2>1
  <2> QED BY <1>2, <2>3, <2>4, Parts, QueueAgesCommanded DEF Clock
<1>19. CmdAge'
  BY <1>2, Parts, NoCommandAge DEF Handed, NextExpired
<1>20. NeverEarly'
  <2>1. left[t] <= 0
    BY <1>6
  <2> QED BY <1>2, <2>1 DEF NeverEarly
<1>21. Asleep' /\ WakesInTime'
  BY <1>2 DEF Asleep, WakesInTime
<1> QED BY <1>14, <1>16, <1>17, <1>18, <1>19, <1>20, <1>21 DEF Clock

LEMMA SwitchExpiredTimely == ASSUME Basic, Slack, Clock, SwitchExpired PROVE Clock'
<1>0. PICK t \in Timer :
        /\ t = Head(current) /\ Listed(t)
        /\ Moves(t, Again(t), FALSE, IF Again(t) THEN (value[t] + period[t]) % TickMod ELSE 0)
  BY Parts, SwitchMoves
<1>1. PICK v :
        /\ t = Head(current) /\ Listed(t) /\ Moves(t, Again(t), FALSE, v)
        /\ v = IF Again(t) THEN (value[t] + period[t]) % TickMod ELSE 0
  BY <1>0
<1>2. /\ pc = "switch" /\ pc' = pc /\ UNCHANGED <<tick, late, last, now, cmd, active>>
      /\ fired' = [timer |-> t, left |-> left[t]]
      /\ left' = [left EXCEPT ![t] = IF t \in AutoReload THEN left[t] + period[t] ELSE 0]
  BY <1>1 DEF SwitchExpired, Goto, Fire
<1>3. PICK x \in Time, p \in Periods : x = value[t] /\ p = period[t]
  BY Parts DEF ListTypes
<1>4. /\ TickMod \in Nat \ {0} /\ tick \in 0 .. TickMod - 1
      /\ Limit \in Nat /\ p \in Nat /\ p >= 1 /\ p <= Limit /\ Limit < TickMod
      /\ x \in 0 .. TickMod - 1 /\ SendLag \in Nat /\ late \in Nat /\ late < TickMod
      /\ left[t] \in Int
  BY <1>3, Bounds DEF Clock, Time
<1>5. Wrapped
  BY <1>1, <1>2 DEF Clock, Recent, SomeListed, Wrapped
<1>6. t \in ToSet(current)
  <2>1. current # <<>> /\ current \in Seq(Timer)
    BY Parts DEF SwitchExpired, ListTypes
  <2>2. Ord(current, value)
    BY Parts DEF Lists, InOrder, Ord
  <2> QED BY <1>1, <2>1, <2>2, FirstGone
<1>7. left[t] = x - tick - TickMod /\ -late <= left[t] /\ t \in active
  BY <1>1, <1>3, <1>5, <1>6 DEF Clock, Armed
<1>8. left[t] < 0 /\ Since(x) = -left[t] /\ Since(x) <= late
  BY <1>4, <1>7 DEF Since
<1>9. PICK y \in Int : y = (x + p) % TickMod /\ y = IF x + p < TickMod THEN x + p ELSE x + p - TickMod
  <2>1. p < TickMod
    BY <1>4
  <2>2. (x + p) % TickMod = IF x + p < TickMod THEN x + p ELSE x + p - TickMod
    BY <1>4, <2>1, SumIs
  <2> QED BY <1>4, <2>2
<1>10. PICK q \in BOOLEAN : (q <=> Again(t)) /\ (q <=> t \in AutoReload /\ y > x)
  BY <1>3, <1>9 DEF Again
<1>11. PICK w \in Int : w = left[t] + p
  BY <1>4
<1>12. q => w = y - tick - TickMod /\ -late <= w /\ w <= Limit /\ v = y /\ t \in AutoReload
  <2>1. q => y = x + p
    BY <1>4, <1>9, <1>10
  <2>2. q => v = y
    BY <1>1, <1>3, <1>9, <1>10
  <2> QED BY <1>4, <1>7, <1>8, <1>10, <1>11, <2>1, <2>2
<1>13. PICK z \in Int : left' = [left EXCEPT ![t] = z] /\ (t \in AutoReload => z = w)
  <2>1. CASE t \in AutoReload
    BY <1>2, <1>3, <1>11, <2>1
  <2>2. CASE t \notin AutoReload
    <3>1. PICK z \in Int : z = 0
      OBVIOUS
    <3>2. left' = [left EXCEPT ![t] = z]
      BY <1>2, <2>2, <3>1
    <3> QED BY <2>2, <3>2
  <2> QED BY <2>1, <2>2
<1>14. /\ left' \in [Timer -> Int] /\ left'[t] = z
       /\ \A u \in Timer \ {t} : left'[u] = left[u]
  BY <1>13 DEF Clock
<1>15. (Wrapped' <=> Wrapped) /\ Round = TickMod
  BY <1>2, <1>5 DEF Wrapped, Round
<1>16. Moves(t, q, FALSE, v)
  <2>1. Moves(t, Again(t), FALSE, v)
    BY <1>1
  <2>2. Again(t) = q
    BY <1>10 DEF Again
  <2> QED BY <2>1, <2>2
<1>17. Armed'
  <2>1. q => left'[t] = v - tick - Round
    BY <1>12, <1>13, <1>14, <1>15
  <2>2. q \/ FALSE => t \in active' /\ -late <= left'[t] /\ left'[t] <= Limit
    BY <1>2, <1>7, <1>12, <1>13, <1>14
  <2> QED BY <1>2, <1>14, <1>15, <1>16, <2>1, <2>2, Parts, ArmedMoves DEF Clock, ListTypes
<1>18. Recent'
  <2>1. SomeListed
    BY <1>1 DEF SomeListed
  <2> QED BY <1>2, <2>1 DEF Clock, Recent, Since, Limit
<1>19. QueueAges'
  <2>1. PICK c \in Commands : /\ c = [id |-> "reload", timer |-> t, time |-> x] /\ c.time = x
    <3>1. "reload" \in Ids
      BY DEF Ids
    <3> QED BY <3>1, CommandOf
  <2>2. PICK b \in BOOLEAN : b <=> t \in AutoReload /\ ~q
    OBVIOUS
  <2>3. queue' = IF b THEN Commanded(c) ELSE queue
    BY <1>1, <1>3, <1>9, <1>10, <2>1, <2>2 DEF SwitchExpired, Reload
  <2>4. Since(c.time) <= SendLag + late
    BY <1>4, <1>7, <1>8, <2>1
  <2> QED BY <1>2, <2>3, <2>4, Parts, QueueAgesCommanded DEF Clock
<1>20. CmdAge'
  BY <1>2 DEF Clock, CmdAge, Since, Timed
<1>21. NeverEarly'
  <2>1. left[t] <= 0
    BY <1>4, <1>8
  <2> QED BY <1>2, <2>1 DEF NeverEarly
<1>22. Asleep' /\ WakesInTime'
  BY <1>2 DEF Asleep, WakesInTime
<1> QED BY <1>14, <1>17, <1>18, <1>19, <1>20, <1>21, <1>22 DEF Clock

LEMMA InitTimely == ASSUME Slack, Init PROVE Clock
<1>1. \A t : ~Listed(t)
  <2>1. ToSet(<<>>) = {}
    BY EmptySeq DEF ToSet
  <2> QED BY <2>1 DEF Init, Listed
<1>2. ToSet(current) = {} /\ ToSet(overflow) = {} /\ Len(queue) = 0
  BY EmptySeq DEF Init, ToSet
<1>3. Armed /\ Asleep /\ WakesInTime /\ Recent
  BY <1>1, <1>2 DEF Armed, Asleep, WakesInTime, Recent, SomeListed, Init
<1>4. QueueAges /\ CmdAge
  BY <1>2 DEF Init, QueueAges, CmdAge, Timed, NoCommand, None
<1>5. left \in [Timer -> Int] /\ NeverEarly
  BY DEF Init, NeverEarly, Nothing
<1> QED BY <1>3, <1>4, <1>5 DEF Clock

LEMMA NextTimely == ASSUME Basic, Slack, Clock, [Next]_vars PROVE Clock'
<1>1. CASE Tick
  BY <1>1, TickTimely
<1>2. CASE Send
  BY <1>2, SendTimely
<1>3. CASE SendCall
  BY <1>3, SendCallTimely
<1>4. CASE Daemon
  BY <1>4, NextWrappedTimely, NextExpiredTimely, NextBlocksTimely, WakeTimely,
     SwitchExpiredTimely, SwitchListsTimely, NoMoreCommandsTimely, PendedCallTimely,
     TakeCommandTimely, StartTimely, StopTimely, DeleteTimely, ChangePeriodTimely DEF Daemon
<1>5. CASE UNCHANGED vars
  <2>1. (Wrapped' <=> Wrapped) /\ UNCHANGED <<lists, left, active, late, tick, queue>>
    BY <1>5 DEF vars, lists, Wrapped
  <2>2. Armed' /\ QueueAges'
    BY <2>1, ArmedSame, QueueAgesSame DEF Clock
  <2>3. Recent' /\ Asleep' /\ WakesInTime' /\ CmdAge'
    BY <1>5, <2>1, StillListed
       DEF vars, Clock, Recent, Asleep, WakesInTime, CmdAge, Timed, Since, Limit
  <2> QED BY <1>5, <2>2, <2>3 DEF vars, Clock, NeverEarly
<1> QED BY <1>1, <1>2, <1>3, <1>4, <1>5 DEF Next

LEMMA ClockHolds == ASSUME Slack PROVE Spec => [](Basic /\ Clock)
<1>1. Slack
  OBVIOUS
<1>2. Init => Basic /\ Clock
  BY <1>1, InitHolds, InitTimely
<1>3. Basic /\ Clock /\ [Next]_vars => (Basic /\ Clock)'
  BY <1>1, NextSteady, NextTimely DEF Steady
<1> QED BY <1>2, <1>3, PTL DEF Spec

\* However late the daemon is and in whatever round the commands come, no
\* callback is called before its time, as long as periods and lateness do not
\* go round together (prvProcessExpiredTimer, prvSwitchTimerLists,
\* prvProcessReceivedCommands).
THEOREM NoTimerIsEarly == ASSUME Slack PROVE Spec => []NeverEarly
<1>1. Slack
  OBVIOUS
<1>2. Basic /\ Clock => NeverEarly
  BY DEF Clock
<1>3. Spec => [](Basic /\ Clock)
  BY <1>1, ClockHolds
<1> QED BY <1>2, <1>3, PTL

\* Under the same bounds the daemon, when it waits, is woken by the time the
\* first timer of either list comes due (prvProcessTimerOrBlockTask).
THEOREM DaemonWakesInTime == ASSUME Slack PROVE Spec => []WakesInTime
<1>1. Slack
  OBVIOUS
<1>2. Basic /\ Clock => WakesInTime
  BY DEF Clock
<1>3. Spec => [](Basic /\ Clock)
  BY <1>1, ClockHolds
<1> QED BY <1>2, <1>3, PTL
=============================================================================
