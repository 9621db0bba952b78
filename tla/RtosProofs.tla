----------------------------- MODULE RtosProofs ------------------------------
(* The queues, the lists and the sleepers of the kernel, for every number   *)
(* of tasks and queues, every length, every width of the tick, every system *)
(* of tasks and interrupts, and every way in which the interrupts fall.     *)
EXTENDS Rtos, FiniteSetTheorems, SequenceTheorems, WellFoundedInduction,
  NaturalsInduction, TLAPS

-----------------------------------------------------------------------------
(* Remainders *)

LEMMA Remainder ==
  ASSUME NEW m \in Nat \ {0}, NEW x \in Int
  PROVE  /\ x % m \in 0 .. m - 1
         /\ 0 <= x /\ x < m => x % m = x
         /\ m <= x /\ x < m + m => x % m = x - m
         /\ -m <= x /\ x < 0 => x % m = x + m
<1>1. ASSUME NEW c \in Int, NEW r \in 0 .. m - 1 PROVE (c * m + r) % m = r
  OBVIOUS
<1>2. ASSUME 0 <= x, x < m PROVE x % m = x
  BY <1>2
<1>3. ASSUME m <= x, x < m + m PROVE x % m = x - m
  <2>1. x - m \in 0 .. m - 1
    BY <1>3
  <2>2. (1 * m + (x - m)) % m = x - m
    BY <1>1, <2>1
  <2>3. 1 * m + (x - m) = x
    OBVIOUS
  <2> QED BY <2>2, <2>3
<1>4. ASSUME -m <= x, x < 0 PROVE x % m = x + m
  <2>1. x + m \in 0 .. m - 1
    BY <1>4
  <2>2. ((-1) * m + (x + m)) % m = x + m
    BY <1>1, <2>1
  <2>3. (-1) * m + (x + m) = x
    OBVIOUS
  <2> QED BY <2>2, <2>3
<1>5. x % m \in 0 .. m - 1
  OBVIOUS
<1> QED BY <1>2, <1>3, <1>4, <1>5

\* The slot i places after slot x of a ring of len.
LEMMA SlotAfter ==
  ASSUME NEW len \in Nat \ {0}, NEW x \in 0 .. len - 1, NEW i \in 0 .. len
  PROVE  /\ (x + i) % len \in 0 .. len - 1
         /\ (x + i) % len = IF x + i < len THEN x + i ELSE x + i - len
<1>1. PICK y \in Int : y = x + i /\ 0 <= y /\ y < len + len
  OBVIOUS
<1>2. /\ y % len \in 0 .. len - 1
      /\ y < len => y % len = y
      /\ len <= y => y % len = y - len
  BY <1>1, Remainder
<1> QED BY <1>1, <1>2

LEMMA SlotBefore ==
  ASSUME NEW len \in Nat \ {0}, NEW x \in 0 .. len - 1
  PROVE  /\ (x - 1) % len \in 0 .. len - 1
         /\ (x - 1) % len = IF x = 0 THEN len - 1 ELSE x - 1
<1>1. PICK y \in Int : y = x - 1 /\ -len <= y /\ y < len
  OBVIOUS
<1>2. /\ y % len \in 0 .. len - 1
      /\ 0 <= y => y % len = y
      /\ y < 0 => y % len = y + len
  BY <1>1, Remainder
<1> QED BY <1>1, <1>2

-----------------------------------------------------------------------------
(* The ring: slots rd + 1 .. rd + n hold the items and wr is the next one.  *)

Rings(len, V) ==
  [n : 0 .. len, ring : [0 .. len - 1 -> V], wr : 0 .. len - 1, rd : 0 .. len - 1,
   tx : Int, rx : Int, holder : {Nobody}]

SoundRing(r, len, V) ==
  /\ r \in Rings(len, V)
  /\ r.wr = (((r.rd + 1) % len) + r.n) % len

LEMMA ContentsAreSeq ==
  ASSUME NEW len \in Nat \ {0}, NEW V, NEW r, SoundRing(r, len, V)
  PROVE  /\ Contents(r, len) \in Seq(V)
         /\ Len(Contents(r, len)) = r.n
         /\ \A i \in 1 .. r.n : Contents(r, len)[i] = r.ring[(r.rd + i) % len]
<1>1. r.n \in 0 .. len /\ r.rd \in 0 .. len - 1 /\ r.ring \in [0 .. len - 1 -> V]
  BY DEF SoundRing, Rings
<1>2. \A i \in 1 .. r.n : r.ring[(r.rd + i) % len] \in V
  <2>1. ASSUME NEW i \in 1 .. r.n PROVE (r.rd + i) % len \in 0 .. len - 1
    <3>1. i \in 0 .. len
      BY <1>1
    <3> QED BY <1>1, <3>1, SlotAfter, Zenon
  <2> QED BY <1>1, <2>1
<1>3. PICK n \in Nat : n = r.n
  BY <1>1
<1>4. Contents(r, len) \in [1 .. n -> V]
  BY <1>2, <1>3 DEF Contents
<1>5. Contents(r, len) \in Seq(V) /\ Len(Contents(r, len)) = n
  BY <1>4
<1>6. \A i \in 1 .. n : Contents(r, len)[i] = r.ring[(r.rd + i) % len]
  BY <1>3 DEF Contents
<1> QED BY <1>3, <1>5, <1>6

\* The slot wr in terms of rd.
LEMMA WriteSlot ==
  ASSUME NEW len \in Nat \ {0}, NEW rd \in 0 .. len - 1, NEW n \in 0 .. len
  PROVE  /\ (((rd + 1) % len) + n) % len \in 0 .. len - 1
         /\ (((rd + 1) % len) + n) % len
              = IF rd + 1 + n < len THEN rd + 1 + n
                ELSE IF rd + 1 + n < len + len THEN rd + 1 + n - len ELSE 0
<1>1. PICK x \in 0 .. len - 1 : x = (rd + 1) % len /\ x = IF rd + 1 < len THEN rd + 1 ELSE 0
  <2>1. 1 \in 0 .. len
    OBVIOUS
  <2>2. /\ (rd + 1) % len \in 0 .. len - 1
        /\ (rd + 1) % len = IF rd + 1 < len THEN rd + 1 ELSE rd + 1 - len
    BY <2>1, SlotAfter, Zenon
  <2> QED BY <2>2
<1>2. /\ (x + n) % len \in 0 .. len - 1
      /\ (x + n) % len = IF x + n < len THEN x + n ELSE x + n - len
  BY SlotAfter
<1> QED BY <1>1, <1>2

\* prvCopyDataToQueue, to the back.
LEMMA BackAppends ==
  ASSUME NEW len \in Nat \ {0}, NEW V, NEW r, SoundRing(r, len, V), NEW x \in V, r.n < len
  PROVE  LET s == CopyToBack(r, x, len)
         IN  SoundRing(s, len, V) /\ Contents(s, len) = Append(Contents(r, len), x)
<1> DEFINE s == CopyToBack(r, x, len)
<1>1. PICK n \in 0 .. len, rd \in 0 .. len - 1, wr \in 0 .. len - 1 :
        n = r.n /\ rd = r.rd /\ wr = r.wr
  BY DEF SoundRing, Rings
<1>2. PICK up \in 0 .. len - 1 :
        up = (wr + 1) % len /\ up = IF wr + 1 < len THEN wr + 1 ELSE wr + 1 - len
  <2>1. 1 \in 0 .. len
    OBVIOUS
  <2> QED BY <2>1, SlotAfter, Zenon
<1>3. /\ s \in Rings(len, V)
      /\ s.n = n + 1 /\ s.rd = rd /\ s.wr = up /\ s.ring = [r.ring EXCEPT ![wr] = x]
  <2>0. r.ring \in [0 .. len - 1 -> V] /\ r \in Rings(len, V)
    BY DEF SoundRing, Rings
  <2>1. [r.ring EXCEPT ![wr] = x] \in [0 .. len - 1 -> V] /\ n + 1 \in 0 .. len
    BY <1>1, <2>0
  <2>2. s = [r EXCEPT !.ring = [r.ring EXCEPT ![wr] = x], !.wr = up, !.n = n + 1]
    BY <1>1, <1>2 DEF CopyToBack
  <2> QED BY <1>1, <2>0, <2>1, <2>2 DEF Rings
<1>4. wr = IF rd + 1 + n < len THEN rd + 1 + n ELSE rd + 1 + n - len
  <2>1. wr = (((rd + 1) % len) + n) % len
    BY <1>1 DEF SoundRing
  <2>2. (((rd + 1) % len) + n) % len
              = IF rd + 1 + n < len THEN rd + 1 + n
                ELSE IF rd + 1 + n < len + len THEN rd + 1 + n - len ELSE 0
    BY WriteSlot
  <2>3. n < len
    BY <1>1
  <2> QED BY <2>1, <2>2, <2>3
<1>5. SoundRing(s, len, V)
  <2>1. PICK m \in 0 .. len : m = n + 1
    BY <1>1
  <2>2. (((rd + 1) % len) + m) % len
              = IF rd + 1 + m < len THEN rd + 1 + m
                ELSE IF rd + 1 + m < len + len THEN rd + 1 + m - len ELSE 0
    BY WriteSlot
  <2>3. (((rd + 1) % len) + m) % len = up
    BY <1>2, <1>4, <2>1, <2>2
  <2> QED BY <1>3, <2>1, <2>3 DEF SoundRing
<1>6. /\ Contents(r, len) \in Seq(V) /\ Len(Contents(r, len)) = n
      /\ \A i \in 1 .. n : Contents(r, len)[i] = r.ring[(rd + i) % len]
  BY <1>1, ContentsAreSeq
<1>7. /\ Contents(s, len) \in Seq(V) /\ Len(Contents(s, len)) = n + 1
      /\ \A i \in 1 .. n + 1 : Contents(s, len)[i] = s.ring[(rd + i) % len]
  <2> HIDE DEF s
  <2>1. /\ Contents(s, len) \in Seq(V) /\ Len(Contents(s, len)) = s.n
        /\ \A i \in 1 .. s.n : Contents(s, len)[i] = s.ring[(s.rd + i) % len]
    BY <1>5, ContentsAreSeq
  <2> QED BY <1>3, <2>1, Zenon
<1>8. /\ Append(Contents(r, len), x) \in Seq(V)
      /\ Len(Append(Contents(r, len), x)) = n + 1
      /\ \A i \in 1 .. n : Append(Contents(r, len), x)[i] = Contents(r, len)[i]
      /\ Append(Contents(r, len), x)[n + 1] = x
  BY <1>6
<1>9. ASSUME NEW i \in 1 .. n + 1
      PROVE  Contents(s, len)[i] = Append(Contents(r, len), x)[i]
  <2>1. PICK j \in 0 .. len - 1 :
          j = (rd + i) % len /\ j = IF rd + i < len THEN rd + i ELSE rd + i - len
    <3>1. i \in 0 .. len
      BY <1>1
    <3> QED BY <3>1, SlotAfter
  <2>2. r.ring \in [0 .. len - 1 -> V]
    BY DEF SoundRing, Rings
  <2>3. CASE i = n + 1
    <3>1. j = wr
      BY <1>4, <2>1, <2>3
    <3>2. s.ring[j] = x
      BY <1>3, <2>2, <3>1
    <3> QED BY <1>7, <1>8, <2>1, <2>3, <3>2
  <2>4. CASE i # n + 1
    <3>1. j # wr /\ i \in 1 .. n
      BY <1>1, <1>4, <2>1, <2>4
    <3>2. s.ring[j] = r.ring[j]
      BY <1>3, <2>2, <3>1
    <3> QED BY <1>6, <1>7, <1>8, <2>1, <3>1, <3>2
  <2> QED BY <2>3, <2>4
<1>10. Contents(s, len) = Append(Contents(r, len), x)
  BY <1>7, <1>8, <1>9, SeqEqual
<1> QED BY <1>5, <1>10

\* prvCopyDataToQueue, to the front.
LEMMA FrontPrepends ==
  ASSUME NEW len \in Nat \ {0}, NEW V, NEW r, SoundRing(r, len, V), NEW x \in V, r.n < len
  PROVE  LET s == CopyToFront(r, x, len)
         IN  SoundRing(s, len, V) /\ Contents(s, len) = <<x>> \o Contents(r, len)
<1> DEFINE s == CopyToFront(r, x, len)
<1>1. PICK n \in 0 .. len, rd \in 0 .. len - 1, wr \in 0 .. len - 1 :
        n = r.n /\ rd = r.rd /\ wr = r.wr /\ n < len
  BY DEF SoundRing, Rings
<1>2. PICK down \in 0 .. len - 1 :
        down = (rd - 1) % len /\ down = IF rd = 0 THEN len - 1 ELSE rd - 1
  BY SlotBefore
<1>3. /\ s \in Rings(len, V)
      /\ s.n = n + 1 /\ s.rd = down /\ s.wr = wr /\ s.ring = [r.ring EXCEPT ![rd] = x]
  <2>0. r.ring \in [0 .. len - 1 -> V] /\ r \in Rings(len, V)
    BY DEF SoundRing, Rings
  <2>1. [r.ring EXCEPT ![rd] = x] \in [0 .. len - 1 -> V] /\ n + 1 \in 0 .. len
    BY <1>1, <2>0
  <2>2. s = [r EXCEPT !.ring = [r.ring EXCEPT ![rd] = x], !.rd = down, !.n = n + 1]
    BY <1>1, <1>2 DEF CopyToFront
  <2> QED BY <1>1, <2>0, <2>1, <2>2 DEF Rings
<1>4. wr = IF rd + 1 + n < len THEN rd + 1 + n ELSE rd + 1 + n - len
  <2>1. wr = (((rd + 1) % len) + n) % len
    BY <1>1 DEF SoundRing
  <2>2. (((rd + 1) % len) + n) % len
              = IF rd + 1 + n < len THEN rd + 1 + n
                ELSE IF rd + 1 + n < len + len THEN rd + 1 + n - len ELSE 0
    BY WriteSlot
  <2> QED BY <1>1, <2>1, <2>2
<1>5. SoundRing(s, len, V)
  <2>1. PICK m \in 0 .. len : m = n + 1
    BY <1>1
  <2>2. (((down + 1) % len) + m) % len
              = IF down + 1 + m < len THEN down + 1 + m
                ELSE IF down + 1 + m < len + len THEN down + 1 + m - len ELSE 0
    BY WriteSlot
  <2>3. wr = IF down + 1 + m < len THEN down + 1 + m
             ELSE IF down + 1 + m < len + len THEN down + 1 + m - len ELSE 0
    <3>1. CASE rd = 0
      BY <1>1, <1>2, <1>4, <2>1, <3>1
    <3>2. CASE rd # 0
      BY <1>1, <1>2, <1>4, <2>1, <3>2
    <3> QED BY <3>1, <3>2
  <2>4. (((down + 1) % len) + m) % len = wr
    BY <2>2, <2>3, Zenon
  <2> QED BY <1>3, <2>1, <2>4 DEF SoundRing
<1>6. /\ Contents(r, len) \in Seq(V) /\ Len(Contents(r, len)) = n
      /\ \A i \in 1 .. n : Contents(r, len)[i] = r.ring[(rd + i) % len]
  BY <1>1, ContentsAreSeq
<1>7. /\ Contents(s, len) \in Seq(V) /\ Len(Contents(s, len)) = n + 1
      /\ \A i \in 1 .. n + 1 : Contents(s, len)[i] = s.ring[(down + i) % len]
  <2> HIDE DEF s
  <2>1. /\ Contents(s, len) \in Seq(V) /\ Len(Contents(s, len)) = s.n
        /\ \A i \in 1 .. s.n : Contents(s, len)[i] = s.ring[(s.rd + i) % len]
    BY <1>5, ContentsAreSeq
  <2> QED BY <1>3, <2>1, Zenon
<1>8. /\ <<x>> \o Contents(r, len) \in Seq(V)
      /\ Len(<<x>> \o Contents(r, len)) = n + 1
      /\ (<<x>> \o Contents(r, len))[1] = x
      /\ \A i \in 2 .. n + 1 : (<<x>> \o Contents(r, len))[i] = Contents(r, len)[i - 1]
  <2>1. <<x>> \in Seq(V) /\ Len(<<x>>) = 1 /\ <<x>>[1] = x
    OBVIOUS
  <2>2. /\ <<x>> \o Contents(r, len) \in Seq(V)
        /\ Len(<<x>> \o Contents(r, len)) = 1 + n
        /\ \A i \in 1 .. 1 + n : (<<x>> \o Contents(r, len))[i]
             = IF i <= 1 THEN <<x>>[i] ELSE Contents(r, len)[i - 1]
    BY <1>6, <2>1, ConcatProperties
  <2> QED BY <2>1, <2>2
<1>9. ASSUME NEW i \in 1 .. n + 1
      PROVE  Contents(s, len)[i] = (<<x>> \o Contents(r, len))[i]
  <2>1. PICK j \in 0 .. len - 1 :
          j = (down + i) % len /\ j = IF down + i < len THEN down + i ELSE down + i - len
    <3>1. i \in 0 .. len
      BY <1>1
    <3> QED BY <3>1, SlotAfter
  <2>2. r.ring \in [0 .. len - 1 -> V]
    BY DEF SoundRing, Rings
  <2>3. CASE i = 1
    <3>1. j = rd
      BY <1>2, <2>1, <2>3
    <3>2. s.ring[j] = x
      BY <1>3, <2>2, <3>1
    <3> QED BY <1>7, <1>8, <2>1, <2>3, <3>2
  <2>4. CASE i # 1
    <3>1. PICK h \in 1 .. n : h = i - 1
      BY <2>4
    <3>2. PICK g : g = (rd + h) % len /\ g = IF rd + h < len THEN rd + h ELSE rd + h - len
      <4>1. h \in 0 .. len
        OBVIOUS
      <4> QED BY <4>1, SlotAfter, Zenon
    <3>3. j = g /\ j # rd
      <4>1. CASE rd = 0
        BY <1>1, <1>2, <2>1, <3>1, <3>2, <4>1
      <4>2. CASE rd # 0
        BY <1>1, <1>2, <2>1, <3>1, <3>2, <4>2
      <4> QED BY <4>1, <4>2
    <3>4. s.ring[j] = r.ring[j]
      BY <1>3, <2>2, <3>3
    <3>5. Contents(s, len)[i] = s.ring[j] /\ Contents(r, len)[h] = r.ring[g]
      BY <1>6, <1>7, <2>1, <3>2
    <3>6. (<<x>> \o Contents(r, len))[i] = Contents(r, len)[h]
      BY <1>8, <2>4, <3>1
    <3> QED BY <3>3, <3>4, <3>5, <3>6
  <2> QED BY <2>3, <2>4
<1>10. Contents(s, len) = <<x>> \o Contents(r, len)
  BY <1>7, <1>8, <1>9, SeqEqual
<1> QED BY <1>5, <1>10

\* prvCopyDataToQueue, over the only item.
LEMMA OverwriteReplaces ==
  ASSUME NEW V, NEW r, SoundRing(r, 1, V), NEW x \in V
  PROVE  LET s == Overwrite(r, x, 1)
         IN  SoundRing(s, 1, V) /\ Len(Contents(s, 1)) = 1
<1> DEFINE s == Overwrite(r, x, 1)
<1>1. r.n \in 0 .. 1 /\ r.rd = 0 /\ r.wr = 0
  BY DEF SoundRing, Rings
<1>2. (r.rd - 1) % 1 = 0
  BY <1>1, SlotBefore
<1>3. s \in Rings(1, V) /\ s.n = 1 /\ s.rd = 0 /\ s.wr = 0
  <2>0. r.ring \in [0 .. 1 - 1 -> V] /\ r \in Rings(1, V)
    BY DEF SoundRing, Rings
  <2>1. [r.ring EXCEPT ![r.rd] = x] \in [0 .. 1 - 1 -> V]
    BY <1>1, <2>0
  <2>2. (IF r.n > 0 THEN r.n ELSE 1) = 1
    BY <1>1
  <2>3. PICK y \in Int : y = r.n + 1
    BY <1>1
  <2>4. CopyToFront(r, x, 1)
          = [r EXCEPT !.ring = [r.ring EXCEPT ![r.rd] = x], !.rd = 0, !.n = y]
    BY <1>2, <2>3 DEF CopyToFront
  <2>5. s = [r EXCEPT !.ring = [r.ring EXCEPT ![r.rd] = x], !.rd = 0, !.n = 1]
    BY <2>0, <2>2, <2>4 DEF Overwrite, Rings
  <2>6. 0 \in 0 .. 1 - 1 /\ 1 \in 0 .. 1
    OBVIOUS
  <2> QED BY <1>1, <2>0, <2>1, <2>5, <2>6 DEF Rings
<1>4. (((0 + 1) % 1) + 1) % 1 = 0
  BY WriteSlot
<1>5. SoundRing(s, 1, V)
  BY <1>3, <1>4 DEF SoundRing
<1>6. Len(Contents(s, 1)) = 1
  <2> HIDE DEF s
  <2>1. 1 \in Nat \ {0}
    OBVIOUS
  <2>2. Len(Contents(s, 1)) = s.n
    BY <1>5, <2>1, ContentsAreSeq
  <2> QED BY <1>3, <2>2, Zenon
<1> QED BY <1>5, <1>6

\* prvCopyDataFromQueue
LEMMA ReceiveTakesFirst ==
  ASSUME NEW V, "empty" \in V, NEW qu, Length[qu] \in Nat \ {0},
         NEW r, SoundRing(r, Length[qu], V), r.n > 0
  PROVE  LET s == CopyDataFromQueue(r, qu)
         IN  /\ SoundRing(s, Length[qu], V)
             /\ Contents(r, Length[qu]) # <<>>
             /\ Contents(s, Length[qu]) = Tail(Contents(r, Length[qu]))
<1> DEFINE s == CopyDataFromQueue(r, qu)
<1>0. PICK len \in Nat \ {0} : len = Length[qu]
  OBVIOUS
<1>1. PICK n \in 0 .. len, rd \in 0 .. len - 1, wr \in 0 .. len - 1 :
        n = r.n /\ rd = r.rd /\ wr = r.wr /\ 0 < n
  BY <1>0 DEF SoundRing, Rings
<1>2. PICK up \in 0 .. len - 1 :
        up = (rd + 1) % len /\ up = IF rd + 1 < len THEN rd + 1 ELSE 0
  <2>1. 1 \in 0 .. len
    OBVIOUS
  <2>2. /\ (rd + 1) % len \in 0 .. len - 1
        /\ (rd + 1) % len = IF rd + 1 < len THEN rd + 1 ELSE rd + 1 - len
    BY <2>1, SlotAfter, Zenon
  <2> QED BY <2>2
<1>3. /\ s \in Rings(len, V)
      /\ s.n = n - 1 /\ s.rd = up /\ s.wr = wr /\ s.ring = [r.ring EXCEPT ![up] = "empty"]
  <2>0. r.ring \in [0 .. len - 1 -> V]
    BY <1>0 DEF SoundRing, Rings
  <2>1. [r.ring EXCEPT ![up] = "empty"] \in [0 .. len - 1 -> V] /\ n - 1 \in 0 .. len
    BY <1>1, <2>0
  <2>2. s = [r EXCEPT !.rd = up, !.n = n - 1, !.ring = [r.ring EXCEPT ![up] = "empty"]]
    BY <1>0, <1>1, <1>2 DEF CopyDataFromQueue
  <2>3. r \in Rings(len, V)
    BY <1>0 DEF SoundRing
  <2> QED BY <1>1, <2>1, <2>2, <2>3 DEF Rings
<1>4. wr = IF rd + 1 + n < len THEN rd + 1 + n
           ELSE IF rd + 1 + n < len + len THEN rd + 1 + n - len ELSE 0
  <2>1. wr = (((rd + 1) % len) + n) % len
    BY <1>0, <1>1 DEF SoundRing
  <2> QED BY <2>1, WriteSlot
<1>5. SoundRing(s, len, V)
  <2>1. PICK m \in 0 .. len : m = n - 1
    BY <1>1
  <2>2. (((up + 1) % len) + m) % len
              = IF up + 1 + m < len THEN up + 1 + m
                ELSE IF up + 1 + m < len + len THEN up + 1 + m - len ELSE 0
    BY WriteSlot
  <2>3. wr = IF up + 1 + m < len THEN up + 1 + m
             ELSE IF up + 1 + m < len + len THEN up + 1 + m - len ELSE 0
    <3>1. CASE rd + 1 < len
      BY <1>1, <1>2, <1>4, <2>1, <3>1
    <3>2. CASE ~(rd + 1 < len)
      <4>1. rd = len - 1 /\ up = 0 /\ up + 1 + m = n
        BY <1>1, <1>2, <2>1, <3>2
      <4>2. wr = IF n < len THEN n ELSE 0
        BY <1>1, <1>4, <4>1
      <4> QED BY <1>1, <4>1, <4>2
    <3> QED BY <3>1, <3>2
  <2>4. (((up + 1) % len) + m) % len = wr
    BY <2>2, <2>3, Zenon
  <2> QED BY <1>3, <2>1, <2>4 DEF SoundRing
<1>6. /\ Contents(r, len) \in Seq(V) /\ Len(Contents(r, len)) = n
      /\ \A i \in 1 .. n : Contents(r, len)[i] = r.ring[(rd + i) % len]
  <2>1. SoundRing(r, len, V)
    BY <1>0
  <2> QED BY <1>1, <2>1, ContentsAreSeq
<1>7. /\ Contents(s, len) \in Seq(V) /\ Len(Contents(s, len)) = n - 1
      /\ \A i \in 1 .. n - 1 : Contents(s, len)[i] = s.ring[(up + i) % len]
  <2> HIDE DEF s
  <2>1. /\ Contents(s, len) \in Seq(V) /\ Len(Contents(s, len)) = s.n
        /\ \A i \in 1 .. s.n : Contents(s, len)[i] = s.ring[(s.rd + i) % len]
    BY <1>5, ContentsAreSeq
  <2> QED BY <1>3, <2>1, Zenon
<1>8. /\ Contents(r, len) # <<>>
      /\ Tail(Contents(r, len)) \in Seq(V)
      /\ Len(Tail(Contents(r, len))) = n - 1
      /\ \A i \in 1 .. n - 1 : Tail(Contents(r, len))[i] = Contents(r, len)[i + 1]
  BY <1>1, <1>6, HeadTailProperties
<1>9. ASSUME NEW i \in 1 .. n - 1
      PROVE  Contents(s, len)[i] = Tail(Contents(r, len))[i]
  <2>1. PICK j \in 0 .. len - 1 :
          j = (up + i) % len /\ j = IF up + i < len THEN up + i ELSE up + i - len
    <3>1. i \in 0 .. len
      BY <1>1
    <3> QED BY <3>1, SlotAfter
  <2>2. r.ring \in [0 .. len - 1 -> V]
    BY <1>0 DEF SoundRing, Rings
  <2>3. PICK h \in 1 .. n : h = i + 1
    OBVIOUS
  <2>4. PICK g : g = (rd + h) % len /\ g = IF rd + h < len THEN rd + h ELSE rd + h - len
    <3>1. h \in 0 .. len
      OBVIOUS
    <3> QED BY <3>1, SlotAfter, Zenon
  <2>5. j = g /\ j # up
    <3>1. CASE rd + 1 < len
      BY <1>1, <1>2, <2>1, <2>3, <2>4, <3>1
    <3>2. CASE ~(rd + 1 < len)
      BY <1>1, <1>2, <2>1, <2>3, <2>4, <3>2
    <3> QED BY <3>1, <3>2
  <2>6. s.ring[j] = r.ring[j]
    BY <1>3, <2>2, <2>5
  <2>7. Contents(s, len)[i] = s.ring[j] /\ Contents(r, len)[h] = r.ring[g]
    BY <1>6, <1>7, <2>1, <2>4
  <2>8. Tail(Contents(r, len))[i] = Contents(r, len)[h]
    BY <1>8, <2>3
  <2> QED BY <2>5, <2>6, <2>7, <2>8
<1>10. Contents(s, len) = Tail(Contents(r, len))
  BY <1>7, <1>8, <1>9, SeqEqual
<1> QED BY <1>0, <1>5, <1>8, <1>10

-----------------------------------------------------------------------------
(* The invariant: the rings are sound, and what a call that waits carries  *)
(* is what it was made with.                                               *)

Values == scenario.items \cup {"empty"}

SoundCall(l) ==
  /\ {"op", "obj", "item", "where"} \subseteq DOMAIN l
  /\ l.op = "lock" => l.obj \in Mutex
  /\ l.op = "send" /\ l.obj \in Queue \ Mutex =>
       l.item \in scenario.items /\ l.where \in {"back", "front"}

SoundCalls == DOMAIN loc = Task /\ \A t \in Task : SoundCall(loc[t])

SoundRings ==
  DOMAIN q = Queue /\ \A qu \in Queue \ Mutex : SoundRing(q[qu], Length[qu], Values)

IInv == scenario \in Scenarios /\ SoundCalls /\ SoundRings

\* What QueueIsFifo allows a queue to become.
Moves(qu, r) ==
  LET old == Contents(q[qu], Length[qu])
      new == Contents(r, Length[qu])
  IN  \/ new = old
      \/ old # <<>> /\ new = Tail(old)
      \/ \E x \in scenario.items : new \in {Append(old, x), <<x>> \o old}
      \/ Length[qu] = 1 /\ Len(new) = 1
      \/ new = <<>> /\ Calls("reset")

InOrder == \A qu \in Queue \ Mutex : Moves(qu, q'[qu])

LEMMA NoCallIsSound == SoundCall(NoCall)
  BY DEF SoundCall, NoCall

\* A call that neither sends nor locks.
LEMMA OtherCallIsSound ==
  ASSUME NEW l, {"op", "obj", "item", "where"} \subseteq DOMAIN l, l.op \notin {"lock", "send"}
  PROVE  SoundCall(l)
  BY DEF SoundCall

LEMMA GotoIsSound ==
  ASSUME IInv, SelectsATask, NEW s, NEW p, NEW l, Goto(s, p, l), p = "run" \/ SoundCall(l)
  PROVE  scenario' = scenario /\ SoundCalls'
<1>1. scenario' = scenario /\ loc' = [loc EXCEPT ![k.cur] = IF p = "run" THEN NoCall ELSE l]
  BY DEF Goto
<1>2. PICK m : m = (IF p = "run" THEN NoCall ELSE l) /\ SoundCall(m)
  BY NoCallIsSound
<1>3. loc' = [loc EXCEPT ![k.cur] = m] /\ DOMAIN loc = Task
  BY <1>1, <1>2 DEF IInv, SoundCalls
<1>4. DOMAIN loc' = Task
  BY <1>3
<1>5. ASSUME NEW t \in Task PROVE SoundCall(loc[t])'
  <2>1. loc'[t] = m \/ loc'[t] = loc[t]
    BY <1>3
  <2>2. SoundCall(loc'[t])
    BY <1>2, <2>1, Zenon DEF IInv, SoundCalls
  <2> QED BY <1>1, <2>2 DEF SoundCall
<1> QED BY <1>1, <1>4, <1>5 DEF SoundCalls

LEMMA CallIsSound ==
  ASSUME IInv, SelectsATask, NEW s, NEW qu, NEW r, NEW p, NEW l, Call(s, qu, r, p, l),
         p = "run" \/ SoundCall(l),
         qu \in Queue \ Mutex => SoundRing(r, Length[qu], Values) /\ Moves(qu, r)
  PROVE  IInv' /\ InOrder
<1>1. scenario' = scenario /\ SoundCalls'
  BY GotoIsSound DEF Call
<1>2. q' = [q EXCEPT ![qu] = r] /\ DOMAIN q = Queue
  BY DEF Call, IInv, SoundRings
<1>3. ASSUME NEW u \in Queue \ Mutex
      PROVE  SoundRing(q'[u], Length[u], Values) /\ Moves(u, q'[u])
  <2>1. CASE u = qu
    <3>1. q'[u] = r
      BY <1>2, <2>1
    <3> QED BY <2>1, <3>1
  <2>2. CASE u # qu
    <3>1. q'[u] = q[u]
      BY <1>2, <2>2
    <3> QED BY <3>1 DEF IInv, SoundRings, Moves
  <2> QED BY <2>1, <2>2
<1>4. DOMAIN q' = Queue
  BY <1>2
<1>5. Values' = Values
  BY <1>1 DEF Values
<1>6. SoundRings'
  BY <1>3, <1>4, <1>5 DEF SoundRings
<1> QED BY <1>1, <1>3, <1>6 DEF IInv, InOrder

LEMMA QueuesStay ==
  ASSUME IInv, q' = q, scenario' = scenario, SoundCalls'
  PROVE  IInv' /\ InOrder
<1>1. SoundRings'
  BY DEF IInv, SoundRings, Values
<1> QED BY <1>1 DEF IInv, InOrder, Moves

\* A call on a queue that leaves the items where they are.
LEMMA CallKeepsItems ==
  ASSUME IInv, SelectsATask, NEW s, NEW qu, NEW r, NEW p, NEW l, Call(s, qu, r, p, l),
         p = "run" \/ SoundCall(l), NEW tx \in Int, NEW rx \in Int,
         qu \in Queue \ Mutex => r = [q[qu] EXCEPT !.rx = rx, !.tx = tx]
  PROVE  IInv' /\ InOrder
<1>1. ASSUME qu \in Queue \ Mutex
      PROVE  SoundRing(r, Length[qu], Values) /\ Moves(qu, r)
  <2>1. SoundRing(q[qu], Length[qu], Values)
    BY <1>1 DEF IInv, SoundRings
  <2>2. /\ r \in Rings(Length[qu], Values)
        /\ r.n = q[qu].n /\ r.ring = q[qu].ring /\ r.wr = q[qu].wr /\ r.rd = q[qu].rd
    BY <1>1, <2>1 DEF SoundRing, Rings
  <2>3. SoundRing(r, Length[qu], Values)
    BY <2>1, <2>2 DEF SoundRing
  <2>4. Contents(r, Length[qu]) = Contents(q[qu], Length[qu])
    BY <2>2, Zenon DEF Contents
  <2> QED BY <2>3, <2>4 DEF Moves
<1> QED BY <1>1, CallIsSound

-----------------------------------------------------------------------------
(* Sending, receiving and looking. *)

LEMMA QueueLength == ASSUME NEW qu \in Queue PROVE Length[qu] \in Nat \ {0}
  BY QueueAssumption

LEMMA CallLeavesQueue ==
  ASSUME IInv, SelectsATask, NEW s, NEW qu, NEW p, NEW l, Call(s, qu, q[qu], p, l),
         p = "run" \/ SoundCall(l)
  PROVE  IInv' /\ InOrder
<1>1. qu \in Queue \ Mutex => /\ SoundRing(q[qu], Length[qu], Values)
                              /\ Moves(qu, q[qu])
  BY DEF IInv, SoundRings, Moves
<1> QED BY <1>1, CallIsSound

LEMMA BlocksInOrder ==
  ASSUME IInv, SelectsATask, NEW qu, NEW n, NEW l, SoundCall(l), Blocks(qu, n, l)
  PROVE  IInv' /\ InOrder
<1>1. SoundCall([l EXCEPT !.set = TRUE])
  <2>1. PICK m : m = [l EXCEPT !.set = TRUE]
    OBVIOUS
  <2>2. /\ DOMAIN m = DOMAIN l /\ \A f \in {"op", "obj", "item", "where"} :
             f \in DOMAIN l => m[f] = l[f]
    BY <2>1
  <2>3. m.op = l.op /\ m.obj = l.obj /\ m.item = l.item /\ m.where = l.where
    BY <2>2 DEF SoundCall
  <2> QED BY <2>1, <2>2, <2>3 DEF SoundCall
<1>2. CASE n = 0
  BY <1>2, CallLeavesQueue, Zenon DEF Blocks
<1>3. CASE n # 0
  BY <1>1, <1>3, CallLeavesQueue, Zenon DEF Blocks
<1> QED BY <1>2, <1>3

LEMMA SendInOrder ==
  ASSUME IInv, SelectsATask, NEW qu, NEW l, TrySend(qu, l), SoundCall(l) \/ l.where = "over",
         qu \in Queue \ Mutex =>
           /\ l.item \in scenario.items
           /\ l.where \in {"back", "front"} \/ (l.where = "over" /\ Length[qu] = 1)
  PROVE  IInv' /\ InOrder
<1> DEFINE r == CopyDataToQueue(q[qu], qu, l.item, l.where)
<1>1. CASE q[qu].n < Length[qu] \/ l.where = "over"
  <2>1. ASSUME qu \in Queue \ Mutex
        PROVE  SoundRing(r, Length[qu], Values) /\ Moves(qu, r)
    <3>1. /\ SoundRing(q[qu], Length[qu], Values) /\ Length[qu] \in Nat \ {0}
          /\ l.item \in Values
      BY <2>1, QueueLength DEF IInv, SoundRings, Values
    <3>2. CASE l.where = "back"
      <4>1. r = CopyToBack(q[qu], l.item, Length[qu])
        BY <2>1, <3>2 DEF CopyDataToQueue
      <4>2. q[qu].n < Length[qu]
        BY <1>1, <3>2
      <4>3. /\ SoundRing(r, Length[qu], Values)
            /\ Contents(r, Length[qu]) = Append(Contents(q[qu], Length[qu]), l.item)
        <5> HIDE DEF r
        <5> QED BY <3>1, <4>1, <4>2, BackAppends
      <4> QED BY <2>1, <4>3, Zenon DEF Moves
    <3>3. CASE l.where = "front"
      <4>1. r = CopyToFront(q[qu], l.item, Length[qu])
        BY <2>1, <3>3 DEF CopyDataToQueue
      <4>2. q[qu].n < Length[qu]
        BY <1>1, <3>3
      <4>3. /\ SoundRing(r, Length[qu], Values)
            /\ Contents(r, Length[qu]) = <<l.item>> \o Contents(q[qu], Length[qu])
        BY <3>1, <4>1, <4>2, FrontPrepends, Zenon
      <4> QED BY <2>1, <4>3, Zenon DEF Moves
    <3>4. CASE l.where = "over" /\ Length[qu] = 1
      <4>1. r = Overwrite(q[qu], l.item, 1)
        BY <2>1, <3>4 DEF CopyDataToQueue
      <4>2. SoundRing(r, 1, Values) /\ Len(Contents(r, 1)) = 1
        <5>1. SoundRing(q[qu], 1, Values)
          BY <3>1, <3>4
        <5> HIDE DEF r
        <5> QED BY <3>1, <4>1, <5>1, OverwriteReplaces
      <4> QED BY <3>4, <4>2, Zenon DEF Moves
    <3> QED BY <2>1, <3>2, <3>3, <3>4
  <2>2. \E s : Call(s, qu, r, "run", l)
    BY <1>1, Zenon DEF TrySend
  <2> HIDE DEF r
  <2> QED BY <2>1, <2>2, CallIsSound, Zenon
<1>2. CASE ~(q[qu].n < Length[qu] \/ l.where = "over")
  <2>1. Blocks(qu, l.wait, l) /\ SoundCall(l)
    BY <1>2 DEF TrySend
  <2> QED BY <2>1, BlocksInOrder
<1> QED BY <1>1, <1>2

LEMMA TakeInOrder ==
  ASSUME IInv, NEW qu, q[qu].n > 0, qu \in Queue \ Mutex
  PROVE  LET r == CopyDataFromQueue(q[qu], qu)
         IN  SoundRing(r, Length[qu], Values) /\ Moves(qu, r)
<1>1. /\ SoundRing(q[qu], Length[qu], Values) /\ Length[qu] \in Nat \ {0}
      /\ "empty" \in Values
  BY QueueLength DEF IInv, SoundRings, Values
<1>2. /\ SoundRing(CopyDataFromQueue(q[qu], qu), Length[qu], Values)
      /\ Contents(q[qu], Length[qu]) # <<>>
      /\ Contents(CopyDataFromQueue(q[qu], qu), Length[qu]) = Tail(Contents(q[qu], Length[qu]))
  BY <1>1, ReceiveTakesFirst, Zenon
<1> QED BY <1>2, Zenon DEF Moves

LEMMA ReceiveInOrder ==
  ASSUME IInv, SelectsATask, NEW qu, NEW l, TryReceive(qu, l), SoundCall(l)
  PROVE  IInv' /\ InOrder
<1>1. CASE q[qu].n > 0
  <2>1. \E s : Call(s, qu, CopyDataFromQueue(q[qu], qu), "run", l)
    BY <1>1, Zenon DEF TryReceive
  <2> QED BY <1>1, <2>1, TakeInOrder, CallIsSound, Zenon
<1>2. CASE ~(q[qu].n > 0)
  BY <1>2, BlocksInOrder, Zenon DEF TryReceive
<1> QED BY <1>1, <1>2

LEMMA PeekInOrder ==
  ASSUME IInv, SelectsATask, NEW qu, NEW l, TryPeek(qu, l), SoundCall(l)
  PROVE  IInv' /\ InOrder
<1>1. CASE q[qu].n > 0
  BY <1>1, CallLeavesQueue, Zenon DEF TryPeek
<1>2. CASE ~(q[qu].n > 0)
  BY <1>2, BlocksInOrder, Zenon DEF TryPeek
<1> QED BY <1>1, <1>2

LEMMA LockInOrder ==
  ASSUME IInv, SelectsATask, NEW qu, NEW l, TryLock(qu, l), SoundCall(l), qu \in Mutex
  PROVE  IInv' /\ InOrder
<1>1. CASE q[qu].n > 0
  BY <1>1, CallIsSound, Zenon DEF TryLock
<1>2. CASE ~(q[qu].n > 0)
  BY <1>2, BlocksInOrder, Zenon DEF TryLock
<1> QED BY <1>1, <1>2

\* xQueueReset, and the queue as it is made.
LEMMA NewQueueIsEmpty ==
  ASSUME NEW qu \in Queue \ Mutex, NEW V, "empty" \in V
  PROVE  /\ SoundRing(NewQueue(qu), Length[qu], V)
         /\ Contents(NewQueue(qu), Length[qu]) = <<>>
<1>1. PICK len \in Nat \ {0} : len = Length[qu]
  BY QueueLength
<1>2. (((len - 1 + 1) % len) + 0) % len = 0
  <2>1. (((len - 1 + 1) % len) + 0) % len
          = IF len - 1 + 1 + 0 < len THEN len - 1 + 1 + 0
            ELSE IF len - 1 + 1 + 0 < len + len THEN len - 1 + 1 + 0 - len ELSE 0
    <3>1. len - 1 \in 0 .. len - 1 /\ 0 \in 0 .. len
      OBVIOUS
    <3> QED BY <3>1, WriteSlot, Zenon
  <2> QED BY <2>1
<1>3. NewQueue(qu) = [n |-> 0, ring |-> [i \in 0 .. len - 1 |-> "empty"], wr |-> 0,
                      rd |-> len - 1, tx |-> -1, rx |-> -1, holder |-> Nobody]
  BY <1>1 DEF NewQueue, Unlocked
<1>4. NewQueue(qu) \in Rings(len, V)
  <2>1. [i \in 0 .. len - 1 |-> "empty"] \in [0 .. len - 1 -> V]
    OBVIOUS
  <2>2. 0 \in 0 .. len /\ 0 \in 0 .. len - 1 /\ len - 1 \in 0 .. len - 1 /\ -1 \in Int
    OBVIOUS
  <2> QED BY <1>3, <2>1, <2>2 DEF Rings
<1>5. SoundRing(NewQueue(qu), len, V)
  BY <1>2, <1>3, <1>4 DEF SoundRing
<1>6. Contents(NewQueue(qu), len) = <<>>
  BY <1>3 DEF Contents
<1> QED BY <1>1, <1>5, <1>6

-----------------------------------------------------------------------------
(* Every step of a task and of a handler. *)

LEMMA ScenarioIsSound ==
  ASSUME IInv
  PROVE  /\ scenario.queues \subseteq Queue /\ scenario.where \subseteq {"back", "front"}
         /\ \A t \in Task : scenario.locks[t] \subseteq Mutex
  BY ScenarioAssumption DEF IInv

LEMMA HereIsSound == ASSUME IInv, SelectsATask PROVE SoundCall(Here)
  BY DEF IInv, SoundCalls, SelectsATask, Here

\* The locals with others of the fields that do not say what is called.
LEMMA LocalsAreSound ==
  ASSUME IInv, SelectsATask, NEW w, NEW b, NEW n, NEW i
  PROVE  /\ SoundCall([Here EXCEPT !.block = b])
         /\ SoundCall([Here EXCEPT !.inherited = i])
         /\ SoundCall([Here EXCEPT !.wait = w, !.block = b, !.next = n])
<1>1. SoundCall(Here)
  BY HereIsSound
<1>2. ASSUME NEW m, DOMAIN m = DOMAIN Here,
             \A f \in {"op", "obj", "item", "where"} : f \in DOMAIN Here => m[f] = Here[f]
      PROVE  SoundCall(m)
  <2>1. m.op = Here.op /\ m.obj = Here.obj /\ m.item = Here.item /\ m.where = Here.where
    BY <1>1, <1>2 DEF SoundCall
  <2> QED BY <1>1, <1>2, <2>1 DEF SoundCall
<1>3. SoundCall([Here EXCEPT !.block = b])
  <2>1. PICK m : m = [Here EXCEPT !.block = b]
    OBVIOUS
  <2>2. /\ DOMAIN m = DOMAIN Here
        /\ \A f \in {"op", "obj", "item", "where"} : f \in DOMAIN Here => m[f] = Here[f]
    BY <2>1
  <2> QED BY <1>2, <2>1, <2>2
<1>4. SoundCall([Here EXCEPT !.inherited = i])
  <2>1. PICK m : m = [Here EXCEPT !.inherited = i]
    OBVIOUS
  <2>2. /\ DOMAIN m = DOMAIN Here
        /\ \A f \in {"op", "obj", "item", "where"} : f \in DOMAIN Here => m[f] = Here[f]
    BY <2>1
  <2> QED BY <1>2, <2>1, <2>2
<1>5. SoundCall([Here EXCEPT !.wait = w, !.block = b, !.next = n])
  <2>1. PICK m : m = [Here EXCEPT !.wait = w, !.block = b, !.next = n]
    OBVIOUS
  <2>2. /\ DOMAIN m = DOMAIN Here
        /\ \A f \in {"op", "obj", "item", "where"} : f \in DOMAIN Here => m[f] = Here[f]
    BY <2>1
  <2> QED BY <1>2, <2>1, <2>2
<1> QED BY <1>3, <1>4, <1>5

\* The calls that have nothing to do with a queue.
LEMMA PlainCallsAreSound ==
  ASSUME NEW n, NEW b, NEW o
  PROVE  /\ SoundCall([NoCall EXCEPT !.op = "delay", !.wait = n, !.block = b])
         /\ SoundCall([NoCall EXCEPT !.op = "take", !.wait = n])
         /\ SoundCall([NoCall EXCEPT !.op = "suspend", !.block = b])
         /\ SoundCall([NoCall EXCEPT !.op = "abort", !.obj = o])
         /\ SoundCall([NoCall EXCEPT !.op = "sleep", !.wait = n])
         /\ SoundCall([NoCall EXCEPT !.op = "sleep"])
  BY DEF SoundCall, NoCall

LEMMA TaskStepIsSound ==
  ASSUME IInv, SelectsATask, TaskStep
  PROVE  scenario' = scenario /\ SoundCalls'
<1>1. SoundCall(Here) /\ SoundCall(NoCall)
  BY HereIsSound, NoCallIsSound
<1>2. CASE ResumeScheduler
  BY <1>1, <1>2, GotoIsSound, Zenon DEF ResumeScheduler
<1>3. CASE Yield
  BY <1>1, <1>3, GotoIsSound, Zenon DEF Yield
<1>4. CASE StartDelay
  BY <1>1, <1>4, PlainCallsAreSound, GotoIsSound, Zenon DEF StartDelay
<1>5. CASE Delay
  BY <1>1, <1>5, GotoIsSound, Zenon DEF Delay
<1>6. CASE NotifyTake
  BY <1>6, PlainCallsAreSound, GotoIsSound, Zenon DEF NotifyTake
<1>7. CASE NotifyTaken
  BY <1>7, GotoIsSound, Zenon DEF NotifyTaken
<1>8. CASE NotifyGive
  BY <1>8, GotoIsSound, Zenon DEF NotifyGive
<1>9. CASE TaskSuspend
  BY <1>9, PlainCallsAreSound, GotoIsSound, Zenon DEF TaskSuspend
<1>10. CASE TaskSuspended
  BY <1>1, <1>10, GotoIsSound, Zenon DEF TaskSuspended
<1>11. CASE TaskResume
  BY <1>11, GotoIsSound, Zenon DEF TaskResume
<1>12. CASE TaskPrioritySet
  BY <1>12, GotoIsSound, Zenon DEF TaskPrioritySet
<1>13. CASE StartAbortDelay
  BY <1>13, PlainCallsAreSound, GotoIsSound, Zenon DEF StartAbortDelay
<1>14. CASE AbortDelay
  BY <1>1, <1>14, GotoIsSound, Zenon DEF AbortDelay
<1>15. CASE AbortedDelay
  BY <1>1, <1>15, GotoIsSound, Zenon DEF AbortedDelay
<1>16. CASE IdleTask
  BY <1>1, <1>16, GotoIsSound, Zenon DEF IdleTask
<1>17. CASE IdleSuspended
  BY <1>17, PlainCallsAreSound, GotoIsSound, Zenon DEF IdleSuspended
<1>18. CASE SuppressTicksAndSleep
  BY <1>1, <1>18, GotoIsSound, Zenon DEF SuppressTicksAndSleep
<1> QED BY <1>2, <1>3, <1>4, <1>5, <1>6, <1>7, <1>8, <1>9, <1>10, <1>11, <1>12, <1>13,
           <1>14, <1>15, <1>16, <1>17, <1>18, Zenon DEF TaskStep

LEMMA HandlerIsSound ==
  ASSUME IInv, NEW s, Handler(s)
  PROVE  scenario' = scenario /\ SoundCalls'
  BY DEF Handler, IInv, SoundCalls, SoundCall

LEMMA HandlerStepIsSound ==
  ASSUME IInv, HandlerStep
  PROVE  scenario' = scenario /\ SoundCalls'
<1>1. CASE Tick
  BY <1>1, HandlerIsSound, Zenon DEF Tick
<1>2. CASE NotifyGiveFromISR
  BY <1>2, HandlerIsSound, Zenon DEF NotifyGiveFromISR
<1>3. CASE TaskResumeFromISR
  BY <1>3, HandlerIsSound, Zenon DEF TaskResumeFromISR
<1> QED BY <1>1, <1>2, <1>3 DEF HandlerStep

LEMMA StartSendInOrder ==
  ASSUME IInv, SelectsATask, StartSend \/ StartOverwrite
  PROVE  IInv' /\ InOrder
<1>1. CASE StartSend
  <2>1. PICK qu \in scenario.queues \ Mutex, x \in scenario.items, n \in scenario.waits[k.cur],
             w \in scenario.where :
          TrySend(qu, [NoCall EXCEPT !.op = "send", !.obj = qu, !.item = x,
                                     !.where = w, !.wait = n])
    BY <1>1, Zenon DEF StartSend
  <2>2. PICK l : l = [NoCall EXCEPT !.op = "send", !.obj = qu, !.item = x,
                                    !.where = w, !.wait = n]
    OBVIOUS
  <2>3. l.item = x /\ l.where \in {"back", "front"}
    BY <2>2, ScenarioIsSound DEF NoCall
  <2>4. SoundCall(l)
    BY <2>2, <2>3 DEF SoundCall, NoCall
  <2>5. TrySend(qu, l)
    BY <2>1, <2>2, Zenon
  <2> QED BY <2>3, <2>4, <2>5, SendInOrder
<1>2. CASE StartOverwrite
  <2>1. PICK qu \in scenario.queues \ Mutex, x \in scenario.items :
          /\ Length[qu] = 1
          /\ TrySend(qu, [NoCall EXCEPT !.op = "send", !.obj = qu, !.item = x,
                                        !.where = "over"])
    BY <1>2, Zenon DEF StartOverwrite
  <2>2. PICK l : l = [NoCall EXCEPT !.op = "send", !.obj = qu, !.item = x, !.where = "over"]
    OBVIOUS
  <2>3. l.item = x /\ l.where = "over"
    BY <2>2 DEF NoCall
  <2>4. TrySend(qu, l)
    BY <2>1, <2>2, Zenon
  <2> QED BY <2>1, <2>3, <2>4, SendInOrder
<1> QED BY <1>1, <1>2

LEMMA StartReceiveInOrder ==
  ASSUME IInv, SelectsATask, StartReceive \/ StartPeek
  PROVE  IInv' /\ InOrder
<1>1. \A qu, n : /\ SoundCall([NoCall EXCEPT !.op = "receive", !.obj = qu, !.wait = n])
                 /\ SoundCall([NoCall EXCEPT !.op = "peek", !.obj = qu, !.wait = n])
  BY DEF SoundCall, NoCall
<1>2. CASE StartReceive
  BY <1>1, <1>2, ReceiveInOrder, Zenon DEF StartReceive
<1>3. CASE StartPeek
  BY <1>1, <1>3, PeekInOrder, Zenon DEF StartPeek
<1> QED BY <1>2, <1>3

LEMMA StartLockInOrder ==
  ASSUME IInv, SelectsATask, StartLock \/ StartUnlock
  PROVE  IInv' /\ InOrder
<1>1. scenario.locks[k.cur] \subseteq Mutex
  BY ScenarioIsSound DEF SelectsATask
<1>2. CASE StartLock
  <2>1. \A qu \in Mutex : \A n : SoundCall([NoCall EXCEPT !.op = "lock", !.obj = qu, !.wait = n])
    BY DEF SoundCall, NoCall
  <2> QED BY <1>1, <1>2, <2>1, LockInOrder, Zenon DEF StartLock
<1>3. CASE StartUnlock
  <2>1. PICK qu \in Mutex : TrySend(qu, [NoCall EXCEPT !.op = "send", !.obj = qu])
    BY <1>1, <1>3, Zenon DEF StartUnlock
  <2>2. SoundCall([NoCall EXCEPT !.op = "send", !.obj = qu])
    BY DEF SoundCall, NoCall
  <2> QED BY <2>1, <2>2, SendInOrder, Zenon
<1> QED BY <1>2, <1>3

LEMMA ResetInOrder ==
  ASSUME IInv, SelectsATask, Reset
  PROVE  IInv' /\ InOrder
<1>1. PICK qu, s : /\ qu \in scenario.queues \ Mutex /\ Calls("reset")
                   /\ Call(s, qu, NewQueue(qu), "run", NoCall)
  BY Zenon DEF Reset
<1>2. qu \in Queue \ Mutex /\ "empty" \in Values
  BY <1>1, ScenarioIsSound DEF Values
<1>3. SoundRing(NewQueue(qu), Length[qu], Values) /\ Contents(NewQueue(qu), Length[qu]) = <<>>
  BY <1>2, NewQueueIsEmpty
<1>4. Moves(qu, NewQueue(qu))
  BY <1>1, <1>3, Zenon DEF Moves
<1> QED BY <1>1, <1>3, <1>4, CallIsSound, Zenon

LEMMA TryAgainInOrder ==
  ASSUME IInv, SelectsATask, TryAgain
  PROVE  IInv' /\ InOrder
<1>1. SoundCall(Here)
  BY HereIsSound
<1>2. CASE Here.op = "send" /\ TrySend(Here.obj, Here)
  <2>1. Here.obj \in Queue \ Mutex => Here.item \in scenario.items /\ Here.where \in {"back", "front"}
    BY <1>1, <1>2 DEF SoundCall
  <2> QED BY <1>1, <1>2, <2>1, SendInOrder, Zenon
<1>3. CASE Here.op = "receive" /\ TryReceive(Here.obj, Here)
  BY <1>1, <1>3, ReceiveInOrder, Zenon
<1>4. CASE Here.op = "peek" /\ TryPeek(Here.obj, Here)
  BY <1>1, <1>4, PeekInOrder, Zenon
<1>5. CASE Here.op = "lock" /\ TryLock(Here.obj, Here)
  <2>1. Here.obj \in Mutex
    BY <1>1, <1>5, Zenon DEF SoundCall
  <2> QED BY <1>1, <1>5, <2>1, LockInOrder, Zenon
<1> QED BY <1>2, <1>3, <1>4, <1>5, Zenon DEF TryAgain

\* The steps of the loop that only lock and unlock the queue.
LEMMA LockingInOrder ==
  ASSUME IInv, SelectsATask, LockQueue \/ UnlockTx \/ UnlockRx
  PROVE  IInv' /\ InOrder
<1>1. SoundCall(Here)
  BY HereIsSound
<1>2. PICK qu : qu = Here.obj
  OBVIOUS
<1>3. ASSUME qu \in Queue \ Mutex
      PROVE  q[qu].tx \in Int /\ q[qu].rx \in Int /\ q[qu] \in Rings(Length[qu], Values)
  BY <1>3 DEF IInv, SoundRings, SoundRing, Rings
<1>4. ASSUME NEW s, NEW p, NEW r, Call(s, qu, r, p, Here), NEW tx, NEW rx,
             qu \in Queue \ Mutex => tx \in Int /\ rx \in Int,
             r = [q[qu] EXCEPT !.rx = rx, !.tx = tx]
      PROVE  IInv' /\ InOrder
  <2>1. CASE qu \in Queue \ Mutex
    <3>1. tx \in Int /\ rx \in Int
      BY <1>4, <2>1
    <3>2. PICK m : m = r /\ m = [q[qu] EXCEPT !.rx = rx, !.tx = tx]
      BY <1>4
    <3>3. Call(s, qu, m, p, Here)
      BY <1>4, <3>2
    <3> QED BY <1>1, <3>1, <3>2, <3>3, CallKeepsItems
  <2>2. CASE qu \notin Queue \ Mutex
    BY <1>1, <1>4, <2>2, CallIsSound
  <2> QED BY <2>1, <2>2
<1>5. CASE LockQueue
  <2>1. PICK tx, rx : /\ tx = (IF q[qu].tx = Unlocked THEN LockedUnmodified ELSE q[qu].tx)
                      /\ rx = (IF q[qu].rx = Unlocked THEN LockedUnmodified ELSE q[qu].rx)
    OBVIOUS
  <2>2. qu \in Queue \ Mutex => tx \in Int /\ rx \in Int
    BY <1>3, <2>1 DEF LockedUnmodified
  <2>3. Call(k, qu, [q[qu] EXCEPT !.rx = rx, !.tx = tx], "check", Here)
    BY <1>2, <1>5, <2>1 DEF LockQueue
  <2> QED BY <1>4, <2>2, <2>3
<1>6. CASE UnlockTx
  <2>1. PICK s : Call(s, qu, [q[qu] EXCEPT !.tx = Unlocked], "unlockRx", Here)
    BY <1>2, <1>6, Zenon DEF UnlockTx
  <2>2. CASE qu \in Queue \ Mutex
    <3>1. [q[qu] EXCEPT !.tx = Unlocked] = [q[qu] EXCEPT !.rx = q[qu].rx, !.tx = Unlocked]
      BY <1>3, <2>2 DEF Rings
    <3>2. Unlocked \in Int
      BY DEF Unlocked
    <3> QED BY <1>3, <1>4, <2>1, <2>2, <3>1, <3>2
  <2>3. CASE qu \notin Queue \ Mutex
    BY <1>1, <2>1, <2>3, CallIsSound
  <2> QED BY <2>2, <2>3
<1>7. CASE UnlockRx
  <2>1. PICK s : Call(s, qu, [q[qu] EXCEPT !.rx = Unlocked], "resume", Here)
    BY <1>2, <1>7, Zenon DEF UnlockRx
  <2>2. CASE qu \in Queue \ Mutex
    <3>1. [q[qu] EXCEPT !.rx = Unlocked] = [q[qu] EXCEPT !.rx = Unlocked, !.tx = q[qu].tx]
      BY <1>3, <2>2 DEF Rings
    <3>2. Unlocked \in Int
      BY DEF Unlocked
    <3> QED BY <1>3, <1>4, <2>1, <2>2, <3>1, <3>2
  <2>3. CASE qu \notin Queue \ Mutex
    BY <1>1, <2>1, <2>3, CallIsSound
  <2> QED BY <2>2, <2>3
<1> QED BY <1>5, <1>6, <1>7

\* The steps of the loop that leave the queue alone.
LEMMA WaitingInOrder ==
  ASSUME IInv, SelectsATask,
         Suspend \/ Check \/ Look \/ Inherit \/ Place \/ Late \/ Disinherit
  PROVE  IInv' /\ InOrder
<1>1. SoundCall(Here)
  BY HereIsSound
<1>2. q' = q
  BY DEF Suspend, Check, Look, Inherit, Place, Late, Disinherit
<1>3. CASE Suspend
  BY <1>1, <1>2, <1>3, GotoIsSound, QueuesStay, Zenon DEF Suspend
<1>4. CASE Check
  BY <1>2, <1>4, LocalsAreSound, GotoIsSound, QueuesStay, Zenon DEF Check
<1>5. CASE Look
  BY <1>1, <1>2, <1>5, GotoIsSound, QueuesStay, Zenon DEF Look
<1>6. CASE Inherit
  BY <1>2, <1>6, LocalsAreSound, GotoIsSound, QueuesStay, Zenon DEF Inherit
<1>7. CASE Place
  BY <1>2, <1>7, LocalsAreSound, GotoIsSound, QueuesStay, Zenon DEF Place
<1>8. CASE Late
  BY <1>1, <1>2, <1>8, GotoIsSound, QueuesStay, Zenon DEF Late
<1>9. CASE Disinherit
  BY <1>1, <1>2, <1>9, GotoIsSound, QueuesStay, Zenon DEF Disinherit
<1> QED BY <1>3, <1>4, <1>5, <1>6, <1>7, <1>8, <1>9

LEMMA HandlerCallIsSound ==
  ASSUME IInv, NEW s, NEW qu, NEW r, HandlerCall(s, qu, r),
         qu \in Queue \ Mutex => SoundRing(r, Length[qu], Values) /\ Moves(qu, r)
  PROVE  IInv' /\ InOrder
<1>1. scenario' = scenario /\ SoundCalls'
  BY HandlerIsSound DEF HandlerCall
<1>2. q' = [q EXCEPT ![qu] = r] /\ DOMAIN q = Queue
  BY DEF HandlerCall, IInv, SoundRings
<1>3. ASSUME NEW u \in Queue \ Mutex
      PROVE  SoundRing(q'[u], Length[u], Values) /\ Moves(u, q'[u])
  <2>1. CASE u = qu
    <3>1. q'[u] = r
      BY <1>2, <2>1
    <3> QED BY <2>1, <3>1
  <2>2. CASE u # qu
    <3>1. q'[u] = q[u]
      BY <1>2, <2>2
    <3> QED BY <3>1 DEF IInv, SoundRings, Moves
  <2> QED BY <2>1, <2>2
<1>4. DOMAIN q' = Queue /\ Values' = Values
  BY <1>1, <1>2 DEF Values
<1>5. SoundRings'
  BY <1>3, <1>4 DEF SoundRings
<1> QED BY <1>1, <1>3, <1>5 DEF IInv, InOrder

\* A counted send or receive of a handler: the count of the lock is not part
\* of the contents.
LEMMA CountedIsSound ==
  ASSUME NEW qu, NEW r, NEW len \in Nat \ {0}, NEW V, SoundRing(r, len, V),
         NEW s, s = [r EXCEPT !.tx = @ + 1] \/ s = [r EXCEPT !.rx = @ + 1]
  PROVE  SoundRing(s, len, V) /\ Contents(s, len) = Contents(r, len)
<1>1. r.tx + 1 \in Int /\ r.rx + 1 \in Int /\ r \in Rings(len, V)
  BY DEF SoundRing, Rings
<1>2. /\ s \in Rings(len, V)
      /\ s.n = r.n /\ s.ring = r.ring /\ s.wr = r.wr /\ s.rd = r.rd
  BY <1>1 DEF Rings
<1>3. SoundRing(s, len, V)
  BY <1>2 DEF SoundRing
<1>4. Contents(s, len) = Contents(r, len)
  BY <1>2, Zenon DEF Contents
<1> QED BY <1>3, <1>4

LEMMA SendFromISRInOrder == ASSUME IInv, SendFromISR PROVE IInv' /\ InOrder
<1>1. PICK qu, x, r, s, t, u :
        /\ qu \in scenario.queues \ Mutex /\ x \in scenario.items
        /\ r = CopyDataToQueue(q[qu], qu, x, "back") /\ ~Full(qu)
        /\ s = [r EXCEPT !.tx = @ + 1]
        /\ HandlerCall(t, qu, r) \/ HandlerCall(u, qu, s)
  BY DEF SendFromISR
<1>2. /\ qu \in Queue \ Mutex /\ SoundRing(q[qu], Length[qu], Values)
      /\ Length[qu] \in Nat \ {0} /\ x \in Values
  BY <1>1, ScenarioIsSound, QueueLength DEF IInv, SoundRings, Values
<1>3. r = CopyToBack(q[qu], x, Length[qu]) /\ q[qu].n < Length[qu]
  BY <1>1, <1>2 DEF CopyDataToQueue, Full, SoundRing, Rings
<1>4. /\ SoundRing(r, Length[qu], Values)
      /\ Contents(r, Length[qu]) = Append(Contents(q[qu], Length[qu]), x)
  BY <1>2, <1>3, BackAppends
<1>5. /\ SoundRing(s, Length[qu], Values)
      /\ Contents(s, Length[qu]) = Append(Contents(q[qu], Length[qu]), x)
  BY <1>1, <1>2, <1>4, CountedIsSound
<1>6. Moves(qu, r) /\ Moves(qu, s)
  BY <1>1, <1>4, <1>5, Zenon DEF Moves
<1> QED BY <1>1, <1>4, <1>5, <1>6, HandlerCallIsSound, Zenon

LEMMA ReceiveFromISRInOrder == ASSUME IInv, ReceiveFromISR PROVE IInv' /\ InOrder
<1>1. PICK qu, r, s, t, u :
        /\ qu \in scenario.queues \ Mutex
        /\ r = CopyDataFromQueue(q[qu], qu) /\ ~Empty(qu)
        /\ s = [r EXCEPT !.rx = @ + 1]
        /\ HandlerCall(t, qu, r) \/ HandlerCall(u, qu, s)
  BY DEF ReceiveFromISR
<1>2. /\ qu \in Queue \ Mutex /\ Length[qu] \in Nat \ {0} /\ q[qu].n > 0
  BY <1>1, ScenarioIsSound, QueueLength DEF IInv, SoundRings, SoundRing, Rings, Empty
<1>3. SoundRing(r, Length[qu], Values) /\ Moves(qu, r)
  BY <1>1, <1>2, TakeInOrder
<1>4. SoundRing(s, Length[qu], Values) /\ Contents(s, Length[qu]) = Contents(r, Length[qu])
  BY <1>1, <1>2, <1>3, CountedIsSound
<1>5. Moves(qu, s)
  BY <1>3, <1>4, Zenon DEF Moves
<1> QED BY <1>1, <1>3, <1>4, <1>5, HandlerCallIsSound, Zenon

LEMMA QueueStepInOrder ==
  ASSUME IInv, SelectsATask, QueueStep
  PROVE  IInv' /\ InOrder
  BY StartSendInOrder, StartReceiveInOrder, StartLockInOrder, ResetInOrder, TryAgainInOrder,
     LockingInOrder, WaitingInOrder, Zenon DEF QueueStep

LEMMA InitIsSound == ASSUME Init PROVE IInv
<1>1. /\ scenario \in Scenarios /\ loc = [t \in Task |-> NoCall]
      /\ q = [qu \in Queue |-> NewQueue(qu)]
  BY DEF Init, TasksInit, QueueInit
<1>2. SoundCalls
  BY <1>1, NoCallIsSound DEF SoundCalls
<1>3. \A qu \in Queue \ Mutex : SoundRing(q[qu], Length[qu], Values)
  BY <1>1, NewQueueIsEmpty DEF Values
<1> QED BY <1>1, <1>2, <1>3 DEF IInv, SoundRings

LEMMA NextIsSound ==
  ASSUME IInv, SelectsATask, [Next]_vars
  PROVE  IInv' /\ (UNCHANGED vars \/ InOrder)
<1>1. CASE TaskStep /\ UNCHANGED q
  BY <1>1, TaskStepIsSound, QueuesStay
<1>2. CASE HandlerStep /\ UNCHANGED q
  BY <1>2, HandlerStepIsSound, QueuesStay
<1>3. CASE QueueStep
  BY <1>3, QueueStepInOrder
<1>4. CASE QueueHandlerStep
  BY <1>4, SendFromISRInOrder, ReceiveFromISRInOrder DEF QueueHandlerStep
<1>5. CASE UNCHANGED vars
  <2>1. scenario' = scenario /\ q' = q /\ SoundCalls'
    BY <1>5 DEF vars, IInv, SoundCalls, SoundCall
  <2> QED BY <1>5, <2>1, QueuesStay
<1> QED BY <1>1, <1>2, <1>3, <1>4, <1>5 DEF Next

-----------------------------------------------------------------------------
\* A queue hands out what it was given, in order (queue.c: prvCopyDataToQueue
\* and prvCopyDataFromQueue, and who calls them), as long as the scheduler
\* never takes the end marker of a list for the task that runs: a task that
\* is none has no call whose item could be copied.
THEOREM QueuesAreFifo == Spec /\ []SelectsATask => QueueIsFifo
<1>1. Init => IInv
  BY InitIsSound
<1>2. IInv /\ SelectsATask /\ [Next]_vars => IInv'
  BY NextIsSound
<1>3. IInv /\ SelectsATask /\ [Next]_vars =>
        [\A qu \in Queue \ Mutex :
           LET old == Contents(q[qu], Length[qu])
               new == Contents(q'[qu], Length[qu])
           IN  \/ new = old
               \/ old # <<>> /\ new = Tail(old)
               \/ \E x \in scenario.items : new \in {Append(old, x), <<x>> \o old}
               \/ Length[qu] = 1 /\ Len(new) = 1
               \/ new = <<>> /\ Calls("reset")]_vars
  BY NextIsSound, Zenon DEF InOrder, Moves
<1> QED BY <1>1, <1>2, <1>3, PTL DEF Spec, QueueIsFifo

-----------------------------------------------------------------------------
(* Lists in the order of the values of their items.                         *)

Ord(l, v) == \A i, j \in 1 .. Len(l) : i < j => l[i] # l[j] /\ v[l[i]] <= v[l[j]]

LEMMA LeastElement ==
  ASSUME NEW S \in SUBSET Nat, S # {}
  PROVE  \E x \in S : \A y \in S : x <= y
<1>1. PICK x \in S : \A y \in S : ~(<<y, x>> \in OpToRel(<, Nat))
  BY WFMin, NatLessThanWellFounded, Zenon
<1>2. \A y \in S : ~(y < x)
  BY <1>1 DEF OpToRel
<1> QED BY <1>2

LEMMA MinIsLeast ==
  ASSUME NEW S \in SUBSET Nat, S # {}
  PROVE  Min(S) \in S /\ \A y \in S : Min(S) <= y
<1>1. \E x \in S : \A y \in S : x =< y
  BY LeastElement
<1> QED BY <1>1 DEF Min

LEMMA ListMembers ==
  ASSUME NEW T, NEW l \in Seq(T)
  PROVE  /\ Len(l) \in Nat /\ DOMAIN l = 1 .. Len(l)
         /\ \A i \in 1 .. Len(l) : l[i] \in T /\ l[i] \in ToSet(l)
         /\ \A x \in ToSet(l) : x \in T /\ \E i \in 1 .. Len(l) : l[i] = x
<1>1. Len(l) \in Nat /\ DOMAIN l = 1 .. Len(l) /\ \A i \in 1 .. Len(l) : l[i] \in T
  BY LenProperties, ElementOfSeq
<1> QED BY <1>1 DEF ToSet

\* An insertion at p shifts what is behind p.
LEMMA InsertedAt ==
  ASSUME NEW T, NEW l \in Seq(T), NEW p \in 1 .. Len(l) + 1, NEW t \in T
  PROVE  /\ InsertAt(l, p, t) \in Seq(T) /\ Len(InsertAt(l, p, t)) = Len(l) + 1
         /\ \A i \in 1 .. Len(l) + 1 :
              InsertAt(l, p, t)[i] = IF i < p THEN l[i] ELSE IF i = p THEN t ELSE l[i - 1]
<1> DEFINE a == SubSeq(l, 1, p - 1)
           b == SubSeq(l, p, Len(l))
<1>1. Len(l) \in Nat /\ \A i \in 1 .. Len(l) : l[i] \in T
  BY LenProperties, ElementOfSeq
<1>2. a \in Seq(T) /\ Len(a) = p - 1 /\ \A i \in 1 .. p - 1 : a[i] = l[i]
  <2>1. \A i \in 1 .. p - 1 : l[i] \in T
    BY <1>1
  <2> QED BY <1>1, <2>1, SubSeqProperties
<1>3. b \in Seq(T) /\ Len(b) = Len(l) - p + 1
      /\ \A i \in 1 .. Len(l) - p + 1 : b[i] = l[p + i - 1]
  <2>1. \A i \in p .. Len(l) : l[i] \in T
    BY <1>1
  <2> QED BY <1>1, <2>1, SubSeqProperties
<1>4. InsertAt(l, p, t) = (a \o <<t>>) \o b
  BY DEF InsertAt
<1> HIDE DEF a, b
<1>5. a \o <<t>> \in Seq(T) /\ Len(a \o <<t>>) = p
      /\ \A i \in 1 .. p : (a \o <<t>>)[i] = IF i < p THEN l[i] ELSE t
  BY <1>1, <1>2
<1>6. PICK c \in Seq(T) : c = a \o <<t>>
  BY <1>5
<1>7. c \o b \in Seq(T) /\ Len(c \o b) = Len(l) + 1
      /\ \A i \in 1 .. Len(l) + 1 : (c \o b)[i] = IF i <= p THEN c[i] ELSE b[i - p]
  <2>1. Len(c) = p /\ Len(b) = Len(l) - p + 1
    BY <1>3, <1>5, <1>6
  <2>2. /\ c \o b \in Seq(T) /\ Len(c \o b) = Len(c) + Len(b)
        /\ \A i \in 1 .. Len(c) + Len(b) :
             (c \o b)[i] = IF i <= Len(c) THEN c[i] ELSE b[i - Len(c)]
    <3>1. c \in Seq(T) /\ b \in Seq(T)
      BY <1>3, <1>6
    <3> QED BY <3>1, ConcatProperties
  <2> QED BY <2>1, <2>2, <1>1
<1>8. \A i \in 1 .. Len(l) + 1 :
        (c \o b)[i] = IF i < p THEN l[i] ELSE IF i = p THEN t ELSE l[i - 1]
  <2> SUFFICES ASSUME NEW i \in 1 .. Len(l) + 1
               PROVE  (c \o b)[i] = IF i < p THEN l[i] ELSE IF i = p THEN t ELSE l[i - 1]
    OBVIOUS
  <2>1. CASE i <= p
    BY <2>1, <1>5, <1>6, <1>7
  <2>2. CASE i > p
    <3>1. i - p \in 1 .. Len(l) - p + 1 /\ p + (i - p) - 1 = i - 1
      BY <2>2, <1>1
    <3>2. b[i - p] = l[i - 1]
      BY <3>1, <1>3
    <3> QED BY <2>2, <3>2, <1>7
  <2>3. i <= p \/ i > p
    BY <1>1
  <2> QED BY <2>1, <2>2, <2>3
<1> QED BY <1>4, <1>6, <1>7, <1>8

\* A removal at p closes the gap.
LEMMA RemovedAt ==
  ASSUME NEW T, NEW l \in Seq(T), NEW p \in 1 .. Len(l)
  PROVE  /\ RemoveAt(l, p) \in Seq(T) /\ Len(RemoveAt(l, p)) = Len(l) - 1
         /\ \A i \in 1 .. Len(l) - 1 : RemoveAt(l, p)[i] = IF i < p THEN l[i] ELSE l[i + 1]
<1> DEFINE a == SubSeq(l, 1, p - 1)
           b == SubSeq(l, p + 1, Len(l))
<1>1. Len(l) \in Nat /\ \A i \in 1 .. Len(l) : l[i] \in T
  BY LenProperties, ElementOfSeq
<1>2. a \in Seq(T) /\ Len(a) = p - 1 /\ \A i \in 1 .. p - 1 : a[i] = l[i]
  <2>1. \A i \in 1 .. p - 1 : l[i] \in T
    BY <1>1
  <2> QED BY <1>1, <2>1, SubSeqProperties
<1>3. b \in Seq(T) /\ Len(b) = Len(l) - p
      /\ \A i \in 1 .. Len(l) - p : b[i] = l[p + i]
  <2>1. \A i \in p + 1 .. Len(l) : l[i] \in T
    BY <1>1
  <2> QED BY <1>1, <2>1, SubSeqProperties
<1>4. RemoveAt(l, p) = a \o b
  BY DEF RemoveAt
<1> HIDE DEF a, b
<1>5. a \o b \in Seq(T) /\ Len(a \o b) = Len(l) - 1
      /\ \A i \in 1 .. Len(l) - 1 : (a \o b)[i] = IF i < p THEN a[i] ELSE b[i - p + 1]
  <2>1. PICK c \in Seq(T), d \in Seq(T) : c = a /\ d = b
    BY <1>2, <1>3
  <2>2. /\ c \o d \in Seq(T) /\ Len(c \o d) = Len(c) + Len(d)
        /\ \A i \in 1 .. Len(c) + Len(d) :
             (c \o d)[i] = IF i <= Len(c) THEN c[i] ELSE d[i - Len(c)]
    BY ConcatProperties
  <2>3. Len(c) = p - 1 /\ Len(d) = Len(l) - p
    BY <1>2, <1>3, <2>1
  <2>4. \A i \in 1 .. Len(l) - 1 :
          (c \o d)[i] = IF i < p THEN c[i] ELSE d[i - p + 1]
    <3> SUFFICES ASSUME NEW i \in 1 .. Len(l) - 1
                 PROVE  (c \o d)[i] = IF i < p THEN c[i] ELSE d[i - p + 1]
      OBVIOUS
    <3>1. i - Len(c) = i - p + 1 /\ (i <= Len(c) <=> i < p) /\ i \in 1 .. Len(c) + Len(d)
      BY <2>3, <1>1
    <3> QED BY <2>2, <3>1, Zenon
  <2> QED BY <1>1, <2>1, <2>2, <2>3, <2>4
<1>6. \A i \in 1 .. Len(l) - 1 : (a \o b)[i] = IF i < p THEN l[i] ELSE l[i + 1]
  <2> SUFFICES ASSUME NEW i \in 1 .. Len(l) - 1
               PROVE  (a \o b)[i] = IF i < p THEN l[i] ELSE l[i + 1]
    OBVIOUS
  <2>1. CASE i < p
    BY <2>1, <1>2, <1>5
  <2>2. CASE i >= p
    <3>1. i - p + 1 \in 1 .. Len(l) - p /\ p + (i - p + 1) = i + 1
      BY <2>2, <1>1
    <3> QED BY <2>2, <3>1, <1>3, <1>5
  <2>3. i < p \/ i >= p
    BY <1>1
  <2> QED BY <2>1, <2>2, <2>3
<1> QED BY <1>4, <1>5, <1>6

\* Where vListInsert puts an item of value x.
Position(l, later) ==
  LET i == SelectInSeq(l, LAMBDA u : u \in later)
  IN  IF i = 0 THEN Len(l) + 1 ELSE i

LEMMA PlaceBounds ==
  ASSUME NEW l \in Seq(Task), NEW v \in [Task -> Time], NEW x \in Time, Ord(l, v),
         NEW later, later = {u \in Task : v[u] > x}
  PROVE  /\ Position(l, later) \in 1 .. Len(l) + 1
         /\ \A i \in 1 .. Len(l) : i < Position(l, later) => v[l[i]] <= x
         /\ \A i \in 1 .. Len(l) : i >= Position(l, later) => x <= v[l[i]]
<1> DEFINE I == {i \in 1 .. Len(l) : l[i] \in later}
<1>1. Len(l) \in Nat /\ \A i \in 1 .. Len(l) : l[i] \in Task
  BY ListMembers
<1>2. x \in Int /\ \A u \in Task : v[u] \in Int
  BY KernelAssumption DEF Time
<1>3. SelectInSeq(l, LAMBDA u : u \in later) = IF I # {} THEN Min(I) ELSE 0
  BY DEF SelectInSeq
<1>4. CASE I = {}
  <2>1. Position(l, later) = Len(l) + 1
    BY <1>3, <1>4 DEF Position
  <2>2. \A i \in 1 .. Len(l) : v[l[i]] <= x
    BY <1>1, <1>2, <1>4
  <2> HIDE DEF I
  <2>3. /\ Len(l) + 1 \in 1 .. Len(l) + 1
        /\ \A i \in 1 .. Len(l) : ~(i >= Len(l) + 1)
    BY <1>1
  <2> QED BY <2>1, <2>2, <2>3, Zenon
<1>5. CASE I # {}
  <2>1. I \in SUBSET Nat
    BY <1>1
  <2>2. Min(I) \in I /\ \A y \in I : Min(I) <= y
    BY <2>1, <1>5, MinIsLeast
  <2>3. Position(l, later) = Min(I)
    BY <2>2, <1>3, <1>5, <1>1 DEF Position
  <2>4. PICK m \in 1 .. Len(l) : m = Min(I) /\ v[l[m]] > x
    BY <2>2
  <2>7. m \in 1 .. Len(l) + 1 /\ Position(l, later) = m
    BY <2>3, <2>4, <1>1
  <2>5. \A i \in 1 .. Len(l) : i < m => v[l[i]] <= x
    BY <2>2, <2>4, <1>1, <1>2
  <2>6. \A i \in 1 .. Len(l) : i >= m => x <= v[l[i]]
    <3> SUFFICES ASSUME NEW i \in 1 .. Len(l), i >= m PROVE x <= v[l[i]]
      OBVIOUS
    <3>1. i = m \/ v[l[m]] <= v[l[i]]
      BY <1>1 DEF Ord
    <3>2. v[l[m]] \in Int /\ v[l[i]] \in Int
      BY <1>1, <1>2
    <3> QED BY <3>1, <3>2, <2>4, <1>2
  <2> QED BY <2>5, <2>6, <2>7, Zenon
<1> QED BY <1>4, <1>5

\* Other values do not matter.
LEMMA OrdElsewhere ==
  ASSUME NEW T, NEW l \in Seq(T), NEW v, NEW w, Ord(l, v),
         \A u \in ToSet(l) : w[u] = v[u]
  PROVE  Ord(l, w)
<1>1. \A i \in 1 .. Len(l) : w[l[i]] = v[l[i]]
  BY ListMembers
<1> QED BY <1>1 DEF Ord

\* An insertion before the later ones keeps the list in order.
LEMMA Insertion ==
  ASSUME NEW l \in Seq(Task), NEW t \in Task, t \notin ToSet(l),
         NEW w \in [Task -> Time], Ord(l, w),
         NEW later, later = {u \in Task : w[u] > w[t]}
  PROVE  /\ InsertBefore(l, t, later) \in Seq(Task)
         /\ ToSet(InsertBefore(l, t, later)) = ToSet(l) \cup {t}
         /\ Ord(InsertBefore(l, t, later), w)
<1>1. PICK p \in 1 .. Len(l) + 1 :
        /\ p = Position(l, later)
        /\ \A i \in 1 .. Len(l) : i < p => w[l[i]] <= w[t]
        /\ \A i \in 1 .. Len(l) : i >= p => w[t] <= w[l[i]]
  <2>1. PICK x \in Time : x = w[t]
    OBVIOUS
  <2> QED BY <2>1, PlaceBounds
<1>2. InsertBefore(l, t, later) = InsertAt(l, p, t)
  BY <1>1 DEF InsertBefore, Position
<1>3. PICK m \in Seq(Task) :
        /\ m = InsertAt(l, p, t) /\ Len(m) = Len(l) + 1
        /\ \A i \in 1 .. Len(l) + 1 :
             m[i] = IF i < p THEN l[i] ELSE IF i = p THEN t ELSE l[i - 1]
  <2>1. /\ InsertAt(l, p, t) \in Seq(Task) /\ Len(InsertAt(l, p, t)) = Len(l) + 1
        /\ \A i \in 1 .. Len(l) + 1 :
             InsertAt(l, p, t)[i] = IF i < p THEN l[i] ELSE IF i = p THEN t ELSE l[i - 1]
    BY InsertedAt
  <2> QED BY <2>1, Zenon
<1>4. Len(l) \in Nat /\ \A i \in 1 .. Len(l) : l[i] \in Task /\ l[i] \in ToSet(l) /\ l[i] # t
  BY ListMembers
<1>5. ToSet(m) = ToSet(l) \cup {t}
  <2>1. ASSUME NEW x \in ToSet(m) PROVE x \in ToSet(l) \cup {t}
    <3>1. PICK i \in 1 .. Len(l) + 1 : m[i] = x
      BY <1>3, ListMembers
    <3>2. i < p => i \in 1 .. Len(l)
      BY <1>4
    <3>3. i > p => i - 1 \in 1 .. Len(l)
      BY <1>4
    <3>4. i < p \/ i = p \/ i > p
      BY <1>4
    <3> QED BY <3>1, <3>2, <3>3, <3>4, <1>3, <1>4
  <2>2. ASSUME NEW x \in ToSet(l) PROVE x \in ToSet(m)
    <3>1. PICK i \in 1 .. Len(l) : l[i] = x
      BY ListMembers
    <3>2. CASE i < p
      <4>1. i \in 1 .. Len(m) /\ m[i] = x
        BY <3>1, <3>2, <1>3, <1>4
      <4> QED BY <4>1, ListMembers
    <3>3. CASE i >= p
      <4>1. i + 1 \in 1 .. Len(m) /\ ~(i + 1 < p) /\ i + 1 # p /\ (i + 1) - 1 = i
        BY <3>3, <1>3, <1>4
      <4>2. m[i + 1] = x
        BY <4>1, <3>1, <1>3
      <4> QED BY <4>1, <4>2, ListMembers
    <3>4. i < p \/ i >= p
      BY <1>4
    <3> QED BY <3>2, <3>3, <3>4
  <2>3. t \in ToSet(m)
    <3>1. p \in 1 .. Len(m) /\ m[p] = t
      BY <1>3, <1>4
    <3> QED BY <3>1, ListMembers
  <2> QED BY <2>1, <2>2, <2>3
<1>7. Ord(m, w)
  <2> SUFFICES ASSUME NEW i \in 1 .. Len(m), NEW j \in 1 .. Len(m), i < j
               PROVE  m[i] # m[j] /\ w[m[i]] <= w[m[j]]
    BY DEF Ord
  <2>1. CASE j < p
    <3>1. i \in 1 .. Len(l) /\ j \in 1 .. Len(l) /\ m[i] = l[i] /\ m[j] = l[j]
      BY <2>1, <1>3, <1>4
    <3> QED BY <3>1, <1>4 DEF Ord
  <2>2. CASE j = p
    <3>1. i \in 1 .. Len(l) /\ i < p /\ m[i] = l[i] /\ m[j] = t
      BY <2>2, <1>3, <1>4
    <3> QED BY <3>1, <1>1, <1>4
  <2>3. CASE j > p /\ i < p
    <3>1. i \in 1 .. Len(l) /\ j - 1 \in 1 .. Len(l) /\ i < j - 1
          /\ m[i] = l[i] /\ m[j] = l[j - 1]
      BY <2>3, <1>3, <1>4
    <3> QED BY <3>1, <1>4 DEF Ord
  <2>4. CASE j > p /\ i = p
    <3>1. j - 1 \in 1 .. Len(l) /\ j - 1 >= p
      BY <2>4, <1>3, <1>4
    <3>2. m[i] = t /\ m[j] = l[j - 1]
      BY <2>4, <1>3, <1>4
    <3> QED BY <3>1, <3>2, <1>1, <1>4
  <2>5. CASE j > p /\ i > p
    <3>1. i - 1 \in 1 .. Len(l) /\ j - 1 \in 1 .. Len(l) /\ i - 1 < j - 1
          /\ m[i] = l[i - 1] /\ m[j] = l[j - 1]
      BY <2>5, <1>3, <1>4
    <3> QED BY <3>1, <1>4 DEF Ord
  <2>6. j < p \/ j = p \/ (j > p /\ (i < p \/ i = p \/ i > p))
    BY <1>3, <1>4
  <2> QED BY <2>1, <2>2, <2>3, <2>4, <2>5, <2>6
<1> QED BY <1>2, <1>3, <1>5, <1>7

\* What is left when the item at p goes.
LEMMA Without ==
  ASSUME NEW T, NEW l \in Seq(T), NEW v, Ord(l, v), NEW p \in 1 .. Len(l),
         NEW m \in Seq(T), Len(m) = Len(l) - 1,
         \A i \in 1 .. Len(l) - 1 : m[i] = IF i < p THEN l[i] ELSE l[i + 1]
  PROVE  ToSet(m) = ToSet(l) \ {l[p]} /\ Ord(m, v)
<1>1. Len(l) \in Nat /\ \A i \in 1 .. Len(l) : l[i] \in T /\ l[i] \in ToSet(l)
  BY ListMembers
<1>2. \A i, j \in 1 .. Len(l) : i # j => l[i] # l[j]
  <2> SUFFICES ASSUME NEW i \in 1 .. Len(l), NEW j \in 1 .. Len(l), i # j
               PROVE  l[i] # l[j]
    OBVIOUS
  <2>1. i < j \/ j < i
    BY <1>1
  <2> QED BY <2>1 DEF Ord
<1>3. ASSUME NEW i \in 1 .. Len(m)
      PROVE  \E e \in 1 .. Len(l) : e # p /\ m[i] = l[e] /\ e = IF i < p THEN i ELSE i + 1
  <2>1. CASE i < p
    BY <2>1, <1>1
  <2>2. CASE i >= p
    <3>1. i + 1 \in 1 .. Len(l) /\ i + 1 # p /\ m[i] = l[i + 1] /\ ~(i < p)
      BY <2>2, <1>1
    <3> QED BY <3>1
  <2>3. i < p \/ i >= p
    BY <1>1
  <2> QED BY <2>1, <2>2, <2>3
<1>4. ASSUME NEW x \in ToSet(m) PROVE x \in ToSet(l) \ {l[p]}
  <2>1. PICK i \in 1 .. Len(m) : m[i] = x
    BY ListMembers
  <2>2. PICK e \in 1 .. Len(l) : e # p /\ x = l[e]
    BY <2>1, <1>3
  <2> QED BY <2>2, <1>1, <1>2
<1>5. ASSUME NEW x \in ToSet(l), x # l[p] PROVE x \in ToSet(m)
  <2>1. PICK e \in 1 .. Len(l) : l[e] = x
    BY ListMembers
  <2>2. CASE e < p
    <3>1. e \in 1 .. Len(m) /\ m[e] = x
      BY <2>1, <2>2, <1>1
    <3> QED BY <3>1, ListMembers
  <2>3. CASE e > p
    <3>1. e - 1 \in 1 .. Len(m) /\ ~(e - 1 < p) /\ (e - 1) + 1 = e
      BY <2>3, <1>1
    <3>2. m[e - 1] = x
      BY <3>1, <2>1
    <3> QED BY <3>1, <3>2, ListMembers
  <2>4. e < p \/ e > p
    <3>1. e # p
      BY <2>1, <1>5
    <3> QED BY <3>1, <1>1
  <2> QED BY <2>2, <2>3, <2>4
<1>6. Ord(m, v)
  <2> SUFFICES ASSUME NEW i \in 1 .. Len(m), NEW j \in 1 .. Len(m), i < j
               PROVE  m[i] # m[j] /\ v[m[i]] <= v[m[j]]
    BY DEF Ord
  <2>1. PICK h \in 1 .. Len(l) : m[i] = l[h] /\ h = IF i < p THEN i ELSE i + 1
    BY <1>3
  <2>2. PICK e \in 1 .. Len(l) : m[j] = l[e] /\ e = IF j < p THEN j ELSE j + 1
    BY <1>3
  <2>3. h < e
    BY <2>1, <2>2, <1>1
  <2> QED BY <2>1, <2>2, <2>3 DEF Ord
<1> QED BY <1>4, <1>5, <1>6

LEMMA Removal ==
  ASSUME NEW T, NEW l \in Seq(T), NEW v, Ord(l, v), NEW t
  PROVE  /\ RemoveFirst(l, t) \in Seq(T) /\ ToSet(RemoveFirst(l, t)) = ToSet(l) \ {t}
         /\ Ord(RemoveFirst(l, t), v)
         /\ t \in ToSet(l) => Len(RemoveFirst(l, t)) = Len(l) - 1
         /\ t \notin ToSet(l) => RemoveFirst(l, t) = l
<1> DEFINE I == {i \in 1 .. Len(l) : l[i] = t}
<1>1. Len(l) \in Nat
  BY ListMembers
<1>2. CASE ~ \E i \in 1 .. Len(l) : l[i] = t
  <2>1. t \notin ToSet(l)
    BY <1>2, ListMembers
  <2>2. RemoveFirst(l, t) = l
    BY <1>2 DEF RemoveFirst
  <2> QED BY <2>1, <2>2
<1>3. CASE \E i \in 1 .. Len(l) : l[i] = t
  <2>1. I \in SUBSET Nat /\ I # {}
    BY <1>3, <1>1
  <2>2. Min(I) \in I
    BY <2>1, MinIsLeast
  <2>3. SelectInSeq(l, LAMBDA u : u = t) = Min(I)
    BY <2>1 DEF SelectInSeq
  <2>4. PICK p \in 1 .. Len(l) : p = Min(I) /\ l[p] = t
    BY <2>2
  <2>5. RemoveFirst(l, t) = RemoveAt(l, p)
    BY <2>3, <2>4, <1>3 DEF RemoveFirst
  <2>6. PICK m \in Seq(T) :
          /\ m = RemoveAt(l, p) /\ Len(m) = Len(l) - 1
          /\ \A i \in 1 .. Len(l) - 1 : m[i] = IF i < p THEN l[i] ELSE l[i + 1]
    BY RemovedAt
  <2>7. ToSet(m) = ToSet(l) \ {l[p]} /\ Ord(m, v)
    <3>1. /\ m \in Seq(T) /\ Len(m) = Len(l) - 1
          /\ \A i \in 1 .. Len(l) - 1 : m[i] = IF i < p THEN l[i] ELSE l[i + 1]
      BY <2>6
    <3> QED BY <3>1, Without, Zenon
  <2>8. t \in ToSet(l)
    BY <2>4, ListMembers
  <2>9. RemoveFirst(l, t) = m /\ l[p] = t
    BY <2>4, <2>5, <2>6
  <2> HIDE DEF I
  <2> QED BY <2>6, <2>7, <2>8, <2>9
<1> QED BY <1>2, <1>3

LEMMA FirstGone ==
  ASSUME NEW l \in Seq(Task), NEW v, Ord(l, v), l # <<>>
  PROVE  /\ Head(l) \in Task /\ Head(l) \in ToSet(l) /\ Tail(l) \in Seq(Task)
         /\ ToSet(Tail(l)) = ToSet(l) \ {Head(l)} /\ Ord(Tail(l), v)
<1>1. Len(l) \in Nat /\ Len(l) # 0 /\ \A i \in 1 .. Len(l) : l[i] \in Task /\ l[i] \in ToSet(l)
  BY ListMembers, EmptySeq
<1>2. Head(l) = l[1] /\ 1 \in 1 .. Len(l)
  BY <1>1, HeadTailProperties
<1>3. PICK m \in Seq(Task) : m = Tail(l) /\ Len(m) = Len(l) - 1
                              /\ \A i \in 1 .. Len(m) : m[i] = l[i + 1]
  BY HeadTailProperties
<1>4. PICK p \in 1 .. Len(l) : p = 1
  BY <1>2
<1>5. \A i \in 1 .. Len(l) - 1 : m[i] = IF i < p THEN l[i] ELSE l[i + 1]
  BY <1>1, <1>3, <1>4
<1>6. Len(m) = Len(l) - 1
  BY <1>3
<1>7. ToSet(m) = ToSet(l) \ {l[p]} /\ Ord(m, v)
  <2>1. m \in Seq(Task)
    BY <1>3
  <2> QED BY <2>1, <1>5, <1>6, Without, Zenon
<1> QED BY <1>1, <1>2, <1>3, <1>4, <1>7
-----------------------------------------------------------------------------
(* The state: what the steps do to the lists and to the queue.             *)

-----------------------------------------------------------------------------
(* Loops. *)

LEMMA AllNaturals ==
  ASSUME NEW P \in SUBSET Nat, 0 \in P, \A m \in P : m + 1 \in P
  PROVE  P = Nat
<1> SUFFICES ASSUME Nat \ P # {} PROVE FALSE
  OBVIOUS
<1>1. PICK n \in Nat \ P : \A m \in Nat \ P : n <= m
  <2>1. Nat \ P \in SUBSET Nat
    OBVIOUS
  <2> QED BY <2>1, LeastElement
<1>2. n # 0 /\ n - 1 \in Nat
  BY <1>1
<1>3. n - 1 \in P
  <2>1. ~(n <= n - 1)
    BY <1>1
  <2> QED BY <1>1, <1>2, <2>1
<1>4. (n - 1) + 1 = n
  BY <1>1
<1> QED BY <1>1, <1>3, <1>4

\* What holds before a loop and after every turn holds at its end.
LEMMA LastTurn ==
  ASSUME NEW n \in Nat, NEW P, 0 \in P, \A i \in 1 .. n : i - 1 \in P => i \in P
  PROVE  n \in P
<1> DEFINE Q == {m \in Nat : m <= n => m \in P}
<1>1. 0 \in Q
  OBVIOUS
<1>2. ASSUME NEW m \in Q PROVE m + 1 \in Q
  <2>1. m \in Nat /\ m + 1 \in Nat
    OBVIOUS
  <2>2. CASE m + 1 <= n
    <3>1. m \in P /\ m + 1 \in 1 .. n /\ (m + 1) - 1 = m
      BY <2>1, <2>2
    <3> QED BY <2>1, <3>1
  <2> QED BY <2>1, <2>2
<1>3. Q = Nat
  BY <1>1, <1>2, AllNaturals
<1> QED BY <1>3

\* The loop of xTaskIncrementTick.
AfterDue(n, s) == Repeat(UnblockFirst, n, s)

LEMMA DueRuns ==
  ASSUME NEW s, NEW n \in Nat
  PROVE  \E g : /\ AfterDue(n, s) = g[n] /\ g[0] = s
               /\ \A i \in 1 .. n : g[i] = UnblockFirst(g[i - 1])
<1> DEFINE Body(f, m) == [i \in 0 .. m |-> IF i = 0 THEN s ELSE UnblockFirst(f[i - 1])]
           P == {m \in Nat : \E f : f = Body(f, m)}
           r == CHOOSE f : f = Body(f, n)
<1>1. AfterDue(n, s) = r[n]
  BY DEF AfterDue, Repeat
<1>2. 0 \in P
  <2>1. [i \in 0 .. 0 |-> s] = Body([i \in 0 .. 0 |-> s], 0)
    OBVIOUS
  <2> QED BY <2>1
<1>3. ASSUME NEW m \in P PROVE m + 1 \in P
  <2>1. m \in Nat /\ m + 1 \in Nat
    OBVIOUS
  <2>2. PICK f : f = Body(f, m)
    OBVIOUS
  <2> DEFINE h == [i \in 0 .. m + 1 |-> IF i = m + 1 THEN UnblockFirst(f[m]) ELSE f[i]]
  <2>3. \A i \in 0 .. m : f[i] = IF i = 0 THEN s ELSE UnblockFirst(f[i - 1])
    BY <2>2
  <2>4. \A i \in 0 .. m : h[i] = f[i]
    BY <2>1
  <2>5. h[m + 1] = UnblockFirst(f[m])
    BY <2>1
  <2> HIDE DEF Body, P
  <2>6. \A i \in 0 .. m + 1 : h[i] = IF i = 0 THEN s ELSE UnblockFirst(h[i - 1])
    <3> SUFFICES ASSUME NEW i \in 0 .. m + 1
                 PROVE  h[i] = IF i = 0 THEN s ELSE UnblockFirst(h[i - 1])
      OBVIOUS
    <3>1. CASE i = m + 1
      <4>1. i - 1 = m /\ m \in 0 .. m /\ i # 0
        BY <3>1, <2>1
      <4>2. h[m] = f[m]
        BY <4>1, <2>4
      <4> HIDE DEF h
      <4> QED BY <3>1, <4>1, <4>2, <2>5
    <3>2. CASE i \in 0 .. m /\ i # 0
      <4>1. i - 1 \in 0 .. m
        BY <3>2, <2>1
      <4>2. h[i - 1] = f[i - 1] /\ h[i] = f[i]
        BY <3>2, <4>1, <2>4
      <4> HIDE DEF h
      <4> QED BY <3>2, <4>2, <2>3
    <3>3. CASE i = 0
      <4>1. 0 \in 0 .. m
        BY <2>1
      <4>2. h[0] = f[0]
        BY <4>1, <2>4
      <4> HIDE DEF h
      <4> QED BY <3>3, <4>1, <4>2, <2>3
    <3>4. i = m + 1 \/ (i \in 0 .. m /\ i # 0) \/ i = 0
      BY <2>1
    <3> QED BY <3>1, <3>2, <3>3, <3>4
  <2>7. h = [i \in 0 .. m + 1 |-> h[i]]
    OBVIOUS
  <2> HIDE DEF h
  <2>8. h = Body(h, m + 1)
    BY <2>6, <2>7 DEF Body
  <2> QED BY <2>1, <2>8 DEF P
<1>4. n \in P
  <2>1. P \in SUBSET Nat
    OBVIOUS
  <2> HIDE DEF P
  <2> QED BY <1>2, <1>3, <2>1, AllNaturals
<1>5. r = Body(r, n)
  BY <1>4
<1> HIDE DEF r
<1>6. \A i \in 0 .. n : r[i] = IF i = 0 THEN s ELSE UnblockFirst(r[i - 1])
  BY <1>5
<1>7. 0 \in 0 .. n /\ \A i \in 1 .. n : i \in 0 .. n /\ i # 0
  OBVIOUS
<1> HIDE DEF Body, P
<1> QED BY <1>1, <1>6, <1>7

\* The loop of xTaskResumeAll over xPendingReadyList.
AfterPended(n, s) == Repeat(UnblockPended, n, s)

LEMMA PendedRuns ==
  ASSUME NEW s, NEW n \in Nat
  PROVE  \E g : /\ AfterPended(n, s) = g[n] /\ g[0] = s
               /\ \A i \in 1 .. n : g[i] = UnblockPended(g[i - 1])
<1> DEFINE Body(f, m) == [i \in 0 .. m |-> IF i = 0 THEN s ELSE UnblockPended(f[i - 1])]
           P == {m \in Nat : \E f : f = Body(f, m)}
           r == CHOOSE f : f = Body(f, n)
<1>1. AfterPended(n, s) = r[n]
  BY DEF AfterPended, Repeat
<1>2. 0 \in P
  <2>1. [i \in 0 .. 0 |-> s] = Body([i \in 0 .. 0 |-> s], 0)
    OBVIOUS
  <2> QED BY <2>1
<1>3. ASSUME NEW m \in P PROVE m + 1 \in P
  <2>1. m \in Nat /\ m + 1 \in Nat
    OBVIOUS
  <2>2. PICK f : f = Body(f, m)
    OBVIOUS
  <2> DEFINE h == [i \in 0 .. m + 1 |-> IF i = m + 1 THEN UnblockPended(f[m]) ELSE f[i]]
  <2>3. \A i \in 0 .. m : f[i] = IF i = 0 THEN s ELSE UnblockPended(f[i - 1])
    BY <2>2
  <2>4. \A i \in 0 .. m : h[i] = f[i]
    BY <2>1
  <2>5. h[m + 1] = UnblockPended(f[m])
    BY <2>1
  <2> HIDE DEF Body, P
  <2>6. \A i \in 0 .. m + 1 : h[i] = IF i = 0 THEN s ELSE UnblockPended(h[i - 1])
    <3> SUFFICES ASSUME NEW i \in 0 .. m + 1
                 PROVE  h[i] = IF i = 0 THEN s ELSE UnblockPended(h[i - 1])
      OBVIOUS
    <3>1. CASE i = m + 1
      <4>1. i - 1 = m /\ m \in 0 .. m /\ i # 0
        BY <3>1, <2>1
      <4>2. h[m] = f[m]
        BY <4>1, <2>4
      <4> HIDE DEF h
      <4> QED BY <3>1, <4>1, <4>2, <2>5
    <3>2. CASE i \in 0 .. m /\ i # 0
      <4>1. i - 1 \in 0 .. m
        BY <3>2, <2>1
      <4>2. h[i - 1] = f[i - 1] /\ h[i] = f[i]
        BY <3>2, <4>1, <2>4
      <4> HIDE DEF h
      <4> QED BY <3>2, <4>2, <2>3
    <3>3. CASE i = 0
      <4>1. 0 \in 0 .. m
        BY <2>1
      <4>2. h[0] = f[0]
        BY <4>1, <2>4
      <4> HIDE DEF h
      <4> QED BY <3>3, <4>1, <4>2, <2>3
    <3>4. i = m + 1 \/ (i \in 0 .. m /\ i # 0) \/ i = 0
      BY <2>1
    <3> QED BY <3>1, <3>2, <3>3, <3>4
  <2>7. h = [i \in 0 .. m + 1 |-> h[i]]
    OBVIOUS
  <2> HIDE DEF h
  <2>8. h = Body(h, m + 1)
    BY <2>6, <2>7 DEF Body
  <2> QED BY <2>1, <2>8 DEF P
<1>4. n \in P
  <2>1. P \in SUBSET Nat
    OBVIOUS
  <2> HIDE DEF P
  <2> QED BY <1>2, <1>3, <2>1, AllNaturals
<1>5. r = Body(r, n)
  BY <1>4
<1> HIDE DEF r
<1>6. \A i \in 0 .. n : r[i] = IF i = 0 THEN s ELSE UnblockPended(r[i - 1])
  BY <1>5
<1>7. 0 \in 0 .. n /\ \A i \in 1 .. n : i \in 0 .. n /\ i # 0
  OBVIOUS
<1> HIDE DEF Body, P
<1> QED BY <1>1, <1>6, <1>7

\* The loop of xTaskResumeAll over xPendedTicks.
AfterTicks(n, s) == Repeat(PendedTick, n, s)

LEMMA TicksRun ==
  ASSUME NEW s, NEW n \in Nat
  PROVE  \E g : /\ AfterTicks(n, s) = g[n] /\ g[0] = s
               /\ \A i \in 1 .. n : g[i] = PendedTick(g[i - 1])
<1> DEFINE Body(f, m) == [i \in 0 .. m |-> IF i = 0 THEN s ELSE PendedTick(f[i - 1])]
           P == {m \in Nat : \E f : f = Body(f, m)}
           r == CHOOSE f : f = Body(f, n)
<1>1. AfterTicks(n, s) = r[n]
  BY DEF AfterTicks, Repeat
<1>2. 0 \in P
  <2>1. [i \in 0 .. 0 |-> s] = Body([i \in 0 .. 0 |-> s], 0)
    OBVIOUS
  <2> QED BY <2>1
<1>3. ASSUME NEW m \in P PROVE m + 1 \in P
  <2>1. m \in Nat /\ m + 1 \in Nat
    OBVIOUS
  <2>2. PICK f : f = Body(f, m)
    OBVIOUS
  <2> DEFINE h == [i \in 0 .. m + 1 |-> IF i = m + 1 THEN PendedTick(f[m]) ELSE f[i]]
  <2>3. \A i \in 0 .. m : f[i] = IF i = 0 THEN s ELSE PendedTick(f[i - 1])
    BY <2>2
  <2>4. \A i \in 0 .. m : h[i] = f[i]
    BY <2>1
  <2>5. h[m + 1] = PendedTick(f[m])
    BY <2>1
  <2> HIDE DEF Body, P
  <2>6. \A i \in 0 .. m + 1 : h[i] = IF i = 0 THEN s ELSE PendedTick(h[i - 1])
    <3> SUFFICES ASSUME NEW i \in 0 .. m + 1
                 PROVE  h[i] = IF i = 0 THEN s ELSE PendedTick(h[i - 1])
      OBVIOUS
    <3>1. CASE i = m + 1
      <4>1. i - 1 = m /\ m \in 0 .. m /\ i # 0
        BY <3>1, <2>1
      <4>2. h[m] = f[m]
        BY <4>1, <2>4
      <4> HIDE DEF h
      <4> QED BY <3>1, <4>1, <4>2, <2>5
    <3>2. CASE i \in 0 .. m /\ i # 0
      <4>1. i - 1 \in 0 .. m
        BY <3>2, <2>1
      <4>2. h[i - 1] = f[i - 1] /\ h[i] = f[i]
        BY <3>2, <4>1, <2>4
      <4> HIDE DEF h
      <4> QED BY <3>2, <4>2, <2>3
    <3>3. CASE i = 0
      <4>1. 0 \in 0 .. m
        BY <2>1
      <4>2. h[0] = f[0]
        BY <4>1, <2>4
      <4> HIDE DEF h
      <4> QED BY <3>3, <4>1, <4>2, <2>3
    <3>4. i = m + 1 \/ (i \in 0 .. m /\ i # 0) \/ i = 0
      BY <2>1
    <3> QED BY <3>1, <3>2, <3>3, <3>4
  <2>7. h = [i \in 0 .. m + 1 |-> h[i]]
    OBVIOUS
  <2> HIDE DEF h
  <2>8. h = Body(h, m + 1)
    BY <2>6, <2>7 DEF Body
  <2> QED BY <2>1, <2>8 DEF P
<1>4. n \in P
  <2>1. P \in SUBSET Nat
    OBVIOUS
  <2> HIDE DEF P
  <2> QED BY <1>2, <1>3, <2>1, AllNaturals
<1>5. r = Body(r, n)
  BY <1>4
<1> HIDE DEF r
<1>6. \A i \in 0 .. n : r[i] = IF i = 0 THEN s ELSE PendedTick(r[i - 1])
  BY <1>5
<1>7. 0 \in 0 .. n /\ \A i \in 1 .. n : i \in 0 .. n /\ i # 0
  OBVIOUS
<1> HIDE DEF Body, P
<1> QED BY <1>1, <1>6, <1>7

\* The loops of prvUnlockQueue.
LEMMA WakesRun ==
  ASSUME NEW s, NEW l, NEW n \in Nat
  PROVE  \E g : /\ WakeCounted(s, l, n) = g[n] /\ g[0] = s
               /\ \A i \in 1 .. n : g[i] = WakeOne(g[i - 1], l)
<1> DEFINE Body(f, m) == [i \in 0 .. m |-> IF i = 0 THEN s ELSE WakeOne(f[i - 1], l)]
           P == {m \in Nat : \E f : f = Body(f, m)}
           r == CHOOSE f : f = Body(f, n)
<1>1. WakeCounted(s, l, n) = r[n]
  BY DEF WakeCounted, Repeat
<1>2. 0 \in P
  <2>1. [i \in 0 .. 0 |-> s] = Body([i \in 0 .. 0 |-> s], 0)
    OBVIOUS
  <2> QED BY <2>1
<1>3. ASSUME NEW m \in P PROVE m + 1 \in P
  <2>1. m \in Nat /\ m + 1 \in Nat
    OBVIOUS
  <2>2. PICK f : f = Body(f, m)
    OBVIOUS
  <2> DEFINE h == [i \in 0 .. m + 1 |-> IF i = m + 1 THEN WakeOne(f[m], l) ELSE f[i]]
  <2>3. \A i \in 0 .. m : f[i] = IF i = 0 THEN s ELSE WakeOne(f[i - 1], l)
    BY <2>2
  <2>4. \A i \in 0 .. m : h[i] = f[i]
    BY <2>1
  <2>5. h[m + 1] = WakeOne(f[m], l)
    BY <2>1
  <2> HIDE DEF Body, P
  <2>6. \A i \in 0 .. m + 1 : h[i] = IF i = 0 THEN s ELSE WakeOne(h[i - 1], l)
    <3> SUFFICES ASSUME NEW i \in 0 .. m + 1
                 PROVE  h[i] = IF i = 0 THEN s ELSE WakeOne(h[i - 1], l)
      OBVIOUS
    <3>1. CASE i = m + 1
      <4>1. i - 1 = m /\ m \in 0 .. m /\ i # 0
        BY <3>1, <2>1
      <4>2. h[m] = f[m]
        BY <4>1, <2>4
      <4> HIDE DEF h
      <4> QED BY <3>1, <4>1, <4>2, <2>5
    <3>2. CASE i \in 0 .. m /\ i # 0
      <4>1. i - 1 \in 0 .. m
        BY <3>2, <2>1
      <4>2. h[i - 1] = f[i - 1] /\ h[i] = f[i]
        BY <3>2, <4>1, <2>4
      <4> HIDE DEF h
      <4> QED BY <3>2, <4>2, <2>3
    <3>3. CASE i = 0
      <4>1. 0 \in 0 .. m
        BY <2>1
      <4>2. h[0] = f[0]
        BY <4>1, <2>4
      <4> HIDE DEF h
      <4> QED BY <3>3, <4>1, <4>2, <2>3
    <3>4. i = m + 1 \/ (i \in 0 .. m /\ i # 0) \/ i = 0
      BY <2>1
    <3> QED BY <3>1, <3>2, <3>3, <3>4
  <2>7. h = [i \in 0 .. m + 1 |-> h[i]]
    OBVIOUS
  <2> HIDE DEF h
  <2>8. h = Body(h, m + 1)
    BY <2>6, <2>7 DEF Body
  <2> QED BY <2>1, <2>8 DEF P
<1>4. n \in P
  <2>1. P \in SUBSET Nat
    OBVIOUS
  <2> HIDE DEF P
  <2> QED BY <1>2, <1>3, <2>1, AllNaturals
<1>5. r = Body(r, n)
  BY <1>4
<1> HIDE DEF r
<1>6. \A i \in 0 .. n : r[i] = IF i = 0 THEN s ELSE WakeOne(r[i - 1], l)
  BY <1>5
<1>7. 0 \in 0 .. n /\ \A i \in 1 .. n : i \in 0 .. n /\ i # 0
  OBVIOUS
<1> HIDE DEF Body, P
<1> QED BY <1>1, <1>6, <1>7

-----------------------------------------------------------------------------
(* The sleepers of a kernel s: the delayed lists are in order, what is in   *)
(* the overflow list wakes after the wrap, and xNextTaskUnblockTime is not  *)
(* past and not later than the first task of the delayed list.  At the last *)
(* tick before the wrap nobody is left in the list that then becomes the    *)
(* overflow list.                                                           *)

Times == {"delayed", "overflow", "wake", "tick", "pended", "next", "susp", "entered"}

Asleep(s) ==
  /\ Times \cup {"cur"} \subseteq DOMAIN s
  /\ s.wake \in [Task -> Time] /\ s.entered \in [Task -> Time]
  /\ s.tick \in Time /\ s.next \in Time /\ s.pended \in Nat /\ s.susp \in Nat
  /\ s.delayed \in Seq(Task) /\ s.overflow \in Seq(Task)
  /\ Ord(s.delayed, s.wake) /\ Ord(s.overflow, s.wake)
  /\ \A t \in ToSet(s.overflow) : s.wake[t] <= s.tick

InTime(s) ==
  /\ s.tick <= s.next
  /\ \A t \in ToSet(s.delayed) : s.next <= s.wake[t]
  /\ s.tick = MaxDelay => s.delayed = <<>>

Sleepers(s) == Asleep(s) /\ InTime(s)

\* a differs from s in nothing that has to do with time.
Same(a, s, F) == F \subseteq DOMAIN a /\ \A f \in F : a[f] = s[f]

Still(a, s) == Same(a, s, Times \cup {"cur"})

\* a is s without t in its delayed lists.
Left(a, s, t) ==
  /\ Same(a, s, {"tick", "pended", "next", "susp", "entered", "cur"})
  /\ {"delayed", "overflow", "wake"} \subseteq DOMAIN a
  /\ a.delayed = RemoveFirst(s.delayed, t) /\ a.overflow = RemoveFirst(s.overflow, t)
  /\ a.wake = [s.wake EXCEPT ![t] = 0]

LEMMA TimeIsNat == /\ Time \subseteq Nat /\ Time \subseteq Int /\ 0 \in Time /\ MaxDelay \in Time
                   /\ MaxDelay # 0 /\ \A x \in Time : x <= MaxDelay
  BY KernelAssumption DEF Time, MaxDelay

LEMMA StillAsleep ==
  ASSUME NEW s, NEW a, NEW F, Times \subseteq F, F \subseteq Times \cup {"cur"},
         "cur" \in DOMAIN a, Asleep(s), Same(a, s, F)
  PROVE  Asleep(a) /\ (InTime(s) => InTime(a))
<1>1. /\ a.wake = s.wake /\ a.entered = s.entered /\ a.tick = s.tick /\ a.next = s.next
      /\ a.pended = s.pended /\ a.susp = s.susp /\ a.delayed = s.delayed
      /\ a.overflow = s.overflow
  BY DEF Same, Times
<1>2. Times \cup {"cur"} \subseteq DOMAIN a
  BY DEF Same
<1>3. Asleep(a)
  BY <1>1, <1>2, Zenon DEF Asleep
<1> QED BY <1>1, <1>3, Zenon DEF InTime

LEMMA StillIsAsleep ==
  ASSUME NEW s, NEW a, Asleep(s), Still(a, s)
  PROVE  Asleep(a) /\ (InTime(s) => InTime(a))
<1>1. "cur" \in DOMAIN a
  BY DEF Still, Same
<1> QED BY <1>1, StillAsleep DEF Still

LEMMA StillTwice ==
  ASSUME NEW s, NEW a, NEW b, Still(a, s), Still(b, a)
  PROVE  Still(b, s)
  BY DEF Still, Same

\* A task that goes leaves the rest in order.
LEMMA LeftIsAsleep ==
  ASSUME NEW s, NEW a, NEW t, Asleep(s), Left(a, s, t)
  PROVE  /\ Asleep(a) /\ (InTime(s) => InTime(a))
         /\ ToSet(a.delayed) = ToSet(s.delayed) \ {t}
         /\ ToSet(a.overflow) = ToSet(s.overflow) \ {t}
         /\ \A u : u # t => a.wake[u] = s.wake[u]
<1>1. PICK D \in Seq(Task) : /\ D = RemoveFirst(s.delayed, t) /\ ToSet(D) = ToSet(s.delayed) \ {t}
                             /\ Ord(D, s.wake)
  BY Removal DEF Asleep
<1>2. PICK O \in Seq(Task) : /\ O = RemoveFirst(s.overflow, t) /\ ToSet(O) = ToSet(s.overflow) \ {t}
                             /\ Ord(O, s.wake)
  BY Removal DEF Asleep
<1>3. PICK w \in [Task -> Time] : w = [s.wake EXCEPT ![t] = 0] /\ \A u : u # t => w[u] = s.wake[u]
  <2>1. s.wake \in [Task -> Time] /\ 0 \in Time
    BY TimeIsNat DEF Asleep
  <2>2. \A u : u # t => [s.wake EXCEPT ![t] = 0][u] = s.wake[u]
    <3> SUFFICES ASSUME NEW u, u # t PROVE [s.wake EXCEPT ![t] = 0][u] = s.wake[u]
      OBVIOUS
    <3>1. CASE u \in Task
      BY <2>1, <3>1
    <3>2. CASE u \notin Task
      BY <2>1, <3>2
    <3> QED BY <3>1, <3>2
  <2> QED BY <2>1, <2>2
<1>4. Ord(D, w) /\ Ord(O, w)
  BY <1>1, <1>2, <1>3, OrdElsewhere
<1>5. a.delayed = D /\ a.overflow = O /\ a.wake = w
  BY <1>1, <1>2, <1>3 DEF Left
<1>6. /\ a.tick = s.tick /\ a.pended = s.pended /\ a.next = s.next /\ a.susp = s.susp
      /\ a.entered = s.entered /\ Times \cup {"cur"} \subseteq DOMAIN a
  BY DEF Left, Same, Times
<1>7. \A u \in ToSet(a.overflow) : a.wake[u] <= a.tick
  <2>1. \A u \in ToSet(a.overflow) : u # t /\ u \in ToSet(s.overflow)
    BY <1>2, <1>5
  <2> QED BY <1>3, <1>5, <1>6, <2>1 DEF Asleep
<1>8. Asleep(a)
  BY <1>4, <1>5, <1>6, <1>7 DEF Asleep
<1>9. ASSUME InTime(s) PROVE InTime(a)
  <2>1. a.tick <= a.next
    BY <1>6, <1>9 DEF InTime
  <2>2. \A u \in ToSet(a.delayed) : a.next <= a.wake[u]
    <3>1. \A u \in ToSet(a.delayed) : u # t /\ u \in ToSet(s.delayed)
      BY <1>1, <1>5
    <3> QED BY <1>3, <1>5, <1>6, <1>9, <3>1 DEF InTime
  <2>3. ASSUME a.tick = MaxDelay PROVE a.delayed = <<>>
    <3>1. s.delayed = <<>>
      BY <1>6, <1>9, <2>3 DEF InTime
    <3>2. RemoveFirst(<<>>, t) = <<>>
      BY DEF RemoveFirst
    <3> QED BY <1>1, <1>5, <3>1, <3>2
  <2> QED BY <2>1, <2>2, <2>3 DEF InTime
<1> QED BY <1>1, <1>2, <1>3, <1>5, <1>8, <1>9

LEMMA StillLeft ==
  ASSUME NEW s, NEW a, NEW b, NEW t, Still(a, s), Left(b, a, t)
  PROVE  Left(b, s, t)
  BY DEF Still, Same, Left, Times

LEMMA LeftStill ==
  ASSUME NEW s, NEW a, NEW b, NEW t, Left(a, s, t), Still(b, a)
  PROVE  Left(b, s, t)
<1>1. /\ b.delayed = a.delayed /\ b.overflow = a.overflow /\ b.wake = a.wake
      /\ {"delayed", "overflow", "wake"} \subseteq DOMAIN b
  BY DEF Still, Same, Times
<1>2. Same(b, s, {"tick", "pended", "next", "susp", "entered", "cur"})
  BY DEF Still, Same, Left, Times
<1> QED BY <1>1, <1>2, Zenon DEF Left

-----------------------------------------------------------------------------
(* What the functions of the kernel do to the sleepers.                     *)

HasTimes(s) == Times \cup {"cur"} \subseteq DOMAIN s

LEMMA RemoveStateItemLeaves ==
  ASSUME NEW s, HasTimes(s), NEW t
  PROVE  Left(RemoveStateItem(s, t), s, t)
  BY DEF RemoveStateItem, Left, Same, HasTimes, Times

\* What has nothing to do with time.
LEMMA ListsAreStill ==
  ASSUME NEW s, HasTimes(s), NEW t, NEW p, NEW y, NEW l
  PROVE  /\ Still(AddToReadyList(s, t), s)
         /\ Still(RemoveEventItem(s, t), s)
         /\ Still(ResetReadyPriority(s, p), s)
         /\ Still([s EXCEPT !.yield = y], s)
         /\ Still([s EXCEPT !.aborted = y], s)
         /\ Still([s EXCEPT !.suspended = y], s)
         /\ Still([s EXCEPT !.events[l] = y], s)
         /\ Still(s, s)
<1>1. Still(AddToReadyList(s, t), s)
  BY DEF AddToReadyList, Still, Same, HasTimes, Times
<1>2. Still(RemoveEventItem(s, t), s)
  BY DEF RemoveEventItem, Still, Same, HasTimes, Times
<1>3. Still(ResetReadyPriority(s, p), s)
  BY DEF ResetReadyPriority, Still, Same, HasTimes, Times
<1>4. /\ Still([s EXCEPT !.yield = y], s)
      /\ Still([s EXCEPT !.aborted = y], s)
      /\ Still([s EXCEPT !.suspended = y], s)
      /\ Still(s, s)
  BY DEF Still, Same, HasTimes, Times
<1>5. Still([s EXCEPT !.events[l] = y], s)
  BY DEF Still, Same, HasTimes, Times
<1> QED BY <1>1, <1>2, <1>3, <1>4, <1>5

LEMMA StillHasTimes ==
  ASSUME NEW s, NEW a, Still(a, s) PROVE HasTimes(a)
  BY DEF Still, Same, HasTimes

LEMMA LeftHasTimes ==
  ASSUME NEW s, NEW a, NEW t, Left(a, s, t) PROVE HasTimes(a)
  BY DEF Left, Same, HasTimes, Times

LEMMA UnblockLeaves ==
  ASSUME NEW s, HasTimes(s), NEW t
  PROVE  Left(Unblock(s, t), s, t)
<1>1. PICK a : a = RemoveStateItem(s, t) /\ Left(a, s, t) /\ HasTimes(a)
  BY RemoveStateItemLeaves, LeftHasTimes
<1>2. PICK b : b = RemoveEventItem(a, t) /\ Still(b, a) /\ HasTimes(b)
  BY <1>1, ListsAreStill, StillHasTimes
<1>3. PICK c : c = AddToReadyList(b, t) /\ Still(c, b)
  BY <1>2, ListsAreStill
<1>4. Unblock(s, t) = c
  BY <1>1, <1>2, <1>3 DEF Unblock
<1>5. Left(c, s, t)
  BY <1>1, <1>2, <1>3, LeftStill, StillTwice
<1> QED BY <1>4, <1>5

LEMMA MoveIsStill ==
  ASSUME NEW s, HasTimes(s), NEW t, NEW p, NEW c
  PROVE  Still(MoveToPriority(s, t, p, c), s)
<1> DEFINE new  == [s EXCEPT !.prio[t] = p]
           out  == [new EXCEPT !.ready[s.prio[t]] = RemoveFirst(@, t)]
           bits == IF out.ready[s.prio[t]] = <<End>>
                     THEN [out EXCEPT !.top = @ \ {c}] ELSE out
<1>1. Still(new, s)
  BY DEF Still, Same, HasTimes, Times
<1>2. Still(out, new)
  <2>1. HasTimes(new)
    BY <1>1, StillHasTimes
  <2> HIDE DEF new
  <2> QED BY <2>1 DEF Still, Same, HasTimes, Times
<1>3. Still(bits, out)
  <2>1. HasTimes(out)
    BY <1>2, StillHasTimes
  <2> HIDE DEF out
  <2> QED BY <2>1 DEF Still, Same, HasTimes, Times
<1>4. Still(AddToReadyList(bits, t), bits)
  <2>1. HasTimes(bits)
    BY <1>3, StillHasTimes
  <2> HIDE DEF bits
  <2> QED BY <2>1, ListsAreStill
<1>5. MoveToPriority(s, t, p, c) \in {new, AddToReadyList(bits, t)}
  BY DEF MoveToPriority
<1> HIDE DEF new, out, bits
<1>6. Still(AddToReadyList(bits, t), s)
  BY <1>1, <1>2, <1>3, <1>4, StillTwice
<1> QED BY <1>1, <1>5, <1>6

LEMMA PrioritiesAreStill ==
  ASSUME NEW s, HasTimes(s), NEW t, NEW p
  PROVE  /\ Still(PriorityInherit(s, t), s)
         /\ Still(PriorityDisinherit(s, t), s)
         /\ Still(PriorityDisinheritAfterTimeout(s, t, p), s)
         /\ Still(PrioritySet(s, t, p), s)
<1>1. Still(s, s)
  BY ListsAreStill
<1>2. ASSUME NEW a, Still(a, s), NEW x, NEW y, NEW c
      PROVE  Still(MoveToPriority(a, x, y, c), s)
  <2>1. HasTimes(a)
    BY <1>2, StillHasTimes
  <2> QED BY <1>2, <2>1, MoveIsStill, StillTwice
<1>3. ASSUME NEW a, Still(a, s), NEW x, NEW y
      PROVE  Still([a EXCEPT !.item[x] = y], s) /\ Still([a EXCEPT !.base[x] = y], s)
  <2>1. HasTimes(a)
    BY <1>3, StillHasTimes
  <2>2. Still([a EXCEPT !.item[x] = y], a) /\ Still([a EXCEPT !.base[x] = y], a)
    BY <2>1 DEF Still, Same, HasTimes, Times
  <2> QED BY <1>3, <2>2, StillTwice
<1>4. Still(PriorityInherit(s, t), s)
  BY <1>1, <1>2, <1>3, Zenon DEF PriorityInherit
<1>5. Still(PriorityDisinherit(s, t), s)
  <2>1. Still([s EXCEPT !.held[t] = @ - 1], s)
    BY DEF Still, Same, HasTimes, Times
  <2> QED BY <1>2, <1>3, <2>1, Zenon DEF PriorityDisinherit
<1>6. Still(PriorityDisinheritAfterTimeout(s, t, p), s)
  BY <1>1, <1>2, <1>3, Zenon DEF PriorityDisinheritAfterTimeout
<1>7. Still(PrioritySet(s, t, p), s)
  <2>1. Still([s EXCEPT !.base[t] = p, !.item[t] = p], s)
    BY DEF Still, Same, HasTimes, Times
  <2> QED BY <1>1, <1>2, <2>1, Zenon DEF PrioritySet
<1> QED BY <1>4, <1>5, <1>6, <1>7

\* What every function keeps: the sleepers, the suspension of the scheduler,
\* and the running task while the scheduler is suspended.
Kept(a, s) == Sleepers(a) /\ a.susp = s.susp /\ (s.susp > 0 => a.cur = s.cur)

LEMMA SleepersHaveTimes == ASSUME NEW s, Sleepers(s) PROVE HasTimes(s)
  BY DEF Sleepers, Asleep, HasTimes

LEMMA StillIsKept ==
  ASSUME NEW s, NEW a, Sleepers(s), Still(a, s)
  PROVE  Kept(a, s)
<1>1. Sleepers(a)
  BY StillIsAsleep DEF Sleepers
<1>2. a.susp = s.susp /\ a.cur = s.cur
  BY DEF Still, Same, Times
<1> QED BY <1>1, <1>2 DEF Kept

LEMMA LeftIsKept ==
  ASSUME NEW s, NEW a, NEW t, Sleepers(s), Left(a, s, t)
  PROVE  Kept(a, s)
<1>1. Sleepers(a)
  BY LeftIsAsleep DEF Sleepers
<1>2. a.susp = s.susp /\ a.cur = s.cur
  BY DEF Left, Same
<1> QED BY <1>1, <1>2 DEF Kept

LEMMA KeptTwice ==
  ASSUME NEW s, NEW a, NEW b, Kept(a, s), Kept(b, a)
  PROVE  Kept(b, s)
  BY DEF Kept

LEMMA SwitchIsKept ==
  ASSUME NEW s, Sleepers(s), NEW cond
  PROVE  Kept(SwitchContext(s), s) /\ Kept(YieldIf(cond, s), s)
<1>1. HasTimes(s) /\ s.susp \in Nat
  BY SleepersHaveTimes DEF Sleepers, Asleep
<1>2. Kept(s, s)
  BY <1>1, ListsAreStill, StillIsKept
<1>3. Kept(SwitchContext(s), s)
  <2>1. CASE s.susp > 0
    <3>1. Still([s EXCEPT !.yield = TRUE], s)
      BY <1>1, ListsAreStill
    <3> QED BY <2>1, <3>1, StillIsKept DEF SwitchContext
  <2>2. CASE ~(s.susp > 0)
    <3>1. PICK a : a = [s EXCEPT !.yield = FALSE] /\ Still(a, s)
      BY <1>1, ListsAreStill
    <3>2. Same(SelectHighestPriorityTask(a), a, Times) /\ "cur" \in DOMAIN SelectHighestPriorityTask(a)
      <4>1. HasTimes(a)
        BY <3>1, StillHasTimes
      <4> QED BY <4>1 DEF SelectHighestPriorityTask, Same, HasTimes, Times
    <3>3. PICK b : b = SelectHighestPriorityTask(a)
      OBVIOUS
    <3>4. Sleepers(a) /\ a.susp = s.susp
      BY <3>1, StillIsKept DEF Kept
    <3>5. Sleepers(b)
      BY <3>2, <3>3, <3>4, StillAsleep DEF Sleepers
    <3>6. b.susp = s.susp
      BY <3>2, <3>3, <3>4 DEF Same, Times
    <3>7. b = SwitchContext(s)
      BY <2>2, <3>1, <3>3 DEF SwitchContext
    <3> QED BY <2>2, <3>5, <3>6, <3>7 DEF Kept
  <2> QED BY <2>1, <2>2
<1> QED BY <1>2, <1>3 DEF YieldIf

\* What is delayed has its time ahead.
Ahead(s) ==
  /\ \A t \in ToSet(s.delayed) : s.tick <= s.wake[t]
  /\ s.tick = MaxDelay => s.delayed = <<>>

LEMMA InTimeIsAhead ==
  ASSUME NEW s, Sleepers(s)
  PROVE  Ahead(s)
<1>1. s.tick \in Int /\ s.next \in Int /\ \A t \in Task : s.wake[t] \in Int
  BY TimeIsNat DEF Sleepers, Asleep
<1>2. \A t \in ToSet(s.delayed) : t \in Task
  BY ListMembers DEF Sleepers, Asleep
<1> QED BY <1>1, <1>2 DEF Sleepers, InTime, Ahead

LEMMA StillAhead ==
  ASSUME NEW s, NEW a, Still(a, s), Ahead(s) PROVE Ahead(a)
<1>1. a.delayed = s.delayed /\ a.tick = s.tick /\ a.wake = s.wake
  BY DEF Still, Same, Times
<1> QED BY <1>1 DEF Ahead

LEMMA FirstWakesFirst ==
  ASSUME NEW s, Asleep(s), s.delayed # <<>>
  PROVE  /\ Head(s.delayed) \in ToSet(s.delayed) /\ Head(s.delayed) \in Task
         /\ \A t \in ToSet(s.delayed) : s.wake[Head(s.delayed)] <= s.wake[t]
<1>1. PICK l \in Seq(Task) : l = s.delayed /\ Ord(l, s.wake) /\ l # <<>>
  BY DEF Asleep
<1>2. Head(l) = l[1] /\ Head(l) \in Task /\ Head(l) \in ToSet(l) /\ 1 \in 1 .. Len(l)
  <2>1. Head(l) \in Task /\ Head(l) \in ToSet(l)
    BY <1>1, FirstGone
  <2>2. Head(l) = l[1] /\ Len(l) \in Nat /\ Len(l) # 0
    BY <1>1, HeadTailProperties, EmptySeq, ListMembers
  <2> QED BY <2>1, <2>2
<1>3. \A t \in ToSet(l) : s.wake[l[1]] <= s.wake[t]
  <2> SUFFICES ASSUME NEW t \in ToSet(l) PROVE s.wake[l[1]] <= s.wake[t]
    OBVIOUS
  <2>1. PICK i \in 1 .. Len(l) : l[i] = t
    BY ListMembers
  <2>2. CASE i = 1
    <3>1. s.wake[t] \in Int
      BY <1>2, <2>1, <2>2, TimeIsNat DEF Asleep
    <3> QED BY <2>1, <2>2, <3>1
  <2>3. CASE i # 1
    BY <1>1, <1>2, <2>1, <2>3 DEF Ord
  <2> QED BY <2>2, <2>3
<1> QED BY <1>1, <1>2, <1>3

LEMMA ResetIsInTime ==
  ASSUME NEW s, Asleep(s), Ahead(s)
  PROVE  /\ Kept(ResetNextTaskUnblockTime(s), s)
         /\ Same(ResetNextTaskUnblockTime(s), s, (Times \ {"next"}) \cup {"cur"})
<1> DEFINE x == IF s.delayed = <<>> THEN MaxDelay ELSE s.wake[Head(s.delayed)]
<1>1. PICK r : r = ResetNextTaskUnblockTime(s) /\ r = [s EXCEPT !.next = x]
  BY DEF ResetNextTaskUnblockTime
<1>2. s.delayed # <<>> => /\ Head(s.delayed) \in ToSet(s.delayed) /\ Head(s.delayed) \in Task
                          /\ \A t \in ToSet(s.delayed) : s.wake[Head(s.delayed)] <= s.wake[t]
  BY FirstWakesFirst
<1>3. /\ x \in Time /\ s.tick <= x
      /\ \A t \in ToSet(s.delayed) : x <= s.wake[t]
  <2>1. CASE s.delayed = <<>>
    <3>1. ToSet(s.delayed) = {}
      BY <2>1 DEF ToSet
    <3> QED BY <2>1, <3>1, TimeIsNat DEF Asleep
  <2>2. CASE s.delayed # <<>>
    BY <1>2, <2>2 DEF Ahead, Asleep
  <2> QED BY <2>1, <2>2
<1> HIDE DEF x
<1>4. /\ Same(r, s, (Times \ {"next"}) \cup {"cur"}) /\ r.next = x
      /\ Times \cup {"cur"} \subseteq DOMAIN r
  BY <1>1 DEF Asleep, Same, Times
<1>5. /\ r.wake = s.wake /\ r.entered = s.entered /\ r.tick = s.tick /\ r.cur = s.cur
      /\ r.pended = s.pended /\ r.susp = s.susp /\ r.delayed = s.delayed
      /\ r.overflow = s.overflow
  BY <1>4 DEF Same, Times
<1>6. Asleep(r)
  BY <1>3, <1>4, <1>5, Zenon DEF Asleep
<1>7. InTime(r)
  BY <1>3, <1>4, <1>5, Zenon DEF InTime, Ahead
<1> QED BY <1>1, <1>4, <1>5, <1>6, <1>7 DEF Kept, Sleepers

\* The tick at which a task that delays itself wakes.
LEMMA WakeTime ==
  ASSUME NEW tick \in Time, NEW ticks \in 1 .. MaxDelay
  PROVE  LET wake == (tick + ticks) % TickMod
         IN  wake \in Time /\ wake # tick /\ (tick = MaxDelay => wake < tick)
<1>1. PICK m \in Nat \ {0} : m = TickMod /\ tick \in 0 .. m - 1 /\ ticks \in 1 .. m - 1
  BY KernelAssumption DEF Time, MaxDelay
<1>2. PICK x \in Int : x = tick + ticks /\ 0 <= x /\ x < m + m
  BY <1>1
<1>3. /\ x % m \in 0 .. m - 1
      /\ x < m => x % m = x
      /\ m <= x => x % m = x - m
  BY <1>2, Remainder
<1>4. x % m # tick /\ (tick = m - 1 => x % m < tick)
  BY <1>1, <1>2, <1>3
<1> QED BY <1>1, <1>2, <1>3, <1>4 DEF Time, MaxDelay

LEMMA AddCurrentIsKept ==
  ASSUME NEW s, Sleepers(s), s.cur \in Task, NEW ticks \in 1 .. MaxDelay, NEW indefinitely
  PROVE  Kept(AddCurrentTaskToDelayedList(s, ticks, indefinitely), s)
<1> DEFINE t     == s.cur
           out   == ResetReadyPriority(RemoveStateItem([s EXCEPT !.aborted = @ \ {t}], t), s.prio[t])
           wake  == (s.tick + ticks) % TickMod
           timed == [out EXCEPT !.wake[t] = wake]
           later == {u \in Task : timed.wake[u] > wake}
           gone  == [out EXCEPT !.suspended = @ \cup {t}]
           over  == [timed EXCEPT !.overflow = InsertBefore(@, t, later)]
           soon  == [timed EXCEPT !.delayed = InsertBefore(@, t, later),
                                  !.next = IF wake < @ THEN wake ELSE @]
<1>1. Left(out, s, t)
  <2>1. PICK a : a = [s EXCEPT !.aborted = @ \ {t}] /\ Still(a, s) /\ HasTimes(a)
    BY SleepersHaveTimes, ListsAreStill, StillHasTimes
  <2>2. PICK b : b = RemoveStateItem(a, t) /\ Left(b, a, t) /\ HasTimes(b)
    BY <2>1, RemoveStateItemLeaves, LeftHasTimes
  <2>3. Still(ResetReadyPriority(b, s.prio[t]), b)
    BY <2>2, ListsAreStill
  <2> QED BY <2>1, <2>2, <2>3, StillLeft, LeftStill
<1>2. /\ Asleep(out) /\ InTime(out) /\ Kept(out, s)
      /\ t \notin ToSet(out.delayed) /\ t \notin ToSet(out.overflow)
  BY <1>1, LeftIsAsleep, LeftIsKept DEF Sleepers
<1>3. out.tick = s.tick /\ out.susp = s.susp /\ out.cur = s.cur
  BY <1>1 DEF Left, Same
<1>4. wake \in Time /\ wake # s.tick /\ (s.tick = MaxDelay => wake < s.tick)
  BY WakeTime DEF Sleepers, Asleep
<1>5. AddCurrentTaskToDelayedList(s, ticks, indefinitely)
        = IF ticks = MaxDelay /\ indefinitely THEN gone ELSE IF wake < s.tick THEN over ELSE soon
  <2> DEFINE A == ticks = MaxDelay /\ indefinitely
             B == wake < s.tick
  <2>1. AddCurrentTaskToDelayedList(s, ticks, indefinitely)
          = CASE A -> gone [] ~A /\ B -> over [] OTHER -> soon
    BY DEF AddCurrentTaskToDelayedList
  <2> HIDE DEF gone, over, soon, A, B
  <2> QED BY <2>1 DEF A, B
<1> HIDE DEF out, wake
<1>6. PICK w \in [Task -> Time] : /\ w = [out.wake EXCEPT ![t] = wake] /\ w[t] = wake
                                  /\ \A u : u # t => w[u] = out.wake[u]
  <2>1. out.wake \in [Task -> Time]
    BY <1>2 DEF Asleep
  <2>2. ASSUME NEW u, u # t PROVE [out.wake EXCEPT ![t] = wake][u] = out.wake[u]
    <3>1. CASE u \in Task
      BY <2>1, <2>2, <3>1
    <3>2. CASE u \notin Task
      BY <2>1, <2>2, <3>2
    <3> QED BY <3>1, <3>2
  <2> QED BY <1>4, <2>1, <2>2
<1>7. Ord(out.delayed, w) /\ Ord(out.overflow, w)
  <2>1. /\ \A u \in ToSet(out.delayed) : w[u] = out.wake[u]
        /\ \A u \in ToSet(out.overflow) : w[u] = out.wake[u]
    BY <1>2, <1>6
  <2>2. /\ out.delayed \in Seq(Task) /\ out.overflow \in Seq(Task)
        /\ Ord(out.delayed, out.wake) /\ Ord(out.overflow, out.wake)
    BY <1>2 DEF Asleep
  <2> QED BY <2>1, <2>2, OrdElsewhere
<1>8. timed.wake = w /\ later = {u \in Task : w[u] > w[t]}
  BY <1>2, <1>6 DEF Asleep, Times
<1>9. /\ Same(timed, out, (Times \ {"wake"}) \cup {"cur"})
      /\ Times \cup {"cur"} \subseteq DOMAIN timed
  BY <1>2 DEF Asleep, Times, Same
<1> HIDE DEF timed, later
<1>10. CASE ticks = MaxDelay /\ indefinitely
  <2>1. Still(gone, out)
    BY <1>2, ListsAreStill DEF HasTimes, Asleep
  <2>2. Kept(gone, s)
    BY <1>2, <2>1, StillIsKept, KeptTwice DEF Sleepers
  <2> QED BY <1>5, <1>10, <2>2
<1>11. CASE ~(ticks = MaxDelay /\ indefinitely) /\ wake < s.tick
  <2>1. PICK O \in Seq(Task) : /\ O = InsertBefore(out.overflow, t, later)
                               /\ ToSet(O) = ToSet(out.overflow) \cup {t} /\ Ord(O, w)
    BY <1>2, <1>7, <1>8, Insertion DEF Asleep
  <2>2. over = [timed EXCEPT !.overflow = O]
    BY <1>9, <2>1 DEF Same, Times
  <2>3. /\ over.wake = w /\ over.entered = out.entered /\ over.tick = out.tick
        /\ over.next = out.next /\ over.pended = out.pended /\ over.susp = out.susp
        /\ over.cur = out.cur /\ over.delayed = out.delayed /\ over.overflow = O
        /\ Times \cup {"cur"} \subseteq DOMAIN over
    BY <1>8, <1>9, <2>2 DEF Same, Times
  <2>4. \A u \in ToSet(O) : w[u] <= s.tick
    <3>1. w[t] <= s.tick
      <4>1. wake \in Int /\ s.tick \in Int
        BY <1>4, TimeIsNat DEF Sleepers, Asleep
      <4> QED BY <1>6, <1>11, <4>1
    <3> QED BY <1>2, <1>3, <1>6, <2>1, <3>1 DEF Asleep
  <2>5. Asleep(over)
    BY <1>2, <1>3, <1>7, <2>1, <2>3, <2>4 DEF Asleep
  <2>6. \A u \in ToSet(out.delayed) : w[u] = out.wake[u]
    BY <1>2, <1>6
  <2>7. InTime(over)
    BY <1>2, <2>3, <2>6 DEF InTime
  <2>8. Kept(over, s)
    BY <1>3, <2>3, <2>5, <2>7 DEF Kept, Sleepers
  <2> QED BY <1>5, <1>11, <2>8
<1>12. CASE ~(ticks = MaxDelay /\ indefinitely) /\ ~(wake < s.tick)
  <2>1. PICK D \in Seq(Task) : /\ D = InsertBefore(out.delayed, t, later)
                               /\ ToSet(D) = ToSet(out.delayed) \cup {t} /\ Ord(D, w)
    BY <1>2, <1>7, <1>8, Insertion DEF Asleep
  <2>2. PICK x : x = (IF wake < out.next THEN wake ELSE out.next)
    OBVIOUS
  <2>3. soon = [timed EXCEPT !.delayed = D, !.next = x]
    <3>1. timed.delayed = out.delayed /\ timed.next = out.next
      BY <1>9 DEF Same, Times
    <3> QED BY <2>1, <2>2, <3>1
  <2>4. /\ soon.wake = w /\ soon.entered = out.entered /\ soon.tick = out.tick
        /\ soon.next = x /\ soon.pended = out.pended /\ soon.susp = out.susp
        /\ soon.cur = out.cur /\ soon.delayed = D /\ soon.overflow = out.overflow
        /\ Times \cup {"cur"} \subseteq DOMAIN soon
    BY <1>8, <1>9, <2>3 DEF Same, Times
  <2>5. /\ wake \in Int /\ out.next \in Int /\ out.tick \in Int /\ x \in Time
        /\ \A u \in Task : w[u] \in Int
    BY <1>2, <1>4, <2>2, TimeIsNat DEF Asleep
  <2>6. \A u \in ToSet(out.overflow) : w[u] = out.wake[u]
    BY <1>2, <1>6
  <2>7. Asleep(soon)
    BY <1>2, <1>7, <2>1, <2>4, <2>5, <2>6 DEF Asleep
  <2>8. out.tick <= x /\ x <= wake /\ x <= out.next
    BY <1>2, <1>3, <1>12, <2>2, <2>5 DEF InTime
  <2>9. \A u \in ToSet(D) : x <= w[u]
    <3> SUFFICES ASSUME NEW u \in ToSet(D) PROVE x <= w[u]
      OBVIOUS
    <3>1. CASE u = t
      BY <1>6, <2>8, <3>1
    <3>2. CASE u # t
      <4>1. u \in ToSet(out.delayed) /\ w[u] = out.wake[u] /\ u \in Task
        BY <1>6, <2>1, <3>2, ListMembers
      <4>2. out.next <= w[u]
        BY <1>2, <4>1 DEF InTime
      <4>3. x \in Int /\ out.next \in Int /\ w[u] \in Int
        BY <2>5, <4>1, TimeIsNat
      <4> QED BY <2>8, <4>2, <4>3
    <3> QED BY <3>1, <3>2
  <2>10. soon.tick # MaxDelay
    BY <1>3, <1>4, <1>12, <2>4
  <2>11. InTime(soon)
    BY <2>4, <2>8, <2>9, <2>10 DEF InTime
  <2>12. Kept(soon, s)
    BY <1>3, <2>4, <2>7, <2>11 DEF Kept, Sleepers
  <2> QED BY <1>5, <1>12, <2>12
<1> QED BY <1>10, <1>11, <1>12

LEMMA PlaceIsKept ==
  ASSUME NEW s, Sleepers(s), s.cur \in Task, NEW ticks \in 1 .. MaxDelay, NEW l
  PROVE  Kept(PlaceOnEventList(s, l, ticks), s)
<1> DEFINE later == {u \in Task : s.item[u] < s.item[s.cur]}
<1>1. PICK a : a = [s EXCEPT !.events[l] = InsertBefore(@, s.cur, later)] /\ Still(a, s)
  BY SleepersHaveTimes DEF Still, Same, HasTimes, Times
<1>2. Kept(a, s) /\ a.cur = s.cur
  BY <1>1, StillIsKept DEF Still, Same
<1>3. Kept(AddCurrentTaskToDelayedList(a, ticks, TRUE), a)
  BY <1>2, AddCurrentIsKept DEF Kept
<1> QED BY <1>1, <1>2, <1>3, KeptTwice DEF PlaceOnEventList

\* A task that leaves its lists, with xNextTaskUnblockTime calculated anew.
LEMMA LeftAndReset ==
  ASSUME NEW s, Sleepers(s), NEW a, NEW t, Left(a, s, t)
  PROVE  Kept(ResetNextTaskUnblockTime(a), s)
<1>1. Kept(a, s)
  BY LeftIsKept
<1>2. Kept(ResetNextTaskUnblockTime(a), a)
  BY <1>1, InTimeIsAhead, ResetIsInTime DEF Kept, Sleepers
<1> QED BY <1>1, <1>2, KeptTwice

LEMMA StillStays ==
  ASSUME NEW s, Sleepers(s)
  PROVE  Still(s, s) /\ Kept(s, s)
  BY SleepersHaveTimes, ListsAreStill, StillIsKept

\* While the scheduler is suspended a task that is woken stays delayed.
LEMMA RemoveFromEventListIsKept ==
  ASSUME NEW s, Sleepers(s), NEW l
  PROVE  /\ Kept(RemoveFromEventList(s, l), s)
         /\ s.susp # 0 => Still(RemoveFromEventList(s, l), s)
<1> DEFINE t    == Head(s.events[l])
           wide(r) == [r EXCEPT !.yield = @ \/ WakesHigher(s, l)]
<1>1. PICK a : a = [s EXCEPT !.events[l] = Tail(@)] /\ Still(a, s) /\ HasTimes(a)
  <2>1. Still([s EXCEPT !.events[l] = Tail(@)], s)
    BY SleepersHaveTimes DEF Still, Same, HasTimes, Times
  <2> QED BY <2>1, StillHasTimes
<1>2. PICK b : b = AddToReadyList(RemoveStateItem(a, t), t) /\ Left(b, a, t)
  <2>1. PICK c : c = RemoveStateItem(a, t) /\ Left(c, a, t) /\ HasTimes(c)
    BY <1>1, RemoveStateItemLeaves, LeftHasTimes
  <2>2. Still(AddToReadyList(c, t), c)
    BY <2>1, ListsAreStill
  <2> QED BY <2>1, <2>2, LeftStill
<1>3. PICK r : r = ResetNextTaskUnblockTime(b) /\ Kept(r, s)
  BY <1>1, <1>2, StillLeft, LeftAndReset
<1>4. PICK e : e = [a EXCEPT !.events[Pending] = Append(@, t)] /\ Still(e, s)
  <2>1. Still([a EXCEPT !.events[Pending] = Append(@, t)], a)
    BY <1>1 DEF Still, Same, HasTimes, Times
  <2> QED BY <1>1, <2>1, StillTwice
<1>5. RemoveFromEventList(s, l) = wide(IF s.susp = 0 THEN r ELSE e)
  BY <1>1, <1>2, <1>3, <1>4 DEF RemoveFromEventList
<1>6. ASSUME NEW m, HasTimes(m) PROVE Still(wide(m), m)
  BY <1>6 DEF Still, Same, HasTimes, Times
<1> HIDE DEF wide
<1>7. CASE s.susp = 0
  <2>1. Still(wide(r), r) /\ Sleepers(r)
    BY <1>3, <1>6, SleepersHaveTimes DEF Kept
  <2>2. Kept(wide(r), s)
    BY <1>3, <2>1, StillIsKept, KeptTwice
  <2> QED BY <1>5, <1>7, <2>2
<1>8. CASE s.susp # 0
  <2>1. Still(wide(e), s)
    BY <1>4, <1>6, StillHasTimes, StillTwice
  <2>2. Kept(wide(e), s)
    BY <2>1, StillIsKept
  <2> QED BY <1>5, <1>8, <2>1, <2>2
<1> QED BY <1>7, <1>8

LEMMA WakesAreKept ==
  ASSUME NEW s, Sleepers(s), NEW l
  PROVE  /\ Kept(WakeOne(s, l), s) /\ Kept(WakeAndYield(s, l), s)
         /\ s.susp # 0 => Still(WakeOne(s, l), s)
<1>1. Kept(WakeOne(s, l), s) /\ (s.susp # 0 => Still(WakeOne(s, l), s))
  BY StillStays, RemoveFromEventListIsKept DEF WakeOne
<1>2. Kept(WakeAndYield(s, l), s)
  <2>1. PICK r : r = RemoveFromEventList(s, l) /\ Kept(r, s)
    BY RemoveFromEventListIsKept
  <2>2. Kept(YieldIf(WakesHigher(s, l), r), s)
    BY <2>1, SwitchIsKept, KeptTwice DEF Kept
  <2> QED BY <2>1, <2>2, StillStays DEF WakeAndYield
<1> QED BY <1>1, <1>2

LEMMA WakeCountedIsKept ==
  ASSUME NEW s, Sleepers(s), NEW l, NEW count
  PROVE  Kept(WakeCounted(s, l, count), s)
<1>1. CASE count \notin Nat
  BY <1>1, StillStays DEF WakeCounted
<1>2. CASE count \in Nat
  <2>1. PICK g : /\ WakeCounted(s, l, count) = g[count] /\ g[0] = s
                 /\ \A i \in 1 .. count : g[i] = WakeOne(g[i - 1], l)
    BY <1>2, WakesRun
  <2> DEFINE P == {i \in 0 .. count : Kept(g[i], s)}
  <2>2. 0 \in P
    BY <1>2, <2>1, StillStays
  <2>3. ASSUME NEW i \in 1 .. count, i - 1 \in P PROVE i \in P
    <3>1. Kept(g[i - 1], s)
      BY <2>3
    <3>2. Kept(WakeOne(g[i - 1], l), s)
      BY <3>1, WakesAreKept, KeptTwice DEF Kept
    <3> QED BY <1>2, <2>1, <3>2
  <2> HIDE DEF P
  <2>4. count \in P
    BY <1>2, <2>2, <2>3, LastTurn
  <2> QED BY <2>1, <2>4 DEF P
<1> QED BY <1>1, <1>2

-----------------------------------------------------------------------------
(* The tick. *)

\* What is due is so at xNextTaskUnblockTime at the earliest.
NotBefore(s) == \A t \in ToSet(s.delayed) : s.next <= s.wake[t]

LEMMA NextTick ==
  ASSUME NEW tick \in Time
  PROVE  (tick + 1) % TickMod = IF tick = MaxDelay THEN 0 ELSE tick + 1
<1>1. PICK m \in Nat \ {0} : m = TickMod /\ m > 1 /\ tick \in 0 .. m - 1
  BY KernelAssumption DEF Time
<1>2. PICK x \in Int : x = tick + 1 /\ 0 <= x /\ x < m + m
  BY <1>1
<1>3. (x < m => x % m = x) /\ (m <= x => x % m = x - m)
  BY <1>2, Remainder
<1> QED BY <1>1, <1>2, <1>3 DEF MaxDelay

LEMMA AdvancedIsAsleep ==
  ASSUME NEW s, Sleepers(s)
  PROVE  LET a == Advanced(s)
         IN  /\ Asleep(a) /\ NotBefore(a)
             /\ a.susp = s.susp /\ a.cur = s.cur /\ a.pended = s.pended
<1> DEFINE moved == [s EXCEPT !.tick = (@ + 1) % TickMod]
           sw    == [moved EXCEPT !.delayed = moved.overflow, !.overflow = moved.delayed,
                                  !.passed = moved.timing]
<1>1. s.tick \in Time /\ s.tick \in Int /\ Times \cup {"cur"} \subseteq DOMAIN s
  BY TimeIsNat DEF Sleepers, Asleep
<1>2. PICK x \in Time : /\ x = (s.tick + 1) % TickMod
                        /\ x = IF s.tick = MaxDelay THEN 0 ELSE s.tick + 1
  BY <1>1, NextTick, KernelAssumption DEF Time, MaxDelay
<1>3. /\ Same(moved, s, (Times \ {"tick"}) \cup {"cur"}) /\ moved.tick = x
      /\ Times \cup {"cur"} \subseteq DOMAIN moved
  BY <1>1, <1>2 DEF Same, Times
<1>4. Advanced(s) = IF moved.tick = 0 THEN ResetNextTaskUnblockTime(sw) ELSE moved
  BY DEF Advanced, SwitchDelayedLists
<1> HIDE DEF moved
<1>5. /\ moved.wake = s.wake /\ moved.entered = s.entered /\ moved.next = s.next
      /\ moved.pended = s.pended /\ moved.susp = s.susp /\ moved.cur = s.cur
      /\ moved.delayed = s.delayed /\ moved.overflow = s.overflow
  BY <1>3 DEF Same, Times
<1>6. CASE s.tick # MaxDelay
  <2>1. x # 0 /\ s.tick <= x
    BY <1>1, <1>2, <1>6, TimeIsNat
  <2>2. \A t \in ToSet(s.overflow) : s.wake[t] <= x
    <3> SUFFICES ASSUME NEW t \in ToSet(s.overflow) PROVE s.wake[t] <= x
      OBVIOUS
    <3>1. t \in Task
      BY ListMembers DEF Sleepers, Asleep
    <3>2. s.wake[t] \in Int /\ x \in Int /\ s.wake[t] <= s.tick
      BY <3>1, TimeIsNat DEF Sleepers, Asleep
    <3> QED BY <1>1, <2>1, <3>2
  <2>3. Asleep(moved)
    BY <1>3, <1>5, <2>2 DEF Sleepers, Asleep
  <2>4. NotBefore(moved)
    BY <1>5, Zenon DEF Sleepers, InTime, NotBefore
  <2> QED BY <1>3, <1>4, <1>5, <2>1, <2>3, <2>4
<1>7. CASE s.tick = MaxDelay
  <2>1. x = 0 /\ s.delayed = <<>>
    BY <1>2, <1>7 DEF Sleepers, InTime
  <2>2. /\ sw.wake = s.wake /\ sw.entered = s.entered /\ sw.next = s.next
        /\ sw.pended = s.pended /\ sw.susp = s.susp /\ sw.cur = s.cur
        /\ sw.delayed = s.overflow /\ sw.overflow = s.delayed /\ sw.tick = 0
        /\ Times \cup {"cur"} \subseteq DOMAIN sw
    BY <1>3, <1>5, <2>1 DEF Times
  <2> HIDE DEF sw
  <2>3. Asleep(sw)
    <3>1. ToSet(sw.overflow) = {}
      BY <2>1, <2>2 DEF ToSet
    <3> QED BY <2>2, <3>1, TimeIsNat DEF Sleepers, Asleep
  <2>4. Ahead(sw)
    <3>1. \A t \in ToSet(sw.delayed) : t \in Task
      BY <2>3, ListMembers DEF Asleep
    <3>2. \A t \in ToSet(sw.delayed) : sw.wake[t] \in Nat
      BY <2>3, <3>1, TimeIsNat DEF Asleep
    <3> QED BY <2>2, <3>2, TimeIsNat DEF Ahead
  <2>5. /\ Kept(ResetNextTaskUnblockTime(sw), sw)
        /\ Same(ResetNextTaskUnblockTime(sw), sw, (Times \ {"next"}) \cup {"cur"})
    BY <2>3, <2>4, ResetIsInTime
  <2>6. PICK a : a = ResetNextTaskUnblockTime(sw)
    OBVIOUS
  <2>7. /\ Asleep(a) /\ NotBefore(a)
        /\ a.susp = s.susp /\ a.cur = s.cur /\ a.pended = s.pended
    BY <2>2, <2>5, <2>6 DEF Kept, Sleepers, InTime, NotBefore, Same, Times
  <2>8. Advanced(s) = a
    BY <1>3, <1>4, <2>1, <2>6
  <2> QED BY <2>7, <2>8
<1> QED BY <1>6, <1>7

LEMMA UnblockFirstIsAsleep ==
  ASSUME NEW s, Asleep(s)
  PROVE  LET a == UnblockFirst(s)
         IN  /\ Asleep(a)
             /\ a.tick = s.tick /\ a.susp = s.susp /\ a.cur = s.cur
             /\ Due(s) => Len(a.delayed) = Len(s.delayed) - 1
             /\ ~Due(s) => a = s
<1>1. CASE ~Due(s)
  BY <1>1 DEF UnblockFirst
<1>2. CASE Due(s)
  <2>1. PICK t : t = Head(s.delayed) /\ t \in ToSet(s.delayed)
    BY <1>2, FirstWakesFirst DEF Due
  <2>2. PICK a : a = Unblock(s, t) /\ Left(a, s, t)
    BY UnblockLeaves DEF Asleep, HasTimes
  <2>3. Asleep(a) /\ a.tick = s.tick /\ a.susp = s.susp /\ a.cur = s.cur
    BY <2>2, LeftIsAsleep DEF Left, Same
  <2>4. Len(a.delayed) = Len(s.delayed) - 1
    BY <2>1, <2>2, Removal DEF Left, Asleep
  <2>5. UnblockFirst(s) = a
    BY <1>2, <2>1, <2>2 DEF UnblockFirst
  <2> QED BY <1>2, <2>3, <2>4, <2>5
<1> QED BY <1>1, <1>2

LEMMA NothingDue ==
  ASSUME NEW s, Asleep(s), ~Due(s)
  PROVE  Ahead(s)
<1>1. CASE s.delayed = <<>>
  <2>1. ToSet(s.delayed) = {}
    BY <1>1 DEF ToSet
  <2> QED BY <1>1, <2>1 DEF Ahead
<1>2. CASE s.delayed # <<>>
  <2>1. PICK t \in Task : /\ t = Head(s.delayed)
                          /\ \A u \in ToSet(s.delayed) : s.wake[t] <= s.wake[u]
    BY <1>2, FirstWakesFirst
  <2>2. s.tick \in Int /\ \A u \in Task : s.wake[u] \in Int /\ s.wake[u] <= MaxDelay
    BY TimeIsNat DEF Asleep
  <2>3. s.wake[t] > s.tick
    BY <1>2, <2>1, <2>2 DEF Due
  <2>4. s.tick # MaxDelay
    BY <2>2, <2>3, TimeIsNat
  <2>5. \A u \in ToSet(s.delayed) : u \in Task
    BY ListMembers DEF Asleep
  <2>6. \A u \in ToSet(s.delayed) : s.tick <= s.wake[u]
    BY <2>1, <2>2, <2>3, <2>5
  <2> QED BY <2>4, <2>6 DEF Ahead
<1> QED BY <1>1, <1>2

LEMMA UnblockDueIsKept ==
  ASSUME NEW s, Asleep(s), NotBefore(s)
  PROVE  Kept(UnblockDue(s), s) /\ UnblockDue(s).cur = s.cur
<1>1. s.tick \in Int /\ s.next \in Int /\ s.next <= MaxDelay /\ MaxDelay \in Int
  BY TimeIsNat DEF Asleep
<1>2. CASE ~(s.tick >= s.next)
  <2>1. s.tick <= s.next /\ s.tick # MaxDelay
    BY <1>1, <1>2
  <2>2. InTime(s)
    BY <2>1 DEF InTime, NotBefore
  <2> QED BY <1>2, <2>2 DEF UnblockDue, Kept, Sleepers
<1>3. CASE s.tick >= s.next
  <2>1. PICK n \in Nat : n = Len(s.delayed)
    BY LenProperties DEF Asleep
  <2>2. PICK g : /\ AfterDue(n, s) = g[n] /\ g[0] = s
                 /\ \A i \in 1 .. n : g[i] = UnblockFirst(g[i - 1])
    BY DueRuns
  <2> DEFINE P == {i \in 0 .. n : /\ Asleep(g[i]) /\ g[i].tick = s.tick
                                  /\ g[i].susp = s.susp /\ g[i].cur = s.cur
                                  /\ Due(g[i]) => Len(g[i].delayed) <= n - i}
  <2>3. 0 \in P
    BY <2>1, <2>2
  <2>4. ASSUME NEW i \in 1 .. n, i - 1 \in P PROVE i \in P
    <3>1. PICK a : a = g[i - 1] /\ Asleep(a) /\ a.tick = s.tick /\ a.susp = s.susp /\ a.cur = s.cur
                   /\ (Due(a) => Len(a.delayed) <= n - (i - 1))
      BY <2>4
    <3>2. PICK b : b = g[i] /\ b = UnblockFirst(a)
      BY <2>2, <3>1
    <3>3. /\ Asleep(b) /\ b.tick = s.tick /\ b.susp = s.susp /\ b.cur = s.cur
          /\ Due(a) => Len(b.delayed) = Len(a.delayed) - 1
          /\ ~Due(a) => b = a
      BY <3>1, <3>2, UnblockFirstIsAsleep
    <3>4. Len(a.delayed) \in Int
      BY <3>1, LenProperties DEF Asleep
    <3>5. Due(b) => Len(b.delayed) <= n - i
      BY <3>1, <3>3, <3>4
    <3>6. i \in 0 .. n
      OBVIOUS
    <3> QED BY <3>2, <3>3, <3>5, <3>6
  <2> HIDE DEF P
  <2>5. n \in P
    BY <2>3, <2>4, LastTurn
  <2>6. PICK r : r = g[n] /\ Asleep(r) /\ r.susp = s.susp /\ r.cur = s.cur
                 /\ (Due(r) => Len(r.delayed) <= n - n)
    BY <2>5 DEF P
  <2>7. ~Due(r)
    <3> SUFFICES ASSUME Due(r) PROVE FALSE
      OBVIOUS
    <3>1. Len(r.delayed) \in Nat /\ (Len(r.delayed) = 0 => r.delayed = <<>>)
      BY <2>6, LenProperties, EmptySeq DEF Asleep
    <3> QED BY <2>6, <3>1 DEF Due
  <2>8. PICK z : z = ResetNextTaskUnblockTime(r) /\ Kept(z, r) /\ z.cur = r.cur
    BY <2>6, <2>7, NothingDue, ResetIsInTime DEF Same
  <2>9. UnblockDue(s) = z
    BY <1>3, <2>1, <2>2, <2>6, <2>8 DEF UnblockDue, AfterDue
  <2> QED BY <2>6, <2>8, <2>9 DEF Kept
<1> QED BY <1>2, <1>3

LEMMA IncrementTickIsKept ==
  ASSUME NEW s, Sleepers(s)
  PROVE  /\ Kept(IncrementTick(s), s) /\ IncrementTick(s).cur = s.cur
         /\ s.susp > 0 => IncrementTick(s).tick = s.tick /\ IncrementTick(s).next = s.next
<1>1. CASE s.susp > 0
  <2>1. PICK a : a = [s EXCEPT !.pended = @ + 1]
    OBVIOUS
  <2>2. /\ a.wake = s.wake /\ a.entered = s.entered /\ a.tick = s.tick /\ a.next = s.next
        /\ a.pended = s.pended + 1 /\ a.susp = s.susp /\ a.delayed = s.delayed
        /\ a.overflow = s.overflow /\ a.cur = s.cur /\ Times \cup {"cur"} \subseteq DOMAIN a
    BY <2>1 DEF Sleepers, Asleep, Times
  <2>3. a.pended \in Nat
    BY <2>2 DEF Sleepers, Asleep
  <2>4. Asleep(a)
    BY <2>2, <2>3, Zenon DEF Sleepers, Asleep
  <2>5. InTime(a)
    BY <2>2, Zenon DEF Sleepers, InTime
  <2>6. IncrementTick(s) = a
    BY <1>1, <2>1 DEF IncrementTick
  <2> QED BY <2>2, <2>4, <2>5, <2>6 DEF Kept, Sleepers
<1>2. CASE ~(s.susp > 0)
  <2>1. PICK a : a = Advanced(s) /\ Asleep(a) /\ NotBefore(a) /\ a.susp = s.susp /\ a.cur = s.cur
    BY AdvancedIsAsleep
  <2>2. Kept(UnblockDue(a), a) /\ UnblockDue(a).cur = a.cur
    BY <2>1, UnblockDueIsKept
  <2>3. IncrementTick(s) = UnblockDue(a)
    BY <1>2, <2>1 DEF IncrementTick
  <2> QED BY <1>2, <2>1, <2>2, <2>3 DEF Kept
<1> QED BY <1>1, <1>2

-----------------------------------------------------------------------------
(* xTaskResumeAll. *)

LEMMA PendedToReadyIsKept ==
  ASSUME NEW s, Sleepers(s)
  PROVE  Kept(PendedToReady(s), s)
<1>1. CASE s.events[Pending] = <<>>
  BY <1>1, StillStays DEF PendedToReady
<1>2. CASE s.events[Pending] # <<>>
  <2>1. PICK n \in Nat : n = Cardinality(Task)
    BY KernelAssumption, FS_CardinalityType
  <2>2. PICK g : /\ AfterPended(n, s) = g[n] /\ g[0] = s
                 /\ \A i \in 1 .. n : g[i] = UnblockPended(g[i - 1])
    BY PendedRuns
  <2> DEFINE P == {i \in 0 .. n : Kept(g[i], s)}
  <2>3. 0 \in P
    BY <2>2, StillStays
  <2>4. ASSUME NEW i \in 1 .. n, i - 1 \in P PROVE i \in P
    <3>1. PICK a : a = g[i - 1] /\ Kept(a, s) /\ Sleepers(a)
      BY <2>4 DEF Kept
    <3>2. Kept(UnblockPended(a), a)
      <4> DEFINE t == Head(a.events[Pending])
                 y == a.prio[t] >= a.prio[a.cur]
      <4>1. PICK b : b = Unblock(a, t) /\ Left(b, a, t) /\ Kept(b, a)
        BY <3>1, UnblockLeaves, LeftIsKept, SleepersHaveTimes
      <4>2. Still([b EXCEPT !.yield = @ \/ y], b)
        BY <4>1, LeftHasTimes, ListsAreStill
      <4>3. Kept([b EXCEPT !.yield = @ \/ y], a)
        BY <4>1, <4>2, StillIsKept, KeptTwice DEF Kept
      <4>4. Kept(a, a)
        BY <3>1, StillStays
      <4>5. UnblockPended(a) = IF a.events[Pending] = <<>> THEN a ELSE [b EXCEPT !.yield = @ \/ y]
        BY <4>1 DEF UnblockPended
      <4> HIDE DEF y, t
      <4> QED BY <4>3, <4>4, <4>5
    <3>3. Kept(g[i], s)
      BY <2>2, <3>1, <3>2, KeptTwice
    <3> QED BY <3>3
  <2> HIDE DEF P
  <2>5. n \in P
    BY <2>3, <2>4, LastTurn
  <2>6. PICK r : r = g[n] /\ Kept(r, s)
    BY <2>5 DEF P
  <2>7. Kept(ResetNextTaskUnblockTime(r), s)
    BY <2>6, InTimeIsAhead, ResetIsInTime, KeptTwice DEF Kept, Sleepers
  <2>8. PendedToReady(s) = ResetNextTaskUnblockTime(r)
    BY <1>2, <2>1, <2>2, <2>6 DEF PendedToReady, AfterPended
  <2> QED BY <2>7, <2>8
<1> QED BY <1>1, <1>2

LEMMA CatchUpIsKept ==
  ASSUME NEW s, Sleepers(s)
  PROVE  Kept(CatchUp(s), s)
<1>1. PICK n \in Nat : n = s.pended
  BY DEF Sleepers, Asleep
<1>2. PICK g : /\ AfterTicks(n, s) = g[n] /\ g[0] = s
               /\ \A i \in 1 .. n : g[i] = PendedTick(g[i - 1])
  BY TicksRun
<1> DEFINE P == {i \in 0 .. n : Kept(g[i], s)}
<1>3. 0 \in P
  BY <1>2, StillStays
<1>4. ASSUME NEW i \in 1 .. n, i - 1 \in P PROVE i \in P
  <2>1. PICK a : a = g[i - 1] /\ Kept(a, s) /\ Sleepers(a)
    BY <1>4 DEF Kept
  <2>2. PICK b : b = IncrementTick(a) /\ Kept(b, a)
    BY <2>1, IncrementTickIsKept
  <2>3. Still([b EXCEPT !.yield = @ \/ TickSwitches(a)], b)
    BY <2>2, SleepersHaveTimes, ListsAreStill DEF Kept
  <2>4. Kept([b EXCEPT !.yield = @ \/ TickSwitches(a)], a)
    BY <2>2, <2>3, StillIsKept, KeptTwice DEF Kept
  <2>5. g[i] = [b EXCEPT !.yield = @ \/ TickSwitches(a)]
    BY <1>2, <2>1, <2>2 DEF PendedTick
  <2>6. Kept(g[i], s)
    BY <2>1, <2>4, <2>5, KeptTwice
  <2> QED BY <2>6
<1> HIDE DEF P
<1>5. n \in P
  BY <1>3, <1>4, LastTurn
<1>6. PICK r : r = g[n] /\ Kept(r, s)
  BY <1>5 DEF P
<1>7. PICK z : z = CatchUp(s) /\ z = [r EXCEPT !.pended = 0]
  BY <1>1, <1>2, <1>6 DEF CatchUp, AfterTicks
<1>8. /\ z.wake = r.wake /\ z.entered = r.entered /\ z.tick = r.tick /\ z.next = r.next
      /\ z.pended = 0 /\ z.susp = r.susp /\ z.delayed = r.delayed
      /\ z.overflow = r.overflow /\ z.cur = r.cur /\ Times \cup {"cur"} \subseteq DOMAIN z
  BY <1>6, <1>7 DEF Kept, Sleepers, Asleep, Times
<1>9. Asleep(z)
  BY <1>6, <1>8 DEF Kept, Sleepers, Asleep
<1>10. InTime(z)
  BY <1>6, <1>8, Zenon DEF Kept, Sleepers, InTime
<1> QED BY <1>6, <1>7, <1>8, <1>9, <1>10 DEF Kept, Sleepers

LEMMA ResumeAllKeepsSleepers ==
  ASSUME NEW s, Sleepers(s), s.susp = 1
  PROVE  Sleepers(ResumeAll(s)) /\ ResumeAll(s).susp = 0
<1>1. PICK a : a = [s EXCEPT !.susp = @ - 1]
  OBVIOUS
<1>2. /\ a.wake = s.wake /\ a.entered = s.entered /\ a.tick = s.tick /\ a.next = s.next
      /\ a.pended = s.pended /\ a.susp = 0 /\ a.delayed = s.delayed
      /\ a.overflow = s.overflow /\ Times \cup {"cur"} \subseteq DOMAIN a
  BY <1>1 DEF Sleepers, Asleep, Times
<1>3. Asleep(a)
  BY <1>2 DEF Sleepers, Asleep
<1>4. InTime(a)
  BY <1>2, Zenon DEF Sleepers, InTime
<1>5. PICK b : b = PendedToReady(a) /\ Kept(b, a)
  BY <1>3, <1>4, PendedToReadyIsKept DEF Sleepers
<1>6. PICK c : c = CatchUp(b) /\ Kept(c, b)
  BY <1>5, CatchUpIsKept DEF Kept
<1>7. Kept(YieldIf(AlreadyYielded(s), c), c)
  BY <1>6, SwitchIsKept DEF Kept
<1>8. ResumeAll(s) = YieldIf(AlreadyYielded(s), c)
  BY <1>1, <1>2, <1>5, <1>6 DEF ResumeAll, ResumedAll
<1> QED BY <1>2, <1>5, <1>6, <1>7, <1>8 DEF Kept

-----------------------------------------------------------------------------
(* The calls of the tasks: only the running task is between the suspension  *)
(* and the resumption of the scheduler, a task that delays itself has at    *)
(* least one tick to wait for, and the idle task does not mean to sleep     *)
(* past the next task's time.                                               *)

Inside  == {"delay", "abort", "aborted", "idle", "sleep", "resume", "lock", "check",
            "look", "inherit", "place", "unlockTx", "unlockRx"}
Waiting == {"delay", "look", "inherit", "place"}

SoundWait(l) == {"wait", "next"} \subseteq DOMAIN l /\ l.wait \in Time /\ l.next \notin Inside

Suspension ==
  /\ k.susp \in {0, 1}
  /\ \A t \in Task : pc[t] \in Inside <=> t = k.cur /\ k.susp = 1

Waits ==
  /\ DOMAIN pc = Task /\ DOMAIN loc = Task
  /\ \A t \in Task : /\ SoundWait(loc[t])
                     /\ pc[t] \in Waiting => loc[t].wait \in 1 .. MaxDelay
                     /\ pc[t] = "sleep" => loc[t].wait <= k.next - k.tick

Punctual == scenario \in Scenarios /\ Sleepers(k) /\ Suspension /\ Waits

LEMMA NoCallIsSoundWait == SoundWait(NoCall)
  BY TimeIsNat DEF SoundWait, NoCall, Inside

\* The kernel in which the time-out of a call is set or forgotten.
LEMMA TimeOutIsKept ==
  ASSUME NEW s, Sleepers(s), NEW a,
         Same(a, s, (Times \ {"entered"}) \cup {"cur"}), Times \subseteq DOMAIN a,
         a.entered \in [Task -> Time]
  PROVE  Sleepers(a) /\ a.susp = s.susp /\ a.cur = s.cur
<1>1. /\ a.wake = s.wake /\ a.tick = s.tick /\ a.next = s.next
      /\ a.pended = s.pended /\ a.susp = s.susp /\ a.delayed = s.delayed
      /\ a.overflow = s.overflow /\ a.cur = s.cur
  BY DEF Same, Times
<1>2. Times \cup {"cur"} \subseteq DOMAIN a
  BY DEF Same
<1>3. Asleep(a)
  BY <1>1, <1>2, Zenon DEF Sleepers, Asleep
<1>4. InTime(a)
  BY <1>1, Zenon DEF Sleepers, InTime
<1> QED BY <1>1, <1>3, <1>4 DEF Sleepers

LEMMA ForgetIsKept ==
  ASSUME NEW s, Sleepers(s), NEW t
  PROVE  /\ Sleepers(Forget(s, t)) /\ Forget(s, t).susp = s.susp /\ Forget(s, t).cur = s.cur
         /\ Kept(InternalSetTimeOutState(s, t), s)
<1>1. /\ 0 \in Time /\ s.tick \in Time /\ Times \cup {"cur"} \subseteq DOMAIN s
      /\ s.entered \in [Task -> Time]
  BY TimeIsNat DEF Sleepers, Asleep
<1>2. ASSUME NEW x \in Time, NEW timing, NEW passed
      PROVE  LET a == [s EXCEPT !.entered[t] = x, !.timing = timing, !.passed = passed]
             IN  Sleepers(a) /\ a.susp = s.susp /\ a.cur = s.cur
  <2>1. PICK e \in [Task -> Time] : e = [s.entered EXCEPT ![t] = x]
    BY <1>1
  <2>2. PICK a : a = [s EXCEPT !.entered[t] = x, !.timing = timing, !.passed = passed]
    OBVIOUS
  <2>3. /\ Same(a, s, (Times \ {"entered"}) \cup {"cur"}) /\ Times \subseteq DOMAIN a
        /\ a.entered = e
    BY <1>1, <2>1, <2>2 DEF Same, Times
  <2>4. a.entered \in [Task -> Time]
    BY <2>1, <2>3
  <2> QED BY <2>2, <2>3, <2>4, TimeOutIsKept
<1>3. PICK x \in Time : x = 0
  BY <1>1
<1>4. Sleepers(Forget(s, t)) /\ Forget(s, t).susp = s.susp /\ Forget(s, t).cur = s.cur
  BY <1>2, <1>3 DEF Forget
<1>5. PICK y \in Time : y = s.tick
  BY <1>1
<1>6. Kept(InternalSetTimeOutState(s, t), s)
  <2>1. LET a == [s EXCEPT !.entered[t] = y, !.timing = s.timing \cup {t},
                           !.passed = s.passed \ {t}]
        IN  Sleepers(a) /\ a.susp = s.susp /\ a.cur = s.cur
    BY <1>2
  <2>2. /\ Sleepers(InternalSetTimeOutState(s, t))
        /\ InternalSetTimeOutState(s, t).susp = s.susp
        /\ InternalSetTimeOutState(s, t).cur = s.cur
    BY <1>5, <2>1 DEF InternalSetTimeOutState
  <2> QED BY <2>2 DEF Kept
<1> QED BY <1>4, <1>6

\* A step of a task.
LEMMA GotoIsPunctual ==
  ASSUME Punctual, SelectsATask, NEW s, NEW p, NEW l, Goto(s, p, l), Sleepers(s),
         s.susp = IF p \in Inside THEN 1 ELSE 0,
         p \in Inside => s.cur = k.cur,
         p # "run" => SoundWait(l),
         p \in Waiting => l.wait \in 1 .. MaxDelay,
         p = "sleep" => l.wait <= s.next - s.tick
  PROVE  Punctual'
<1>1. /\ k' = (IF p = "run" THEN Forget(s, k.cur) ELSE s)
      /\ pc' = [pc EXCEPT ![k.cur] = p]
      /\ loc' = [loc EXCEPT ![k.cur] = IF p = "run" THEN NoCall ELSE l]
      /\ scenario' = scenario
  BY DEF Goto
<1>2. PICK c \in Task : c = k.cur
  BY DEF SelectsATask
<1>3. PICK m : m = (IF p = "run" THEN NoCall ELSE l) /\ SoundWait(m) /\ (p # "run" => m = l)
  BY NoCallIsSoundWait
<1>4. DOMAIN pc = Task /\ DOMAIN loc = Task
  BY DEF Punctual, Waits
<1>5. /\ DOMAIN pc' = Task /\ DOMAIN loc' = Task /\ pc'[c] = p /\ loc'[c] = m
      /\ \A t \in Task : t # c => pc'[t] = pc[t] /\ loc'[t] = loc[t]
  BY <1>1, <1>2, <1>3, <1>4
<1>6. PICK a : a = k' /\ Sleepers(a) /\ a.susp = s.susp /\ a.cur = s.cur /\ (p # "run" => a = s)
  BY <1>1, ForgetIsKept
<1>7. \A t \in Task : t # c => pc[t] \notin Inside
  BY <1>2 DEF Punctual, Suspension
<1>8. Suspension'
  <2>1. a.susp \in {0, 1} /\ (a.susp = 1 <=> p \in Inside) /\ (p \in Inside => a.cur = c)
    BY <1>2, <1>6
  <2>2. ASSUME NEW t \in Task PROVE pc'[t] \in Inside <=> t = a.cur /\ a.susp = 1
    <3>1. CASE t = c
      BY <1>5, <2>1, <3>1
    <3>2. CASE t # c
      BY <1>5, <1>7, <2>1, <3>2
    <3> QED BY <3>1, <3>2
  <2> QED BY <1>6, <2>1, <2>2 DEF Suspension, Inside
<1>9. Waits'
  <2>1. ASSUME NEW t \in Task
        PROVE  /\ SoundWait(loc'[t])
               /\ pc'[t] \in Waiting => loc'[t].wait \in 1 .. MaxDelay
               /\ pc'[t] = "sleep" => loc'[t].wait <= a.next - a.tick
    <3>1. CASE t = c
      <4>1. p = "run" => p \notin Waiting /\ p # "sleep"
        BY DEF Waiting
      <4> QED BY <1>3, <1>5, <1>6, <3>1, <4>1
    <3>2. CASE t # c
      <4>1. pc[t] \notin Waiting /\ pc[t] # "sleep"
        BY <1>7, <3>2 DEF Inside, Waiting
      <4>2. SoundWait(loc[t])
        BY DEF Punctual, Waits
      <4> QED BY <1>5, <3>2, <4>1, <4>2
    <3> QED BY <3>1, <3>2
  <2>2. \A t \in Task : SoundWait(loc[t])'
    BY <2>1 DEF SoundWait, Inside, Time
  <2> QED BY <1>5, <1>6, <2>1, <2>2 DEF Waits, Waiting, MaxDelay
<1>10. Sleepers(k)'
  BY <1>6 DEF Sleepers, Asleep, InTime, Times, Ord, Time, MaxDelay
<1> QED BY <1>1, <1>8, <1>9, <1>10 DEF Punctual

\* A step that neither suspends the scheduler nor resumes it.
LEMMA KeptIsPunctual ==
  ASSUME Punctual, SelectsATask, NEW s, NEW p, NEW l, Goto(s, p, l), Kept(s, k),
         p \in Inside <=> pc[k.cur] \in Inside,
         p # "run" => SoundWait(l),
         p \in Waiting => l.wait \in 1 .. MaxDelay,
         p # "sleep"
  PROVE  Punctual'
<1>1. k.susp \in {0, 1} /\ (pc[k.cur] \in Inside <=> k.susp = 1)
  BY DEF Punctual, Suspension, SelectsATask
<1>2. Sleepers(s) /\ s.susp = k.susp /\ (k.susp > 0 => s.cur = k.cur)
  BY DEF Kept
<1>3. s.susp = (IF p \in Inside THEN 1 ELSE 0) /\ (p \in Inside => s.cur = k.cur)
  BY <1>1, <1>2
<1> QED BY <1>2, <1>3, GotoIsPunctual

\* A step that suspends the scheduler.
LEMMA SuspendIsPunctual ==
  ASSUME Punctual, SelectsATask, pc[k.cur] \notin Inside,
         NEW p \in Inside, NEW l, Goto(SuspendAll(k), p, l), SoundWait(l),
         p \in Waiting => l.wait \in 1 .. MaxDelay, p # "sleep"
  PROVE  Punctual'
<1>1. k.susp = 0
  BY DEF Punctual, Suspension, SelectsATask
<1>2. PICK s : s = SuspendAll(k)
  OBVIOUS
<1>3. /\ s.wake = k.wake /\ s.entered = k.entered /\ s.tick = k.tick /\ s.next = k.next
      /\ s.pended = k.pended /\ s.susp = 1 /\ s.delayed = k.delayed
      /\ s.overflow = k.overflow /\ s.cur = k.cur /\ Times \cup {"cur"} \subseteq DOMAIN s
  BY <1>1, <1>2 DEF SuspendAll, Punctual, Sleepers, Asleep, Times
<1>4. Asleep(s)
  BY <1>3 DEF Punctual, Sleepers, Asleep
<1>5. InTime(s)
  BY <1>3, Zenon DEF Punctual, Sleepers, InTime
<1>6. p # "run"
  BY DEF Inside
<1> QED BY <1>2, <1>3, <1>4, <1>5, <1>6, GotoIsPunctual DEF Sleepers

LEMMA HandlerIsPunctual ==
  ASSUME Punctual, NEW s, Handler(s), Kept(s, k),
         k.susp > 0 => s.tick = k.tick /\ s.next = k.next
  PROVE  Punctual'
<1>1. k' = s /\ scenario' = scenario /\ pc' = pc /\ loc' = loc
  BY DEF Handler
<1>2. Sleepers(s) /\ s.susp = k.susp /\ (k.susp > 0 => s.cur = k.cur)
  BY DEF Kept
<1>3. Suspension'
  BY <1>1, <1>2 DEF Punctual, Suspension, Inside
<1>4. Waits'
  <2>1. \A t \in Task : SoundWait(loc[t])'
    BY <1>1 DEF Punctual, Waits, SoundWait, Inside, Time
  <2>2. \A t \in Task : pc[t] = "sleep" => k.susp = 1
    BY DEF Punctual, Suspension, Inside
  <2> QED BY <1>1, <1>2, <2>1, <2>2 DEF Punctual, Waits, Waiting, MaxDelay
<1>5. Sleepers(k)'
  <2>1. PICK a : a = k' /\ Sleepers(a)
    BY <1>1, <1>2
  <2> QED BY <2>1 DEF Sleepers, Asleep, InTime, Times, Ord, Time, MaxDelay
<1> QED BY <1>1, <1>3, <1>4, <1>5 DEF Punctual

-----------------------------------------------------------------------------
(* Every step of a task or an interrupt is punctual: first those without a  *)
(* queue.                                                                   *)

LEMMA HereIsPunctual ==
  ASSUME Punctual, SelectsATask
  PROVE  /\ Sleepers(k) /\ Kept(k, k) /\ HasTimes(k) /\ k.cur \in Task /\ k.susp \in {0, 1}
         /\ pc[k.cur] \in Inside <=> k.susp = 1
         /\ SoundWait(Here)
         /\ pc[k.cur] \in Waiting => Here.wait \in 1 .. MaxDelay
         /\ pc[k.cur] = "sleep" => Here.wait <= k.next - k.tick
  BY StillStays, SleepersHaveTimes
  DEF Punctual, SelectsATask, Suspension, Waits, Here

\* The locals of a call that begins.
LEMMA CallWaits ==
  ASSUME NEW n \in Time, NEW op, NEW obj, NEW b
  PROVE  /\ SoundWait([NoCall EXCEPT !.op = op, !.wait = n, !.block = b])
         /\ SoundWait([NoCall EXCEPT !.op = op, !.wait = n])
         /\ SoundWait([NoCall EXCEPT !.op = op, !.block = b])
         /\ SoundWait([NoCall EXCEPT !.op = op, !.obj = obj])
         /\ SoundWait([NoCall EXCEPT !.op = op])
         /\ [NoCall EXCEPT !.op = op, !.wait = n, !.block = b].wait = n
         /\ [NoCall EXCEPT !.op = op, !.wait = n].wait = n
  BY TimeIsNat DEF SoundWait, NoCall, Inside

LEMMA PositiveWait == ASSUME NEW n \in Time, n # 0 PROVE n \in 1 .. MaxDelay
  BY TimeIsNat

LEMMA ResumingIsPunctual ==
  ASSUME Punctual, SelectsATask, ResumeScheduler PROVE Punctual'
<1>1. PICK s : s = ResumeAll(k)
  OBVIOUS
<1>2. PICK p : p = IF Here.block /\ ~AlreadyYielded(k) THEN "yield" ELSE Here.next
  OBVIOUS
<1>3. Goto(s, p, Here)
  BY <1>1, <1>2 DEF ResumeScheduler
<1>4. k.susp = 1 /\ SoundWait(Here) /\ Sleepers(k)
  BY HereIsPunctual DEF ResumeScheduler, At, Inside
<1>5. Sleepers(s) /\ s.susp = 0
  BY <1>1, <1>4, ResumeAllKeepsSleepers
<1>6. p \notin Inside
  BY <1>2, <1>4 DEF SoundWait, Inside
<1>7. p \notin Waiting /\ p # "sleep"
  BY <1>6 DEF Inside, Waiting
<1> QED BY <1>3, <1>4, <1>5, <1>6, <1>7, GotoIsPunctual DEF Inside

LEMMA YieldIsPunctual ==
  ASSUME Punctual, SelectsATask, Yield PROVE Punctual'
<1>1. PICK s : s = SwitchContext(k) /\ Kept(s, k)
  BY HereIsPunctual, SwitchIsKept
<1>2. PICK p : p = Here.next /\ Goto(s, p, Here)
  BY <1>1 DEF Yield
<1>3. SoundWait(Here) /\ pc[k.cur] \notin Inside
  BY HereIsPunctual DEF Yield, At, Inside
<1>4. p \notin Inside
  BY <1>2, <1>3 DEF SoundWait
<1>5. p \notin Waiting /\ p # "sleep"
  BY <1>4 DEF Inside, Waiting
<1> QED BY <1>1, <1>2, <1>3, <1>4, <1>5, KeptIsPunctual

LEMMA StartDelayIsPunctual ==
  ASSUME Punctual, SelectsATask, StartDelay PROVE Punctual'
<1>1. PICK n \in scenario.delays :
        IF n = 0 THEN Goto(SwitchContext(k), "run", NoCall)
        ELSE Goto(SuspendAll(k), "delay",
                  [NoCall EXCEPT !.op = "delay", !.wait = n, !.block = TRUE])
  BY DEF StartDelay
<1>2. n \in Time
  BY ScenarioAssumption DEF Punctual
<1>3. pc[k.cur] = "run" /\ pc[k.cur] \notin Inside
  BY DEF StartDelay, Calls, At, Inside
<1>4. CASE n = 0
  <2>1. PICK s : s = SwitchContext(k) /\ Kept(s, k)
    BY HereIsPunctual, SwitchIsKept
  <2>2. Goto(s, "run", NoCall)
    BY <1>1, <1>4, <2>1
  <2> QED BY <1>3, <2>1, <2>2, KeptIsPunctual DEF Inside, Waiting
<1>5. CASE n # 0
  <2>1. PICK l : l = [NoCall EXCEPT !.op = "delay", !.wait = n, !.block = TRUE]
    OBVIOUS
  <2>2. SoundWait(l) /\ l.wait = n
    BY <1>2, <2>1, CallWaits
  <2>3. Goto(SuspendAll(k), "delay", l) /\ l.wait \in 1 .. MaxDelay
    BY <1>1, <1>2, <1>5, <2>1, <2>2, PositiveWait
  <2> QED BY <1>3, <2>2, <2>3, SuspendIsPunctual DEF Inside
<1> QED BY <1>4, <1>5

LEMMA DelayIsPunctual ==
  ASSUME Punctual, SelectsATask, Delay PROVE Punctual'
<1>1. pc[k.cur] = "delay" /\ Here.wait \in 1 .. MaxDelay /\ SoundWait(Here)
  BY HereIsPunctual DEF Delay, At, Waiting
<1>2. PICK s : s = AddCurrentTaskToDelayedList(k, Here.wait, FALSE) /\ Kept(s, k)
  BY <1>1, HereIsPunctual, AddCurrentIsKept
<1>3. Goto(s, "resume", Here)
  BY <1>2 DEF Delay
<1> QED BY <1>1, <1>2, <1>3, KeptIsPunctual DEF Inside, Waiting

LEMMA NotifyTakeIsPunctual ==
  ASSUME Punctual, SelectsATask, NotifyTake PROVE Punctual'
<1>1. PICK n \in scenario.waits[k.cur] :
        LET t       == k.cur
            waiting == [k EXCEPT !.nstate[t] = "waiting"]
        IN  Goto(CASE k.nval[t] # 0 -> k
                   [] k.nval[t] = 0 /\ n = 0 -> waiting
                   [] OTHER ->
                        SwitchContext(AddCurrentTaskToDelayedList(waiting, n, TRUE)),
                 "taken", [NoCall EXCEPT !.op = "take", !.wait = n])
  BY DEF NotifyTake
<1>2. n \in Time
  BY ScenarioAssumption DEF Punctual, SelectsATask
<1>3. PICK l : l = [NoCall EXCEPT !.op = "take", !.wait = n] /\ SoundWait(l)
  BY <1>2, CallWaits
<1>4. PICK a : a = [k EXCEPT !.nstate[k.cur] = "waiting"] /\ Still(a, k)
  BY HereIsPunctual DEF HasTimes, Still, Same, Times
<1>5. Kept(a, k) /\ a.cur = k.cur /\ a.cur \in Task /\ Sleepers(a)
  BY <1>4, HereIsPunctual, StillIsKept DEF Still, Same, Kept
<1>6. PICK s : s = (CASE k.nval[k.cur] # 0 -> k
                     [] k.nval[k.cur] = 0 /\ n = 0 -> a
                     [] OTHER -> SwitchContext(AddCurrentTaskToDelayedList(a, n, TRUE)))
  OBVIOUS
<1>7. Goto(s, "taken", l)
  BY <1>1, <1>3, <1>4, <1>6
<1>8. Kept(s, k)
  <2>1. CASE k.nval[k.cur] # 0
    BY <1>6, <2>1, HereIsPunctual
  <2>2. CASE k.nval[k.cur] = 0 /\ n = 0
    BY <1>5, <1>6, <2>2
  <2>3. CASE ~(k.nval[k.cur] # 0) /\ ~(k.nval[k.cur] = 0 /\ n = 0)
    <3>1. n \in 1 .. MaxDelay
      BY <1>2, <2>3, PositiveWait
    <3>2. PICK b : b = AddCurrentTaskToDelayedList(a, n, TRUE) /\ Kept(b, a)
      BY <1>5, <3>1, AddCurrentIsKept
    <3>3. Kept(SwitchContext(b), b)
      BY <3>2, SwitchIsKept DEF Kept
    <3>4. s = SwitchContext(b)
      BY <1>6, <2>3, <3>2
    <3> QED BY <1>5, <3>2, <3>3, <3>4, KeptTwice
  <2> QED BY <2>1, <2>2, <2>3
<1>9. pc[k.cur] = "run"
  BY DEF NotifyTake, Calls, At
<1> QED BY <1>3, <1>7, <1>8, <1>9, KeptIsPunctual DEF Inside, Waiting

LEMMA NotifyTakenIsPunctual ==
  ASSUME Punctual, SelectsATask, NotifyTaken PROVE Punctual'
<1>1. PICK s : s = [k EXCEPT !.nval[k.cur] = 0, !.nstate[k.cur] = "none"] /\ Still(s, k)
  BY HereIsPunctual DEF HasTimes, Still, Same, Times
<1>2. Goto(s, "run", Here) /\ pc[k.cur] = "taken"
  BY <1>1 DEF NotifyTaken, At
<1>3. Kept(s, k)
  BY <1>1, HereIsPunctual, StillIsKept
<1> QED BY <1>2, <1>3, KeptIsPunctual DEF Inside, Waiting

LEMMA NotifiedIsKept ==
  ASSUME NEW s, Sleepers(s), NEW t
  PROVE  Still(Notified(s, t), s) /\ Kept(Notified(s, t), s)
<1>1. Still(Notified(s, t), s)
  BY SleepersHaveTimes DEF Notified, HasTimes, Still, Same, Times
<1> QED BY <1>1, StillIsKept

\* A task that is made ready.
LEMMA ReadiedIsLeft ==
  ASSUME NEW s, HasTimes(s), NEW t
  PROVE  Left(AddToReadyList(RemoveStateItem(s, t), t), s, t)
<1>1. PICK a : a = RemoveStateItem(s, t) /\ Left(a, s, t) /\ HasTimes(a)
  BY RemoveStateItemLeaves, LeftHasTimes
<1>2. PICK b : b = AddToReadyList(a, t) /\ Still(b, a)
  BY <1>1, ListsAreStill
<1> QED BY <1>1, <1>2, LeftStill

LEMMA NotifyGiveIsPunctual ==
  ASSUME Punctual, SelectsATask, NotifyGive PROVE Punctual'
<1>1. PICK t :
        Goto(IF k.nstate[t] = "waiting"
               THEN YieldIf(k.prio[t] > k.prio[k.cur],
                      ResetNextTaskUnblockTime(
                        AddToReadyList(RemoveStateItem(Notified(k, t), t), t)))
               ELSE Notified(k, t),
             "run", NoCall)
  BY DEF NotifyGive
<1>2. PICK a : a = Notified(k, t) /\ Kept(a, k) /\ Sleepers(a)
  BY HereIsPunctual, NotifiedIsKept DEF Kept
<1>3. PICK b : b = AddToReadyList(RemoveStateItem(a, t), t) /\ Left(b, a, t)
  BY <1>2, SleepersHaveTimes, ReadiedIsLeft
<1>4. PICK c : c = ResetNextTaskUnblockTime(b) /\ Kept(c, a) /\ Sleepers(c)
  BY <1>2, <1>3, LeftAndReset DEF Kept
<1>5. PICK d : d = YieldIf(k.prio[t] > k.prio[k.cur], c) /\ Kept(d, c)
  BY <1>4, SwitchIsKept
<1>6. PICK s : s = (IF k.nstate[t] = "waiting" THEN d ELSE a) /\ Goto(s, "run", NoCall)
  BY <1>1, <1>2, <1>3, <1>4, <1>5
<1>7. Kept(d, k)
  BY <1>2, <1>4, <1>5, KeptTwice
<1>8. Kept(s, k)
  BY <1>2, <1>6, <1>7
<1>9. pc[k.cur] = "run"
  BY DEF NotifyGive, Calls, At
<1> QED BY <1>6, <1>8, <1>9, KeptIsPunctual DEF Inside, Waiting

LEMMA TaskSuspendIsPunctual ==
  ASSUME Punctual, SelectsATask, TaskSuspend PROVE Punctual'
<1>1. PICK t :
        LET out == RemoveEventItem(ResetReadyPriority(
                     RemoveStateItem(k, t), k.prio[t]), t)
        IN  Goto([out EXCEPT !.suspended = @ \cup {t},
                             !.nstate[t] = IF @ = "waiting" THEN "none" ELSE @],
                 "suspended",
                 [NoCall EXCEPT !.op = "suspend", !.block = (t = k.cur)])
  BY DEF TaskSuspend
<1>2. PICK a : a = RemoveStateItem(k, t) /\ Left(a, k, t) /\ HasTimes(a)
  BY HereIsPunctual, RemoveStateItemLeaves, LeftHasTimes
<1>3. PICK b : b = ResetReadyPriority(a, k.prio[t]) /\ Still(b, a) /\ HasTimes(b)
  BY <1>2, ListsAreStill, StillHasTimes
<1>4. PICK c : c = RemoveEventItem(b, t) /\ Still(c, b) /\ HasTimes(c)
  BY <1>3, ListsAreStill, StillHasTimes
<1>5. PICK d : /\ d = [c EXCEPT !.suspended = @ \cup {t},
                                !.nstate[t] = IF @ = "waiting" THEN "none" ELSE @]
               /\ Still(d, c)
  BY <1>4 DEF HasTimes, Still, Same, Times
<1>6. PICK l : l = [NoCall EXCEPT !.op = "suspend", !.block = (t = k.cur)] /\ SoundWait(l)
  BY CallWaits, TimeIsNat
<1>7. Goto(d, "suspended", l)
  BY <1>1, <1>2, <1>3, <1>4, <1>5, <1>6
<1>8. Left(d, k, t)
  BY <1>2, <1>3, <1>4, <1>5, LeftStill
<1>9. Kept(d, k)
  BY <1>8, HereIsPunctual, LeftIsKept
<1>10. pc[k.cur] = "run"
  BY DEF TaskSuspend, Calls, At
<1> QED BY <1>6, <1>7, <1>9, <1>10, KeptIsPunctual DEF Inside, Waiting

LEMMA TaskSuspendedIsPunctual ==
  ASSUME Punctual, SelectsATask, TaskSuspended PROVE Punctual'
<1>1. PICK s : s = ResetNextTaskUnblockTime(k) /\ Kept(s, k)
  BY HereIsPunctual, InTimeIsAhead, ResetIsInTime DEF Sleepers
<1>2. PICK p \in {"yield", "run"} : Goto(s, p, Here)
  BY <1>1 DEF TaskSuspended
<1>3. pc[k.cur] = "suspended" /\ SoundWait(Here)
  BY HereIsPunctual DEF TaskSuspended, At
<1> QED BY <1>1, <1>2, <1>3, KeptIsPunctual DEF Inside, Waiting

LEMMA TaskResumeIsPunctual ==
  ASSUME Punctual, SelectsATask, TaskResume PROVE Punctual'
<1>1. PICK t :
        Goto(IF IsTaskSuspended(k, t)
               THEN YieldIf(k.prio[t] >= k.prio[k.cur], Resumed(k, t))
               ELSE k,
             "run", NoCall)
  BY DEF TaskResume
<1>2. PICK a : a = Resumed(k, t) /\ Left(a, k, t)
  BY HereIsPunctual, ReadiedIsLeft DEF Resumed
<1>3. Kept(a, k) /\ Sleepers(a)
  BY <1>2, HereIsPunctual, LeftIsKept DEF Kept
<1>4. PICK b : b = YieldIf(k.prio[t] >= k.prio[k.cur], a) /\ Kept(b, a)
  BY <1>3, SwitchIsKept
<1>5. PICK s : s = (IF IsTaskSuspended(k, t) THEN b ELSE k) /\ Goto(s, "run", NoCall)
  BY <1>1, <1>2, <1>4
<1>6. Kept(s, k)
  BY <1>3, <1>4, <1>5, KeptTwice, HereIsPunctual
<1>7. pc[k.cur] = "run"
  BY DEF TaskResume, Calls, At
<1> QED BY <1>5, <1>6, <1>7, KeptIsPunctual DEF Inside, Waiting

LEMMA TaskPrioritySetIsPunctual ==
  ASSUME Punctual, SelectsATask, TaskPrioritySet PROVE Punctual'
<1>1. PICK t \in Targets, p \in scenario.prios :
        Goto(YieldIf(PrioritySetYields(k, t, p), PrioritySet(k, t, p)), "run", NoCall)
  BY DEF TaskPrioritySet
<1>2. PICK a : a = PrioritySet(k, t, p) /\ Still(a, k)
  BY HereIsPunctual, PrioritiesAreStill
<1>3. Kept(a, k) /\ Sleepers(a)
  BY <1>2, HereIsPunctual, StillIsKept DEF Kept
<1>4. PICK s : s = YieldIf(PrioritySetYields(k, t, p), a) /\ Kept(s, a)
  BY <1>3, SwitchIsKept
<1>5. Goto(s, "run", NoCall)
  BY <1>1, <1>2, <1>4
<1>6. Kept(s, k)
  BY <1>3, <1>4, KeptTwice
<1>7. pc[k.cur] = "run"
  BY DEF TaskPrioritySet, Calls, At
<1> QED BY <1>5, <1>6, <1>7, KeptIsPunctual DEF Inside, Waiting

LEMMA StartAbortDelayIsPunctual ==
  ASSUME Punctual, SelectsATask, StartAbortDelay PROVE Punctual'
<1>1. PICK t : Goto(SuspendAll(k), "abort", [NoCall EXCEPT !.op = "abort", !.obj = t])
  BY DEF StartAbortDelay
<1>2. PICK l : l = [NoCall EXCEPT !.op = "abort", !.obj = t] /\ SoundWait(l)
  BY CallWaits, TimeIsNat
<1>3. pc[k.cur] = "run"
  BY DEF StartAbortDelay, Calls, At
<1> QED BY <1>1, <1>2, <1>3, SuspendIsPunctual DEF Inside, Waiting

LEMMA AbortDelayIsPunctual ==
  ASSUME Punctual, SelectsATask, AbortDelay PROVE Punctual'
<1>1. PICK s : s = RemoveStateItem(k, Here.obj) /\ Kept(s, k)
  BY HereIsPunctual, RemoveStateItemLeaves, LeftIsKept
<1>2. Goto(s, "aborted", Here) \/ Goto(k, "resume", Here)
  BY <1>1 DEF AbortDelay
<1>3. pc[k.cur] = "abort" /\ SoundWait(Here) /\ Kept(k, k)
  BY HereIsPunctual DEF AbortDelay, At
<1> QED BY <1>1, <1>2, <1>3, KeptIsPunctual DEF Inside, Waiting

LEMMA AbortedDelayIsPunctual ==
  ASSUME Punctual, SelectsATask, AbortedDelay PROVE Punctual'
<1>1. PICK t : t = Here.obj
  OBVIOUS
<1>2. PICK a : a = RemoveEventItem(k, t) /\ Still(a, k) /\ HasTimes(a)
  BY HereIsPunctual, ListsAreStill, StillHasTimes
<1>3. PICK b : b = [a EXCEPT !.aborted = @ \cup {t}] /\ Still(b, a)
  BY <1>2, ListsAreStill
<1>4. PICK c : c = (IF InEventList(k, t) THEN b ELSE k) /\ Still(c, k) /\ HasTimes(c)
  BY <1>2, <1>3, StillTwice, StillStays, StillHasTimes, HereIsPunctual
<1>5. PICK d : d = AddToReadyList(c, t) /\ Still(d, c) /\ HasTimes(d)
  BY <1>4, ListsAreStill, StillHasTimes
<1>6. PICK s : /\ s = [d EXCEPT !.yield = @ \/ k.prio[t] > k.prio[k.cur]]
               /\ Still(s, d)
  BY <1>5, ListsAreStill
<1>7. Goto(s, "resume", Here)
  BY <1>1, <1>2, <1>3, <1>4, <1>5, <1>6 DEF AbortedDelay
<1>8. Still(s, k)
  BY <1>4, <1>5, <1>6, StillTwice
<1>9. Kept(s, k) /\ pc[k.cur] = "aborted" /\ SoundWait(Here)
  BY <1>8, HereIsPunctual, StillIsKept DEF AbortedDelay, At
<1> QED BY <1>7, <1>9, KeptIsPunctual DEF Inside, Waiting

-----------------------------------------------------------------------------
(* The idle task does not sleep past xNextTaskUnblockTime.                  *)

LEMMA IdleTime ==
  ASSUME NEW s, Sleepers(s)
  PROVE  ExpectedIdleTime(s) \in Time /\ ExpectedIdleTime(s) <= s.next - s.tick
<1>1. /\ s.tick \in Int /\ s.next \in Int /\ s.tick <= s.next
      /\ 0 <= s.tick /\ s.next < TickMod /\ TickMod \in Nat \ {0}
  BY KernelAssumption DEF Sleepers, Asleep, InTime, Time
<1>2. PICK x \in Int : x = s.next - s.tick /\ 0 <= x /\ x < TickMod
  BY <1>1
<1>3. x % TickMod = x
  BY <1>1, <1>2, Remainder
<1>4. ExpectedIdleTime(s) \in {0, x}
  BY <1>2, <1>3 DEF ExpectedIdleTime
<1> QED BY <1>1, <1>2, <1>4 DEF Time

LEMMA IdleTaskIsPunctual ==
  ASSUME Punctual, SelectsATask, IdleTask PROVE Punctual'
<1>1. Goto(SuspendAll(k), "idle", NoCall) /\ pc[k.cur] = "run"
  BY DEF IdleTask, Calls, At
<1> QED BY <1>1, NoCallIsSoundWait, SuspendIsPunctual DEF Inside, Waiting

LEMMA IdleSuspendedIsPunctual ==
  ASSUME Punctual, SelectsATask, IdleSuspended PROVE Punctual'
<1>1. PICK n \in Time : n = ExpectedIdleTime(k) /\ n <= k.next - k.tick
  BY HereIsPunctual, IdleTime
<1>2. PICK l : l = [NoCall EXCEPT !.op = "sleep", !.wait = n]
  OBVIOUS
<1>3. PICK m : m = [NoCall EXCEPT !.op = "sleep"] /\ SoundWait(m)
  BY CallWaits, TimeIsNat
<1>4. SoundWait(l) /\ l.wait = n
  BY <1>2, CallWaits
<1>5. Goto(k, "sleep", l) \/ Goto(k, "resume", m)
  BY <1>1, <1>2, <1>3 DEF IdleSuspended
<1>6. pc[k.cur] = "idle" /\ k.susp = 1 /\ Sleepers(k) /\ Kept(k, k)
  BY HereIsPunctual DEF IdleSuspended, At, Inside
<1>7. CASE Goto(k, "sleep", l)
  BY <1>1, <1>4, <1>6, <1>7, GotoIsPunctual DEF Inside, Waiting
<1>8. CASE Goto(k, "resume", m)
  BY <1>3, <1>6, <1>8, KeptIsPunctual DEF Inside, Waiting
<1> QED BY <1>5, <1>7, <1>8

LEMMA SleepIsPunctual ==
  ASSUME Punctual, SelectsATask, ~SleepsIntoWrap, SuppressTicksAndSleep PROVE Punctual'
<1>1. PICK n \in 0 .. Here.wait :
        /\ k.delayed = <<>> \/ k.tick + n # MaxDelay
        /\ Goto(StepTick(k, n), "resume", Here)
  BY DEF SuppressTicksAndSleep
<1>2. /\ pc[k.cur] = "sleep" /\ SoundWait(Here) /\ Here.wait <= k.next - k.tick /\ k.susp = 1
      /\ Sleepers(k)
  BY HereIsPunctual DEF SuppressTicksAndSleep, At, Inside
<1>3. /\ k.tick \in Int /\ k.next \in Int /\ 0 <= k.tick /\ k.next <= MaxDelay
      /\ MaxDelay \in Int /\ Here.wait \in Int
  <2>1. k.tick \in Time /\ k.next \in Time /\ Here.wait \in Time
    BY <1>2 DEF SoundWait, Sleepers, Asleep
  <2> QED BY <2>1, KernelAssumption DEF Time, MaxDelay
<1>4. PICK x \in Int : /\ x = k.tick + n /\ k.tick <= x /\ x <= k.next /\ 0 <= x
                       /\ x < TickMod /\ TickMod \in Nat \ {0}
  BY <1>1, <1>2, <1>3, KernelAssumption DEF MaxDelay
<1>5. x % TickMod = x /\ x \in Time
  BY <1>4, Remainder DEF Time
<1>6. PICK s : s = StepTick(k, n)
  OBVIOUS
<1>7. s = [k EXCEPT !.tick = x]
  BY <1>4, <1>5, <1>6 DEF StepTick
<1>8. /\ s.wake = k.wake /\ s.entered = k.entered /\ s.tick = x /\ s.next = k.next
      /\ s.pended = k.pended /\ s.susp = 1 /\ s.delayed = k.delayed
      /\ s.overflow = k.overflow /\ s.cur = k.cur /\ Times \cup {"cur"} \subseteq DOMAIN s
  BY <1>2, <1>7 DEF Sleepers, Asleep, Times
<1>9. \A t \in ToSet(k.overflow) : k.wake[t] <= x
  <2>1. \A t \in ToSet(k.overflow) : t \in Task
    BY <1>2, ListMembers DEF Sleepers, Asleep
  <2>2. \A t \in Task : k.wake[t] \in Int
    BY <1>2, TimeIsNat DEF Sleepers, Asleep
  <2>3. \A t \in ToSet(k.overflow) : k.wake[t] <= k.tick
    BY <1>2 DEF Sleepers, Asleep
  <2> QED BY <1>3, <1>4, <2>1, <2>2, <2>3
<1>10. Asleep(s)
  BY <1>2, <1>5, <1>8, <1>9 DEF Sleepers, Asleep
<1>11. InTime(s)
  <2>1. x = MaxDelay => k.delayed = <<>>
    BY <1>1, <1>4
  <2> QED BY <1>2, <1>4, <1>8, <2>1 DEF Sleepers, InTime
<1>12. Goto(s, "resume", Here)
  BY <1>1, <1>6
<1> QED BY <1>2, <1>8, <1>10, <1>11, <1>12, GotoIsPunctual DEF Sleepers, Inside, Waiting

-----------------------------------------------------------------------------
(* Interrupts, and the queues.                                              *)

LEMMA TickIsPunctual ==
  ASSUME Punctual, Tick PROVE Punctual'
<1>1. Sleepers(k)
  BY DEF Punctual
<1>2. PICK a : /\ a = IncrementTick(k) /\ Kept(a, k) /\ Sleepers(a)
               /\ k.susp > 0 => a.tick = k.tick /\ a.next = k.next
  BY <1>1, IncrementTickIsKept DEF Kept
<1>3. PICK s : s = YieldIf(TickSwitches(k), a) /\ Kept(s, a)
  BY <1>2, SwitchIsKept
<1>4. Handler(s) /\ Kept(s, k)
  BY <1>2, <1>3, KeptTwice DEF Tick
<1>5. ASSUME k.susp > 0 PROVE s = a
  <2>1. k.susp # 0
    BY <1>1, <1>5 DEF Sleepers, Asleep
  <2> QED BY <1>3, <2>1 DEF TickSwitches, YieldIf
<1> QED BY <1>2, <1>4, <1>5, HandlerIsPunctual

\* An interrupt that finds the scheduler suspended leaves time alone.
LEMMA StillIsPunctual ==
  ASSUME Punctual, NEW s, Handler(s), Still(s, k)
  PROVE  Punctual'
<1>1. Kept(s, k)
  BY StillIsKept DEF Punctual
<1>2. s.tick = k.tick /\ s.next = k.next
  BY DEF Still, Same, Times
<1> QED BY <1>1, <1>2, HandlerIsPunctual

LEMMA LeftIsPunctual ==
  ASSUME Punctual, NEW s, NEW t, Handler(s), Left(s, k, t)
  PROVE  Punctual'
<1>1. Kept(s, k)
  BY LeftIsKept DEF Punctual
<1>2. s.tick = k.tick /\ s.next = k.next
  BY DEF Left, Same
<1> QED BY <1>1, <1>2, HandlerIsPunctual

LEMMA NotifyFromISRIsPunctual ==
  ASSUME Punctual, NotifyGiveFromISR PROVE Punctual'
<1>1. PICK t :
        LET now == IF k.susp = 0
                     THEN AddToReadyList(RemoveStateItem(Notified(k, t), t), t)
                     ELSE [Notified(k, t) EXCEPT !.events[Pending] = Append(@, t)]
        IN  Handler(IF k.nstate[t] = "waiting"
                      THEN [now EXCEPT !.yield = @ \/ k.prio[t] > k.prio[k.cur]]
                      ELSE Notified(k, t))
  BY DEF NotifyGiveFromISR
<1>2. PICK a : a = Notified(k, t) /\ Still(a, k) /\ HasTimes(a)
  BY NotifiedIsKept, StillHasTimes DEF Punctual
<1>3. PICK b : b = AddToReadyList(RemoveStateItem(a, t), t) /\ Left(b, a, t) /\ HasTimes(b)
  BY <1>2, ReadiedIsLeft, LeftHasTimes
<1>4. PICK c : c = [a EXCEPT !.events[Pending] = Append(@, t)] /\ Still(c, a) /\ HasTimes(c)
  <2>1. PICK c : c = [a EXCEPT !.events[Pending] = Append(@, t)]
    OBVIOUS
  <2>2. Still(c, a)
    BY <1>2, <2>1 DEF HasTimes, Still, Same, Times
  <2> QED BY <2>1, <2>2, StillHasTimes
<1>5. PICK y : y = [b EXCEPT !.yield = @ \/ k.prio[t] > k.prio[k.cur]] /\ Still(y, b)
  BY <1>3, ListsAreStill
<1>6. PICK z : z = [c EXCEPT !.yield = @ \/ k.prio[t] > k.prio[k.cur]] /\ Still(z, c)
  BY <1>4, ListsAreStill
<1>7. Handler(y) \/ Handler(z) \/ Handler(a)
  BY <1>1, <1>2, <1>3, <1>4, <1>5, <1>6
<1>8. Left(y, k, t) /\ Still(z, k)
  BY <1>2, <1>3, <1>4, <1>5, <1>6, LeftStill, StillLeft, StillTwice
<1> QED BY <1>2, <1>7, <1>8, StillIsPunctual, LeftIsPunctual

LEMMA ResumeFromISRIsPunctual ==
  ASSUME Punctual, TaskResumeFromISR PROVE Punctual'
<1>1. PICK t :
        Handler(IF k.susp = 0
                  THEN [Resumed(k, t) EXCEPT !.yield = @ \/ k.prio[t] >= k.prio[k.cur]]
                  ELSE [k EXCEPT !.events[Pending] = Append(@, t)])
  BY DEF TaskResumeFromISR
<1>2. HasTimes(k)
  BY SleepersHaveTimes DEF Punctual
<1>3. PICK a : a = Resumed(k, t) /\ Left(a, k, t) /\ HasTimes(a)
  BY <1>2, ReadiedIsLeft, LeftHasTimes DEF Resumed
<1>4. PICK b : b = [a EXCEPT !.yield = @ \/ k.prio[t] >= k.prio[k.cur]] /\ Still(b, a)
  BY <1>3, ListsAreStill
<1>5. PICK c : c = [k EXCEPT !.events[Pending] = Append(@, t)]
  OBVIOUS
<1>6. Still(c, k)
  BY <1>2, <1>5 DEF HasTimes, Still, Same, Times
<1>7. Handler(b) \/ Handler(c)
  BY <1>1, <1>3, <1>4, <1>5
<1>8. Left(b, k, t)
  BY <1>3, <1>4, LeftStill
<1> QED BY <1>6, <1>7, <1>8, StillIsPunctual, LeftIsPunctual

LEMMA WakeOneIsPunctual ==
  ASSUME Punctual, NEW l, Handler(WakeOne(k, l))
  PROVE  Punctual'
<1>1. PICK s : s = WakeOne(k, l)
  OBVIOUS
<1>2. Kept(s, k) /\ (k.susp # 0 => Still(s, k))
  BY <1>1, WakesAreKept DEF Punctual
<1>3. k.susp > 0 => s.tick = k.tick /\ s.next = k.next
  BY <1>2 DEF Still, Same, Times
<1> QED BY <1>1, <1>2, <1>3, HandlerIsPunctual

LEMMA SendFromISRIsPunctual ==
  ASSUME Punctual, SendFromISR PROVE Punctual'
<1>1. PICK qu, r : HandlerCall(WakeOne(k, ToReceive(qu)), qu, r) \/ HandlerCall(k, qu, r)
  BY DEF SendFromISR
<1>2. Still(k, k)
  BY StillStays DEF Punctual
<1> QED BY <1>1, <1>2, WakeOneIsPunctual, StillIsPunctual DEF HandlerCall

LEMMA ReceiveFromISRIsPunctual ==
  ASSUME Punctual, ReceiveFromISR PROVE Punctual'
<1>1. PICK qu, r : HandlerCall(WakeOne(k, ToSend(qu)), qu, r) \/ HandlerCall(k, qu, r)
  BY DEF ReceiveFromISR
<1>2. Still(k, k)
  BY StillStays DEF Punctual
<1> QED BY <1>1, <1>2, WakeOneIsPunctual, StillIsPunctual DEF HandlerCall

\* The critical sections of a call on a queue.
LEMMA BlocksIsPunctual ==
  ASSUME Punctual, SelectsATask, pc[k.cur] \notin Inside, NEW qu, NEW l, SoundWait(l),
         NEW wait, Blocks(qu, wait, l)
  PROVE  Punctual'
<1>1. PICK m : m = [l EXCEPT !.set = TRUE] /\ SoundWait(m)
  <2>1. SoundWait([l EXCEPT !.set = TRUE])
    BY DEF SoundWait, Inside
  <2> QED BY <2>1
<1>2. PICK a : a = InternalSetTimeOutState(k, k.cur) /\ Kept(a, k)
  BY HereIsPunctual, ForgetIsKept
<1>3. PICK s : s \in {k, a} /\ (Goto(k, "run", l) \/ Goto(s, "suspend", m))
  BY <1>1, <1>2 DEF Blocks, Call
<1>4. Kept(s, k) /\ Kept(k, k)
  BY <1>2, <1>3, HereIsPunctual
<1> QED BY <1>1, <1>3, <1>4, KeptIsPunctual DEF Inside, Waiting

LEMMA DoneIsPunctual ==
  ASSUME Punctual, SelectsATask, pc[k.cur] \notin Inside, NEW qu, NEW r, NEW l, NEW s,
         Call(s, qu, r, "run", l), Kept(s, k)
  PROVE  Punctual'
  BY KeptIsPunctual DEF Call, Inside, Waiting

LEMMA GiveBackIsKept ==
  ASSUME NEW s, Sleepers(s), NEW qu
  PROVE  Kept(GiveBack(s, qu), s)
<1>1. PICK a : a = PriorityDisinherit(s, s.cur) /\ Still(a, s)
  BY SleepersHaveTimes, PrioritiesAreStill
<1>2. Kept(a, s) /\ Sleepers(a)
  BY <1>1, StillIsKept DEF Kept
<1>3. PICK b : b = WakeAndYield(a, ToReceive(qu)) /\ Kept(b, a)
  BY <1>2, WakesAreKept
<1>4. PICK c : c = YieldIf(Disinherits(s, s.cur), a) /\ Kept(c, a)
  BY <1>2, SwitchIsKept
<1>5. GiveBack(s, qu) \in {b, c}
  BY <1>1, <1>3, <1>4 DEF GiveBack
<1> QED BY <1>2, <1>3, <1>4, <1>5, KeptTwice

LEMMA TriesArePunctual ==
  ASSUME Punctual, SelectsATask, pc[k.cur] \notin Inside, NEW qu, NEW l, SoundWait(l)
  PROVE  /\ TrySend(qu, l) => Punctual'
         /\ TryReceive(qu, l) => Punctual'
         /\ TryPeek(qu, l) => Punctual'
         /\ TryLock(qu, l) => Punctual'
<1>1. ASSUME NEW e PROVE Kept(WakeAndYield(k, e), k)
  BY HereIsPunctual, WakesAreKept
<1>2. Kept(GiveBack(k, qu), k)
  BY HereIsPunctual, GiveBackIsKept
<1>3. ASSUME NEW e PROVE Kept(WakeAndYield([k EXCEPT !.held[k.cur] = @ + 1], e), k)
  <2>1. PICK a : a = [k EXCEPT !.held[k.cur] = @ + 1] /\ Still(a, k)
    BY HereIsPunctual DEF HasTimes, Still, Same, Times
  <2>2. Kept(a, k) /\ Sleepers(a)
    BY <2>1, HereIsPunctual, StillIsKept DEF Kept
  <2>3. Kept(WakeAndYield(a, e), a)
    BY <2>2, WakesAreKept
  <2> QED BY <2>1, <2>2, <2>3, KeptTwice
<1>4. ASSUME TrySend(qu, l) PROVE Punctual'
  <2>1. PICK r : \/ Blocks(qu, l.wait, l)
                 \/ Call(GiveBack(k, qu), qu, r, "run", l)
                 \/ Call(WakeAndYield(k, ToReceive(qu)), qu, r, "run", l)
    BY <1>4, Zenon DEF TrySend
  <2> QED BY <1>1, <1>2, <2>1, BlocksIsPunctual, DoneIsPunctual
<1>5. ASSUME TryReceive(qu, l) PROVE Punctual'
  <2>1. PICK r : \/ Blocks(qu, l.wait, l)
                 \/ Call(WakeAndYield(k, ToSend(qu)), qu, r, "run", l)
    BY <1>5, Zenon DEF TryReceive
  <2> QED BY <1>1, <2>1, BlocksIsPunctual, DoneIsPunctual
<1>6. ASSUME TryPeek(qu, l) PROVE Punctual'
  <2>1. PICK r : \/ Blocks(qu, l.wait, l)
                 \/ Call(WakeAndYield(k, ToReceive(qu)), qu, r, "run", l)
    BY <1>6, Zenon DEF TryPeek
  <2> QED BY <1>1, <2>1, BlocksIsPunctual, DoneIsPunctual
<1>7. ASSUME TryLock(qu, l) PROVE Punctual'
  <2>1. PICK r : \/ Blocks(qu, l.wait, l)
                 \/ Call(WakeAndYield([k EXCEPT !.held[k.cur] = @ + 1], ToSend(qu)), qu,
                         r, "run", l)
    BY <1>7, Zenon DEF TryLock
  <2> QED BY <1>3, <2>1, BlocksIsPunctual, DoneIsPunctual
<1> QED BY <1>4, <1>5, <1>6, <1>7

\* A call that begins on a queue.
LEMMA QueueCallWaits ==
  ASSUME NEW n \in Time, NEW op, NEW obj, NEW x, NEW w
  PROVE  /\ SoundWait([NoCall EXCEPT !.op = op, !.obj = obj, !.item = x, !.where = w,
                                     !.wait = n])
         /\ SoundWait([NoCall EXCEPT !.op = op, !.obj = obj, !.item = x, !.where = w])
         /\ SoundWait([NoCall EXCEPT !.op = op, !.obj = obj, !.wait = n])
         /\ SoundWait([NoCall EXCEPT !.op = op, !.obj = obj])
  BY TimeIsNat DEF SoundWait, NoCall, Inside

LEMMA CallsArePunctual ==
  ASSUME Punctual, SelectsATask,
         StartSend \/ StartOverwrite \/ StartReceive \/ StartPeek \/ StartLock
         \/ StartUnlock \/ Reset
  PROVE  Punctual'
<1>1. pc[k.cur] \notin Inside
  BY DEF StartSend, StartOverwrite, StartReceive, StartPeek, StartLock, StartUnlock,
         Reset, Calls, At, Inside
<1>2. 0 \in Time /\ scenario.waits[k.cur] \subseteq Time
  BY TimeIsNat, ScenarioAssumption DEF Punctual, SelectsATask
<1>3. ASSUME StartSend PROVE Punctual'
  <2>1. PICK qu, x, n, w :
          /\ n \in scenario.waits[k.cur]
          /\ TrySend(qu, [NoCall EXCEPT !.op = "send", !.obj = qu, !.item = x,
                                        !.where = w, !.wait = n])
    BY <1>3, Zenon DEF StartSend
  <2> QED BY <1>1, <1>2, <2>1, QueueCallWaits, TriesArePunctual
<1>4. ASSUME StartOverwrite PROVE Punctual'
  <2>1. PICK qu, x :
          TrySend(qu, [NoCall EXCEPT !.op = "send", !.obj = qu, !.item = x, !.where = "over"])
    BY <1>4, Zenon DEF StartOverwrite
  <2> QED BY <1>1, <1>2, <2>1, QueueCallWaits, TriesArePunctual
<1>5. ASSUME StartReceive PROVE Punctual'
  <2>1. PICK qu, n :
          /\ n \in scenario.waits[k.cur]
          /\ TryReceive(qu, [NoCall EXCEPT !.op = "receive", !.obj = qu, !.wait = n])
    BY <1>5, Zenon DEF StartReceive
  <2> QED BY <1>1, <1>2, <2>1, QueueCallWaits, TriesArePunctual
<1>6. ASSUME StartPeek PROVE Punctual'
  <2>1. PICK qu, n :
          /\ n \in scenario.waits[k.cur]
          /\ TryPeek(qu, [NoCall EXCEPT !.op = "peek", !.obj = qu, !.wait = n])
    BY <1>6, Zenon DEF StartPeek
  <2> QED BY <1>1, <1>2, <2>1, QueueCallWaits, TriesArePunctual
<1>7. ASSUME StartLock PROVE Punctual'
  <2>1. PICK qu, n :
          /\ n \in scenario.waits[k.cur]
          /\ TryLock(qu, [NoCall EXCEPT !.op = "lock", !.obj = qu, !.wait = n])
    BY <1>7, Zenon DEF StartLock
  <2> QED BY <1>1, <1>2, <2>1, QueueCallWaits, TriesArePunctual
<1>8. ASSUME StartUnlock PROVE Punctual'
  <2>1. PICK qu : TrySend(qu, [NoCall EXCEPT !.op = "send", !.obj = qu])
    BY <1>8, Zenon DEF StartUnlock
  <2> QED BY <1>1, <1>2, <2>1, QueueCallWaits, TriesArePunctual
<1>9. ASSUME Reset PROVE Punctual'
  <2>1. PICK qu : Call(WakeAndYield(k, ToSend(qu)), qu, NewQueue(qu), "run", NoCall)
    BY <1>9, Zenon DEF Reset
  <2> QED BY <1>1, <2>1, HereIsPunctual, WakesAreKept, DoneIsPunctual
<1> QED BY <1>3, <1>4, <1>5, <1>6, <1>7, <1>8, <1>9

LEMMA TryAgainIsPunctual ==
  ASSUME Punctual, SelectsATask, TryAgain PROVE Punctual'
<1>1. pc[k.cur] \notin Inside /\ SoundWait(Here)
  BY HereIsPunctual DEF TryAgain, At, Inside
<1>2. \/ TrySend(Here.obj, Here) \/ TryReceive(Here.obj, Here)
      \/ TryPeek(Here.obj, Here) \/ TryLock(Here.obj, Here)
  BY DEF TryAgain
<1> QED BY <1>1, <1>2, TriesArePunctual

\* The loop of a call that waits.
LEMMA LockingIsPunctual ==
  ASSUME Punctual, SelectsATask, Suspend \/ LockQueue \/ Look \/ Late
  PROVE  Punctual'
<1>1. SoundWait(Here) /\ Kept(k, k)
  BY HereIsPunctual
<1>2. CASE Suspend
  <2>1. Goto(SuspendAll(k), "lock", Here) /\ pc[k.cur] = "suspend"
    BY <1>2 DEF Suspend, At
  <2> QED BY <1>1, <2>1, SuspendIsPunctual DEF Inside, Waiting
<1>3. CASE LockQueue
  <2>1. Goto(k, "check", Here) /\ pc[k.cur] = "lock"
    BY <1>3 DEF LockQueue, Call, At
  <2> QED BY <1>1, <2>1, KeptIsPunctual DEF Inside, Waiting
<1>4. CASE Look
  <2>1. PICK p \in {"unlockTx", "inherit", "place"} : Goto(k, p, Here)
    BY <1>4 DEF Look
  <2>2. pc[k.cur] = "look" /\ Here.wait \in 1 .. MaxDelay
    BY <1>4, HereIsPunctual DEF Look, At, Waiting
  <2> QED BY <1>1, <2>1, <2>2, KeptIsPunctual DEF Inside, Waiting
<1>5. CASE Late
  <2>1. PICK p \in {"try", "disinherit", "run"} : Goto(k, p, Here)
    BY <1>5 DEF Late
  <2>2. pc[k.cur] = "late"
    BY <1>5 DEF Late, At
  <2> QED BY <1>1, <2>1, <2>2, KeptIsPunctual DEF Inside, Waiting
<1> QED BY <1>2, <1>3, <1>4, <1>5

\* xTaskCheckForTimeOut leaves a wait that is not over a tick to run.
LEMMA LeftToWait ==
  ASSUME NEW s, Sleepers(s), NEW t \in Task, NEW wait \in Time
  PROVE  /\ TicksLeft(s, t, wait) \in Time
         /\ ~TimedOut(s, t, wait) => TicksLeft(s, t, wait) \in 1 .. MaxDelay
         /\ Kept(CheckForTimeOut(s, t, wait), s)
<1>1. PICK x \in Time : x = Elapsed(s, t)
  <2>1. s.tick \in Int /\ s.entered[t] \in Int /\ TickMod \in Nat \ {0}
    <3>1. s.tick \in Time /\ s.entered[t] \in Time
      BY DEF Sleepers, Asleep
    <3> QED BY <3>1, KernelAssumption DEF Time
  <2>2. s.tick - s.entered[t] \in Int
    BY <2>1
  <2> QED BY <2>1, <2>2, Remainder DEF Elapsed, Time
<1>2. TicksLeft(s, t, wait) \in Time
  BY <1>1, KernelAssumption DEF TicksLeft, TimedOut, Time, MaxDelay
<1>3. ASSUME ~TimedOut(s, t, wait) PROVE TicksLeft(s, t, wait) \in 1 .. MaxDelay
  BY <1>1, <1>3, KernelAssumption DEF TicksLeft, TimedOut, Time, MaxDelay
<1>4. PICK a : a = [s EXCEPT !.aborted = @ \ {t}] /\ Still(a, s)
  BY SleepersHaveTimes, ListsAreStill
<1>5. PICK b : b = InternalSetTimeOutState(s, t) /\ Kept(b, s)
  BY ForgetIsKept
<1>6. CheckForTimeOut(s, t, wait) \in {a, b, s}
  BY <1>4, <1>5 DEF CheckForTimeOut
<1>7. Kept(a, s) /\ Kept(s, s)
  BY <1>4, StillIsKept, StillStays
<1> QED BY <1>2, <1>3, <1>5, <1>6, <1>7

LEMMA CheckIsPunctual ==
  ASSUME Punctual, SelectsATask, Check PROVE Punctual'
<1> DEFINE late == TimedOut(k, k.cur, Here.wait)
           x    == TicksLeft(k, k.cur, Here.wait)
           nx   == CASE ~late -> "try"
                     [] late /\ Here.op = "send" -> "run"
                     [] OTHER -> "late"
           s    == CheckForTimeOut(k, k.cur, Here.wait)
<1>1. k.cur \in Task /\ Sleepers(k) /\ SoundWait(Here) /\ Here.wait \in Time
  BY HereIsPunctual DEF SoundWait
<1>2. x \in Time /\ (~late => x \in 1 .. MaxDelay) /\ Kept(s, k)
  BY <1>1, LeftToWait
<1>3. nx \in {"try", "run", "late"}
  OBVIOUS
<1>4. Goto(s, IF late THEN "unlockTx" ELSE "look",
           [Here EXCEPT !.wait = x, !.block = FALSE, !.next = nx])
  BY DEF Check
<1>5. pc[k.cur] = "check"
  BY DEF Check, At
<1> HIDE DEF x, nx, s
<1>6. PICK l : l = [Here EXCEPT !.wait = x, !.block = FALSE, !.next = nx]
  OBVIOUS
<1>7. {"wait", "next"} \subseteq DOMAIN l /\ l.wait = x /\ l.next = nx
  BY <1>1, <1>6 DEF SoundWait
<1>8. SoundWait(l)
  BY <1>2, <1>3, <1>7 DEF SoundWait, Inside
<1>9. PICK p \in {"unlockTx", "look"} : (p = "look" => ~late) /\ Goto(s, p, l)
  BY <1>4, <1>6
<1> HIDE DEF late
<1>10. p \in Waiting => l.wait \in 1 .. MaxDelay
  BY <1>2, <1>7, <1>9 DEF Waiting
<1> QED BY <1>2, <1>5, <1>8, <1>9, <1>10, KeptIsPunctual DEF Inside

LEMMA PlacingIsPunctual ==
  ASSUME Punctual, SelectsATask, Inherit \/ Place
  PROVE  Punctual'
<1>1. /\ SoundWait(Here) /\ Sleepers(k) /\ HasTimes(k) /\ k.cur \in Task
      /\ Here.wait \in 1 .. MaxDelay
  BY HereIsPunctual DEF Inherit, Place, At, Waiting
<1>2. CASE Inherit
  <2>1. PICK a : a = PriorityInherit(k, q[Here.obj].holder) /\ Still(a, k)
    BY <1>1, PrioritiesAreStill
  <2>2. PICK l : l = [Here EXCEPT !.inherited = Inherits(k, q[Here.obj].holder)]
    OBVIOUS
  <2>3. SoundWait(l) /\ l.wait = Here.wait
    BY <1>1, <2>2 DEF SoundWait, Inside
  <2>4. Goto(a, "place", l) /\ pc[k.cur] = "inherit" /\ Kept(a, k)
    BY <1>1, <1>2, <2>1, <2>2, StillIsKept DEF Inherit, At
  <2> QED BY <1>1, <2>3, <2>4, KeptIsPunctual DEF Inside, Waiting
<1>3. CASE Place
  <2>1. PICK a : a = PlaceOnEventList(k, WaitList(Here), Here.wait) /\ Kept(a, k)
    BY <1>1, PlaceIsKept
  <2>2. PICK l : l = [Here EXCEPT !.block = TRUE]
    OBVIOUS
  <2>3. SoundWait(l)
    BY <1>1, <2>2 DEF SoundWait, Inside
  <2>4. Goto(a, "unlockTx", l) /\ pc[k.cur] = "place"
    BY <1>3, <2>1, <2>2 DEF Place, At
  <2> QED BY <2>1, <2>3, <2>4, KeptIsPunctual DEF Inside, Waiting
<1> QED BY <1>2, <1>3

LEMMA UnlockingIsPunctual ==
  ASSUME Punctual, SelectsATask, UnlockTx \/ UnlockRx \/ Disinherit
  PROVE  Punctual'
<1>1. SoundWait(Here) /\ Sleepers(k) /\ HasTimes(k) /\ Kept(k, k)
  BY HereIsPunctual
<1>2. CASE UnlockTx
  <2>1. PICK a : /\ a = WakeCounted(k, ToReceive(Here.obj), q[Here.obj].tx) /\ Kept(a, k)
    BY <1>1, WakeCountedIsKept
  <2>2. Goto(a, "unlockRx", Here) /\ pc[k.cur] = "unlockTx"
    BY <1>2, <2>1, Zenon DEF UnlockTx, Call, At
  <2> QED BY <1>1, <2>1, <2>2, KeptIsPunctual DEF Inside, Waiting
<1>3. CASE UnlockRx
  <2>1. PICK a : /\ a = WakeCounted(k, ToSend(Here.obj), q[Here.obj].rx) /\ Kept(a, k)
    BY <1>1, WakeCountedIsKept
  <2>2. Goto(a, "resume", Here) /\ pc[k.cur] = "unlockRx"
    BY <1>3, <2>1, Zenon DEF UnlockRx, Call, At
  <2> QED BY <1>1, <2>1, <2>2, KeptIsPunctual DEF Inside, Waiting
<1>4. CASE Disinherit
  <2>1. PICK a : /\ a = PriorityDisinheritAfterTimeout(k, q[Here.obj].holder,
                          HighestWaiting(k, Here.obj))
                 /\ Still(a, k)
    BY <1>1, PrioritiesAreStill
  <2>2. Kept(a, k)
    BY <1>1, <2>1, StillIsKept
  <2>3. PICK s \in {k, a} : Goto(s, "run", Here)
    BY <1>4, <2>1 DEF Disinherit
  <2>4. pc[k.cur] = "disinherit"
    BY <1>4 DEF Disinherit, At
  <2> QED BY <1>1, <2>2, <2>3, <2>4, KeptIsPunctual DEF Inside, Waiting
<1> QED BY <1>2, <1>3, <1>4

-----------------------------------------------------------------------------
LEMMA InitIsPunctual == ASSUME Init PROVE Punctual
<1> DEFINE s == StartedKernel(scenario.base, scenario.stopped)
<1>1. scenario \in Scenarios /\ k = s
  BY DEF Init, TasksInit
<1>2. /\ s.wake = [t \in Task |-> 0] /\ s.entered = [t \in Task |-> 0] /\ s.tick = 0
      /\ s.next = MaxDelay /\ s.pended = 0 /\ s.susp = 0 /\ s.delayed = <<>>
      /\ s.overflow = <<>> /\ Times \cup {"cur"} \subseteq DOMAIN s
  BY Zenon DEF StartedKernel, Times
<1> HIDE DEF s
<1>3. ToSet(<<>>) = {} /\ <<>> \in Seq(Task)
  BY DEF ToSet
<1>4. \A w : Ord(<<>>, w)
  BY DEF Ord
<1>5. Asleep(s)
  BY <1>2, <1>3, <1>4, TimeIsNat DEF Asleep
<1>6. InTime(s)
  BY <1>2, <1>3, TimeIsNat DEF InTime
<1>7. \A t \in Task : pc[t] = "run" /\ loc[t] = NoCall
  BY DEF Init, TasksInit
<1>8. DOMAIN pc = Task /\ DOMAIN loc = Task
  BY DEF Init, TasksInit
<1>9. Suspension
  BY <1>1, <1>2, <1>7 DEF Suspension, Inside
<1>10. Waits
  BY <1>7, <1>8, NoCallIsSoundWait DEF Waits, Waiting
<1> QED BY <1>1, <1>5, <1>6, <1>9, <1>10 DEF Punctual, Sleepers

LEMMA TaskStepIsPunctual ==
  ASSUME Punctual, SelectsATask, ~SleepsIntoWrap, TaskStep PROVE Punctual'
  BY ResumingIsPunctual, YieldIsPunctual, StartDelayIsPunctual, DelayIsPunctual,
     NotifyTakeIsPunctual, NotifyTakenIsPunctual, NotifyGiveIsPunctual,
     TaskSuspendIsPunctual, TaskSuspendedIsPunctual, TaskResumeIsPunctual,
     TaskPrioritySetIsPunctual, StartAbortDelayIsPunctual, AbortDelayIsPunctual,
     AbortedDelayIsPunctual, IdleTaskIsPunctual, IdleSuspendedIsPunctual,
     SleepIsPunctual
  DEF TaskStep

LEMMA QueueStepIsPunctual ==
  ASSUME Punctual, SelectsATask, QueueStep PROVE Punctual'
  BY CallsArePunctual, TryAgainIsPunctual, LockingIsPunctual, CheckIsPunctual,
     PlacingIsPunctual, UnlockingIsPunctual
  DEF QueueStep

LEMMA NextIsPunctual ==
  ASSUME Punctual, SelectsATask, ~SleepsIntoWrap, [Next]_vars PROVE Punctual'
<1>1. CASE TaskStep
  BY <1>1, TaskStepIsPunctual
<1>2. CASE HandlerStep
  BY <1>2, TickIsPunctual, NotifyFromISRIsPunctual, ResumeFromISRIsPunctual DEF HandlerStep
<1>3. CASE QueueStep
  BY <1>3, QueueStepIsPunctual
<1>4. CASE QueueHandlerStep
  BY <1>4, SendFromISRIsPunctual, ReceiveFromISRIsPunctual DEF QueueHandlerStep
<1>5. CASE UNCHANGED vars
  <2>1. Handler(k)
    BY <1>5 DEF vars, Handler
  <2>2. Still(k, k)
    BY StillStays DEF Punctual
  <2> QED BY <2>1, <2>2, StillIsPunctual
<1> QED BY <1>1, <1>2, <1>3, <1>4, <1>5 DEF Next

LEMMA PunctualWakes ==
  ASSUME Punctual
  PROVE  NobodyOverslept /\ SortedBy(k.delayed, k.wake) /\ SortedBy(k.overflow, k.wake)
         /\ (k.delayed # <<>> => k.next <= k.wake[Head(k.delayed)])
<1>1. Asleep(k) /\ Ahead(k) /\ InTime(k)
  BY InTimeIsAhead DEF Punctual, Sleepers
<1>2. /\ k.tick \in Int /\ \A t \in Task : k.wake[t] \in Int
  BY <1>1, TimeIsNat DEF Asleep
<1>3. /\ \A t \in ToSet(k.delayed) : t \in Task
      /\ \A t \in ToSet(k.overflow) : t \in Task
  BY <1>1, ListMembers DEF Asleep
<1>4. NobodyOverslept
  BY <1>1, <1>2, <1>3 DEF NobodyOverslept, Ahead, Asleep
<1>5. SortedBy(k.delayed, k.wake) /\ SortedBy(k.overflow, k.wake)
  BY <1>1 DEF Asleep, Ord, SortedBy
<1>6. k.delayed # <<>> => k.next <= k.wake[Head(k.delayed)]
  BY <1>1, FirstWakesFirst DEF InTime
<1> QED BY <1>4, <1>5, <1>6

\* The delayed lists are in the order of the wake times, and the tick looks
\* at them in time: xNextTaskUnblockTime is not later than the first of them
\* (vListInsert, prvAddCurrentTaskToDelayedList, prvResetNextTaskUnblockTime).
DelayedInOrder ==
  /\ SortedBy(k.delayed, k.wake) /\ SortedBy(k.overflow, k.wake)
  /\ k.delayed # <<>> => k.next <= k.wake[Head(k.delayed)]

\* No task of any system sleeps past its time (xTaskIncrementTick,
\* xTaskResumeAll and vTaskStepTick), however the tick count wraps, as long
\* as the kernel has a task to run and a sleep without ticks does not end on
\* the last tick before the wrap with tasks still delayed.
THEOREM NobodyOversleeps ==
  ASSUME ~SleepsIntoWrap
  PROVE  Spec /\ []SelectsATask => []NobodyOverslept
<1>1. Init => Punctual
  BY InitIsPunctual
<1>2. Punctual /\ SelectsATask /\ [Next]_vars => Punctual'
  BY NextIsPunctual
<1>3. Punctual => NobodyOverslept
  BY PunctualWakes
<1> QED BY <1>1, <1>2, <1>3, PTL DEF Spec

\* The delayed lists stay in order under the same conditions.
THEOREM TheDelayedAreInOrder ==
  ASSUME ~SleepsIntoWrap
  PROVE  Spec /\ []SelectsATask => []DelayedInOrder
<1>1. Init => Punctual
  BY InitIsPunctual
<1>2. Punctual /\ SelectsATask /\ [Next]_vars => Punctual'
  BY NextIsPunctual
<1>3. Punctual => DelayedInOrder
  BY PunctualWakes DEF DelayedInOrder
<1> QED BY <1>1, <1>2, <1>3, PTL DEF Spec

-----------------------------------------------------------------------------
(* Where the tasks are.                                                     *)

Others == Task \ {Idle}

Once(l) == \A i, j \in 1 .. Len(l) : i < j => l[i] # l[j]

\* A ready list: tasks and the end marker.
Circle(l) == l \in Seq(Task \cup {End}) /\ Once(l) /\ End \in ToSet(l)

Where == {"ready", "delayed", "overflow", "suspended", "top", "prio"}
Else  == {"events", "base", "item", "held", "yield", "pended", "cur", "susp"}

\* The lists are lists of tasks, none of them twice; a ready list has its end
\* marker, and its tasks have its priority.
Lists(s) ==
  /\ Where \subseteq DOMAIN s
  /\ DOMAIN s.ready = Prio /\ \A p \in Prio : Circle(s.ready[p])
  /\ s.delayed \in Seq(Task) /\ Once(s.delayed)
  /\ s.overflow \in Seq(Task) /\ Once(s.overflow)
  /\ s.suspended \subseteq Task /\ s.top \subseteq Prio /\ s.prio \in [Task -> Prio]
  /\ \A t \in Task, p \in Prio : t \in ToSet(s.ready[p]) => p = s.prio[t]

IsReady(s, t) == t \in ToSet(s.ready[s.prio[t]])

NoHome(s, t) ==
  /\ ~IsReady(s, t) /\ t \notin ToSet(s.delayed) /\ t \notin ToSet(s.overflow)
  /\ t \notin s.suspended

OneHome(s, t) ==
  \/ /\ IsReady(s, t) /\ t \notin ToSet(s.delayed) /\ t \notin ToSet(s.overflow)
     /\ t \notin s.suspended
  \/ /\ ~IsReady(s, t) /\ t \in ToSet(s.delayed) /\ t \notin ToSet(s.overflow)
     /\ t \notin s.suspended
  \/ /\ ~IsReady(s, t) /\ t \notin ToSet(s.delayed) /\ t \in ToSet(s.overflow)
     /\ t \notin s.suspended
  \/ /\ ~IsReady(s, t) /\ t \notin ToSet(s.delayed) /\ t \notin ToSet(s.overflow)
     /\ t \in s.suspended

Homes(s, H) == \A t \in Task : IF t \in H THEN NoHome(s, t) ELSE OneHome(s, t)

\* The bitmap misses no list with a task, and has no other, X aside.
Bits(s, X) == \A p \in Prio : /\ s.ready[p] # <<End>> => p \in s.top
                              /\ p \in s.top \ X => s.ready[p] # <<End>>

Tidy(s, H, X) == Lists(s) /\ Homes(s, H) /\ Bits(s, X) /\ IsReady(s, Idle)

Fit(s) ==
  /\ Else \subseteq DOMAIN s
  /\ s.events \in [EventList -> Seq(Others)]
  /\ s.base \in [Task -> Prio] /\ s.item \in [Task -> Prio]
  /\ s.yield \in BOOLEAN /\ s.pended \in 0 .. PendBound /\ s.cur \in Task

InPlace(s, H) == Tidy(s, H, {}) /\ Fit(s)

Onward(a, s, H) == InPlace(a, H) /\ a.held = s.held /\ a.susp = s.susp

-----------------------------------------------------------------------------
(* The calls, the mutexes and the counts of the locks.                      *)

Loop == {"try", "suspend", "lock", "check", "look", "inherit", "place", "unlockTx",
         "unlockRx", "late", "disinherit"}

QueueCall(l) ==
  \/ l.op = "lock" /\ l.obj \in Mutex
  \/ l.op \in {"send", "receive", "peek"} /\ l.obj \in Queue \ Mutex

SoundPlace(t, p, l) ==
  /\ DOMAIN NoCall \subseteq DOMAIN l
  /\ QueueCall(l) \/ (p \notin Loop /\ l.next = "run")
  /\ p \in {"abort", "aborted"} => l.obj \in Others
  /\ t = Idle => p \in {"run", "idle", "sleep", "resume"} /\ ~l.block /\ l.next = "run"

SoundPlaces ==
  /\ DOMAIN pc = Task /\ DOMAIN loc = Task
  /\ \A t \in Task : SoundPlace(t, pc[t], loc[t])

\* A mutex is taken while a task raises its holder.
Inheriting == \A t \in Task : pc[t] = "inherit" => loc[t].obj \in Mutex /\ q[loc[t].obj].n = 0

\* A mutex is free or somebody's, and the tasks count (h) those of r they hold.
HeldBy(r, t) == {qu \in Mutex : r[qu].holder = t}

Owned(h, r) ==
  /\ \A qu \in Mutex : \/ r[qu].n = 0 /\ r[qu].holder \in Task
                       \/ r[qu].n = 1 /\ r[qu].holder = Nobody
  /\ \A qu \in Queue \ Mutex : r[qu].holder = Nobody
  /\ h \in [Task -> Nat]
  /\ \A t \in Task : h[t] = Cardinality(HeldBy(r, t))

Locks == Unlocked .. LockBound

Counted(r) ==
  /\ DOMAIN r = Queue
  /\ \A qu \in Queue : /\ {"n", "tx", "rx", "holder"} \subseteq DOMAIN r[qu]
                       /\ r[qu].tx \in Locks /\ r[qu].rx \in Locks

Orderly ==
  /\ InPlace(k, InHand) /\ SoundPlaces /\ Inheriting
  /\ Owned(k.held, q) /\ Counted(q)

\* When a wait for a mutex runs out and its holder gets a lower priority, the
\* ready list that vTaskPriorityDisinheritAfterTimeout takes it from keeps a
\* task: of a list it leaves empty the bit would stay set (tasks.c:4299).
HolderHasCompany ==
  At("disinherit") =>
    LET h == q[Here.obj].holder
        s == PriorityDisinheritAfterTimeout(k, h, HighestWaiting(k, Here.obj))
    IN  h # Nobody /\ IsReady(k, h) /\ s.prio[h] # k.prio[h] =>
          s.ready[k.prio[h]] # <<End>>

LEMMA OnceIsOrd ==
  ASSUME NEW T, NEW l \in Seq(T)
  PROVE  Once(l) <=> Ord(l, [x \in ToSet(l) |-> 0])
<1>1. \A i \in 1 .. Len(l) : l[i] \in ToSet(l)
  BY ListMembers
<1>2. \A i \in 1 .. Len(l) : [x \in ToSet(l) |-> 0][l[i]] = 0
  BY <1>1
<1> QED BY <1>2 DEF Once, Ord

LEMMA OrdIsOnce ==
  ASSUME NEW l, NEW v, Ord(l, v) PROVE Once(l)
  BY DEF Ord, Once

LEMMA TakenOut ==
  ASSUME NEW T, NEW l \in Seq(T), Once(l), NEW t
  PROVE  /\ RemoveFirst(l, t) \in Seq(T) /\ Once(RemoveFirst(l, t))
         /\ ToSet(RemoveFirst(l, t)) = ToSet(l) \ {t}
         /\ t \notin ToSet(l) => RemoveFirst(l, t) = l
<1>1. PICK v : v = [x \in ToSet(l) |-> 0]
  OBVIOUS
<1>2. Ord(l, v)
  BY <1>1, OnceIsOrd
<1>3. /\ RemoveFirst(l, t) \in Seq(T) /\ ToSet(RemoveFirst(l, t)) = ToSet(l) \ {t}
      /\ Ord(RemoveFirst(l, t), v)
      /\ t \notin ToSet(l) => RemoveFirst(l, t) = l
  BY <1>2, Removal, Zenon
<1> QED BY <1>3, OrdIsOnce

\* Also of a list with a task in it twice.
LEMMA RemovedIsTyped ==
  ASSUME NEW T, NEW l \in Seq(T), NEW t
  PROVE  RemoveFirst(l, t) \in Seq(T)
<1> DEFINE I == {i \in 1 .. Len(l) : l[i] = t}
<1>1. Len(l) \in Nat
  BY ListMembers
<1>2. CASE ~ \E i \in 1 .. Len(l) : l[i] = t
  BY <1>2 DEF RemoveFirst
<1>3. CASE \E i \in 1 .. Len(l) : l[i] = t
  <2>1. I \in SUBSET Nat /\ I # {}
    BY <1>3, <1>1
  <2>2. Min(I) \in I
    BY <2>1, MinIsLeast
  <2>3. SelectInSeq(l, LAMBDA u : u = t) = Min(I)
    BY <2>1 DEF SelectInSeq
  <2>4. PICK p \in 1 .. Len(l) : p = Min(I)
    BY <2>2
  <2>5. RemoveFirst(l, t) = RemoveAt(l, p)
    BY <2>3, <2>4, <1>3 DEF RemoveFirst
  <2> HIDE DEF I
  <2> QED BY <2>5, RemovedAt
<1> QED BY <1>2, <1>3

LEMMA Inserted ==
  ASSUME NEW T, NEW l \in Seq(T), NEW p \in 1 .. Len(l) + 1, NEW t \in T
  PROVE  /\ InsertAt(l, p, t) \in Seq(T) /\ ToSet(InsertAt(l, p, t)) = ToSet(l) \cup {t}
         /\ Once(l) /\ t \notin ToSet(l) => Once(InsertAt(l, p, t))
<1>1. PICK m \in Seq(T) :
        /\ m = InsertAt(l, p, t) /\ Len(m) = Len(l) + 1
        /\ \A i \in 1 .. Len(l) + 1 :
             m[i] = IF i < p THEN l[i] ELSE IF i = p THEN t ELSE l[i - 1]
  <2>1. /\ InsertAt(l, p, t) \in Seq(T) /\ Len(InsertAt(l, p, t)) = Len(l) + 1
        /\ \A i \in 1 .. Len(l) + 1 :
             InsertAt(l, p, t)[i] = IF i < p THEN l[i] ELSE IF i = p THEN t ELSE l[i - 1]
    BY InsertedAt
  <2> QED BY <2>1, Zenon
<1>2. Len(l) \in Nat /\ \A i \in 1 .. Len(l) : l[i] \in T /\ l[i] \in ToSet(l)
  BY ListMembers
<1>3. ASSUME NEW x \in ToSet(m) PROVE x \in ToSet(l) \cup {t}
  <2>1. PICK i \in 1 .. Len(l) + 1 : m[i] = x
    BY <1>1, ListMembers
  <2>2. i < p => i \in 1 .. Len(l)
    BY <1>2
  <2>3. i > p => i - 1 \in 1 .. Len(l)
    BY <1>2
  <2>4. i < p \/ i = p \/ i > p
    BY <1>2
  <2> QED BY <2>1, <2>2, <2>3, <2>4, <1>1, <1>2
<1>4. ASSUME NEW x \in ToSet(l) PROVE x \in ToSet(m)
  <2>1. PICK i \in 1 .. Len(l) : l[i] = x
    BY ListMembers
  <2>2. CASE i < p
    <3>1. i \in 1 .. Len(m) /\ m[i] = x
      BY <2>1, <2>2, <1>1, <1>2
    <3> QED BY <3>1, ListMembers
  <2>3. CASE i >= p
    <3>1. i + 1 \in 1 .. Len(m) /\ ~(i + 1 < p) /\ i + 1 # p /\ (i + 1) - 1 = i
      BY <2>3, <1>1, <1>2
    <3>2. m[i + 1] = x
      BY <3>1, <2>1, <1>1
    <3> QED BY <3>1, <3>2, ListMembers
  <2>4. i < p \/ i >= p
    BY <1>2
  <2> QED BY <2>2, <2>3, <2>4
<1>5. t \in ToSet(m)
  <2>1. p \in 1 .. Len(m) /\ m[p] = t
    BY <1>1, <1>2
  <2> QED BY <2>1, ListMembers
<1>6. ASSUME Once(l), t \notin ToSet(l) PROVE Once(m)
  <2> SUFFICES ASSUME NEW i \in 1 .. Len(m), NEW j \in 1 .. Len(m), i < j
               PROVE  m[i] # m[j]
    BY DEF Once
  <2>0. \A h \in 1 .. Len(l) : l[h] # t
    BY <1>2, <1>6
  <2>1. CASE j < p
    <3>1. i \in 1 .. Len(l) /\ j \in 1 .. Len(l) /\ m[i] = l[i] /\ m[j] = l[j]
      BY <2>1, <1>1, <1>2
    <3> QED BY <3>1, <1>6 DEF Once
  <2>2. CASE j = p
    <3>1. i \in 1 .. Len(l) /\ m[i] = l[i] /\ m[j] = t
      BY <2>2, <1>1, <1>2
    <3> QED BY <3>1, <2>0
  <2>3. CASE j > p /\ i < p
    <3>1. i \in 1 .. Len(l) /\ j - 1 \in 1 .. Len(l) /\ i < j - 1
          /\ m[i] = l[i] /\ m[j] = l[j - 1]
      BY <2>3, <1>1, <1>2
    <3> QED BY <3>1, <1>6 DEF Once
  <2>4. CASE j > p /\ i = p
    <3>1. j - 1 \in 1 .. Len(l) /\ m[i] = t /\ m[j] = l[j - 1]
      BY <2>4, <1>1, <1>2
    <3> QED BY <3>1, <2>0
  <2>5. CASE j > p /\ i > p
    <3>1. i - 1 \in 1 .. Len(l) /\ j - 1 \in 1 .. Len(l) /\ i - 1 < j - 1
          /\ m[i] = l[i - 1] /\ m[j] = l[j - 1]
      BY <2>5, <1>1, <1>2
    <3> QED BY <3>1, <1>6 DEF Once
  <2>6. j < p \/ j = p \/ (j > p /\ (i < p \/ i = p \/ i > p))
    BY <1>1, <1>2
  <2> QED BY <2>1, <2>2, <2>3, <2>4, <2>5, <2>6
<1> QED BY <1>1, <1>3, <1>4, <1>5, <1>6

LEMMA InsertedBefore ==
  ASSUME NEW T, NEW l \in Seq(T), NEW t \in T, NEW later
  PROVE  /\ InsertBefore(l, t, later) \in Seq(T)
         /\ ToSet(InsertBefore(l, t, later)) = ToSet(l) \cup {t}
         /\ Once(l) /\ t \notin ToSet(l) => Once(InsertBefore(l, t, later))
<1> DEFINE I == {i \in 1 .. Len(l) : l[i] \in later}
<1>1. Len(l) \in Nat
  BY ListMembers
<1>2. SelectInSeq(l, LAMBDA u : u \in later) = IF I # {} THEN Min(I) ELSE 0
  BY DEF SelectInSeq
<1>3. PICK p \in 1 .. Len(l) + 1 : InsertBefore(l, t, later) = InsertAt(l, p, t)
  <2>1. CASE I = {}
    <3>1. InsertBefore(l, t, later) = InsertAt(l, Len(l) + 1, t)
      BY <1>2, <2>1 DEF InsertBefore
    <3> QED BY <1>1, <3>1
  <2>2. CASE I # {}
    <3>1. I \in SUBSET Nat
      BY <1>1
    <3>2. Min(I) \in I
      BY <3>1, <2>2, MinIsLeast
    <3>3. PICK m \in 1 .. Len(l) : m = Min(I) /\ m # 0
      <4>1. \A i \in 1 .. Len(l) : i # 0
        BY <1>1
      <4> QED BY <3>2, <4>1
    <3>4. InsertBefore(l, t, later) = InsertAt(l, m, t)
      BY <1>2, <2>2, <3>3 DEF InsertBefore
    <3>5. m \in 1 .. Len(l) + 1
      BY <1>1
    <3> QED BY <3>4, <3>5
  <2> QED BY <2>1, <2>2
<1> HIDE DEF I
<1> QED BY <1>3, Inserted

LEMMA EmptyCircle ==
  ASSUME NEW l, Circle(l)
  PROVE  /\ Len(l) \in Nat /\ Len(l) # 0 /\ l # <<>>
         /\ l = <<End>> <=> ToSet(l) \cap Task = {}
<1>1. PICK T : T = Task \cup {End}
  OBVIOUS
<1>2. /\ Len(l) \in Nat /\ \A i \in 1 .. Len(l) : l[i] \in T /\ l[i] \in ToSet(l)
      /\ \A x \in ToSet(l) : x \in T /\ \E i \in 1 .. Len(l) : l[i] = x
  BY <1>1, ListMembers DEF Circle
<1>3. PICK e \in 1 .. Len(l) : l[e] = End
  BY <1>2 DEF Circle
<1>4. ASSUME l = <<End>> PROVE ToSet(l) \cap Task = {}
  <2>1. \A i \in 1 .. Len(l) : l[i] = End
    BY <1>4
  <2> QED BY <1>2, <2>1, KernelAssumption
<1>5. ASSUME ToSet(l) \cap Task = {} PROVE l = <<End>>
  <2>1. \A i \in 1 .. Len(l) : l[i] = End
    BY <1>1, <1>2, <1>5
  <2>2. ASSUME Len(l) > 1 PROVE FALSE
    <3>1. 1 \in 1 .. Len(l) /\ 2 \in 1 .. Len(l) /\ 1 < 2
      BY <1>2, <2>2
    <3>2. l[1] # l[2]
      BY <3>1 DEF Circle, Once
    <3> QED BY <2>1, <3>1, <3>2
  <2>3. Len(l) = 1
    <3>1. PICK n \in Nat : n = Len(l)
      BY <1>2
    <3>2. n > 0 /\ ~(n > 1)
      BY <1>3, <2>2, <3>1
    <3> QED BY <3>1, <3>2
  <2>4. l \in Seq(T) /\ <<End>> \in Seq(T)
    BY <1>1 DEF Circle
  <2>5. Len(<<End>>) = 1 /\ <<End>>[1] = End
    OBVIOUS
  <2> QED BY <2>1, <2>3, <2>4, <2>5, SeqEqual
<1>6. Len(l) # 0
  BY <1>2, <1>3
<1>7. l # <<>>
  BY <1>6
<1> QED BY <1>2, <1>4, <1>5, <1>6, <1>7

LEMMA CircleGrows ==
  ASSUME NEW l, Circle(l), NEW t \in Task, t \notin ToSet(l)
  PROVE  /\ Circle(InsertEnd(l, t)) /\ ToSet(InsertEnd(l, t)) = ToSet(l) \cup {t}
         /\ InsertEnd(l, t) # <<End>>
<1>1. PICK T : T = Task \cup {End}
  OBVIOUS
<1>2. Len(l) \in 1 .. Len(l) + 1 /\ l \in Seq(T) /\ t \in T /\ Once(l)
  BY <1>1, EmptyCircle DEF Circle
<1>3. PICK m : /\ m = InsertEnd(l, t) /\ m \in Seq(T) /\ ToSet(m) = ToSet(l) \cup {t}
               /\ Once(m)
  BY <1>2, Inserted DEF InsertEnd
<1>4. Circle(m)
  BY <1>1, <1>3 DEF Circle
<1> QED BY <1>3, <1>4, EmptyCircle

LEMMA CircleShrinks ==
  ASSUME NEW l, Circle(l), NEW t \in Task
  PROVE  /\ Circle(RemoveFirst(l, t)) /\ ToSet(RemoveFirst(l, t)) = ToSet(l) \ {t}
         /\ t \notin ToSet(l) => RemoveFirst(l, t) = l
         /\ RemoveFirst(l, t) # <<End>> => l # <<End>>
<1>1. PICK T : T = Task \cup {End}
  OBVIOUS
<1>2. l \in Seq(T) /\ Once(l) /\ End # t
  BY <1>1, KernelAssumption DEF Circle
<1>3. PICK m : /\ m = RemoveFirst(l, t) /\ m \in Seq(T) /\ ToSet(m) = ToSet(l) \ {t}
               /\ Once(m)
               /\ t \notin ToSet(l) => m = l
  BY <1>2, TakenOut
<1>4. Circle(m)
  BY <1>1, <1>2, <1>3 DEF Circle
<1> QED BY <1>3, <1>4, EmptyCircle

LEMMA CircleTurns ==
  ASSUME NEW l, Circle(l)
  PROVE  /\ Circle(Rotate(l)) /\ ToSet(Rotate(l)) = ToSet(l) /\ Last(Rotate(l)) = l[1]
         /\ Len(l) > 1 => Rotate(l)[1] = l[2]
<1>1. PICK T : T = Task \cup {End}
  OBVIOUS
<1>2. /\ Len(l) \in Nat /\ Len(l) # 0 /\ l # <<>> /\ l \in Seq(T) /\ Once(l)
      /\ \A i \in 1 .. Len(l) : l[i] \in T /\ l[i] \in ToSet(l)
      /\ \A x \in ToSet(l) : \E i \in 1 .. Len(l) : l[i] = x
  BY <1>1, EmptyCircle, ListMembers DEF Circle
<1>3. PICK n \in Nat : n = Len(l) /\ n >= 1
  BY <1>2
<1>4. /\ Tail(l) \in Seq(T) /\ Len(Tail(l)) = n - 1
      /\ \A i \in 1 .. n - 1 : Tail(l)[i] = l[i + 1]
  BY <1>2, <1>3, HeadTailProperties
<1>5. Head(l) = l[1] /\ l[1] \in T
  <2>1. 1 \in 1 .. Len(l)
    BY <1>3
  <2> QED BY <1>2, <2>1
<1>6. PICK r : /\ r = Append(Tail(l), l[1]) /\ r \in Seq(T) /\ Len(r) = n /\ r[n] = l[1]
               /\ \A i \in 1 .. n - 1 : r[i] = l[i + 1]
  <2>1. PICK m \in Seq(T) : m = Tail(l) /\ Len(m) = n - 1
                             /\ \A i \in 1 .. n - 1 : m[i] = l[i + 1]
    BY <1>4
  <2>2. PICK r : r = Append(m, l[1])
    OBVIOUS
  <2>3. /\ r \in Seq(T) /\ Len(r) = Len(m) + 1 /\ r[Len(m) + 1] = l[1]
        /\ \A i \in 1 .. Len(m) : r[i] = m[i]
    BY <1>5, <2>2, AppendProperties
  <2>4. Len(m) + 1 = n /\ Len(m) = n - 1
    BY <1>3, <2>1
  <2>5. /\ Len(r) = n /\ r[n] = l[1] /\ r \in Seq(T)
        /\ \A i \in 1 .. n - 1 : r[i] = l[i + 1]
    BY <2>1, <2>3, <2>4, Zenon
  <2>6. r = Append(Tail(l), l[1])
    BY <2>1, <2>2
  <2> QED BY <2>5, <2>6
<1>13. /\ \A x \in ToSet(r) : \E i \in 1 .. n : r[i] = x
       /\ \A i \in 1 .. n : r[i] \in ToSet(r)
  <2>1. /\ \A i \in 1 .. Len(r) : r[i] \in T /\ r[i] \in ToSet(r)
        /\ \A x \in ToSet(r) : x \in T /\ \E i \in 1 .. Len(r) : r[i] = x
    <3>1. r \in Seq(T)
      BY <1>6
    <3> QED BY <3>1, ListMembers
  <2> QED BY <1>6, <2>1
<1>7. Rotate(l) = r
  BY <1>5, <1>6 DEF Rotate
<1>8. ToSet(r) = ToSet(l)
  <2>1. ASSUME NEW x \in ToSet(r) PROVE x \in ToSet(l)
    <3>1. PICK i \in 1 .. n : r[i] = x
      BY <1>13
    <3>2. CASE i = n
      BY <3>1, <3>2, <1>2, <1>3, <1>6
    <3>3. CASE i # n
      <4>1. i \in 1 .. n - 1 /\ i + 1 \in 1 .. n
        BY <3>3
      <4> QED BY <4>1, <3>1, <1>2, <1>3, <1>6
    <3> QED BY <3>2, <3>3
  <2>2. ASSUME NEW x \in ToSet(l) PROVE x \in ToSet(r)
    <3>1. PICK i \in 1 .. n : l[i] = x
      BY <1>2, <1>3
    <3>2. CASE i = 1
      <4>1. n \in 1 .. n /\ r[n] = x
        BY <3>1, <3>2, <1>3, <1>6
      <4> QED BY <4>1, <1>13
    <3>3. CASE i # 1
      <4>1. i - 1 \in 1 .. n - 1 /\ (i - 1) + 1 = i /\ i - 1 \in 1 .. n
        BY <3>3
      <4>2. r[i - 1] = x
        BY <4>1, <3>1, <1>6
      <4> QED BY <4>1, <4>2, <1>13
    <3> QED BY <3>2, <3>3
  <2> QED BY <2>1, <2>2
<1>9. Once(r)
  <2> SUFFICES ASSUME NEW i \in 1 .. n, NEW j \in 1 .. n, i < j PROVE r[i] # r[j]
    BY <1>6 DEF Once
  <2>1. r[i] = l[i + 1] /\ i + 1 \in 1 .. n /\ i \in 1 .. n - 1
    BY <1>6
  <2>2. CASE j = n
    <3>1. r[j] = l[1] /\ 1 \in 1 .. n /\ 1 < i + 1
      BY <2>2, <1>6
    <3> QED BY <2>1, <3>1, <1>2, <1>3 DEF Once
  <2>3. CASE j # n
    <3>1. j \in 1 .. n - 1 /\ j + 1 \in 1 .. n /\ i + 1 < j + 1
      BY <2>3
    <3>2. r[j] = l[j + 1]
      BY <3>1, <1>6
    <3> QED BY <2>1, <3>1, <3>2, <1>2, <1>3 DEF Once
  <2> QED BY <2>2, <2>3
<1>10. Circle(r)
  BY <1>1, <1>6, <1>8, <1>9 DEF Circle
<1>11. Last(r) = l[1]
  BY <1>6 DEF Last
<1>12. n > 1 => r[1] = l[2]
  <2>1. n > 1 => 1 \in 1 .. n - 1 /\ 1 + 1 = 2
    OBVIOUS
  <2> QED BY <2>1, <1>6
<1> QED BY <1>3, <1>7, <1>8, <1>10, <1>11, <1>12

\* The list that is not empty has a task to select.
LEMMA AdvanceSelects ==
  ASSUME NEW l, Circle(l), l # <<End>>
  PROVE  /\ Circle(Advance(l)) /\ ToSet(Advance(l)) = ToSet(l) /\ Advance(l) # <<End>>
         /\ Last(Advance(l)) \in Task
<1>1. PICK T : T = Task \cup {End}
  OBVIOUS
<1>2. /\ Len(l) \in Nat /\ Len(l) # 0 /\ l \in Seq(T) /\ Once(l)
      /\ \A i \in 1 .. Len(l) : l[i] \in T /\ l[i] \in ToSet(l)
      /\ \A x \in ToSet(l) : \E i \in 1 .. Len(l) : l[i] = x
  BY <1>1, EmptyCircle, ListMembers DEF Circle
<1>3. Head(l) = l[1] /\ 1 \in 1 .. Len(l)
  BY <1>2
<1>4. PICK r : /\ r = Rotate(l) /\ Circle(r) /\ ToSet(r) = ToSet(l) /\ Last(r) = l[1]
               /\ Len(l) > 1 => r[1] = l[2]
  BY CircleTurns
<1>5. CASE Head(l) = End
  <2>1. PICK t \in Task : t \in ToSet(l)
    BY EmptyCircle
  <2>2. PICK i \in 1 .. Len(l) : l[i] = t
    BY <1>2, <2>1
  <2>3. i # 1
    BY <1>3, <1>5, <2>2, KernelAssumption
  <2>4. Len(l) > 1 /\ 2 \in 1 .. Len(l) /\ 1 < 2
    BY <1>2, <2>2, <2>3
  <2>5. l[2] # End /\ l[2] \in T
    BY <1>2, <1>3, <1>5, <2>4 DEF Once
  <2>6. PICK c : c = Rotate(r) /\ Circle(c) /\ ToSet(c) = ToSet(r) /\ Last(c) = r[1]
    BY <1>4, CircleTurns
  <2>7. Advance(l) = c
    BY <1>4, <1>5, <2>6 DEF Advance
  <2>8. Last(c) \in Task
    BY <1>1, <1>4, <2>4, <2>5, <2>6
  <2> QED BY <1>4, <2>6, <2>7, <2>8, EmptyCircle
<1>6. CASE Head(l) # End
  <2>1. Advance(l) = r
    BY <1>4, <1>6 DEF Advance
  <2>2. Last(r) \in Task
    BY <1>1, <1>2, <1>3, <1>4, <1>6
  <2> QED BY <1>4, <2>1, <2>2, EmptyCircle
<1> QED BY <1>5, <1>6

-----------------------------------------------------------------------------
(* What the functions of the kernel do to the lists.                        *)

LEMMA Apart ==
  /\ Where \cap Else = {} /\ Where \cap Times = {"delayed", "overflow"}
  BY DEF Where, Else, Times

LEMMA OtherFields ==
  ASSUME NEW s, NEW a, NEW H, NEW X, Tidy(s, H, X), Same(a, s, Where)
  PROVE  Tidy(a, H, X)
<1>1. /\ a.ready = s.ready /\ a.delayed = s.delayed /\ a.overflow = s.overflow
      /\ a.suspended = s.suspended /\ a.top = s.top /\ a.prio = s.prio
      /\ Where \subseteq DOMAIN a
  BY DEF Same, Where
<1>2. Lists(a)
  BY <1>1, Zenon DEF Tidy, Lists
<1>3. Homes(a, H) /\ Bits(a, X) /\ IsReady(a, Idle)
  BY <1>1, Zenon DEF Tidy, Homes, Bits, IsReady, NoHome, OneHome
<1> QED BY <1>2, <1>3 DEF Tidy

LEMMA FewerSlack ==
  ASSUME NEW s, NEW H, NEW X, NEW Y, Tidy(s, H, X), X \cap Prio \subseteq Y
  PROVE  Tidy(s, H, Y)
  BY DEF Tidy, Bits

\* listREMOVE_ITEM of a state item
LEMMA TaskLeaves ==
  ASSUME NEW s, NEW H, NEW X, Tidy(s, H, X), Else \subseteq DOMAIN s, NEW t \in Others
  PROVE  LET a == RemoveStateItem(s, t)
         IN  /\ Same(a, s, Else \cup {"prio", "top"})
             /\ Tidy(a, H \cup {t}, X \cup {s.prio[t]})
             /\ ~IsReady(s, t) => Tidy(a, H \cup {t}, X)
<1>1. PICK a : a = RemoveStateItem(s, t)
  OBVIOUS
<1>2. Same(a, s, Else \cup {"prio", "top"})
  BY <1>1 DEF RemoveStateItem, Same, Else, Tidy, Lists, Where
<1>3. /\ a.ready = [p \in Prio |-> RemoveFirst(s.ready[p], t)]
      /\ a.delayed = RemoveFirst(s.delayed, t) /\ a.overflow = RemoveFirst(s.overflow, t)
      /\ a.suspended = s.suspended \ {t} /\ a.top = s.top /\ a.prio = s.prio
      /\ Where \subseteq DOMAIN a
  BY <1>1 DEF RemoveStateItem, Tidy, Lists, Where
<1>4. t \in Task /\ t # Idle
  BY DEF Others
<1>5. \A p \in Prio : /\ Circle(a.ready[p]) /\ ToSet(a.ready[p]) = ToSet(s.ready[p]) \ {t}
                      /\ t \notin ToSet(s.ready[p]) => a.ready[p] = s.ready[p]
                      /\ a.ready[p] # <<End>> => s.ready[p] # <<End>>
  <2> SUFFICES ASSUME NEW p \in Prio
               PROVE  /\ Circle(a.ready[p]) /\ ToSet(a.ready[p]) = ToSet(s.ready[p]) \ {t}
                      /\ t \notin ToSet(s.ready[p]) => a.ready[p] = s.ready[p]
                      /\ a.ready[p] # <<End>> => s.ready[p] # <<End>>
    OBVIOUS
  <2>1. a.ready[p] = RemoveFirst(s.ready[p], t) /\ Circle(s.ready[p])
    BY <1>3 DEF Tidy, Lists
  <2>2. PICK l : l = s.ready[p]
    OBVIOUS
  <2>3. /\ Circle(RemoveFirst(l, t)) /\ ToSet(RemoveFirst(l, t)) = ToSet(l) \ {t}
        /\ t \notin ToSet(l) => RemoveFirst(l, t) = l
        /\ RemoveFirst(l, t) # <<End>> => l # <<End>>
    BY <1>4, <2>1, <2>2, CircleShrinks
  <2> QED BY <2>1, <2>2, <2>3
<1>6. /\ a.delayed \in Seq(Task) /\ Once(a.delayed) /\ ToSet(a.delayed) = ToSet(s.delayed) \ {t}
      /\ a.overflow \in Seq(Task) /\ Once(a.overflow)
      /\ ToSet(a.overflow) = ToSet(s.overflow) \ {t}
  BY <1>3, TakenOut DEF Tidy, Lists
<1>7. DOMAIN a.ready = Prio
  BY <1>3
<1>15. \A u \in Task, p \in Prio : u \in ToSet(s.ready[p]) => p = s.prio[u]
  BY DEF Tidy, Lists
<1>8. \A u \in Task, p \in Prio : u \in ToSet(a.ready[p]) => p = a.prio[u]
  BY <1>3, <1>5, <1>15
<1>9. Lists(a)
  BY <1>3, <1>5, <1>6, <1>7, <1>8 DEF Tidy, Lists
<1>10. \A u \in Task : IsReady(a, u) <=> IsReady(s, u) /\ u # t
  <2> SUFFICES ASSUME NEW u \in Task
               PROVE  IsReady(a, u) <=> IsReady(s, u) /\ u # t
    OBVIOUS
  <2>1. PICK p \in Prio : p = s.prio[u]
    BY DEF Tidy, Lists
  <2>2. a.prio[u] = p
    BY <1>3, <2>1
  <2>3. ToSet(a.ready[p]) = ToSet(s.ready[p]) \ {t}
    BY <1>5
  <2> QED BY <2>1, <2>2, <2>3 DEF IsReady
<1>11. Homes(a, H \cup {t})
  BY <1>3, <1>6, <1>10 DEF Tidy, Homes, NoHome, OneHome
<1>12. \A p \in Prio : t \in ToSet(s.ready[p]) => p = s.prio[t] /\ IsReady(s, t)
  BY <1>4 DEF Tidy, Lists, IsReady
<1>13. Bits(a, X \cup {s.prio[t]}) /\ (~IsReady(s, t) => Bits(a, X))
  BY <1>3, <1>5, <1>12 DEF Tidy, Bits
<1>14. IsReady(a, Idle)
  BY <1>4, <1>10, KernelAssumption DEF Tidy
<1> QED BY <1>1, <1>2, <1>9, <1>11, <1>13, <1>14 DEF Tidy

\* prvAddTaskToReadyList
LEMMA TaskComes ==
  ASSUME NEW s, NEW H, NEW X, Tidy(s, H, X), Else \subseteq DOMAIN s, NEW t \in Task, t \in H
  PROVE  LET a == AddToReadyList(s, t)
         IN  /\ Same(a, s, Else \cup {"prio"})
             /\ Tidy(a, H \ {t}, X \ {s.prio[t]})
<1>1. PICK a : a = AddToReadyList(s, t)
  OBVIOUS
<1>2. Same(a, s, Else \cup {"prio"})
  BY <1>1 DEF AddToReadyList, Same, Else, Tidy, Lists, Where
<1>3. PICK x \in Prio : x = s.prio[t]
  BY DEF Tidy, Lists
<1>4. /\ a.ready = [s.ready EXCEPT ![x] = InsertEnd(s.ready[x], t)]
      /\ a.delayed = s.delayed /\ a.overflow = s.overflow
      /\ a.suspended = s.suspended /\ a.top = s.top \cup {x} /\ a.prio = s.prio
      /\ Where \subseteq DOMAIN a
  BY <1>1, <1>3 DEF AddToReadyList, Tidy, Lists, Where
<1>5. ~IsReady(s, t) /\ t \notin ToSet(s.ready[x])
  BY <1>3 DEF Tidy, Homes, NoHome, IsReady
<1>6. /\ Circle(InsertEnd(s.ready[x], t))
      /\ ToSet(InsertEnd(s.ready[x], t)) = ToSet(s.ready[x]) \cup {t}
      /\ InsertEnd(s.ready[x], t) # <<End>>
  BY <1>5, CircleGrows DEF Tidy, Lists
<1>7. /\ DOMAIN a.ready = Prio /\ a.ready[x] = InsertEnd(s.ready[x], t)
      /\ \A p \in Prio : p # x => a.ready[p] = s.ready[p]
  BY <1>4 DEF Tidy, Lists
<1>8. \A p \in Prio : Circle(a.ready[p])
  BY <1>6, <1>7 DEF Tidy, Lists
<1>9. \A u \in Task, p \in Prio : u \in ToSet(a.ready[p]) => p = a.prio[u]
  BY <1>3, <1>4, <1>6, <1>7 DEF Tidy, Lists
<1>10. Lists(a)
  <2>1. a.top \subseteq Prio
    BY <1>4 DEF Tidy, Lists
  <2> QED BY <1>4, <1>7, <1>8, <1>9, <2>1 DEF Tidy, Lists
<1>11. \A u \in Task : IsReady(a, u) <=> IsReady(s, u) \/ u = t
  BY <1>3, <1>4, <1>6, <1>7 DEF Tidy, Lists, IsReady
<1>12. Homes(a, H \ {t})
  BY <1>4, <1>11 DEF Tidy, Homes, NoHome, OneHome
<1>13. Bits(a, X \ {x})
  BY <1>4, <1>6, <1>7 DEF Tidy, Bits
<1>14. IsReady(a, Idle)
  BY <1>11, KernelAssumption DEF Tidy
<1> QED BY <1>1, <1>2, <1>3, <1>10, <1>12, <1>13, <1>14 DEF Tidy

\* portRESET_READY_PRIORITY where the list is empty
LEMMA BitIsReset ==
  ASSUME NEW s, NEW H, NEW X, Tidy(s, H, X), Else \subseteq DOMAIN s, NEW p \in Prio
  PROVE  LET a == ResetReadyPriority(s, p)
         IN  Same(a, s, Else \cup {"prio"}) /\ Tidy(a, H, X \ {p})
<1>1. PICK a : a = ResetReadyPriority(s, p)
  OBVIOUS
<1>2. CASE s.ready[p] = <<End>>
  <2>1. a = [s EXCEPT !.top = @ \ {p}]
    BY <1>1, <1>2 DEF ResetReadyPriority
  <2>2. Same(a, s, Else \cup {"prio"})
    BY <2>1 DEF Same, Else, Tidy, Lists, Where
  <2>3. /\ a.ready = s.ready /\ a.delayed = s.delayed /\ a.overflow = s.overflow
        /\ a.suspended = s.suspended /\ a.top = s.top \ {p} /\ a.prio = s.prio
        /\ Where \subseteq DOMAIN a
    BY <2>1 DEF Tidy, Lists, Where
  <2>4. a.top \subseteq Prio
    BY <2>3 DEF Tidy, Lists
  <2>5. Lists(a)
    BY <2>3, <2>4, Zenon DEF Tidy, Lists
  <2>6. Homes(a, H) /\ IsReady(a, Idle)
    BY <2>3, Zenon DEF Tidy, Homes, IsReady, NoHome, OneHome
  <2>7. Bits(a, X \ {p})
    BY <2>3, <1>2 DEF Tidy, Bits
  <2> QED BY <1>1, <2>2, <2>5, <2>6, <2>7 DEF Tidy
<1>3. CASE s.ready[p] # <<End>>
  <2>1. a = s
    BY <1>1, <1>3 DEF ResetReadyPriority
  <2>2. Same(s, s, Else \cup {"prio"})
    BY DEF Same, Else, Tidy, Lists, Where
  <2>3. Tidy(s, H, X \ {p})
    BY <1>3 DEF Tidy, Bits
  <2> QED BY <1>1, <2>1, <2>2, <2>3
<1> QED BY <1>2, <1>3

LEMMA HighestExists ==
  ASSUME NEW T \in SUBSET Prio, T # {} PROVE Max(T) \in T /\ \A z \in T : Max(T) >= z
<1>1. PICK S : S = {n \in Nat : \E z \in T : n = MaxPriorities - z}
  OBVIOUS
<1>2. \A z \in T : z \in Int /\ MaxPriorities - z \in Nat
  BY KernelAssumption DEF Prio
<1>3. S \in SUBSET Nat /\ S # {}
  BY <1>1, <1>2
<1>4. PICK n \in S : \A m \in S : n <= m
  BY <1>3, LeastElement
<1>5. PICK y \in T : n = MaxPriorities - y
  BY <1>1
<1>6. ASSUME NEW z \in T PROVE y >= z
  <2>1. MaxPriorities - z \in S
    BY <1>1, <1>2
  <2>2. n <= MaxPriorities - z
    BY <1>4, <2>1
  <2> QED BY <1>2, <1>5, <2>2, KernelAssumption
<1>7. \E x \in T : \A z \in T : x >= z
  BY <1>6
<1> QED BY <1>7 DEF Max

\* taskSELECT_HIGHEST_PRIORITY_TASK: there is a task to select.
LEMMA SelectsOne ==
  ASSUME NEW s, NEW H, Tidy(s, H, {}), Else \subseteq DOMAIN s
  PROVE  LET a == SelectHighestPriorityTask(s)
         IN  Same(a, s, Else \ {"cur"}) /\ Tidy(a, H, {}) /\ "cur" \in DOMAIN a /\ a.cur \in Task
<1>1. PICK a : a = SelectHighestPriorityTask(s)
  OBVIOUS
<1>2. PICK x : x = Max(s.top)
  OBVIOUS
<1>3. x \in s.top /\ x \in Prio
  <2>1. PICK i \in Prio : i = s.prio[Idle]
    BY KernelAssumption DEF Tidy, Lists
  <2>2. s.ready[i] # <<End>>
    <3>1. Circle(s.ready[i]) /\ Idle \in ToSet(s.ready[i])
      BY <2>1 DEF Tidy, Lists, IsReady
    <3> QED BY <3>1, EmptyCircle, KernelAssumption
  <2>3. i \in s.top
    BY <2>2 DEF Tidy, Bits
  <2>4. s.top \subseteq Prio
    BY DEF Tidy, Lists
  <2> QED BY <1>2, <2>3, <2>4, HighestExists
<1>4. PICK l : l = Advance(s.ready[x])
  OBVIOUS
<1>5. /\ Circle(l) /\ ToSet(l) = ToSet(s.ready[x]) /\ l # <<End>> /\ Last(l) \in Task
      /\ s.ready[x] # <<End>>
  <2>1. Circle(s.ready[x]) /\ s.ready[x] # <<End>>
    BY <1>3 DEF Tidy, Lists, Bits
  <2> QED BY <1>4, <2>1, AdvanceSelects
<1>6. a = [s EXCEPT !.ready[x] = l, !.cur = Last(l)]
  BY <1>1, <1>2, <1>4 DEF SelectHighestPriorityTask
<1>7. Same(a, s, Else \ {"cur"}) /\ "cur" \in DOMAIN a /\ a.cur = Last(l)
  BY <1>6 DEF Same, Else, Tidy, Lists, Where
<1>8. /\ a.ready = [s.ready EXCEPT ![x] = l]
      /\ a.delayed = s.delayed /\ a.overflow = s.overflow
      /\ a.suspended = s.suspended /\ a.top = s.top /\ a.prio = s.prio
      /\ Where \subseteq DOMAIN a
  BY <1>6 DEF Tidy, Lists, Where
<1>9. /\ DOMAIN a.ready = Prio /\ a.ready[x] = l
      /\ \A p \in Prio : p # x => a.ready[p] = s.ready[p]
  BY <1>3, <1>8 DEF Tidy, Lists
<1>10. \A p \in Prio : /\ Circle(a.ready[p]) /\ ToSet(a.ready[p]) = ToSet(s.ready[p])
                       /\ a.ready[p] # <<End>> <=> s.ready[p] # <<End>>
  BY <1>5, <1>9 DEF Tidy, Lists
<1>11. Lists(a)
  BY <1>8, <1>9, <1>10 DEF Tidy, Lists
<1>12. \A u \in Task : IsReady(a, u) <=> IsReady(s, u)
  BY <1>8, <1>10 DEF Tidy, Lists, IsReady
<1>13. Homes(a, H) /\ IsReady(a, Idle)
  BY <1>8, <1>12, KernelAssumption DEF Tidy, Homes, NoHome, OneHome
<1>14. Bits(a, {})
  BY <1>8, <1>10 DEF Tidy, Bits
<1> QED BY <1>1, <1>5, <1>7, <1>11, <1>13, <1>14 DEF Tidy

\* A task between the lists falls asleep: in one of the delayed lists or the suspended one.
LEMMA TaskSleeps ==
  ASSUME NEW s, NEW H, NEW X, Tidy(s, H, X), NEW t \in Others, t \in H,
         NEW a, Same(a, s, {"ready", "top", "prio"}), Where \subseteq DOMAIN a,
         NEW later,
         \/ /\ a.delayed = InsertBefore(s.delayed, t, later)
            /\ a.overflow = s.overflow /\ a.suspended = s.suspended
         \/ /\ a.overflow = InsertBefore(s.overflow, t, later)
            /\ a.delayed = s.delayed /\ a.suspended = s.suspended
         \/ /\ a.suspended = s.suspended \cup {t}
            /\ a.delayed = s.delayed /\ a.overflow = s.overflow
  PROVE  Tidy(a, H \ {t}, X)
<1>1. a.ready = s.ready /\ a.top = s.top /\ a.prio = s.prio
  BY DEF Same
<1>2. t \in Task /\ t # Idle
  BY DEF Others
<1>3. /\ s.delayed \in Seq(Task) /\ Once(s.delayed) /\ s.overflow \in Seq(Task) /\ Once(s.overflow)
      /\ s.suspended \subseteq Task
      /\ t \notin ToSet(s.delayed) /\ t \notin ToSet(s.overflow) /\ t \notin s.suspended
      /\ ~IsReady(s, t)
  BY <1>2 DEF Tidy, Lists, Homes, NoHome
<1>4. /\ InsertBefore(s.delayed, t, later) \in Seq(Task) /\ Once(InsertBefore(s.delayed, t, later))
      /\ ToSet(InsertBefore(s.delayed, t, later)) = ToSet(s.delayed) \cup {t}
  BY <1>2, <1>3, InsertedBefore
<1>5. /\ InsertBefore(s.overflow, t, later) \in Seq(Task)
      /\ Once(InsertBefore(s.overflow, t, later))
      /\ ToSet(InsertBefore(s.overflow, t, later)) = ToSet(s.overflow) \cup {t}
  BY <1>2, <1>3, InsertedBefore
<1>6. /\ a.delayed \in Seq(Task) /\ Once(a.delayed) /\ a.overflow \in Seq(Task) /\ Once(a.overflow)
      /\ a.suspended \subseteq Task
  <2>1. s.suspended \cup {t} \subseteq Task
    BY <1>2, <1>3
  <2> QED BY <1>3, <1>4, <1>5, <2>1, Zenon
<1>7. Lists(a)
  BY <1>1, <1>6, Zenon DEF Tidy, Lists
<1>8. \A u \in Task : IsReady(a, u) <=> IsReady(s, u)
  BY <1>1, Zenon DEF IsReady
<1>9. /\ \A u \in Task : u # t => /\ u \in ToSet(a.delayed) <=> u \in ToSet(s.delayed)
                                  /\ u \in ToSet(a.overflow) <=> u \in ToSet(s.overflow)
                                  /\ u \in a.suspended <=> u \in s.suspended
      /\ \/ t \in ToSet(a.delayed) /\ t \notin ToSet(a.overflow) /\ t \notin a.suspended
         \/ t \notin ToSet(a.delayed) /\ t \in ToSet(a.overflow) /\ t \notin a.suspended
         \/ t \notin ToSet(a.delayed) /\ t \notin ToSet(a.overflow) /\ t \in a.suspended
  <2>1. CASE /\ a.delayed = InsertBefore(s.delayed, t, later)
             /\ a.overflow = s.overflow /\ a.suspended = s.suspended
    BY <1>3, <1>4, <2>1
  <2>2. CASE /\ a.overflow = InsertBefore(s.overflow, t, later)
             /\ a.delayed = s.delayed /\ a.suspended = s.suspended
    BY <1>3, <1>5, <2>2
  <2>3. CASE /\ a.suspended = s.suspended \cup {t}
             /\ a.delayed = s.delayed /\ a.overflow = s.overflow
    BY <1>3, <2>3
  <2> QED BY <2>1, <2>2, <2>3
<1>10. OneHome(a, t)
  BY <1>2, <1>3, <1>8, <1>9, Zenon DEF OneHome
<1>11. Homes(a, H \ {t})
  BY <1>8, <1>9, <1>10 DEF Tidy, Homes, NoHome, OneHome
<1>12. Bits(a, X) /\ IsReady(a, Idle)
  BY <1>1, <1>8, KernelAssumption DEF Tidy, Bits
<1> QED BY <1>7, <1>11, <1>12 DEF Tidy

\* listREMOVE_ITEM and insertion at the end when a priority changes; the bit of the list that
\* is left empty must be the one that is reset.
LEMMA MovedToPriority ==
  ASSUME NEW s, NEW X, Tidy(s, X, {}), X = {}, Else \subseteq DOMAIN s, NEW t \in Task,
         NEW p \in Prio, NEW c \in {p, s.prio[t]},
         \/ c = s.prio[t]
         \/ IsReady(s, t) => MoveToPriority(s, t, p, c).ready[s.prio[t]] # <<End>>
  PROVE  LET a == MoveToPriority(s, t, p, c)
         IN  Same(a, s, Else) /\ Tidy(a, X, {})
<1>1. PICK a : a = MoveToPriority(s, t, p, c)
  OBVIOUS
<1>2. PICK old \in Prio : old = s.prio[t]
  BY DEF Tidy, Lists
<1>3. PICK prio \in [Task -> Prio] : prio = [s.prio EXCEPT ![t] = p]
  BY DEF Tidy, Lists
<1>4. prio[t] = p /\ \A u \in Task : u # t => prio[u] = s.prio[u]
  BY <1>3 DEF Tidy, Lists
<1>5. CASE ~IsReady(s, t)
  <2>1. a = [s EXCEPT !.prio[t] = p]
    BY <1>1, <1>5 DEF MoveToPriority, IsReady, InReadyList
  <2>2. /\ a.ready = s.ready /\ a.delayed = s.delayed /\ a.overflow = s.overflow
        /\ a.suspended = s.suspended /\ a.top = s.top /\ a.prio = prio
        /\ Where \subseteq DOMAIN a
    BY <1>3, <2>1 DEF Tidy, Lists, Where
  <2>3. Same(a, s, Else)
    BY <2>1 DEF Same, Else, Tidy, Lists, Where
  <2>4. \A x \in Prio : t \notin ToSet(s.ready[x])
    BY <1>5 DEF Tidy, Lists, IsReady
  <2>5. Lists(a)
    BY <1>4, <2>2, <2>4 DEF Tidy, Lists
  <2>6. \A u \in Task : IsReady(a, u) <=> IsReady(s, u)
    BY <1>4, <1>5, <2>2, <2>4 DEF IsReady
  <2>7. Homes(a, X) /\ IsReady(a, Idle)
    BY <2>2, <2>6, KernelAssumption DEF Tidy, Homes, OneHome, NoHome
  <2>8. Bits(a, {})
    BY <2>2 DEF Tidy, Bits
  <2> QED BY <1>1, <2>3, <2>5, <2>7, <2>8 DEF Tidy
<1>6. CASE IsReady(s, t)
  <2>1. PICK r : r = RemoveFirst(s.ready[old], t)
    OBVIOUS
  <2>2. /\ Circle(r) /\ ToSet(r) = ToSet(s.ready[old]) \ {t}
        /\ r # <<End>> => s.ready[old] # <<End>>
    <3>1. PICK l : l = s.ready[old]
      OBVIOUS
    <3>2. Circle(l)
      BY <3>1 DEF Tidy, Lists
    <3>3. /\ Circle(RemoveFirst(l, t)) /\ ToSet(RemoveFirst(l, t)) = ToSet(l) \ {t}
          /\ RemoveFirst(l, t) # <<End>> => l # <<End>>
      BY <3>2, CircleShrinks
    <3> QED BY <2>1, <3>1, <3>3
  <2>3. PICK R : R = [s.ready EXCEPT ![old] = r]
    OBVIOUS
  <2>4. /\ DOMAIN R = Prio /\ R[old] = r /\ \A x \in Prio : x # old => R[x] = s.ready[x]
    BY <2>3 DEF Tidy, Lists
  <2>5. \A x \in Prio : Circle(R[x]) /\ t \notin ToSet(R[x])
    BY <1>2, <2>2, <2>4 DEF Tidy, Lists
  <2>6. PICK m : /\ m = InsertEnd(R[p], t) /\ Circle(m) /\ ToSet(m) = ToSet(R[p]) \cup {t}
                 /\ m # <<End>>
    <3>1. PICK l : l = R[p]
      OBVIOUS
    <3>2. /\ Circle(InsertEnd(l, t)) /\ ToSet(InsertEnd(l, t)) = ToSet(l) \cup {t}
          /\ InsertEnd(l, t) # <<End>>
      BY <2>5, <3>1, CircleGrows
    <3> QED BY <3>1, <3>2
  <2>7. PICK M : M = [R EXCEPT ![p] = m]
    OBVIOUS
  <2>8. DOMAIN M = Prio /\ M[p] = m /\ \A x \in Prio : x # p => M[x] = R[x]
    BY <2>4, <2>7
  <2>9. PICK top : top = (IF r = <<End>> THEN s.top \ {c} ELSE s.top) \cup {p}
    OBVIOUS
  <2>10. /\ a.ready = M /\ a.top = top /\ a.prio = prio
         /\ a.delayed = s.delayed /\ a.overflow = s.overflow /\ a.suspended = s.suspended
         /\ Where \subseteq DOMAIN a /\ Same(a, s, Else)
    <3>1. PICK new : new = [s EXCEPT !.prio[t] = p]
      OBVIOUS
    <3>2. /\ new.ready = s.ready /\ new.prio = prio /\ new.top = s.top
          /\ new.delayed = s.delayed /\ new.overflow = s.overflow
          /\ new.suspended = s.suspended
          /\ Where \subseteq DOMAIN new /\ Same(new, s, Else)
      BY <1>3, <3>1 DEF Same, Else, Tidy, Lists, Where
    <3>3. PICK out : out = [new EXCEPT !.ready[old] = RemoveFirst(@, t)]
      OBVIOUS
    <3>4. /\ out.ready = R /\ out.prio = prio /\ out.top = s.top
          /\ out.delayed = s.delayed /\ out.overflow = s.overflow
          /\ out.suspended = s.suspended
          /\ Where \subseteq DOMAIN out /\ Same(out, s, Else)
      BY <2>1, <2>3, <3>2, <3>3 DEF Same, Else, Where
    <3>5. PICK bits : bits = IF out.ready[old] = <<End>>
                               THEN [out EXCEPT !.top = @ \ {c}] ELSE out
      OBVIOUS
    <3>6. /\ bits.ready = R /\ bits.prio = prio
          /\ bits.top = (IF r = <<End>> THEN s.top \ {c} ELSE s.top)
          /\ bits.delayed = s.delayed /\ bits.overflow = s.overflow
          /\ bits.suspended = s.suspended
          /\ Where \subseteq DOMAIN bits /\ Same(bits, s, Else)
      BY <2>4, <3>4, <3>5 DEF Same, Else, Where
    <3>7. a = AddToReadyList(bits, t)
      BY <1>1, <1>2, <1>6, <3>1, <3>3, <3>5 DEF MoveToPriority, IsReady, InReadyList
    <3>8. a = [bits EXCEPT !.ready[p] = InsertEnd(@, t), !.top = @ \cup {p}]
      BY <1>4, <3>6, <3>7 DEF AddToReadyList
    <3> QED BY <2>6, <2>7, <2>9, <3>6, <3>8 DEF Same, Else, Where
  <2>11. \A x \in Prio : /\ Circle(M[x])
                         /\ ToSet(M[x]) = (ToSet(s.ready[x]) \ {t}) \cup
                                           (IF x = p THEN {t} ELSE {})
    <3> SUFFICES ASSUME NEW x \in Prio
                 PROVE  /\ Circle(M[x])
                        /\ ToSet(M[x]) = (ToSet(s.ready[x]) \ {t}) \cup
                                          (IF x = p THEN {t} ELSE {})
      OBVIOUS
    <3>1. Circle(R[x]) /\ ToSet(R[x]) = ToSet(s.ready[x]) \ {t}
      <4>1. CASE x = old
        BY <4>1, <2>2, <2>4
      <4>2. CASE x # old
        <5>1. R[x] = s.ready[x] /\ t \notin ToSet(R[x]) /\ Circle(R[x])
          BY <4>2, <2>4, <2>5
        <5> QED BY <5>1
      <4> QED BY <4>1, <4>2
    <3>2. CASE x = p
      BY <3>1, <3>2, <2>6, <2>8
    <3>3. CASE x # p
      BY <3>1, <3>3, <2>8
    <3> QED BY <3>2, <3>3
  <2>12. \A u \in Task, x \in Prio : u \in ToSet(M[x]) => x = prio[u]
    <3> SUFFICES ASSUME NEW u \in Task, NEW x \in Prio, u \in ToSet(M[x]) PROVE x = prio[u]
      OBVIOUS
    <3>1. CASE u = t
      BY <1>4, <2>11, <3>1
    <3>2. CASE u # t
      <4>1. u \in ToSet(s.ready[x])
        BY <2>11, <3>2
      <4> QED BY <1>4, <3>2, <4>1 DEF Tidy, Lists
    <3> QED BY <3>1, <3>2
  <2>13. top \subseteq Prio
    BY <2>9 DEF Tidy, Lists
  <2>14. Lists(a)
    BY <2>8, <2>10, <2>11, <2>12, <2>13 DEF Tidy, Lists
  <2>15. \A u \in Task : IsReady(a, u) <=> IsReady(s, u)
    <3>1. \A u \in Task : s.prio[u] \in Prio
      BY DEF Tidy, Lists
    <3> QED BY <1>4, <1>6, <2>10, <2>11, <3>1 DEF IsReady
  <2>16. Homes(a, X) /\ IsReady(a, Idle)
    BY <2>10, <2>15, KernelAssumption DEF Tidy, Homes, OneHome, NoHome
  <2>17. \A x \in Prio : M[x] # <<End>> <=> x \in top
    <3> SUFFICES ASSUME NEW x \in Prio PROVE M[x] # <<End>> <=> x \in top
      OBVIOUS
    <3>1. s.ready[x] # <<End>> <=> x \in s.top
      BY DEF Tidy, Bits
    <3>2. CASE x = p
      BY <2>6, <2>8, <2>9, <3>2
    <3>3. CASE x # p /\ x = old
      <4>1. M[x] = r
        BY <2>4, <2>8, <3>3
      <4>2. r = <<End>> => c = old
        BY <1>1, <1>2, <1>6, <2>10, <3>3, <4>1
      <4> QED BY <2>2, <2>9, <3>1, <3>3, <4>1, <4>2
    <3>4. CASE x # p /\ x # old
      BY <1>2, <2>4, <2>8, <2>9, <3>1, <3>4
    <3> QED BY <3>2, <3>3, <3>4
  <2>18. Bits(a, {})
    BY <2>10, <2>17 DEF Bits
  <2> QED BY <1>1, <2>10, <2>14, <2>16, <2>18 DEF Tidy
<1> QED BY <1>5, <1>6

LEMMA FieldsSame ==
  ASSUME NEW s, NEW a, NEW F, NEW G, Same(a, s, F), G \subseteq F
  PROVE  Same(a, s, G)
  BY DEF Same

LEMMA SameTwice ==
  ASSUME NEW s, NEW a, NEW b, NEW F, Same(a, s, F), Same(b, a, F)
  PROVE  Same(b, s, F)
  BY DEF Same

LEMMA OnwardTwice ==
  ASSUME NEW s, NEW a, NEW b, NEW G, NEW H, Onward(a, s, G), Onward(b, a, H)
  PROVE  Onward(b, s, H)
  BY DEF Onward

LEMMA HereAlready == ASSUME NEW s, NEW H, InPlace(s, H) PROVE Onward(s, s, H)
  BY DEF Onward

LEMMA Fields ==
  ASSUME NEW s, NEW H, InPlace(s, H)
  PROVE  /\ Where \subseteq DOMAIN s /\ Else \subseteq DOMAIN s
         /\ Same(s, s, Where \cup Else)
  BY DEF InPlace, Tidy, Lists, Fit, Same

\* Nothing has moved.
LEMMA SameIsOnward ==
  ASSUME NEW s, NEW a, NEW H, InPlace(s, H), Same(a, s, Where \cup Else)
  PROVE  Onward(a, s, H)
<1>1. Same(a, s, Where)
  BY DEF Same
<1>2. Tidy(a, H, {})
  BY <1>1, OtherFields DEF InPlace
<1>3. /\ a.events = s.events /\ a.base = s.base /\ a.item = s.item /\ a.held = s.held
      /\ a.yield = s.yield /\ a.pended = s.pended /\ a.cur = s.cur /\ a.susp = s.susp
      /\ Else \subseteq DOMAIN a
  BY DEF Same, Else
<1>4. Fit(a)
  BY <1>3, Zenon DEF InPlace, Fit
<1> QED BY <1>2, <1>3, <1>4 DEF Onward, InPlace

\* The lists have been moved in.
LEMMA MoveIsOnward ==
  ASSUME NEW s, NEW a, NEW G, NEW H, InPlace(s, G), Same(a, s, Else), Tidy(a, H, {})
  PROVE  Onward(a, s, H)
<1>3. /\ a.events = s.events /\ a.base = s.base /\ a.item = s.item /\ a.held = s.held
      /\ a.yield = s.yield /\ a.pended = s.pended /\ a.cur = s.cur /\ a.susp = s.susp
      /\ Else \subseteq DOMAIN a
  BY DEF Same, Else
<1>4. Fit(a)
  BY <1>3, Zenon DEF InPlace, Fit
<1> QED BY <1>3, <1>4 DEF Onward, InPlace

\* Something else has changed.
LEMMA RestIsOnward ==
  ASSUME NEW s, NEW a, NEW H, InPlace(s, H), Same(a, s, Where \cup {"held", "susp"}),
         Else \subseteq DOMAIN a,
         a.events = s.events \/ a.events \in [EventList -> Seq(Others)],
         a.base = s.base \/ a.base \in [Task -> Prio],
         a.item = s.item \/ a.item \in [Task -> Prio],
         a.yield = s.yield \/ a.yield \in BOOLEAN,
         a.pended = s.pended \/ a.pended \in 0 .. PendBound,
         a.cur = s.cur \/ a.cur \in Task
  PROVE  Onward(a, s, H)
<1>1. Same(a, s, Where)
  BY DEF Same
<1>2. Tidy(a, H, {})
  BY <1>1, OtherFields DEF InPlace
<1>3. a.held = s.held /\ a.susp = s.susp
  BY DEF Same
<1>4. Fit(a)
  BY Zenon DEF InPlace, Fit
<1> QED BY <1>2, <1>3, <1>4 DEF Onward, InPlace

LEMMA YieldIsOnward ==
  ASSUME NEW s, NEW H, InPlace(s, H), NEW y \in BOOLEAN
  PROVE  /\ Onward([s EXCEPT !.yield = y], s, H)
         /\ Onward([s EXCEPT !.yield = @ \/ y], s, H)
<1>1. ASSUME NEW z \in BOOLEAN PROVE Onward([s EXCEPT !.yield = z], s, H)
  <2>1. PICK a : a = [s EXCEPT !.yield = z]
    OBVIOUS
  <2>2. Where \subseteq DOMAIN s /\ Else \subseteq DOMAIN s
    BY Fields
  <2>3. /\ Same(a, s, Where \cup {"held", "susp"}) /\ Else \subseteq DOMAIN a
        /\ a.events = s.events /\ a.base = s.base /\ a.item = s.item
        /\ a.yield = z /\ a.pended = s.pended /\ a.cur = s.cur
    BY <2>1, <2>2 DEF Same, Where, Else
  <2> QED BY <2>1, <2>3, RestIsOnward
<1>2. s.yield \in BOOLEAN
  BY DEF InPlace, Fit
<1>3. (s.yield \/ y) \in BOOLEAN
  BY <1>2
<1> QED BY <1>1, <1>3

LEMMA SelectIsOnward ==
  ASSUME NEW s, NEW H, InPlace(s, H)
  PROVE  Onward(SelectHighestPriorityTask(s), s, H)
<1>1. Else \subseteq DOMAIN s
  BY Fields
<1>2. PICK a : a = SelectHighestPriorityTask(s)
  OBVIOUS
<1>3. /\ Same(a, s, Else \ {"cur"}) /\ Tidy(a, H, {}) /\ "cur" \in DOMAIN a /\ a.cur \in Task
  BY <1>1, <1>2, SelectsOne DEF InPlace
<1>4. /\ a.events = s.events /\ a.base = s.base /\ a.item = s.item /\ a.held = s.held
      /\ a.yield = s.yield /\ a.pended = s.pended /\ a.susp = s.susp
      /\ Else \subseteq DOMAIN a
  BY <1>3 DEF Same, Else
<1>5. Fit(a)
  BY <1>3, <1>4, Zenon DEF InPlace, Fit
<1> QED BY <1>2, <1>3, <1>4, <1>5 DEF Onward, InPlace

\* vTaskSwitchContext and the yields
LEMMA SwitchIsOnward ==
  ASSUME NEW s, NEW H, InPlace(s, H), NEW cond
  PROVE  Onward(SwitchContext(s), s, H) /\ Onward(YieldIf(cond, s), s, H)
<1>1. PICK a : a = [s EXCEPT !.yield = TRUE] /\ Onward(a, s, H)
  BY YieldIsOnward
<1>2. PICK b : b = [s EXCEPT !.yield = FALSE] /\ Onward(b, s, H)
  BY YieldIsOnward
<1>3. PICK c : c = SelectHighestPriorityTask(b) /\ Onward(c, b, H)
  BY <1>2, SelectIsOnward DEF Onward
<1>4. SwitchContext(s) \in {a, c}
  BY <1>1, <1>2, <1>3 DEF SwitchContext
<1>5. Onward(SwitchContext(s), s, H)
  BY <1>1, <1>2, <1>3, <1>4, OnwardTwice
<1> QED BY <1>5, HereAlready DEF YieldIf

LEMMA ResetIsOnward ==
  ASSUME NEW s, NEW H, InPlace(s, H)
  PROVE  Onward(ResetNextTaskUnblockTime(s), s, H)
<1>1. PICK a : a = ResetNextTaskUnblockTime(s)
  OBVIOUS
<1>2. Same(a, s, Where \cup Else)
  BY <1>1, Fields DEF ResetNextTaskUnblockTime, Same, Where, Else
<1> QED BY <1>1, <1>2, SameIsOnward

LEMMA SwitchListsIsOnward ==
  ASSUME NEW s, NEW H, InPlace(s, H)
  PROVE  Onward(SwitchDelayedLists(s), s, H)
<1>1. PICK a : a = [s EXCEPT !.delayed = s.overflow, !.overflow = s.delayed, !.passed = s.timing]
  OBVIOUS
<1>2. /\ a.delayed = s.overflow /\ a.overflow = s.delayed /\ a.ready = s.ready
      /\ a.suspended = s.suspended /\ a.top = s.top /\ a.prio = s.prio
      /\ Where \subseteq DOMAIN a /\ Same(a, s, Else)
  BY <1>1, Fields DEF Same, Where, Else
<1>3. Tidy(s, H, {})
  BY DEF InPlace
<1>4. Lists(a)
  BY <1>2, <1>3, Zenon DEF Tidy, Lists
<1>5. Homes(a, H) /\ Bits(a, {}) /\ IsReady(a, Idle)
  BY <1>2, <1>3 DEF Tidy, Homes, Bits, IsReady, NoHome, OneHome
<1>6. Onward(a, s, H)
  BY <1>2, <1>4, <1>5, MoveIsOnward DEF Tidy
<1>7. Onward(ResetNextTaskUnblockTime(a), a, H)
  BY <1>6, ResetIsOnward DEF Onward
<1> QED BY <1>1, <1>6, <1>7, OnwardTwice DEF SwitchDelayedLists

\* A task leaves the event lists.
LEMMA EventItemIsOnward ==
  ASSUME NEW s, NEW H, InPlace(s, H), NEW t
  PROVE  Onward(RemoveEventItem(s, t), s, H)
<1>1. PICK a : a = RemoveEventItem(s, t)
  OBVIOUS
<1>2. /\ Same(a, s, Where \cup {"held", "susp"}) /\ Else \subseteq DOMAIN a
      /\ a.base = s.base /\ a.item = s.item
      /\ a.yield = s.yield /\ a.pended = s.pended /\ a.cur = s.cur
      /\ a.events = [l \in EventList |-> RemoveFirst(s.events[l], t)]
  BY <1>1, Fields DEF RemoveEventItem, Same, Where, Else
<1>3. ASSUME NEW l \in EventList PROVE RemoveFirst(s.events[l], t) \in Seq(Others)
  <2>1. PICK e : e = s.events[l]
    OBVIOUS
  <2>2. e \in Seq(Others)
    BY <2>1 DEF InPlace, Fit
  <2> QED BY <2>1, <2>2, RemovedIsTyped
<1>4. a.events \in [EventList -> Seq(Others)]
  BY <1>2, <1>3
<1> QED BY <1>1, <1>2, <1>4, RestIsOnward

\* A task becomes ready.
LEMMA ReadiedIsOnward ==
  ASSUME NEW s, InPlace(s, {}), NEW t \in Others
  PROVE  Onward(AddToReadyList(RemoveStateItem(s, t), t), s, {})
<1>1. Tidy(s, {}, {}) /\ Else \subseteq DOMAIN s
  BY Fields DEF InPlace
<1>2. PICK a : a = RemoveStateItem(s, t)
  OBVIOUS
<1>3. /\ Same(a, s, Else \cup {"prio", "top"}) /\ Tidy(a, {t}, {s.prio[t]})
  <2>1. /\ Same(a, s, Else \cup {"prio", "top"}) /\ Tidy(a, {} \cup {t}, {} \cup {s.prio[t]})
    BY <1>1, <1>2, TaskLeaves
  <2>2. {} \cup {t} = {t} /\ {} \cup {s.prio[t]} = {s.prio[t]}
    OBVIOUS
  <2> QED BY <2>1, <2>2
<1>4. a.prio = s.prio /\ Else \subseteq DOMAIN a /\ Same(a, s, Else)
  BY <1>3 DEF Same
<1>5. PICK b : b = AddToReadyList(a, t)
  OBVIOUS
<1>6. Same(b, a, Else) /\ Tidy(b, {}, {})
  <2>1. t \in Task /\ t \in {t}
    BY DEF Others
  <2>2. Same(b, a, Else \cup {"prio"}) /\ Tidy(b, {t} \ {t}, {s.prio[t]} \ {a.prio[t]})
    BY <1>3, <1>4, <1>5, <2>1, TaskComes
  <2>3. {t} \ {t} = {} /\ {s.prio[t]} \ {a.prio[t]} = {}
    BY <1>4
  <2> QED BY <2>2, <2>3, FieldsSame
<1>7. Same(b, s, Else)
  BY <1>4, <1>6, SameTwice
<1> QED BY <1>2, <1>5, <1>6, <1>7, MoveIsOnward

LEMMA UnblockIsOnward ==
  ASSUME NEW s, InPlace(s, {}), NEW t \in Others
  PROVE  Onward(Unblock(s, t), s, {})
<1>1. Tidy(s, {}, {}) /\ Else \subseteq DOMAIN s
  BY Fields DEF InPlace
<1>2. PICK a : a = RemoveStateItem(s, t)
  OBVIOUS
<1>3. PICK b : b = RemoveEventItem(s, t)
  OBVIOUS
<1>4. Onward(b, s, {}) /\ InPlace(b, {})
  BY <1>3, EventItemIsOnward DEF Onward
<1>5. PICK c : c = AddToReadyList(RemoveStateItem(b, t), t)
  OBVIOUS
<1>6. Onward(c, b, {})
  BY <1>4, <1>5, ReadiedIsOnward
<1>7. RemoveStateItem(RemoveEventItem(s, t), t) = RemoveEventItem(RemoveStateItem(s, t), t)
  BY Fields DEF RemoveStateItem, RemoveEventItem, Where, Else
<1> QED BY <1>3, <1>4, <1>5, <1>6, <1>7, OnwardTwice DEF Unblock

LEMMA EventsAreOnward ==
  ASSUME NEW s, NEW H, InPlace(s, H), NEW l, l \in EventList, NEW e \in Seq(Others)
  PROVE  Onward([s EXCEPT !.events[l] = e], s, H)
<1>1. PICK a : a = [s EXCEPT !.events[l] = e]
  OBVIOUS
<1>2. /\ Same(a, s, Where \cup {"held", "susp"}) /\ Else \subseteq DOMAIN a
      /\ a.base = s.base /\ a.item = s.item
      /\ a.yield = s.yield /\ a.pended = s.pended /\ a.cur = s.cur
      /\ a.events = [s.events EXCEPT ![l] = e]
  BY <1>1, Fields DEF Same, Where, Else
<1>3. a.events \in [EventList -> Seq(Others)]
  BY <1>2 DEF InPlace, Fit
<1> QED BY <1>1, <1>2, <1>3, RestIsOnward

LEMMA PendingIsList == Pending \in EventList
  BY DEF EventList

\* The first waiter of an event list, and the list without it.
LEMMA FirstWaiter ==
  ASSUME NEW s, NEW H, InPlace(s, H), NEW l \in EventList, s.events[l] # <<>>
  PROVE  Head(s.events[l]) \in Others /\ Tail(s.events[l]) \in Seq(Others)
<1>1. PICK e \in Seq(Others) : e = s.events[l] /\ e # <<>>
  BY DEF InPlace, Fit
<1> QED BY <1>1, HeadTailProperties

\* The handlers and the queues put a task at the end of xPendingReadyList.
LEMMA PendingIsOnward ==
  ASSUME NEW s, NEW H, InPlace(s, H), NEW t \in Others
  PROVE  Onward([s EXCEPT !.events[Pending] = Append(@, t)], s, H)
<1>1. PICK e \in Seq(Others) : e = s.events[Pending]
  BY PendingIsList DEF InPlace, Fit
<1>2. Append(e, t) \in Seq(Others)
  BY AppendProperties
<1>3. PICK f \in Seq(Others) : f = Append(s.events[Pending], t)
  BY <1>1, <1>2
<1>4. Onward([s EXCEPT !.events[Pending] = f], s, H)
  BY PendingIsList, EventsAreOnward
<1> QED BY <1>3, <1>4

\* xTaskRemoveFromEventList
LEMMA RemovalIsOnward ==
  ASSUME NEW s, NEW H, InPlace(s, H), H = {} \/ s.susp = 1, NEW l \in EventList,
         s.events[l] # <<>>
  PROVE  Onward(RemoveFromEventList(s, l), s, H)
<1>1. PICK t \in Others : t = Head(s.events[l])
  BY FirstWaiter
<1>2. PICK e \in Seq(Others) : e = Tail(s.events[l])
  BY FirstWaiter
<1>3. PICK a : a = [s EXCEPT !.events[l] = e]
  OBVIOUS
<1>4. Onward(a, s, H) /\ InPlace(a, H)
  BY <1>3, EventsAreOnward DEF Onward
<1>5. PICK b : b = [a EXCEPT !.events[Pending] = Append(@, t)] /\ Onward(b, a, H)
  BY <1>4, PendingIsOnward
<1>6. PICK c : c = AddToReadyList(RemoveStateItem(a, t), t)
  OBVIOUS
<1>7. PICK d : d = ResetNextTaskUnblockTime(c)
  OBVIOUS
<1>8. s.susp = 0 => Onward(d, a, H)
  <2> SUFFICES ASSUME s.susp = 0 PROVE Onward(d, a, H)
    OBVIOUS
  <2>1. H = {}
    OBVIOUS
  <2>2. Onward(c, a, H)
    BY <1>4, <1>6, <2>1, ReadiedIsOnward
  <2>3. Onward(d, c, H)
    BY <1>7, <2>2, ResetIsOnward DEF Onward
  <2> QED BY <2>2, <2>3, OnwardTwice
<1>9. PICK r : r = IF s.susp = 0 THEN d ELSE b
  OBVIOUS
<1>10. Onward(r, s, H) /\ InPlace(r, H)
  BY <1>4, <1>5, <1>8, <1>9, OnwardTwice DEF Onward
<1>11. PICK y \in BOOLEAN : y = WakesHigher(s, l)
  <2>1. (s.prio[Head(s.events[l])] > s.prio[s.cur]) \in BOOLEAN
    OBVIOUS
  <2>2. WakesHigher(s, l) \in BOOLEAN
    BY <2>1, Zenon DEF WakesHigher
  <2> QED BY <2>2, Zenon
<1>12. RemoveFromEventList(s, l) = [r EXCEPT !.yield = @ \/ y]
  BY <1>1, <1>2, <1>3, <1>5, <1>6, <1>7, <1>9, <1>11 DEF RemoveFromEventList
<1>13. PICK z : z = [r EXCEPT !.yield = @ \/ y] /\ Onward(z, r, H)
  <2>1. Onward([r EXCEPT !.yield = @ \/ y], r, H)
    BY <1>10, YieldIsOnward
  <2> QED BY <2>1, Zenon
<1> QED BY <1>10, <1>12, <1>13, OnwardTwice

LEMMA WakesAreOnward ==
  ASSUME NEW s, NEW H, InPlace(s, H), H = {} \/ s.susp = 1, NEW l \in EventList
  PROVE  Onward(WakeOne(s, l), s, H) /\ Onward(WakeAndYield(s, l), s, H)
<1>1. Onward(s, s, H)
  BY HereAlready
<1>2. CASE s.events[l] = <<>>
  BY <1>1, <1>2 DEF WakeOne, WakeAndYield
<1>3. CASE s.events[l] # <<>>
  <2>1. PICK r : r = RemoveFromEventList(s, l) /\ Onward(r, s, H)
    BY <1>3, RemovalIsOnward
  <2>2. Onward(YieldIf(WakesHigher(s, l), r), r, H)
    BY <2>1, SwitchIsOnward DEF Onward
  <2> QED BY <1>3, <2>1, <2>2, OnwardTwice DEF WakeOne, WakeAndYield
<1> QED BY <1>2, <1>3

LEMMA WakeCountedIsOnward ==
  ASSUME NEW s, NEW H, InPlace(s, H), H = {} \/ s.susp = 1, NEW l \in EventList, NEW count
  PROVE  Onward(WakeCounted(s, l, count), s, H)
<1>1. CASE count \notin Nat
  BY <1>1, HereAlready DEF WakeCounted
<1>2. CASE count \in Nat
  <2>1. PICK g : /\ WakeCounted(s, l, count) = g[count] /\ g[0] = s
                 /\ \A i \in 1 .. count : g[i] = WakeOne(g[i - 1], l)
    BY <1>2, WakesRun
  <2> DEFINE P == {i \in 0 .. count : Onward(g[i], s, H)}
  <2>2. 0 \in P
    BY <1>2, <2>1, HereAlready
  <2>3. ASSUME NEW i \in 1 .. count, i - 1 \in P PROVE i \in P
    <3>1. PICK a : a = g[i - 1] /\ Onward(a, s, H)
      BY <2>3
    <3>2. InPlace(a, H) /\ (H = {} \/ a.susp = 1)
      BY <3>1 DEF Onward
    <3>3. Onward(WakeOne(a, l), a, H)
      BY <3>2, WakesAreOnward
    <3>4. Onward(WakeOne(a, l), s, H)
      BY <3>1, <3>3, OnwardTwice
    <3> QED BY <1>2, <2>1, <3>1, <3>4
  <2> HIDE DEF P
  <2>4. count \in P
    BY <1>2, <2>2, <2>3, LastTurn
  <2> QED BY <2>1, <2>4 DEF P
<1> QED BY <1>1, <1>2

\* Idle does not sleep.
LEMMA SleepersAreOthers ==
  ASSUME NEW s, InPlace(s, {}), s.delayed # <<>>
  PROVE  Head(s.delayed) \in Others
<1>1. s.delayed \in Seq(Task) /\ IsReady(s, Idle) /\ Homes(s, {})
  BY DEF InPlace, Tidy, Lists
<1>2. Head(s.delayed) \in ToSet(s.delayed) /\ Head(s.delayed) \in Task
  <2>1. Len(s.delayed) \in Nat /\ Len(s.delayed) # 0 /\ Head(s.delayed) = s.delayed[1]
    BY <1>1
  <2>2. 1 \in 1 .. Len(s.delayed)
    BY <2>1
  <2> QED BY <1>1, <2>1, <2>2, ListMembers
<1>3. Idle \notin ToSet(s.delayed)
  BY <1>1, KernelAssumption DEF Homes, OneHome
<1> QED BY <1>2, <1>3 DEF Others

LEMMA UnblockDueIsOnward ==
  ASSUME NEW s, InPlace(s, {})
  PROVE  Onward(UnblockDue(s), s, {})
<1>1. CASE ~(s.tick >= s.next)
  BY <1>1, HereAlready DEF UnblockDue
<1>2. CASE s.tick >= s.next
  <2>1. PICK n \in Nat : n = Len(s.delayed)
    BY LenProperties DEF InPlace, Tidy, Lists
  <2>2. PICK g : /\ AfterDue(n, s) = g[n] /\ g[0] = s
                 /\ \A i \in 1 .. n : g[i] = UnblockFirst(g[i - 1])
    BY DueRuns
  <2> DEFINE P == {i \in 0 .. n : Onward(g[i], s, {})}
  <2>3. 0 \in P
    BY <2>2, HereAlready
  <2>4. ASSUME NEW i \in 1 .. n, i - 1 \in P PROVE i \in P
    <3>1. PICK a : a = g[i - 1] /\ Onward(a, s, {}) /\ InPlace(a, {})
      BY <2>4 DEF Onward
    <3>2. Onward(UnblockFirst(a), a, {})
      BY <3>1, SleepersAreOthers, UnblockIsOnward, HereAlready DEF UnblockFirst, Due
    <3>3. Onward(g[i], s, {})
      BY <2>2, <3>1, <3>2, OnwardTwice
    <3> QED BY <3>3
  <2> HIDE DEF P
  <2>5. n \in P
    BY <2>3, <2>4, LastTurn
  <2>6. PICK r : r = g[n] /\ Onward(r, s, {})
    BY <2>5 DEF P
  <2>7. Onward(ResetNextTaskUnblockTime(r), r, {})
    BY <2>6, ResetIsOnward DEF Onward
  <2>8. UnblockDue(s) = ResetNextTaskUnblockTime(r)
    BY <1>2, <2>1, <2>2, <2>6 DEF UnblockDue, AfterDue
  <2> QED BY <2>6, <2>7, <2>8, OnwardTwice
<1> QED BY <1>1, <1>2

LEMMA AdvancedIsOnward ==
  ASSUME NEW s, NEW H, InPlace(s, H)
  PROVE  Onward(Advanced(s), s, H)
<1>1. PICK a : a = [s EXCEPT !.tick = (@ + 1) % TickMod]
  OBVIOUS
<1>2. Same(a, s, Where \cup Else)
  BY <1>1, Fields DEF Same, Where, Else
<1>3. Onward(a, s, H)
  BY <1>2, SameIsOnward
<1>4. Onward(SwitchDelayedLists(a), a, H)
  BY <1>3, SwitchListsIsOnward DEF Onward
<1> QED BY <1>1, <1>3, <1>4, OnwardTwice DEF Advanced

LEMMA IncrementTickIsOnward ==
  ASSUME NEW s, NEW H, InPlace(s, H), s.susp \in {0, 1}, H = {} \/ s.susp = 1,
         s.susp > 0 => s.pended < PendBound
  PROVE  Onward(IncrementTick(s), s, H)
<1>1. CASE s.susp > 0
  <2>1. PICK a : a = [s EXCEPT !.pended = @ + 1]
    OBVIOUS
  <2>2. /\ Same(a, s, Where \cup {"held", "susp"}) /\ Else \subseteq DOMAIN a
        /\ a.events = s.events /\ a.base = s.base /\ a.item = s.item
        /\ a.yield = s.yield /\ a.pended = s.pended + 1 /\ a.cur = s.cur
    BY <2>1, Fields DEF Same, Where, Else
  <2>3. a.pended \in 0 .. PendBound
    BY <1>1, <2>2, TasksAssumption DEF InPlace, Fit
  <2>4. IncrementTick(s) = a
    BY <1>1, <2>1 DEF IncrementTick
  <2> QED BY <2>2, <2>3, <2>4, RestIsOnward
<1>2. CASE ~(s.susp > 0)
  <2>1. H = {}
    BY <1>2
  <2>2. PICK a : a = Advanced(s) /\ Onward(a, s, H)
    BY AdvancedIsOnward
  <2>3. Onward(UnblockDue(a), a, H)
    BY <2>1, <2>2, UnblockDueIsOnward DEF Onward
  <2> QED BY <1>2, <2>2, <2>3, OnwardTwice DEF IncrementTick
<1> QED BY <1>1, <1>2

LEMMA PendedToReadyIsOnward ==
  ASSUME NEW s, InPlace(s, {})
  PROVE  Onward(PendedToReady(s), s, {})
<1>1. CASE s.events[Pending] = <<>>
  BY <1>1, HereAlready DEF PendedToReady
<1>2. CASE s.events[Pending] # <<>>
  <2>1. PICK n \in Nat : n = Cardinality(Task)
    BY KernelAssumption, FS_CardinalityType
  <2>2. PICK g : /\ AfterPended(n, s) = g[n] /\ g[0] = s
                 /\ \A i \in 1 .. n : g[i] = UnblockPended(g[i - 1])
    BY PendedRuns
  <2> DEFINE P == {i \in 0 .. n : Onward(g[i], s, {})}
  <2>3. 0 \in P
    BY <2>2, HereAlready
  <2>4. ASSUME NEW i \in 1 .. n, i - 1 \in P PROVE i \in P
    <3>1. PICK a : a = g[i - 1] /\ Onward(a, s, {}) /\ InPlace(a, {})
      BY <2>4 DEF Onward
    <3>2. Onward(UnblockPended(a), a, {})
      <4>1. CASE a.events[Pending] = <<>>
        BY <3>1, <4>1, HereAlready DEF UnblockPended
      <4>2. CASE a.events[Pending] # <<>>
        <5>1. PICK t \in Others : t = Head(a.events[Pending])
          BY <3>1, <4>2, PendingIsList, FirstWaiter
        <5>2. PICK b : b = Unblock(a, t) /\ Onward(b, a, {})
          BY <3>1, UnblockIsOnward
        <5>3. PICK y \in BOOLEAN : y = (a.prio[t] >= a.prio[a.cur])
          <6>1. (a.prio[t] >= a.prio[a.cur]) \in BOOLEAN
            OBVIOUS
          <6> QED BY <6>1, Zenon
        <5>4. Onward([b EXCEPT !.yield = @ \/ y], b, {})
          BY <5>2, YieldIsOnward DEF Onward
        <5>5. UnblockPended(a) = [b EXCEPT !.yield = @ \/ y]
          BY <4>2, <5>1, <5>2, <5>3 DEF UnblockPended
        <5> QED BY <5>2, <5>4, <5>5, OnwardTwice
      <4> QED BY <4>1, <4>2
    <3>3. Onward(g[i], s, {})
      BY <2>2, <3>1, <3>2, OnwardTwice
    <3> QED BY <3>3
  <2> HIDE DEF P
  <2>5. n \in P
    BY <2>3, <2>4, LastTurn
  <2>6. PICK r : r = g[n] /\ Onward(r, s, {})
    BY <2>5 DEF P
  <2>7. Onward(ResetNextTaskUnblockTime(r), r, {})
    BY <2>6, ResetIsOnward DEF Onward
  <2>8. PendedToReady(s) = ResetNextTaskUnblockTime(r)
    BY <1>2, <2>1, <2>2, <2>6 DEF PendedToReady, AfterPended
  <2> QED BY <2>6, <2>7, <2>8, OnwardTwice
<1> QED BY <1>1, <1>2

LEMMA CatchUpIsOnward ==
  ASSUME NEW s, InPlace(s, {}), s.susp = 0
  PROVE  Onward(CatchUp(s), s, {})
<1>1. PICK n \in Nat : n = s.pended
  BY TasksAssumption DEF InPlace, Fit
<1>2. PICK g : /\ AfterTicks(n, s) = g[n] /\ g[0] = s
               /\ \A i \in 1 .. n : g[i] = PendedTick(g[i - 1])
  BY TicksRun
<1> DEFINE P == {i \in 0 .. n : Onward(g[i], s, {})}
<1>3. 0 \in P
  BY <1>2, HereAlready
<1>4. ASSUME NEW i \in 1 .. n, i - 1 \in P PROVE i \in P
  <2>1. PICK a : a = g[i - 1] /\ Onward(a, s, {}) /\ InPlace(a, {}) /\ a.susp = 0
    BY <1>4 DEF Onward
  <2>2. PICK b : b = IncrementTick(a)
    OBVIOUS
  <2>3. Onward(b, a, {}) /\ InPlace(b, {})
    BY <2>1, <2>2, IncrementTickIsOnward DEF Onward
  <2>4. PICK y \in BOOLEAN : y = TickSwitches(a)
    <3>1. (\E t \in ToSet(Advanced(a).delayed) \ ToSet(IncrementTick(a).delayed) :
             a.prio[t] >= a.prio[a.cur]) \in BOOLEAN
      OBVIOUS
    <3>2. (Len(IncrementTick(a).ready[a.prio[a.cur]]) > 2) \in BOOLEAN
      OBVIOUS
    <3>3. a.yield \in BOOLEAN
      BY <2>1 DEF InPlace, Fit
    <3> QED BY <3>1, <3>2, <3>3, Zenon DEF TickSwitches
  <2>5. Onward([b EXCEPT !.yield = @ \/ y], b, {})
    BY <2>3, YieldIsOnward
  <2>6. g[i] = [b EXCEPT !.yield = @ \/ y]
    BY <1>2, <2>1, <2>2, <2>4 DEF PendedTick
  <2>7. Onward(g[i], s, {})
    BY <2>1, <2>3, <2>5, <2>6, OnwardTwice
  <2> QED BY <2>7
<1> HIDE DEF P
<1>5. n \in P
  BY <1>3, <1>4, LastTurn
<1>6. PICK r : r = g[n] /\ Onward(r, s, {}) /\ InPlace(r, {})
  BY <1>5 DEF P, Onward
<1>7. PICK z : z = CatchUp(s) /\ z = [r EXCEPT !.pended = 0]
  BY <1>1, <1>2, <1>6 DEF CatchUp, AfterTicks
<1>8. /\ Same(z, r, Where \cup {"held", "susp"}) /\ Else \subseteq DOMAIN z
      /\ z.events = r.events /\ z.base = r.base /\ z.item = r.item
      /\ z.yield = r.yield /\ z.pended = 0 /\ z.cur = r.cur
  BY <1>6, <1>7, Fields DEF Same, Where, Else
<1>9. 0 \in 0 .. PendBound
  BY TasksAssumption
<1>10. Onward(z, r, {})
  BY <1>6, <1>8, <1>9, RestIsOnward
<1> QED BY <1>6, <1>7, <1>10, OnwardTwice

\* xTaskResumeAll
LEMMA ResumeAllIsOnward ==
  ASSUME NEW s, InPlace(s, {}), s.susp = 1
  PROVE  /\ InPlace(ResumeAll(s), {}) /\ ResumeAll(s).held = s.held /\ ResumeAll(s).susp = 0
<1>1. PICK a : a = [s EXCEPT !.susp = @ - 1]
  OBVIOUS
<1>2. /\ Same(a, s, Where) /\ Else \subseteq DOMAIN a
      /\ a.events = s.events /\ a.base = s.base /\ a.item = s.item
      /\ a.yield = s.yield /\ a.pended = s.pended /\ a.cur = s.cur
      /\ a.held = s.held /\ a.susp = 0
  BY <1>1, Fields DEF Same, Where, Else
<1>3. Tidy(a, {}, {})
  BY <1>2, OtherFields DEF InPlace
<1>4. Fit(a)
  BY <1>2, Zenon DEF InPlace, Fit
<1>5. InPlace(a, {})
  BY <1>3, <1>4 DEF InPlace
<1>6. PICK b : b = PendedToReady(a) /\ Onward(b, a, {})
  BY <1>5, PendedToReadyIsOnward
<1>7. PICK c : c = CatchUp(b) /\ Onward(c, b, {})
  BY <1>2, <1>6, CatchUpIsOnward DEF Onward
<1>8. Onward(YieldIf(AlreadyYielded(s), c), c, {})
  BY <1>7, SwitchIsOnward DEF Onward
<1>9. ResumeAll(s) = YieldIf(AlreadyYielded(s), c)
  BY <1>1, <1>2, <1>6, <1>7 DEF ResumeAll, ResumedAll
<1> QED BY <1>2, <1>6, <1>7, <1>8, <1>9 DEF Onward

\* prvAddCurrentTaskToDelayedList
LEMMA AddCurrentIsOnward ==
  ASSUME NEW s, InPlace(s, {}), s.cur \in Others, NEW ticks, NEW indefinitely
  PROVE  Onward(AddCurrentTaskToDelayedList(s, ticks, indefinitely), s, {})
<1>1. PICK t \in Others : t = s.cur
  OBVIOUS
<1>2. PICK p \in Prio : p = s.prio[t]
  BY <1>1 DEF Others, InPlace, Tidy, Lists
<1>3. PICK b : b = [s EXCEPT !.aborted = @ \ {t}]
  OBVIOUS
<1>4. Same(b, s, Where \cup Else)
  BY <1>3, Fields DEF Same, Where, Else
<1>5. InPlace(b, {}) /\ b.prio = s.prio
  BY <1>4, SameIsOnward DEF Onward, Same, Where
<1>6. PICK c : c = RemoveStateItem(b, t)
  OBVIOUS
<1>7. /\ Same(c, b, Else \cup {"prio", "top"}) /\ Tidy(c, {t}, {p})
  <2>1. /\ Same(c, b, Else \cup {"prio", "top"}) /\ Tidy(c, {} \cup {t}, {} \cup {b.prio[t]})
    BY <1>5, <1>6, Fields, TaskLeaves DEF InPlace
  <2>2. {} \cup {t} = {t} /\ {} \cup {b.prio[t]} = {p}
    BY <1>2, <1>5
  <2> QED BY <2>1, <2>2
<1>8. PICK out : out = ResetReadyPriority(c, p)
  OBVIOUS
<1>9. Same(out, c, Else \cup {"prio"}) /\ Tidy(out, {t}, {})
  <2>1. Else \subseteq DOMAIN c
    BY <1>7 DEF Same
  <2>2. Same(out, c, Else \cup {"prio"}) /\ Tidy(out, {t}, {p} \ {p})
    BY <1>7, <1>8, <2>1, BitIsReset
  <2>3. {p} \ {p} = {}
    OBVIOUS
  <2> QED BY <2>2, <2>3
<1>10. Same(out, s, Else)
  <2>1. Same(b, s, Else) /\ Same(c, b, Else) /\ Same(out, c, Else)
    BY <1>4, <1>7, <1>9, FieldsSame
  <2> QED BY <2>1, SameTwice
<1>11. Where \subseteq DOMAIN out /\ Else \subseteq DOMAIN out
  BY <1>9, <1>10 DEF Tidy, Lists, Same
<1> DEFINE wake  == (s.tick + ticks) % TickMod
           timed == [out EXCEPT !.wake[t] = wake]
           later == {u \in Task : timed.wake[u] > wake}
           gone  == [out EXCEPT !.suspended = @ \cup {t}]
           over  == [timed EXCEPT !.overflow = InsertBefore(@, t, later)]
           soon  == [timed EXCEPT !.delayed = InsertBefore(@, t, later),
                                  !.next = IF wake < @ THEN wake ELSE @]
<1>12. AddCurrentTaskToDelayedList(s, ticks, indefinitely)
        = IF ticks = MaxDelay /\ indefinitely THEN gone ELSE IF wake < s.tick THEN over ELSE soon
  <2> DEFINE A == ticks = MaxDelay /\ indefinitely
             B == wake < s.tick
  <2>1. AddCurrentTaskToDelayedList(s, ticks, indefinitely)
          = CASE A -> gone [] ~A /\ B -> over [] OTHER -> soon
    BY <1>1, <1>2, <1>3, <1>6, <1>8 DEF AddCurrentTaskToDelayedList
  <2> HIDE DEF gone, over, soon, A, B
  <2> QED BY <2>1 DEF A, B
<1>13. ASSUME NEW a \in {gone, over, soon} PROVE Onward(a, s, {})
  <2>1. /\ Same(a, out, {"ready", "top", "prio"}) /\ Where \subseteq DOMAIN a
        /\ Same(a, out, Else)
    <3>1. CASE a = gone
      BY <1>11, <3>1 DEF Same, Where, Else
    <3>2. CASE a = over
      BY <1>11, <3>2 DEF Same, Where, Else
    <3>3. CASE a = soon
      BY <1>11, <3>3 DEF Same, Where, Else
    <3> QED BY <3>1, <3>2, <3>3
  <2>2. \/ /\ a.delayed = InsertBefore(out.delayed, t, later)
           /\ a.overflow = out.overflow /\ a.suspended = out.suspended
        \/ /\ a.overflow = InsertBefore(out.overflow, t, later)
           /\ a.delayed = out.delayed /\ a.suspended = out.suspended
        \/ /\ a.suspended = out.suspended \cup {t}
           /\ a.delayed = out.delayed /\ a.overflow = out.overflow
    <3>1. CASE a = gone
      BY <1>11, <3>1 DEF Where
    <3>2. CASE a = over
      <4>1. /\ timed.overflow = out.overflow /\ timed.delayed = out.delayed
            /\ timed.suspended = out.suspended /\ Where \subseteq DOMAIN timed
        BY <1>11 DEF Where
      <4> HIDE DEF timed, later
      <4> QED BY <3>2, <4>1 DEF Where
    <3>3. CASE a = soon
      <4>1. /\ timed.overflow = out.overflow /\ timed.delayed = out.delayed
            /\ timed.suspended = out.suspended /\ Where \subseteq DOMAIN timed
        BY <1>11 DEF Where
      <4> HIDE DEF timed, later
      <4> QED BY <3>3, <4>1 DEF Where
    <3> QED BY <3>1, <3>2, <3>3
  <2> HIDE DEF gone, over, soon, later, timed, wake
  <2>3. Tidy(a, {t} \ {t}, {})
    <3>1. t \in {t}
      OBVIOUS
    <3> QED BY <1>9, <2>1, <2>2, <3>1, TaskSleeps
  <2>4. {t} \ {t} = {}
    OBVIOUS
  <2>5. Same(a, s, Else)
    BY <1>10, <2>1, SameTwice
  <2> QED BY <2>3, <2>4, <2>5, MoveIsOnward
<1> HIDE DEF gone, over, soon, wake
<1>14. AddCurrentTaskToDelayedList(s, ticks, indefinitely) \in {gone, over, soon}
  BY <1>12
<1> QED BY <1>13, <1>14

\* vTaskPlaceOnEventList
LEMMA PlaceIsOnward ==
  ASSUME NEW s, InPlace(s, {}), s.cur \in Others, NEW l \in EventList, NEW ticks
  PROVE  Onward(PlaceOnEventList(s, l, ticks), s, {})
<1>1. PICK later : later = {u \in Task : s.item[u] < s.item[s.cur]}
  OBVIOUS
<1>2. PICK e : e = s.events[l] /\ e \in Seq(Others)
  BY DEF InPlace, Fit
<1>3. PICK f : f = InsertBefore(s.events[l], s.cur, later) /\ f \in Seq(Others)
  BY <1>2, InsertedBefore
<1>4. PICK a : a = [s EXCEPT !.events[l] = f] /\ Onward(a, s, {})
  BY <1>3, EventsAreOnward
<1>5. a.cur = s.cur
  BY <1>4, Fields DEF Else
<1>6. InPlace(a, {}) /\ a.cur \in Others
  BY <1>4, <1>5 DEF Onward
<1>7. PICK z : z = AddCurrentTaskToDelayedList(a, ticks, TRUE) /\ Onward(z, a, {})
  <2>1. Onward(AddCurrentTaskToDelayedList(a, ticks, TRUE), a, {})
    BY <1>6, AddCurrentIsOnward, Zenon
  <2> QED BY <2>1, Zenon
<1>8. PlaceOnEventList(s, l, ticks) = z
  BY <1>1, <1>3, <1>4, <1>7 DEF PlaceOnEventList
<1> QED BY <1>4, <1>7, <1>8, OnwardTwice

\* The number of mutexes a task holds is no matter of the lists.
LEMMA HeldIsInPlace ==
  ASSUME NEW s, NEW H, InPlace(s, H), NEW h
  PROVE  LET a == [s EXCEPT !.held = h]
         IN  InPlace(a, H) /\ a.held = h /\ a.susp = s.susp /\ a.cur = s.cur
<1>1. PICK a : a = [s EXCEPT !.held = h]
  OBVIOUS
<1>2. /\ Same(a, s, Where) /\ Else \subseteq DOMAIN a
      /\ a.events = s.events /\ a.base = s.base /\ a.item = s.item
      /\ a.yield = s.yield /\ a.pended = s.pended /\ a.cur = s.cur
      /\ a.held = h /\ a.susp = s.susp
  BY <1>1, Fields DEF Same, Where, Else
<1>3. Tidy(a, H, {})
  BY <1>2, OtherFields DEF InPlace
<1>4. Fit(a)
  BY <1>2, Zenon DEF InPlace, Fit
<1> QED BY <1>1, <1>2, <1>3, <1>4 DEF InPlace

\* A priority changes with the value of the task's event item.
LEMMA PriorityIsOnward ==
  ASSUME NEW s, InPlace(s, {}), NEW t \in Task, NEW p \in Prio, NEW new \in Prio,
         NEW c \in {new, s.prio[t]}, NEW b, b = s.base \/ b \in [Task -> Prio],
         NEW a, a = [s EXCEPT !.base = b, !.item[t] = p],
         \/ c = s.prio[t]
         \/ IsReady(s, t) => MoveToPriority(a, t, new, c).ready[s.prio[t]] # <<End>>
  PROVE  Onward(MoveToPriority(a, t, new, c), s, {})
<1>1. /\ Same(a, s, Where \cup {"held", "susp"}) /\ Else \subseteq DOMAIN a
      /\ a.events = s.events /\ a.base = b
      /\ a.yield = s.yield /\ a.pended = s.pended /\ a.cur = s.cur
      /\ a.item = [s.item EXCEPT ![t] = p]
  BY Fields DEF Same, Where, Else
<1>2. a.item \in [Task -> Prio]
  BY <1>1 DEF InPlace, Fit
<1>3. Onward(a, s, {})
  BY <1>1, <1>2, RestIsOnward
<1>4. a.prio = s.prio /\ a.ready = s.ready
  BY <1>1 DEF Same, Where
<1>5. PICK m : m = MoveToPriority(a, t, new, c)
  OBVIOUS
<1>6. \/ c = a.prio[t]
      \/ IsReady(a, t) => m.ready[a.prio[t]] # <<End>>
  BY <1>4, <1>5, Zenon DEF IsReady
<1>7. Same(m, a, Else) /\ Tidy(m, {}, {})
  <2>1. Tidy(a, {}, {}) /\ Else \subseteq DOMAIN a /\ c \in {new, a.prio[t]}
    BY <1>1, <1>3, <1>4 DEF Onward, InPlace
  <2>2. \/ c = a.prio[t]
        \/ IsReady(a, t) => MoveToPriority(a, t, new, c).ready[a.prio[t]] # <<End>>
    BY <1>5, <1>6
  <2> QED BY <1>5, <2>1, <2>2, MovedToPriority
<1>8. Onward(m, a, {})
  BY <1>3, <1>7, MoveIsOnward DEF Onward
<1> QED BY <1>3, <1>5, <1>8, OnwardTwice

LEMMA NewPriority ==
  ASSUME NEW s, Where \subseteq DOMAIN s, s.prio \in [Task -> Prio], NEW t \in Task, NEW p, NEW c
  PROVE  MoveToPriority(s, t, p, c).prio[t] = p
<1>1. PICK new : new = [s EXCEPT !.prio[t] = p]
  OBVIOUS
<1>2. "prio" \in DOMAIN new /\ new.prio[t] = p /\ {"ready", "top"} \subseteq DOMAIN new
  BY <1>1 DEF Where
<1>3. PICK out : out = [new EXCEPT !.ready[s.prio[t]] = RemoveFirst(@, t)]
  OBVIOUS
<1>4. out.prio[t] = p /\ {"ready", "top", "prio"} \subseteq DOMAIN out
  BY <1>2, <1>3
<1>5. PICK bits : bits = IF out.ready[s.prio[t]] = <<End>>
                           THEN [out EXCEPT !.top = @ \ {c}] ELSE out
  OBVIOUS
<1>6. bits.prio[t] = p /\ {"ready", "top", "prio"} \subseteq DOMAIN bits
  BY <1>4, <1>5
<1>7. AddToReadyList(bits, t).prio[t] = p
  BY <1>6 DEF AddToReadyList
<1>8. MoveToPriority(s, t, p, c) = IF InReadyList(s, t, s.prio[t])
                                     THEN AddToReadyList(bits, t) ELSE new
  BY <1>1, <1>3, <1>5 DEF MoveToPriority
<1> QED BY <1>2, <1>7, <1>8

LEMMA BaseStays ==
  ASSUME NEW s, Else \subseteq DOMAIN s, NEW t, NEW p
  PROVE  [s EXCEPT !.item[t] = p] = [s EXCEPT !.base = s.base, !.item[t] = p]
  BY DEF Else

\* xTaskPriorityInherit
LEMMA InheritIsOnward ==
  ASSUME NEW s, InPlace(s, {}), NEW t \in Task
  PROVE  Onward(PriorityInherit(s, t), s, {})
<1>1. PICK p \in Prio : p = s.prio[s.cur]
  BY DEF InPlace, Fit, Tidy, Lists
<1>2. PICK a : a = [s EXCEPT !.item[t] = p]
  OBVIOUS
<1>3. a = [s EXCEPT !.base = s.base, !.item[t] = p]
  BY <1>2, BaseStays, Fields
<1>4. PICK c \in {p, s.prio[t]} : c = s.prio[t]
  OBVIOUS
<1>5. Onward(MoveToPriority(a, t, p, c), s, {})
  BY <1>3, <1>4, PriorityIsOnward
<1> QED BY <1>1, <1>2, <1>4, <1>5, HereAlready DEF PriorityInherit

\* vTaskPrioritySet
LEMMA SetIsOnward ==
  ASSUME NEW s, InPlace(s, {}), NEW t \in Task, NEW p \in Prio
  PROVE  Onward(PrioritySet(s, t, p), s, {})
<1>1. PICK new \in Prio : new = IF s.base[t] = s.prio[t] THEN p ELSE s.prio[t]
  BY DEF InPlace, Fit, Tidy, Lists
<1>2. PICK b \in [Task -> Prio] : b = [s.base EXCEPT ![t] = p]
  BY DEF InPlace, Fit
<1>3. PICK a : a = [s EXCEPT !.base[t] = p, !.item[t] = p]
  OBVIOUS
<1>4. a = [s EXCEPT !.base = b, !.item[t] = p]
  BY <1>2, <1>3
<1>5. PICK c \in {new, s.prio[t]} : c = s.prio[t]
  OBVIOUS
<1>6. Onward(MoveToPriority(a, t, new, c), s, {})
  BY <1>4, <1>5, PriorityIsOnward
<1> QED BY <1>1, <1>3, <1>5, <1>6, HereAlready DEF PrioritySet

\* xTaskPriorityDisinherit
LEMMA DisinheritIsInPlace ==
  ASSUME NEW s, InPlace(s, {}), NEW t \in Task
  PROVE  LET a == PriorityDisinherit(s, t)
         IN  /\ InPlace(a, {}) /\ a.susp = s.susp
             /\ a.held = [s.held EXCEPT ![t] = @ - 1]
<1>1. PICK h : h = [s.held EXCEPT ![t] = @ - 1]
  OBVIOUS
<1>2. PICK less : less = [s EXCEPT !.held = h]
  OBVIOUS
<1>3. less = [s EXCEPT !.held[t] = @ - 1]
  BY <1>1, <1>2
<1>4. InPlace(less, {}) /\ less.held = h /\ less.susp = s.susp
  BY <1>2, HeldIsInPlace
<1>5. PICK p \in Prio : p = s.base[t]
  BY DEF InPlace, Fit
<1>6. less.prio = s.prio
  BY <1>2, Fields DEF Where, Else
<1>7. PICK a : a = [less EXCEPT !.item[t] = p]
  OBVIOUS
<1>8. a = [less EXCEPT !.base = less.base, !.item[t] = p]
  BY <1>4, <1>7, BaseStays, Fields
<1>9. PICK c \in {p, less.prio[t]} : c = less.prio[t]
  OBVIOUS
<1>10. PICK m : m = MoveToPriority(a, t, p, c) /\ Onward(m, less, {})
  BY <1>4, <1>8, <1>9, PriorityIsOnward
<1>11. PriorityDisinherit(s, t) \in {m, less}
  BY <1>3, <1>5, <1>6, <1>7, <1>9, <1>10 DEF PriorityDisinherit
<1> QED BY <1>1, <1>4, <1>10, <1>11 DEF Onward

\* xTaskPriorityDisinheritAfterTimeout, when the holder does not leave its list empty
LEMMA DisinheritLateIsOnward ==
  ASSUME NEW s, InPlace(s, {}), NEW t \in Task, NEW highest \in Prio,
         NEW a, a = PriorityDisinheritAfterTimeout(s, t, highest),
         IsReady(s, t) /\ a.prio[t] # s.prio[t] => a.ready[s.prio[t]] # <<End>>
  PROVE  Onward(a, s, {})
<1>1. PICK p \in Prio : p = IF s.base[t] < highest THEN highest ELSE s.base[t]
  BY DEF InPlace, Fit
<1>2. CASE ~(s.prio[t] # p /\ s.held[t] = 1)
  BY <1>1, <1>2, HereAlready DEF PriorityDisinheritAfterTimeout
<1>3. CASE s.prio[t] # p /\ s.held[t] = 1
  <2>1. PICK b : b = [s EXCEPT !.item[t] = p]
    OBVIOUS
  <2>2. b = [s EXCEPT !.base = s.base, !.item[t] = p]
    BY <2>1, BaseStays, Fields
  <2>3. a = MoveToPriority(b, t, p, p)
    BY <1>1, <1>3, <2>1 DEF PriorityDisinheritAfterTimeout
  <2>4. Where \subseteq DOMAIN b /\ b.prio = s.prio
    BY <2>1, Fields DEF Where, Else
  <2>5. a.prio[t] = p
    BY <2>3, <2>4, NewPriority DEF InPlace, Tidy, Lists
  <2>6. IsReady(s, t) => MoveToPriority(b, t, p, p).ready[s.prio[t]] # <<End>>
    BY <1>3, <2>3, <2>5
  <2>7. p \in {p, s.prio[t]}
    OBVIOUS
  <2> QED BY <2>2, <2>3, <2>6, <2>7, PriorityIsOnward
<1> QED BY <1>2, <1>3

LEMMA TimeOutIsOnward ==
  ASSUME NEW s, NEW H, InPlace(s, H), NEW t
  PROVE  Onward(Forget(s, t), s, H) /\ Onward(InternalSetTimeOutState(s, t), s, H)
<1>1. PICK a : a = Forget(s, t)
  OBVIOUS
<1>2. Same(a, s, Where \cup Else)
  BY <1>1, Fields DEF Forget, Same, Where, Else
<1>3. PICK b : b = InternalSetTimeOutState(s, t)
  OBVIOUS
<1>4. Same(b, s, Where \cup Else)
  BY <1>3, Fields DEF InternalSetTimeOutState, Same, Where, Else
<1> QED BY <1>1, <1>2, <1>3, <1>4, SameIsOnward

LEMMA CheckIsOnward ==
  ASSUME NEW s, NEW H, InPlace(s, H), NEW t, NEW wait
  PROVE  Onward(CheckForTimeOut(s, t, wait), s, H)
<1>1. PICK a : a = [s EXCEPT !.aborted = @ \ {t}]
  OBVIOUS
<1>2. Same(a, s, Where \cup Else)
  BY <1>1, Fields DEF Same, Where, Else
<1>3. PICK b : b = InternalSetTimeOutState(s, t) /\ Onward(b, s, H)
  BY TimeOutIsOnward
<1>4. CheckForTimeOut(s, t, wait) \in {a, b, s}
  BY <1>1, <1>3 DEF CheckForTimeOut
<1> QED BY <1>2, <1>3, <1>4, SameIsOnward, HereAlready

LEMMA NotifiedIsOnward ==
  ASSUME NEW s, NEW H, InPlace(s, H), NEW t
  PROVE  Onward(Notified(s, t), s, H)
<1>1. PICK a : a = Notified(s, t)
  OBVIOUS
<1>2. Same(a, s, Where \cup Else)
  BY <1>1, Fields DEF Notified, Same, Where, Else
<1> QED BY <1>1, <1>2, SameIsOnward

\* The caller gives its mutex back.
LEMMA GiveBackIsInPlace ==
  ASSUME NEW s, InPlace(s, {}), NEW qu \in Queue
  PROVE  LET a == GiveBack(s, qu)
         IN  /\ InPlace(a, {}) /\ a.susp = s.susp
             /\ a.held = [s.held EXCEPT ![s.cur] = @ - 1]
<1>1. s.cur \in Task
  BY DEF InPlace, Fit
<1>2. PICK a : /\ a = PriorityDisinherit(s, s.cur) /\ InPlace(a, {}) /\ a.susp = s.susp
               /\ a.held = [s.held EXCEPT ![s.cur] = @ - 1]
  BY <1>1, DisinheritIsInPlace
<1>3. ToReceive(qu) \in EventList
  BY DEF EventList
<1>4. PICK b : b = WakeAndYield(a, ToReceive(qu)) /\ Onward(b, a, {})
  BY <1>2, <1>3, WakesAreOnward
<1>5. PICK c : c = YieldIf(Disinherits(s, s.cur), a) /\ Onward(c, a, {})
  BY <1>2, SwitchIsOnward
<1>6. GiveBack(s, qu) \in {b, c}
  BY <1>2, <1>4, <1>5 DEF GiveBack
<1> QED BY <1>2, <1>4, <1>5, <1>6 DEF Onward

-----------------------------------------------------------------------------
(* Who holds the mutexes. *)

LEMMA QueueStays ==
  ASSUME NEW h, Owned(h, q), Counted(q), NEW qu \in Queue, NEW r,
         {"n", "tx", "rx", "holder"} \subseteq DOMAIN r, r.tx \in Locks, r.rx \in Locks,
         r.holder = q[qu].holder, qu \in Mutex => r.n = q[qu].n,
         NEW new, new = [q EXCEPT ![qu] = r]
  PROVE  Owned(h, new) /\ Counted(new)
<1>1. /\ DOMAIN new = Queue /\ new[qu] = r
      /\ \A u \in Queue : u # qu => new[u] = q[u]
  BY DEF Counted
<1>2. Counted(new)
  BY <1>1 DEF Counted
<1>3. \A u \in Queue : /\ new[u].holder = q[u].holder
                       /\ u \in Mutex => new[u].n = q[u].n
  BY <1>1
<1>4. \A t : HeldBy(new, t) = HeldBy(q, t)
  BY <1>3, QueueAssumption DEF HeldBy
<1>5. Owned(h, new)
  BY <1>3, <1>4, QueueAssumption DEF Owned
<1> QED BY <1>2, <1>5

LEMMA MutexTaken ==
  ASSUME NEW h, Owned(h, q), Counted(q), NEW qu \in Mutex, NEW t \in Task, q[qu].n > 0,
         NEW r, {"n", "tx", "rx", "holder"} \subseteq DOMAIN r, r.tx = q[qu].tx,
         r.rx = q[qu].rx, r.n = q[qu].n - 1, r.holder = t,
         NEW new, new = [q EXCEPT ![qu] = r],
         NEW g, g = [h EXCEPT ![t] = @ + 1]
  PROVE  Owned(g, new) /\ Counted(new)
<1>1. qu \in Queue /\ q[qu].n = 1 /\ q[qu].holder = Nobody
  BY QueueAssumption DEF Owned
<1>2. r.n = 0
  BY <1>1
<1>3. /\ DOMAIN new = Queue /\ new[qu] = r
      /\ \A u \in Queue : u # qu => new[u] = q[u]
  BY <1>1 DEF Counted
<1>4. Counted(new)
  BY <1>1, <1>2, <1>3 DEF Counted
<1>5. HeldBy(new, t) = HeldBy(q, t) \cup {qu} /\ qu \notin HeldBy(q, t)
  BY <1>1, <1>2, <1>3, QueueAssumption, NobodyAssumption DEF HeldBy
<1>6. \A u \in Task : u # t => HeldBy(new, u) = HeldBy(q, u)
  BY <1>1, <1>2, <1>3, QueueAssumption, NobodyAssumption DEF HeldBy
<1>7. IsFiniteSet(HeldBy(q, t))
  <2>1. HeldBy(q, t) \subseteq Mutex
    BY DEF HeldBy
  <2> QED BY <2>1, QueueAssumption, FS_Subset
<1>8. Cardinality(HeldBy(new, t)) = Cardinality(HeldBy(q, t)) + 1
  <2>1. PICK held : held = HeldBy(q, t)
    OBVIOUS
  <2>2. Cardinality(held \cup {qu}) = Cardinality(held) + 1
    BY <1>5, <1>7, <2>1, FS_AddElement
  <2> QED BY <1>5, <2>1, <2>2
<1>9. g \in [Task -> Nat] /\ g[t] = h[t] + 1 /\ \A u \in Task : u # t => g[u] = h[u]
  BY DEF Owned
<1>10. \A u \in Task : g[u] = Cardinality(HeldBy(new, u))
  BY <1>6, <1>8, <1>9 DEF Owned
<1>11. /\ \A u \in Mutex : \/ new[u].n = 0 /\ new[u].holder \in Task
                           \/ new[u].n = 1 /\ new[u].holder = Nobody
       /\ \A u \in Queue \ Mutex : new[u].holder = Nobody
  <2>1. ASSUME NEW u \in Mutex
        PROVE  \/ new[u].n = 0 /\ new[u].holder \in Task
               \/ new[u].n = 1 /\ new[u].holder = Nobody
    <3>1. CASE u = qu
      BY <1>2, <1>3, <3>1
    <3>2. CASE u # qu
      <4>1. new[u] = q[u]
        BY <1>3, <3>2, QueueAssumption
      <4>2. \/ q[u].n = 0 /\ q[u].holder \in Task
            \/ q[u].n = 1 /\ q[u].holder = Nobody
        BY DEF Owned
      <4> QED BY <4>1, <4>2
    <3> QED BY <3>1, <3>2
  <2>2. ASSUME NEW u \in Queue \ Mutex
        PROVE  new[u].holder = Nobody
    <3>1. u # qu /\ u \in Queue
      OBVIOUS
    <3>2. new[u] = q[u]
      BY <1>3, <3>1
    <3> QED BY <3>2 DEF Owned
  <2> QED BY <2>1, <2>2
<1> QED BY <1>4, <1>9, <1>10, <1>11 DEF Owned

LEMMA MutexGiven ==
  ASSUME NEW h, Owned(h, q), Counted(q), NEW qu \in Mutex, NEW t \in Task, q[qu].holder = t,
         NEW r, {"n", "tx", "rx", "holder"} \subseteq DOMAIN r, r.tx = q[qu].tx,
         r.rx = q[qu].rx, r.n = q[qu].n + 1, r.holder = Nobody,
         NEW new, new = [q EXCEPT ![qu] = r],
         NEW g, g = [h EXCEPT ![t] = @ - 1]
  PROVE  Owned(g, new) /\ Counted(new)
<1>1. qu \in Queue /\ q[qu].n = 0
  BY QueueAssumption, NobodyAssumption DEF Owned
<1>2. r.n = 1
  BY <1>1
<1>3. /\ DOMAIN new = Queue /\ new[qu] = r
      /\ \A u \in Queue : u # qu => new[u] = q[u]
  BY <1>1 DEF Counted
<1>4. Counted(new)
  BY <1>1, <1>2, <1>3 DEF Counted
<1>5. HeldBy(new, t) = HeldBy(q, t) \ {qu} /\ qu \in HeldBy(q, t)
  BY <1>1, <1>2, <1>3, QueueAssumption, NobodyAssumption DEF HeldBy
<1>6. \A u \in Task : u # t => HeldBy(new, u) = HeldBy(q, u)
  BY <1>1, <1>2, <1>3, QueueAssumption, NobodyAssumption DEF HeldBy
<1>7. IsFiniteSet(HeldBy(q, t))
  <2>1. HeldBy(q, t) \subseteq Mutex
    BY DEF HeldBy
  <2> QED BY <2>1, QueueAssumption, FS_Subset
<1>8. /\ Cardinality(HeldBy(new, t)) = Cardinality(HeldBy(q, t)) - 1
      /\ Cardinality(HeldBy(new, t)) \in Nat
  <2>1. Cardinality(HeldBy(new, t)) = Cardinality(HeldBy(q, t)) - 1
    BY <1>5, <1>7, FS_RemoveElement
  <2>2. IsFiniteSet(HeldBy(new, t))
    BY <1>5, <1>7, FS_RemoveElement
  <2> QED BY <2>1, <2>2, FS_CardinalityType
<1>9. g[t] = h[t] - 1 /\ (\A u \in Task : u # t => g[u] = h[u]) /\ DOMAIN g = Task
      /\ g = [u \in Task |-> g[u]]
  BY DEF Owned
<1>10. \A u \in Task : g[u] = Cardinality(HeldBy(new, u))
  BY <1>6, <1>8, <1>9 DEF Owned
<1>12. g \in [Task -> Nat]
  <2>1. \A u \in Task : g[u] \in Nat
    <3>1. g[t] \in Nat
      BY <1>8, <1>10
    <3>2. \A u \in Task : u # t => g[u] \in Nat
      BY <1>9 DEF Owned
    <3> QED BY <3>1, <3>2
  <2> QED BY <1>9, <2>1
<1>11. /\ \A u \in Mutex : \/ new[u].n = 0 /\ new[u].holder \in Task
                           \/ new[u].n = 1 /\ new[u].holder = Nobody
       /\ \A u \in Queue \ Mutex : new[u].holder = Nobody
  <2>1. ASSUME NEW u \in Mutex
        PROVE  \/ new[u].n = 0 /\ new[u].holder \in Task
               \/ new[u].n = 1 /\ new[u].holder = Nobody
    <3>1. CASE u = qu
      BY <1>2, <1>3, <3>1
    <3>2. CASE u # qu
      <4>1. new[u] = q[u]
        BY <1>3, <3>2, QueueAssumption
      <4>2. \/ q[u].n = 0 /\ q[u].holder \in Task
            \/ q[u].n = 1 /\ q[u].holder = Nobody
        BY DEF Owned
      <4> QED BY <4>1, <4>2
    <3> QED BY <3>1, <3>2
  <2>2. ASSUME NEW u \in Queue \ Mutex
        PROVE  new[u].holder = Nobody
    <3>1. u # qu /\ u \in Queue
      OBVIOUS
    <3>2. new[u] = q[u]
      BY <1>3, <3>1
    <3> QED BY <3>2 DEF Owned
  <2> QED BY <2>1, <2>2
<1> QED BY <1>4, <1>10, <1>11, <1>12 DEF Owned

-----------------------------------------------------------------------------
(* Every step keeps the tasks in their places.                              *)

LEMMA PrimedPlace == ASSUME InPlace(k', InHand') PROVE InPlace(k, InHand)'
  BY DEF InPlace, Tidy, Lists, Homes, NoHome, OneHome, Bits, IsReady, Fit, Circle, Once,
         Others, Where, Else, InHand, Prio, EventList, Pending, ToSend, ToReceive

LEMMA PrimedQueues ==
  ASSUME Owned(k'.held, q'), Counted(q') PROVE Owned(k.held, q)' /\ Counted(q)'
  BY DEF Owned, Counted, HeldBy, Locks, Unlocked, Nobody

LEMMA PrimedCall ==
  ASSUME NEW t \in Task, SoundPlace(t, pc'[t], loc'[t]) PROVE SoundPlace(t, pc[t], loc[t])'
  BY DEF SoundPlace, QueueCall, NoCall, Loop, Others

LEMMA NobodyAborted ==
  ASSUME Punctual
  PROVE  /\ pc[k.cur] # "aborted" => InHand = {}
         /\ k.cur \in Task /\ pc[k.cur] = "aborted" => InHand = {Here.obj}
         /\ InHand = {} \/ k.susp = 1
<1>1. \A t \in Task : pc[t] = "aborted" => t = k.cur /\ k.susp = 1
  BY DEF Punctual, Suspension, Inside
<1> QED BY <1>1 DEF InHand, Here

LEMMA NoCallIsSoundPlace == ASSUME NEW t PROVE SoundPlace(t, "run", NoCall)
  BY DEF SoundPlace, NoCall, Loop

LEMMA GotoIsOrderly ==
  ASSUME Punctual, Orderly, NEW s, NEW p, NEW l, Goto(s, p, l),
         InPlace(s, IF p = "aborted" THEN {l.obj} ELSE {}),
         p = "run" \/ SoundPlace(k.cur, p, l),
         p = "inherit" => l.obj \in Mutex /\ q'[l.obj].n = 0,
         Owned(s.held, q'), Counted(q')
  PROVE  Orderly'
<1>1. /\ k' = (IF p = "run" THEN Forget(s, k.cur) ELSE s)
      /\ pc' = [pc EXCEPT ![k.cur] = p]
      /\ loc' = [loc EXCEPT ![k.cur] = IF p = "run" THEN NoCall ELSE l]
  BY DEF Goto
<1>2. PICK c \in Task : c = k.cur
  BY DEF Orderly, InPlace, Fit
<1>3. PICK m : /\ m = (IF p = "run" THEN NoCall ELSE l) /\ SoundPlace(c, p, m)
               /\ p # "run" => m = l
  BY <1>2, NoCallIsSoundPlace
<1>4. /\ DOMAIN pc' = Task /\ DOMAIN loc' = Task /\ pc'[c] = p /\ loc'[c] = m
      /\ \A t \in Task : t # c => pc'[t] = pc[t] /\ loc'[t] = loc[t]
  BY <1>1, <1>2, <1>3 DEF Orderly, SoundPlaces
<1>5. \A t \in Task : t # c => pc[t] # "aborted" /\ pc[t] # "inherit"
  BY <1>2 DEF Punctual, Suspension, Inside
<1>6. SoundPlaces'
  <2>1. ASSUME NEW t \in Task PROVE SoundPlace(t, pc'[t], loc'[t])
    <3>1. CASE t = c
      BY <1>3, <1>4, <3>1
    <3>2. CASE t # c
      BY <1>4, <3>2 DEF Orderly, SoundPlaces
    <3> QED BY <3>1, <3>2
  <2>2. \A t \in Task : SoundPlace(t, pc[t], loc[t])'
    BY <2>1, PrimedCall
  <2> QED BY <1>4, <2>2 DEF SoundPlaces
<1>7. Inheriting'
  <2>1. ASSUME NEW t \in Task, pc'[t] = "inherit"
        PROVE  loc'[t].obj \in Mutex /\ q'[loc'[t].obj].n = 0
    BY <1>3, <1>4, <1>5, <2>1
  <2> QED BY <2>1 DEF Inheriting
<1>8. InHand' = IF p = "aborted" THEN {l.obj} ELSE {}
  <2>1. {t \in Task : pc'[t] = "aborted"} = IF p = "aborted" THEN {c} ELSE {}
    BY <1>4, <1>5
  <2>2. p = "aborted" => loc'[c] = l
    BY <1>3, <1>4
  <2>3. InHand' = {loc'[t].obj : t \in {u \in Task : pc'[u] = "aborted"}}
    BY DEF InHand
  <2> QED BY <2>1, <2>2, <2>3
<1>9. PICK H : H = InHand' /\ InPlace(s, H)
  BY <1>8
<1>10. InPlace(k', H) /\ k'.held = s.held
  BY <1>1, <1>9, TimeOutIsOnward DEF Onward
<1>11. InPlace(k, InHand)'
  BY <1>9, <1>10, PrimedPlace
<1>12. Owned(k.held, q)' /\ Counted(q)'
  BY <1>10, PrimedQueues
<1> QED BY <1>6, <1>7, <1>11, <1>12 DEF Orderly

\* A step that leaves the queues alone.
LEMMA TaskIsOrderly ==
  ASSUME Punctual, Orderly, q' = q, NEW s, NEW p, NEW l, Goto(s, p, l),
         InPlace(s, {}), s.held = k.held, p # "aborted",
         p = "run" \/ SoundPlace(k.cur, p, l),
         p = "inherit" => l.obj \in Mutex /\ q[l.obj].n = 0
  PROVE  Orderly'
<1>1. Owned(s.held, q') /\ Counted(q')
  BY DEF Orderly
<1>2. InPlace(s, IF p = "aborted" THEN {l.obj} ELSE {})
  OBVIOUS
<1> QED BY <1>1, <1>2, GotoIsOrderly

\* A call that changes the queue but not who has it.
LEMMA CallIsOrderly ==
  ASSUME Punctual, Orderly, NEW s, NEW qu \in Queue, NEW r, NEW p, NEW l, Call(s, qu, r, p, l),
         InPlace(s, {}), s.held = k.held, p # "aborted", p # "inherit",
         p = "run" \/ SoundPlace(k.cur, p, l),
         {"n", "tx", "rx", "holder"} \subseteq DOMAIN r, r.tx \in Locks, r.rx \in Locks,
         r.holder = q[qu].holder, qu \in Mutex => r.n = q[qu].n
  PROVE  Orderly'
<1>1. q' = [q EXCEPT ![qu] = r] /\ Goto(s, p, l)
  BY DEF Call
<1>2. Owned(s.held, q') /\ Counted(q')
  BY <1>1, QueueStays DEF Orderly
<1>3. InPlace(s, IF p = "aborted" THEN {l.obj} ELSE {})
  OBVIOUS
<1> QED BY <1>1, <1>2, <1>3, GotoIsOrderly

LEMMA HandlerIsOrderly ==
  ASSUME Orderly, NEW s, Handler(s), Onward(s, k, InHand), Owned(k.held, q'), Counted(q'),
         \A qu \in Mutex : q'[qu].n = q[qu].n
  PROVE  Orderly'
<1>1. k' = s /\ pc' = pc /\ loc' = loc
  BY DEF Handler
<1>2. InHand' = InHand
  BY <1>1 DEF InHand
<1>3. InPlace(k', InHand') /\ k'.held = k.held
  BY <1>1, <1>2 DEF Onward
<1>4. InPlace(k, InHand)'
  BY <1>3, PrimedPlace
<1>5. Owned(k.held, q)' /\ Counted(q)'
  BY <1>3, PrimedQueues
<1>6. SoundPlaces'
  <2>1. \A t \in Task : SoundPlace(t, pc[t], loc[t])'
    BY <1>1, PrimedCall DEF Orderly, SoundPlaces
  <2> QED BY <1>1, <2>1 DEF Orderly, SoundPlaces
<1>7. Inheriting'
  BY <1>1 DEF Orderly, Inheriting
<1> QED BY <1>4, <1>5, <1>6, <1>7 DEF Orderly

-----------------------------------------------------------------------------
(* The steps without a queue.                                               *)

LEMMA HereIsOrderly ==
  ASSUME Punctual, Orderly
  PROVE  /\ k.cur \in Task /\ InPlace(k, InHand) /\ SoundPlace(k.cur, pc[k.cur], Here)
         /\ pc[k.cur] # "aborted" => InPlace(k, {})
         /\ pc[k.cur] \notin {"run", "idle", "sleep", "resume"} => k.cur \in Others
         /\ Here.next \notin Inside
<1>1. k.cur \in Task /\ InPlace(k, InHand)
  BY DEF Orderly, InPlace, Fit
<1>2. SoundPlace(k.cur, pc[k.cur], Here)
  BY <1>1 DEF Orderly, SoundPlaces, Here
<1>3. pc[k.cur] # "aborted" => InPlace(k, {})
  BY <1>1, NobodyAborted
<1>4. pc[k.cur] \notin {"run", "idle", "sleep", "resume"} => k.cur \in Others
  BY <1>1, <1>2 DEF SoundPlace, Others
<1>5. Here.next \notin Inside
  BY <1>1 DEF Punctual, Waits, SoundWait, Here
<1> QED BY <1>1, <1>2, <1>3, <1>4, <1>5

\* The idle task makes no call, and nobody may act on it.
LEMMA CallersAreOthers ==
  ASSUME Punctual, Orderly
  PROVE  /\ Targets \subseteq Others
         /\ \A op : op # "sleep" /\ Calls(op) => k.cur \in Others /\ pc[k.cur] = "run"
<1>1. scenario.does[Idle] \subseteq {"sleep"}
  BY ScenarioAssumption DEF Punctual
<1> QED BY <1>1, HereIsOrderly DEF Targets, Others, Calls, At

\* The locals of a call that is no queue's.
LEMMA PlainPlace ==
  ASSUME NEW t \in Others, NEW l, DOMAIN NoCall \subseteq DOMAIN l, l.next = "run",
         NEW p, p \notin Loop, p \in {"abort", "aborted"} => l.obj \in Others
  PROVE  SoundPlace(t, p, l)
  BY DEF SoundPlace, Others

\* A call goes on with the locals it has.
LEMMA SamePlace ==
  ASSUME Punctual, Orderly, NEW p, p \notin {"abort", "aborted"},
         p \notin Loop \/ pc[k.cur] \in Loop,
         k.cur = Idle => p \in {"run", "idle", "sleep", "resume"}
  PROVE  SoundPlace(k.cur, p, Here)
  BY HereIsOrderly DEF SoundPlace

LEMMA SuspendIsInPlace ==
  ASSUME NEW s, NEW H, InPlace(s, H)
  PROVE  InPlace(SuspendAll(s), H) /\ SuspendAll(s).held = s.held
<1>1. PICK a : a = SuspendAll(s)
  OBVIOUS
<1>2. /\ Same(a, s, Where) /\ Else \subseteq DOMAIN a
      /\ a.events = s.events /\ a.base = s.base /\ a.item = s.item
      /\ a.yield = s.yield /\ a.pended = s.pended /\ a.cur = s.cur
      /\ a.held = s.held
  BY <1>1, Fields DEF SuspendAll, Same, Where, Else
<1>3. Tidy(a, H, {})
  BY <1>2, OtherFields DEF InPlace
<1>4. Fit(a)
  BY <1>2, Zenon DEF InPlace, Fit
<1> QED BY <1>1, <1>2, <1>3, <1>4 DEF InPlace

LEMMA ResumingIsOrderly ==
  ASSUME Punctual, Orderly, ResumeScheduler, q' = q PROVE Orderly'
<1>1. PICK s : s = ResumeAll(k)
  OBVIOUS
<1>2. PICK p : p = IF Here.block /\ ~AlreadyYielded(k) THEN "yield" ELSE Here.next
  OBVIOUS
<1>3. Goto(s, p, Here) /\ pc[k.cur] = "resume"
  BY <1>1, <1>2 DEF ResumeScheduler, At
<1>4. InPlace(k, {}) /\ k.susp = 1
  BY <1>3, HereIsOrderly DEF Punctual, Suspension, Inside
<1>5. InPlace(s, {}) /\ s.held = k.held
  BY <1>1, <1>4, ResumeAllIsOnward
<1>6. p \notin Inside /\ (p = "yield" => Here.block \/ p = Here.next)
  BY <1>2, HereIsOrderly DEF Inside
<1>7. p = "run" \/ SoundPlace(k.cur, p, Here)
  BY <1>2, <1>3, <1>6, HereIsOrderly DEF SoundPlace, Inside, Loop
<1> QED BY <1>3, <1>5, <1>6, <1>7, TaskIsOrderly DEF Inside

LEMMA YieldIsOrderly ==
  ASSUME Punctual, Orderly, Yield, q' = q PROVE Orderly'
<1>1. InPlace(k, {}) /\ pc[k.cur] = "yield"
  BY HereIsOrderly DEF Yield, At
<1>2. PICK s : s = SwitchContext(k) /\ Onward(s, k, {})
  BY <1>1, SwitchIsOnward
<1>3. PICK p : p = Here.next /\ Goto(s, p, Here)
  BY <1>2 DEF Yield
<1>4. p \notin Inside
  BY <1>3, HereIsOrderly
<1>5. p = "run" \/ SoundPlace(k.cur, p, Here)
  BY <1>1, <1>3, <1>4, HereIsOrderly DEF SoundPlace, Inside, Loop, Others
<1>6. InPlace(s, {}) /\ s.held = k.held
  BY <1>2 DEF Onward
<1> QED BY <1>3, <1>4, <1>5, <1>6, TaskIsOrderly DEF Inside

LEMMA StartDelayIsOrderly ==
  ASSUME Punctual, Orderly, StartDelay, q' = q PROVE Orderly'
<1>1. PICK n \in scenario.delays :
        IF n = 0 THEN Goto(SwitchContext(k), "run", NoCall)
        ELSE Goto(SuspendAll(k), "delay",
                  [NoCall EXCEPT !.op = "delay", !.wait = n, !.block = TRUE])
  BY DEF StartDelay
<1>2. k.cur \in Others /\ InPlace(k, {})
  BY CallersAreOthers, HereIsOrderly DEF StartDelay
<1>3. CASE n = 0
  <2>1. PICK s : s = SwitchContext(k) /\ InPlace(s, {}) /\ s.held = k.held
    BY <1>2, SwitchIsOnward DEF Onward
  <2>2. Goto(s, "run", NoCall)
    BY <1>1, <1>3, <2>1
  <2> QED BY <2>1, <2>2, TaskIsOrderly
<1>4. CASE n # 0
  <2>1. PICK l : l = [NoCall EXCEPT !.op = "delay", !.wait = n, !.block = TRUE]
    OBVIOUS
  <2>5. DOMAIN NoCall \subseteq DOMAIN l /\ l.next = "run"
    BY <2>1 DEF NoCall
  <2>2. PICK s : s = SuspendAll(k) /\ InPlace(s, {}) /\ s.held = k.held
    BY <1>2, SuspendIsInPlace
  <2>3. Goto(s, "delay", l)
    BY <1>1, <1>4, <2>1, <2>2
  <2>4. SoundPlace(k.cur, "delay", l)
    BY <1>2, <2>5, PlainPlace DEF Loop
  <2> QED BY <2>2, <2>3, <2>4, TaskIsOrderly
<1> QED BY <1>3, <1>4

LEMMA DelayIsOrderly ==
  ASSUME Punctual, Orderly, Delay, q' = q PROVE Orderly'
<1>1. pc[k.cur] = "delay" /\ InPlace(k, {}) /\ k.cur \in Others
  BY HereIsOrderly DEF Delay, At
<1>2. PICK s : s = AddCurrentTaskToDelayedList(k, Here.wait, FALSE) /\ Onward(s, k, {})
  BY <1>1, AddCurrentIsOnward
<1>3. Goto(s, "resume", Here)
  BY <1>2 DEF Delay
<1>4. SoundPlace(k.cur, "resume", Here)
  BY SamePlace DEF Loop
<1> QED BY <1>2, <1>3, <1>4, TaskIsOrderly DEF Onward

LEMMA NotifyTakeIsOrderly ==
  ASSUME Punctual, Orderly, NotifyTake, q' = q PROVE Orderly'
<1>1. PICK n \in scenario.waits[k.cur] :
        LET t       == k.cur
            waiting == [k EXCEPT !.nstate[t] = "waiting"]
        IN  Goto(CASE k.nval[t] # 0 -> k
                   [] k.nval[t] = 0 /\ n = 0 -> waiting
                   [] OTHER ->
                        SwitchContext(AddCurrentTaskToDelayedList(waiting, n, TRUE)),
                 "taken", [NoCall EXCEPT !.op = "take", !.wait = n])
  BY DEF NotifyTake
<1>2. k.cur \in Others /\ InPlace(k, {})
  BY CallersAreOthers, HereIsOrderly DEF NotifyTake
<1>3. PICK l : l = [NoCall EXCEPT !.op = "take", !.wait = n]
  OBVIOUS
<1>13. DOMAIN NoCall \subseteq DOMAIN l /\ l.next = "run"
  BY <1>3 DEF NoCall
<1>4. PICK a : a = [k EXCEPT !.nstate[k.cur] = "waiting"] /\ Same(a, k, Where \cup Else)
  BY <1>2, Fields DEF Same, Where, Else
<1>5. Onward(a, k, {}) /\ InPlace(a, {}) /\ a.cur \in Others
  BY <1>2, <1>4, SameIsOnward DEF Same, Else, Onward
<1>6. PICK b : b = AddCurrentTaskToDelayedList(a, n, TRUE) /\ Onward(b, a, {})
  BY <1>5, AddCurrentIsOnward
<1>7. PICK c : c = SwitchContext(b) /\ Onward(c, b, {})
  BY <1>6, SwitchIsOnward DEF Onward
<1>8. PICK s : s = (CASE k.nval[k.cur] # 0 -> k
                     [] k.nval[k.cur] = 0 /\ n = 0 -> a
                     [] OTHER -> SwitchContext(AddCurrentTaskToDelayedList(a, n, TRUE)))
  OBVIOUS
<1>9. s \in {k, a, c}
  BY <1>6, <1>7, <1>8
<1>10. Goto(s, "taken", l)
  BY <1>1, <1>3, <1>4, <1>8
<1>11. InPlace(s, {}) /\ s.held = k.held
  BY <1>2, <1>5, <1>6, <1>7, <1>9 DEF Onward
<1>12. SoundPlace(k.cur, "taken", l)
  BY <1>2, <1>13, PlainPlace DEF Loop
<1> QED BY <1>10, <1>11, <1>12, TaskIsOrderly

LEMMA NotifyTakenIsOrderly ==
  ASSUME Punctual, Orderly, NotifyTaken, q' = q PROVE Orderly'
<1>1. InPlace(k, {})
  BY HereIsOrderly DEF NotifyTaken, At
<1>2. PICK s : /\ s = [k EXCEPT !.nval[k.cur] = 0, !.nstate[k.cur] = "none"]
               /\ Same(s, k, Where \cup Else)
  BY <1>1, Fields DEF Same, Where, Else
<1>3. Goto(s, "run", Here)
  BY <1>2 DEF NotifyTaken
<1>4. Onward(s, k, {})
  BY <1>1, <1>2, SameIsOnward
<1> QED BY <1>3, <1>4, TaskIsOrderly DEF Onward

LEMMA NotifyGiveIsOrderly ==
  ASSUME Punctual, Orderly, NotifyGive, q' = q PROVE Orderly'
<1>1. PICK t \in Others :
        Goto(IF k.nstate[t] = "waiting"
               THEN YieldIf(k.prio[t] > k.prio[k.cur],
                      ResetNextTaskUnblockTime(
                        AddToReadyList(RemoveStateItem(Notified(k, t), t), t)))
               ELSE Notified(k, t),
             "run", NoCall)
  BY DEF NotifyGive, Others
<1>2. InPlace(k, {})
  BY HereIsOrderly DEF NotifyGive, Calls, At
<1>3. PICK a : a = Notified(k, t) /\ Onward(a, k, {})
  BY <1>2, NotifiedIsOnward
<1>4. PICK b : b = AddToReadyList(RemoveStateItem(a, t), t) /\ Onward(b, a, {})
  BY <1>3, ReadiedIsOnward DEF Onward
<1>5. PICK c : c = ResetNextTaskUnblockTime(b) /\ Onward(c, b, {})
  BY <1>4, ResetIsOnward DEF Onward
<1>6. PICK d : d = YieldIf(k.prio[t] > k.prio[k.cur], c) /\ Onward(d, c, {})
  BY <1>5, SwitchIsOnward DEF Onward
<1>7. PICK s : s = (IF k.nstate[t] = "waiting" THEN d ELSE a) /\ Goto(s, "run", NoCall)
  BY <1>1, <1>3, <1>4, <1>5, <1>6
<1>8. InPlace(s, {}) /\ s.held = k.held
  BY <1>3, <1>4, <1>5, <1>6, <1>7 DEF Onward
<1> QED BY <1>7, <1>8, TaskIsOrderly

LEMMA TaskSuspendIsOrderly ==
  ASSUME Punctual, Orderly, TaskSuspend, q' = q PROVE Orderly'
<1>1. PICK t \in Targets :
        LET out == RemoveEventItem(ResetReadyPriority(
                     RemoveStateItem(k, t), k.prio[t]), t)
        IN  Goto([out EXCEPT !.suspended = @ \cup {t},
                             !.nstate[t] = IF @ = "waiting" THEN "none" ELSE @],
                 "suspended",
                 [NoCall EXCEPT !.op = "suspend", !.block = (t = k.cur)])
  BY DEF TaskSuspend
<1>2. t \in Others /\ k.cur \in Others /\ InPlace(k, {})
  BY CallersAreOthers, HereIsOrderly DEF TaskSuspend
<1>3. PICK x \in Prio : x = k.prio[t]
  BY <1>2 DEF InPlace, Tidy, Lists, Others
<1>4. PICK a : /\ a = RemoveStateItem(k, t) /\ Same(a, k, Else \cup {"prio", "top"})
               /\ Tidy(a, {t}, {x})
  <2>1. Tidy(k, {}, {}) /\ Else \subseteq DOMAIN k
    BY <1>2 DEF InPlace, Fit
  <2>2. /\ Same(RemoveStateItem(k, t), k, Else \cup {"prio", "top"})
        /\ Tidy(RemoveStateItem(k, t), {} \cup {t}, {} \cup {k.prio[t]})
    BY <1>2, <2>1, TaskLeaves
  <2>3. {} \cup {t} = {t} /\ {} \cup {k.prio[t]} = {x}
    BY <1>3
  <2> QED BY <2>2, <2>3
<1>5. PICK b : b = ResetReadyPriority(a, x) /\ Same(b, k, Else) /\ Tidy(b, {t}, {})
  <2>1. Else \subseteq DOMAIN a /\ Same(a, k, Else)
    BY <1>4 DEF Same
  <2>2. /\ Same(ResetReadyPriority(a, x), a, Else \cup {"prio"})
        /\ Tidy(ResetReadyPriority(a, x), {t}, {x} \ {x})
    BY <1>4, <2>1, BitIsReset
  <2>3. {x} \ {x} = {}
    OBVIOUS
  <2>4. Same(ResetReadyPriority(a, x), a, Else)
    BY <2>2, FieldsSame
  <2> QED BY <2>1, <2>2, <2>3, <2>4, SameTwice
<1>6. Onward(b, k, {t})
  BY <1>2, <1>5, MoveIsOnward
<1>7. PICK c : c = RemoveEventItem(b, t) /\ Onward(c, b, {t}) /\ InPlace(c, {t})
  BY <1>6, EventItemIsOnward DEF Onward
<1>8. PICK d : d = [c EXCEPT !.suspended = @ \cup {t},
                             !.nstate[t] = IF @ = "waiting" THEN "none" ELSE @]
  OBVIOUS
<1>9. /\ Same(d, c, {"ready", "top", "prio"}) /\ Same(d, c, Else) /\ Where \subseteq DOMAIN d
      /\ d.suspended = c.suspended \cup {t} /\ d.delayed = c.delayed
      /\ d.overflow = c.overflow
  BY <1>7, <1>8, Fields DEF Same, Where, Else
<1>10. Tidy(d, {}, {})
  <2>1. Tidy(c, {t}, {}) /\ t \in {t} /\ {t} \ {t} = {}
    BY <1>7 DEF InPlace
  <2>2. Tidy(d, {t} \ {t}, {})
    BY <1>2, <1>9, <2>1, TaskSleeps
  <2> QED BY <2>1, <2>2
<1>11. Onward(d, c, {})
  BY <1>7, <1>9, <1>10, MoveIsOnward
<1>12. PICK l : l = [NoCall EXCEPT !.op = "suspend", !.block = (t = k.cur)]
  OBVIOUS
<1>13. DOMAIN NoCall \subseteq DOMAIN l /\ l.next = "run"
  BY <1>12 DEF NoCall
<1>14. Goto(d, "suspended", l)
  BY <1>1, <1>3, <1>4, <1>5, <1>7, <1>8, <1>12
<1>15. InPlace(d, {}) /\ d.held = k.held
  BY <1>6, <1>7, <1>11 DEF Onward
<1>16. SoundPlace(k.cur, "suspended", l)
  BY <1>2, <1>13, PlainPlace DEF Loop
<1> QED BY <1>14, <1>15, <1>16, TaskIsOrderly

LEMMA TaskSuspendedIsOrderly ==
  ASSUME Punctual, Orderly, TaskSuspended, q' = q PROVE Orderly'
<1>1. pc[k.cur] = "suspended" /\ InPlace(k, {}) /\ k.cur \in Others
  BY HereIsOrderly DEF TaskSuspended, At
<1>2. PICK s : s = ResetNextTaskUnblockTime(k) /\ Onward(s, k, {})
  BY <1>1, ResetIsOnward
<1>3. PICK p \in {"yield", "run"} : Goto(s, p, Here)
  BY <1>2 DEF TaskSuspended
<1>4. SoundPlace(k.cur, p, Here)
  BY <1>1, SamePlace DEF Loop, Others
<1> QED BY <1>2, <1>3, <1>4, TaskIsOrderly DEF Onward

LEMMA TaskResumeIsOrderly ==
  ASSUME Punctual, Orderly, TaskResume, q' = q PROVE Orderly'
<1>1. PICK t \in Others :
        Goto(IF IsTaskSuspended(k, t)
               THEN YieldIf(k.prio[t] >= k.prio[k.cur], Resumed(k, t))
               ELSE k,
             "run", NoCall)
  BY CallersAreOthers DEF TaskResume
<1>2. InPlace(k, {})
  BY HereIsOrderly DEF TaskResume, Calls, At
<1>3. PICK a : a = Resumed(k, t) /\ Onward(a, k, {})
  BY <1>2, ReadiedIsOnward DEF Resumed
<1>4. PICK b : b = YieldIf(k.prio[t] >= k.prio[k.cur], a) /\ Onward(b, a, {})
  BY <1>3, SwitchIsOnward DEF Onward
<1>5. PICK s : s = (IF IsTaskSuspended(k, t) THEN b ELSE k) /\ Goto(s, "run", NoCall)
  BY <1>1, <1>3, <1>4
<1>6. InPlace(s, {}) /\ s.held = k.held
  BY <1>2, <1>3, <1>4, <1>5 DEF Onward
<1> QED BY <1>5, <1>6, TaskIsOrderly

LEMMA TaskPrioritySetIsOrderly ==
  ASSUME Punctual, Orderly, TaskPrioritySet, q' = q PROVE Orderly'
<1>1. PICK t \in Targets, p \in scenario.prios :
        Goto(YieldIf(PrioritySetYields(k, t, p), PrioritySet(k, t, p)), "run", NoCall)
  BY DEF TaskPrioritySet
<1>2. t \in Task /\ p \in Prio
  BY CallersAreOthers, ScenarioAssumption DEF Punctual, Others
<1>3. InPlace(k, {})
  BY HereIsOrderly DEF TaskPrioritySet, Calls, At
<1>4. PICK a : a = PrioritySet(k, t, p) /\ Onward(a, k, {})
  BY <1>2, <1>3, SetIsOnward
<1>5. PICK s : s = YieldIf(PrioritySetYields(k, t, p), a) /\ Onward(s, a, {})
  BY <1>4, SwitchIsOnward DEF Onward
<1>6. Goto(s, "run", NoCall)
  BY <1>1, <1>4, <1>5
<1>7. InPlace(s, {}) /\ s.held = k.held
  BY <1>4, <1>5 DEF Onward
<1> QED BY <1>6, <1>7, TaskIsOrderly

LEMMA StartAbortDelayIsOrderly ==
  ASSUME Punctual, Orderly, StartAbortDelay, q' = q PROVE Orderly'
<1>1. PICK t \in Others :
        Goto(SuspendAll(k), "abort", [NoCall EXCEPT !.op = "abort", !.obj = t])
  BY CallersAreOthers DEF StartAbortDelay
<1>2. k.cur \in Others /\ InPlace(k, {})
  BY CallersAreOthers, HereIsOrderly DEF StartAbortDelay
<1>3. PICK l : l = [NoCall EXCEPT !.op = "abort", !.obj = t]
  OBVIOUS
<1>4. DOMAIN NoCall \subseteq DOMAIN l /\ l.next = "run" /\ l.obj = t
  BY <1>3 DEF NoCall
<1>5. PICK s : s = SuspendAll(k) /\ InPlace(s, {}) /\ s.held = k.held
  BY <1>2, SuspendIsInPlace
<1>6. Goto(s, "abort", l)
  BY <1>1, <1>3, <1>5
<1>7. SoundPlace(k.cur, "abort", l)
  BY <1>2, <1>4, PlainPlace DEF Loop
<1> QED BY <1>5, <1>6, <1>7, TaskIsOrderly

\* The state item of a blocked task is in another list than the ready ones.
LEMMA AbortDelayIsOrderly ==
  ASSUME Punctual, Orderly, AbortDelay, q' = q PROVE Orderly'
<1>1. pc[k.cur] = "abort" /\ InPlace(k, {}) /\ k.cur \in Others
  BY HereIsOrderly DEF AbortDelay, At
<1>2. PICK t \in Others : t = Here.obj
  BY <1>1, HereIsOrderly DEF SoundPlace
<1>3. CASE IsBlocked(k, t)
  <2>1. PICK s : s = RemoveStateItem(k, t)
    OBVIOUS
  <2>2. t \in Task /\ t \notin {}
    BY DEF Others
  <2>3. ~IsReady(k, t)
    BY <1>1, <1>3, <2>2 DEF IsBlocked, InPlace, Tidy, Homes, OneHome
  <2>4. Tidy(k, {}, {}) /\ Else \subseteq DOMAIN k
    BY <1>1 DEF InPlace, Fit
  <2>5. Same(s, k, Else \cup {"prio", "top"}) /\ Tidy(s, {} \cup {t}, {})
    BY <2>1, <2>3, <2>4, TaskLeaves
  <2>6. Same(s, k, Else) /\ Tidy(s, {t}, {})
    BY <2>5, FieldsSame
  <2>7. InPlace(s, {t}) /\ s.held = k.held
    BY <1>1, <2>6, MoveIsOnward DEF Onward
  <2>8. Goto(s, "aborted", Here)
    BY <1>2, <1>3, <2>1 DEF AbortDelay
  <2>9. SoundPlace(k.cur, "aborted", Here)
    BY <1>1, <1>2, HereIsOrderly DEF SoundPlace, Others, Loop
  <2>10. InPlace(s, IF "aborted" = "aborted" THEN {Here.obj} ELSE {})
    BY <1>2, <2>7
  <2>11. Owned(s.held, q') /\ Counted(q')
    BY <2>7 DEF Orderly
  <2> QED BY <2>8, <2>9, <2>10, <2>11, GotoIsOrderly
<1>4. CASE ~IsBlocked(k, t)
  <2>1. Goto(k, "resume", Here)
    BY <1>2, <1>4 DEF AbortDelay
  <2>2. SoundPlace(k.cur, "resume", Here)
    BY <1>1, SamePlace DEF Loop
  <2> QED BY <1>1, <2>1, <2>2, TaskIsOrderly
<1> QED BY <1>3, <1>4

LEMMA AbortedDelayIsOrderly ==
  ASSUME Punctual, Orderly, AbortedDelay, q' = q PROVE Orderly'
<1>1. pc[k.cur] = "aborted" /\ k.cur \in Others
  BY HereIsOrderly DEF AbortedDelay, At
<1>2. PICK t \in Others : t = Here.obj
  BY <1>1, HereIsOrderly DEF SoundPlace
<1>3. InPlace(k, {t})
  BY <1>1, <1>2, HereIsOrderly, NobodyAborted
<1>4. PICK a : a = RemoveEventItem(k, t) /\ Onward(a, k, {t}) /\ InPlace(a, {t})
  BY <1>3, EventItemIsOnward DEF Onward
<1>5. PICK b : b = [a EXCEPT !.aborted = @ \cup {t}] /\ Same(b, a, Where \cup Else)
  BY <1>4, Fields DEF Same, Where, Else
<1>6. Onward(b, a, {t})
  BY <1>4, <1>5, SameIsOnward
<1>7. PICK c : c = (IF InEventList(k, t) THEN b ELSE k)
  OBVIOUS
<1>8. InPlace(c, {t}) /\ c.held = k.held
  BY <1>3, <1>4, <1>6, <1>7 DEF Onward
<1>9. PICK d : d = AddToReadyList(c, t) /\ InPlace(d, {}) /\ d.held = k.held
  <2>1. PICK d : d = AddToReadyList(c, t)
    OBVIOUS
  <2>2. Tidy(c, {t}, {}) /\ Else \subseteq DOMAIN c /\ t \in Task /\ t \in {t}
    BY <1>8 DEF InPlace, Fit, Others
  <2>3. Same(d, c, Else \cup {"prio"}) /\ Tidy(d, {t} \ {t}, {} \ {c.prio[t]})
    BY <2>1, <2>2, TaskComes
  <2>4. {t} \ {t} = {} /\ {} \ {c.prio[t]} = {}
    OBVIOUS
  <2>5. Same(d, c, Else) /\ Tidy(d, {}, {})
    BY <2>3, <2>4, FieldsSame
  <2> QED BY <1>8, <2>1, <2>5, MoveIsOnward DEF Onward
<1>10. PICK y \in BOOLEAN : y = (k.prio[t] > k.prio[k.cur])
  <2>1. (k.prio[t] > k.prio[k.cur]) \in BOOLEAN
    OBVIOUS
  <2> QED BY <2>1, Zenon
<1>11. PICK s : s = [d EXCEPT !.yield = @ \/ y] /\ Onward(s, d, {})
  BY <1>9, <1>10, YieldIsOnward
<1>12. Goto(s, "resume", Here)
  BY <1>2, <1>4, <1>5, <1>7, <1>9, <1>10, <1>11 DEF AbortedDelay
<1>13. SoundPlace(k.cur, "resume", Here)
  BY <1>1, SamePlace DEF Loop
<1> QED BY <1>9, <1>11, <1>12, <1>13, TaskIsOrderly DEF Onward

LEMMA IdleIsOrderly ==
  ASSUME Punctual, Orderly, IdleTask \/ IdleSuspended \/ SuppressTicksAndSleep, q' = q
  PROVE  Orderly'
<1>1. CASE IdleTask
  <2>1. Goto(SuspendAll(k), "idle", NoCall) /\ InPlace(k, {})
    BY <1>1, HereIsOrderly DEF IdleTask, Calls, At
  <2>2. SoundPlace(k.cur, "idle", NoCall)
    BY DEF SoundPlace, NoCall, Loop
  <2> QED BY <2>1, <2>2, SuspendIsInPlace, TaskIsOrderly
<1>2. CASE IdleSuspended
  <2>1. PICK n : n = ExpectedIdleTime(k)
    OBVIOUS
  <2>2. PICK l : l = [NoCall EXCEPT !.op = "sleep", !.wait = n]
    OBVIOUS
  <2>3. PICK m : m = [NoCall EXCEPT !.op = "sleep"]
    OBVIOUS
  <2>4. InPlace(k, {}) /\ (Goto(k, "sleep", l) \/ Goto(k, "resume", m))
    BY <1>2, <2>1, <2>2, <2>3, HereIsOrderly DEF IdleSuspended, At
  <2>5. SoundPlace(k.cur, "sleep", l) /\ SoundPlace(k.cur, "resume", m)
    BY <2>2, <2>3 DEF SoundPlace, NoCall, Loop
  <2> QED BY <2>4, <2>5, TaskIsOrderly
<1>3. CASE SuppressTicksAndSleep
  <2>1. PICK n : Goto(StepTick(k, n), "resume", Here) /\ pc[k.cur] = "sleep"
    BY <1>3 DEF SuppressTicksAndSleep, At
  <2>2. InPlace(k, {})
    BY <2>1, HereIsOrderly
  <2>3. PICK s : s = StepTick(k, n) /\ Same(s, k, Where \cup Else)
    BY <2>2, Fields DEF StepTick, Same, Where, Else
  <2>4. Onward(s, k, {})
    BY <2>2, <2>3, SameIsOnward
  <2>5. SoundPlace(k.cur, "resume", Here)
    BY SamePlace DEF Loop
  <2> QED BY <2>1, <2>3, <2>4, <2>5, TaskIsOrderly DEF Onward
<1> QED BY <1>1, <1>2, <1>3

-----------------------------------------------------------------------------
(* The interrupts. *)

LEMMA TickIsOrderly ==
  ASSUME Punctual, Orderly, Tick, q' = q PROVE Orderly'
<1>1. InPlace(k, InHand) /\ k.susp \in {0, 1} /\ (InHand = {} \/ k.susp = 1)
  BY HereIsOrderly, NobodyAborted DEF Punctual, Suspension
<1>2. PICK a : a = IncrementTick(k) /\ Onward(a, k, InHand)
  BY <1>1, IncrementTickIsOnward DEF Tick
<1>3. PICK s : s = YieldIf(TickSwitches(k), a) /\ Onward(s, a, InHand)
  BY <1>2, SwitchIsOnward DEF Onward
<1>4. Handler(s) /\ Onward(s, k, InHand)
  BY <1>2, <1>3, OnwardTwice DEF Tick
<1> QED BY <1>4, HandlerIsOrderly DEF Orderly

LEMMA NotifyFromISRIsOrderly ==
  ASSUME Punctual, Orderly, NotifyGiveFromISR, q' = q PROVE Orderly'
<1>1. PICK t \in Others :
        LET now == IF k.susp = 0
                     THEN AddToReadyList(RemoveStateItem(Notified(k, t), t), t)
                     ELSE [Notified(k, t) EXCEPT !.events[Pending] = Append(@, t)]
        IN  Handler(IF k.nstate[t] = "waiting"
                      THEN [now EXCEPT !.yield = @ \/ k.prio[t] > k.prio[k.cur]]
                      ELSE Notified(k, t))
  BY DEF NotifyGiveFromISR, Others
<1>2. InPlace(k, InHand) /\ k.susp \in {0, 1} /\ (InHand = {} \/ k.susp = 1)
  BY HereIsOrderly, NobodyAborted DEF Punctual, Suspension
<1>3. PICK a : a = Notified(k, t) /\ Onward(a, k, InHand)
  BY <1>2, NotifiedIsOnward
<1>4. PICK b : /\ b = AddToReadyList(RemoveStateItem(a, t), t)
               /\ k.susp = 0 => Onward(b, a, InHand)
  BY <1>2, <1>3, ReadiedIsOnward DEF Onward
<1>5. PICK c : c = [a EXCEPT !.events[Pending] = Append(@, t)] /\ Onward(c, a, InHand)
  <2>1. InPlace(a, InHand)
    BY <1>3 DEF Onward
  <2>2. Onward([a EXCEPT !.events[Pending] = Append(@, t)], a, InHand)
    BY <2>1, PendingIsOnward
  <2> QED BY <2>2, Zenon
<1>6. PICK d : d = (IF k.susp = 0 THEN b ELSE c) /\ Onward(d, a, InHand)
  BY <1>4, <1>5
<1>7. PICK y \in BOOLEAN : y = (k.prio[t] > k.prio[k.cur])
  <2>1. (k.prio[t] > k.prio[k.cur]) \in BOOLEAN
    OBVIOUS
  <2> QED BY <2>1, Zenon
<1>8. PICK e : e = [d EXCEPT !.yield = @ \/ y] /\ Onward(e, d, InHand)
  <2>1. InPlace(d, InHand)
    BY <1>6 DEF Onward
  <2> QED BY <2>1, YieldIsOnward
<1>9. PICK s \in {a, e} : Handler(s)
  BY <1>1, <1>3, <1>4, <1>5, <1>6, <1>7, <1>8
<1>10. Onward(s, k, InHand)
  BY <1>3, <1>6, <1>8, <1>9, OnwardTwice
<1> QED BY <1>9, <1>10, HandlerIsOrderly DEF Orderly

LEMMA ResumeFromISRIsOrderly ==
  ASSUME Punctual, Orderly, TaskResumeFromISR, q' = q PROVE Orderly'
<1>1. PICK t \in Others :
        Handler(IF k.susp = 0
                  THEN [Resumed(k, t) EXCEPT !.yield = @ \/ k.prio[t] >= k.prio[k.cur]]
                  ELSE [k EXCEPT !.events[Pending] = Append(@, t)])
  BY CallersAreOthers DEF TaskResumeFromISR
<1>2. InPlace(k, InHand) /\ k.susp \in {0, 1} /\ (InHand = {} \/ k.susp = 1)
  BY HereIsOrderly, NobodyAborted DEF Punctual, Suspension
<1>3. PICK a : a = Resumed(k, t) /\ (k.susp = 0 => Onward(a, k, InHand))
  BY <1>2, ReadiedIsOnward DEF Resumed
<1>4. PICK y \in BOOLEAN : y = (k.prio[t] >= k.prio[k.cur])
  <2>1. (k.prio[t] >= k.prio[k.cur]) \in BOOLEAN
    OBVIOUS
  <2> QED BY <2>1, Zenon
<1>5. PICK b : b = [a EXCEPT !.yield = @ \/ y] /\ (k.susp = 0 => Onward(b, a, InHand))
  <2>1. k.susp = 0 => InPlace(a, InHand)
    BY <1>3 DEF Onward
  <2> QED BY <2>1, YieldIsOnward
<1>6. PICK c : c = [k EXCEPT !.events[Pending] = Append(@, t)] /\ Onward(c, k, InHand)
  BY <1>2, PendingIsOnward
<1>7. PICK s : s = (IF k.susp = 0 THEN b ELSE c) /\ Handler(s)
  BY <1>1, <1>3, <1>4, <1>5, <1>6
<1>8. Onward(s, k, InHand)
  BY <1>3, <1>5, <1>6, <1>7, OnwardTwice
<1> QED BY <1>7, <1>8, HandlerIsOrderly DEF Orderly

-----------------------------------------------------------------------------
(* The calls on the queues.                                                 *)

\* Sending, receiving and resetting leave the locks and the holder of a queue.
KeepsLocks(r, qu) ==
  {"n", "tx", "rx", "holder"} \subseteq DOMAIN r /\ r.tx \in Locks /\ r.rx \in Locks
  /\ r.holder = q[qu].holder

LEMMA CopiesKeepLocks ==
  ASSUME Owned(k.held, q), Counted(q), NEW qu \in Queue \ Mutex, NEW x,
         NEW w \in {"back", "front", "over"}
  PROVE  /\ KeepsLocks(q[qu], qu)
         /\ KeepsLocks(CopyDataToQueue(q[qu], qu, x, w), qu)
         /\ KeepsLocks(CopyDataFromQueue(q[qu], qu), qu)
         /\ KeepsLocks(NewQueue(qu), qu)
<1>1. PICK r : r = q[qu] /\ {"n", "tx", "rx", "holder"} \subseteq DOMAIN r
               /\ r.tx \in Locks /\ r.rx \in Locks /\ r.holder = Nobody
  BY DEF Owned, Counted
<1>2. PICK a : a = CopyToBack(r, x, Length[qu])
  OBVIOUS
<1>3. PICK b : b = CopyToFront(r, x, Length[qu])
  OBVIOUS
<1>4. PICK c : c = Overwrite(r, x, Length[qu])
  OBVIOUS
<1>5. KeepsLocks(a, qu)
  BY <1>1, <1>2 DEF CopyToBack, KeepsLocks
<1>6. KeepsLocks(b, qu)
  BY <1>1, <1>3 DEF CopyToFront, KeepsLocks
<1>7. KeepsLocks(c, qu)
  <2>1. c = [b EXCEPT !.n = IF r.n > 0 THEN r.n ELSE 1]
    BY <1>3, <1>4 DEF Overwrite
  <2> QED BY <1>6, <2>1 DEF KeepsLocks
<1>8. CopyDataToQueue(q[qu], qu, x, w) \in {a, b, c}
  BY <1>1, <1>2, <1>3, <1>4 DEF CopyDataToQueue
<1>9. PICK d : d = CopyDataFromQueue(r, qu)
  OBVIOUS
<1>10. KeepsLocks(d, qu)
  BY <1>1, <1>9 DEF CopyDataFromQueue, KeepsLocks
<1>11. PICK e : e = NewQueue(qu)
  OBVIOUS
<1>12. /\ {"n", "tx", "rx", "holder"} \subseteq DOMAIN e /\ e.tx = Unlocked /\ e.rx = Unlocked
       /\ e.holder = Nobody
  BY <1>11 DEF NewQueue
<1>13. KeepsLocks(e, qu)
  BY <1>1, <1>12, QueueAssumption DEF KeepsLocks, Locks, Unlocked
<1>14. KeepsLocks(r, qu)
  BY <1>1 DEF KeepsLocks
<1> QED BY <1>1, <1>5, <1>6, <1>7, <1>8, <1>9, <1>10, <1>11, <1>13, <1>14

LEMMA EventListsExist ==
  ASSUME NEW qu \in Queue PROVE ToSend(qu) \in EventList /\ ToReceive(qu) \in EventList
  BY DEF EventList

\* A call on a queue that no mutex is comes back.
LEMMA DoneIsOrderly ==
  ASSUME Punctual, Orderly, NEW qu \in Queue \ Mutex, NEW r, KeepsLocks(r, qu), NEW s, NEW l,
         Onward(s, k, {}), Call(s, qu, r, "run", l)
  PROVE  Orderly'
<1>1. InPlace(s, {}) /\ s.held = k.held
  BY DEF Onward
<1>2. /\ {"n", "tx", "rx", "holder"} \subseteq DOMAIN r /\ r.tx \in Locks /\ r.rx \in Locks
      /\ r.holder = q[qu].holder
  BY DEF KeepsLocks
<1> QED BY <1>1, <1>2, CallIsOrderly

LEMMA BlocksIsOrderly ==
  ASSUME Punctual, Orderly, pc[k.cur] # "aborted", k.cur \in Others, NEW qu \in Queue,
         NEW l, DOMAIN NoCall \subseteq DOMAIN l, QueueCall(l), NEW wait, Blocks(qu, wait, l)
  PROVE  Orderly'
<1>1. PICK m : m = [l EXCEPT !.set = TRUE]
  OBVIOUS
<1>2. SoundPlace(k.cur, "suspend", m)
  <2>1. DOMAIN NoCall \subseteq DOMAIN m /\ m.op = l.op /\ m.obj = l.obj
    BY <1>1 DEF NoCall
  <2> QED BY <2>1 DEF SoundPlace, QueueCall, Others
<1>3. InPlace(k, {})
  BY HereIsOrderly
<1>4. PICK a : a = InternalSetTimeOutState(k, k.cur) /\ Onward(a, k, {})
  BY <1>3, TimeOutIsOnward
<1>5. /\ {"n", "tx", "rx", "holder"} \subseteq DOMAIN q[qu] /\ q[qu].tx \in Locks
      /\ q[qu].rx \in Locks
  BY DEF Orderly, Counted
<1>6. PICK s : s = IF l.set \/ wait = MaxDelay THEN k ELSE a
  OBVIOUS
<1>7. InPlace(s, {}) /\ s.held = k.held
  BY <1>3, <1>4, <1>6 DEF Onward
<1>8. Call(k, qu, q[qu], "run", l) \/ Call(s, qu, q[qu], "suspend", m)
  BY <1>1, <1>4, <1>6 DEF Blocks
<1>9. CASE Call(k, qu, q[qu], "run", l)
  BY <1>3, <1>5, <1>9, CallIsOrderly
<1>10. CASE Call(s, qu, q[qu], "suspend", m)
  BY <1>2, <1>5, <1>7, <1>10, CallIsOrderly
<1> QED BY <1>8, <1>9, <1>10

LEMMA TriesAreOrderly ==
  ASSUME Punctual, Orderly, pc[k.cur] # "aborted", k.cur \in Others, NEW qu \in Queue \ Mutex,
         NEW l, DOMAIN NoCall \subseteq DOMAIN l, QueueCall(l),
         \/ TrySend(qu, l) /\ l.where \in {"back", "front", "over"}
         \/ TryReceive(qu, l) \/ TryPeek(qu, l)
  PROVE  Orderly'
<1>1. Owned(k.held, q) /\ Counted(q) /\ InPlace(k, {}) /\ qu \in Queue /\ qu \notin Mutex
  BY HereIsOrderly DEF Orderly
<1>2. PICK a : a = WakeAndYield(k, ToReceive(qu)) /\ Onward(a, k, {})
  BY <1>1, EventListsExist, WakesAreOnward
<1>3. PICK b : b = WakeAndYield(k, ToSend(qu)) /\ Onward(b, k, {})
  BY <1>1, EventListsExist, WakesAreOnward
<1>4. CASE TrySend(qu, l) /\ l.where \in {"back", "front", "over"}
  <2>1. PICK r : r = CopyDataToQueue(q[qu], qu, l.item, l.where) /\ KeepsLocks(r, qu)
    BY <1>1, <1>4, CopiesKeepLocks
  <2>2. Call(a, qu, r, "run", l) \/ Blocks(qu, l.wait, l)
    BY <1>1, <1>2, <1>4, <2>1, Zenon DEF TrySend
  <2> QED BY <1>1, <1>2, <2>1, <2>2, DoneIsOrderly, BlocksIsOrderly
<1>5. CASE TryReceive(qu, l)
  <2>1. PICK r : r = CopyDataFromQueue(q[qu], qu) /\ KeepsLocks(r, qu)
    BY <1>1, CopiesKeepLocks
  <2>2. Call(b, qu, r, "run", l) \/ Blocks(qu, l.wait, l)
    BY <1>3, <1>5, <2>1, Zenon DEF TryReceive
  <2> QED BY <1>1, <1>3, <2>1, <2>2, DoneIsOrderly, BlocksIsOrderly
<1>6. CASE TryPeek(qu, l)
  <2>1. PICK r : r = q[qu] /\ KeepsLocks(r, qu)
    BY <1>1, CopiesKeepLocks
  <2>2. Call(a, qu, r, "run", l) \/ Blocks(qu, l.wait, l)
    BY <1>2, <1>6, <2>1, Zenon DEF TryPeek
  <2> QED BY <1>1, <1>2, <2>1, <2>2, DoneIsOrderly, BlocksIsOrderly
<1> QED BY <1>4, <1>5, <1>6

\* A mutex is taken.
LEMMA TryLockIsOrderly ==
  ASSUME Punctual, Orderly, pc[k.cur] # "aborted", k.cur \in Others, NEW qu \in Mutex,
         NEW l, DOMAIN NoCall \subseteq DOMAIN l, QueueCall(l), TryLock(qu, l)
  PROVE  Orderly'
<1>1. /\ Owned(k.held, q) /\ Counted(q) /\ InPlace(k, {}) /\ qu \in Queue /\ k.cur \in Task
      /\ k.cur \in Task
  BY HereIsOrderly, QueueAssumption DEF Orderly
<1>2. CASE q[qu].n > 0
  <2>1. PICK r : r = [q[qu] EXCEPT !.n = @ - 1, !.holder = k.cur]
    OBVIOUS
  <2>2. PICK g : g = [k.held EXCEPT ![k.cur] = @ + 1]
    OBVIOUS
  <2>3. PICK new : new = [q EXCEPT ![qu] = r]
    OBVIOUS
  <2>4. Owned(g, new) /\ Counted(new)
    <3>1. PICK h : h = k.held
      OBVIOUS
    <3>2. PICK t \in Task : t = k.cur
      BY <1>1
    <3>3. Owned(h, q) /\ g = [h EXCEPT ![t] = @ + 1]
      BY <1>1, <2>2, <3>1, <3>2
    <3>4. /\ {"n", "tx", "rx", "holder"} \subseteq DOMAIN r /\ r.tx = q[qu].tx
          /\ r.rx = q[qu].rx /\ r.n = q[qu].n - 1 /\ r.holder = t
      BY <1>1, <2>1, <3>2 DEF Counted
    <3> QED BY <1>1, <1>2, <2>3, <3>3, <3>4, MutexTaken
  <2>5. PICK a : a = [k EXCEPT !.held = g]
    OBVIOUS
  <2>6. InPlace(a, {}) /\ a.held = g
    BY <1>1, <2>5, HeldIsInPlace
  <2>7. a = [k EXCEPT !.held[k.cur] = @ + 1]
    BY <2>2, <2>5
  <2>8. PICK s : s = WakeAndYield(a, ToSend(qu)) /\ Onward(s, a, {})
    BY <1>1, <2>6, EventListsExist, WakesAreOnward
  <2>9. Call(s, qu, r, "run", l)
    BY <1>2, <2>1, <2>7, <2>8, Zenon DEF TryLock
  <2>10. Goto(s, "run", l) /\ q' = new
    BY <2>3, <2>9, Zenon DEF Call
  <2>11. InPlace(s, {}) /\ s.held = g
    BY <2>6, <2>8 DEF Onward
  <2>12. InPlace(s, IF "run" = "aborted" THEN {l.obj} ELSE {})
    BY <2>11
  <2>13. Owned(s.held, q') /\ Counted(q')
    BY <2>4, <2>10, <2>11
  <2> QED BY <2>10, <2>12, <2>13, GotoIsOrderly
<1>3. CASE ~(q[qu].n > 0)
  <2>1. Blocks(qu, l.wait, l)
    BY <1>3, Zenon DEF TryLock
  <2> QED BY <1>1, <2>1, BlocksIsOrderly
<1> QED BY <1>2, <1>3

\* A mutex is given back: it is the caller's, and so not full.
LEMMA UnlockIsOrderly ==
  ASSUME Punctual, Orderly, StartUnlock PROVE Orderly'
<1>1. PICK qu \in scenario.locks[k.cur] :
        /\ q[qu].holder = k.cur
        /\ TrySend(qu, [NoCall EXCEPT !.op = "send", !.obj = qu])
  BY DEF StartUnlock
<1>2. k.cur \in Others /\ pc[k.cur] = "run" /\ InPlace(k, {})
  BY CallersAreOthers, HereIsOrderly DEF StartUnlock
<1>3. k.cur \in Task /\ qu \in Mutex /\ qu \in Queue
  BY <1>2, ScenarioAssumption, QueueAssumption DEF Punctual, Others
<1>4. Owned(k.held, q) /\ Counted(q)
  BY DEF Orderly
<1>5. q[qu].n = 0 /\ Length[qu] = 1
  BY <1>1, <1>3, <1>4, QueueAssumption, NobodyAssumption DEF Owned
<1>6. PICK l : l = [NoCall EXCEPT !.op = "send", !.obj = qu]
  OBVIOUS
<1>7. PICK r : r = [q[qu] EXCEPT !.holder = Nobody, !.n = @ + 1]
  OBVIOUS
<1>8. r = CopyDataToQueue(q[qu], qu, l.item, l.where)
  BY <1>3, <1>7 DEF CopyDataToQueue
<1>9. PICK s : /\ s = GiveBack(k, qu) /\ InPlace(s, {})
               /\ s.held = [k.held EXCEPT ![k.cur] = @ - 1]
  BY <1>2, <1>3, GiveBackIsInPlace
<1>10. Call(s, qu, r, "run", l)
  <2>1. q[qu].n < Length[qu]
    BY <1>5
  <2> QED BY <1>1, <1>3, <1>6, <1>8, <1>9, <2>1, Zenon DEF TrySend
<1>11. PICK new : new = [q EXCEPT ![qu] = r]
  OBVIOUS
<1>12. Owned(s.held, new) /\ Counted(new)
  <2>1. /\ {"n", "tx", "rx", "holder"} \subseteq DOMAIN r /\ r.tx = q[qu].tx
        /\ r.rx = q[qu].rx /\ r.n = q[qu].n + 1 /\ r.holder = Nobody
    BY <1>3, <1>4, <1>7 DEF Counted
  <2>2. PICK h : h = k.held /\ Owned(h, q)
    BY <1>4
  <2>3. PICK t \in Task : t = k.cur /\ q[qu].holder = t
    BY <1>1, <1>3
  <2>4. PICK g : g = [h EXCEPT ![t] = @ - 1]
    OBVIOUS
  <2>5. Counted(q) /\ Owned(h, q) /\ q[qu].holder = t
    BY <1>4, <2>2, <2>3
  <2>6. Owned(g, new) /\ Counted(new)
    BY <1>3, <1>11, <2>1, <2>4, <2>5, MutexGiven
  <2>7. g = s.held
    BY <1>9, <2>2, <2>3, <2>4
  <2> QED BY <2>6, <2>7
<1>13. Goto(s, "run", l) /\ q' = new
  BY <1>10, <1>11, Zenon DEF Call
<1>14. InPlace(s, IF "run" = "aborted" THEN {l.obj} ELSE {})
  BY <1>9
<1> QED BY <1>12, <1>13, <1>14, GotoIsOrderly

LEMMA CallsAreOrderly ==
  ASSUME Punctual, Orderly,
         StartSend \/ StartOverwrite \/ StartReceive \/ StartPeek \/ StartLock
         \/ StartUnlock \/ Reset
  PROVE  Orderly'
<1>1. k.cur \in Others /\ pc[k.cur] # "aborted" /\ InPlace(k, {})
  <2>1. k.cur \in Others /\ pc[k.cur] = "run"
    BY CallersAreOthers
    DEF StartSend, StartOverwrite, StartReceive, StartPeek, StartLock, StartUnlock, Reset
  <2> QED BY <2>1, HereIsOrderly
<1>2. /\ scenario.queues \subseteq Queue /\ scenario.where \subseteq {"back", "front"}
      /\ scenario.locks[k.cur] \subseteq Mutex
  BY <1>1, ScenarioAssumption DEF Punctual, Others
<1>3. ASSUME StartSend PROVE Orderly'
  <2>1. PICK qu, x, n, w :
          /\ qu \in scenario.queues \ Mutex /\ w \in scenario.where
          /\ TrySend(qu, [NoCall EXCEPT !.op = "send", !.obj = qu, !.item = x,
                                        !.where = w, !.wait = n])
    BY <1>3, Zenon DEF StartSend
  <2>2. PICK l : l = [NoCall EXCEPT !.op = "send", !.obj = qu, !.item = x,
                                    !.where = w, !.wait = n]
    OBVIOUS
  <2>3. DOMAIN NoCall \subseteq DOMAIN l /\ l.op = "send" /\ l.obj = qu /\ l.where = w
    BY <2>2 DEF NoCall
  <2>4. qu \in Queue \ Mutex /\ w \in {"back", "front", "over"} /\ TrySend(qu, l)
    BY <1>2, <2>1, <2>2
  <2>5. QueueCall(l)
    BY <2>3, <2>4 DEF QueueCall
  <2> QED BY <1>1, <2>3, <2>4, <2>5, TriesAreOrderly
<1>4. ASSUME StartOverwrite PROVE Orderly'
  <2>1. PICK qu \in scenario.queues \ Mutex, x \in scenario.items :
          TrySend(qu, [NoCall EXCEPT !.op = "send", !.obj = qu, !.item = x, !.where = "over"])
    BY <1>4, Zenon DEF StartOverwrite
  <2>2. PICK l : l = [NoCall EXCEPT !.op = "send", !.obj = qu, !.item = x, !.where = "over"]
    OBVIOUS
  <2>3. DOMAIN NoCall \subseteq DOMAIN l /\ l.op = "send" /\ l.obj = qu /\ l.where = "over"
    BY <2>2 DEF NoCall
  <2>4. qu \in Queue \ Mutex /\ TrySend(qu, l)
    BY <1>2, <2>1, <2>2
  <2>5. QueueCall(l)
    BY <2>3, <2>4 DEF QueueCall
  <2> QED BY <1>1, <2>3, <2>4, <2>5, TriesAreOrderly
<1>5. ASSUME StartReceive PROVE Orderly'
  <2>1. PICK qu \in scenario.queues \ Mutex, n \in scenario.waits[k.cur] :
          TryReceive(qu, [NoCall EXCEPT !.op = "receive", !.obj = qu, !.wait = n])
    BY <1>5, Zenon DEF StartReceive
  <2>2. PICK l : l = [NoCall EXCEPT !.op = "receive", !.obj = qu, !.wait = n]
    OBVIOUS
  <2>3. DOMAIN NoCall \subseteq DOMAIN l /\ l.op = "receive" /\ l.obj = qu
    BY <2>2 DEF NoCall
  <2>4. qu \in Queue \ Mutex /\ TryReceive(qu, l)
    BY <1>2, <2>1, <2>2
  <2>5. QueueCall(l)
    BY <2>3, <2>4 DEF QueueCall
  <2> QED BY <1>1, <2>3, <2>4, <2>5, TriesAreOrderly
<1>6. ASSUME StartPeek PROVE Orderly'
  <2>1. PICK qu \in scenario.queues \ Mutex, n \in scenario.waits[k.cur] :
          TryPeek(qu, [NoCall EXCEPT !.op = "peek", !.obj = qu, !.wait = n])
    BY <1>6, Zenon DEF StartPeek
  <2>2. PICK l : l = [NoCall EXCEPT !.op = "peek", !.obj = qu, !.wait = n]
    OBVIOUS
  <2>3. DOMAIN NoCall \subseteq DOMAIN l /\ l.op = "peek" /\ l.obj = qu
    BY <2>2 DEF NoCall
  <2>4. qu \in Queue \ Mutex /\ TryPeek(qu, l)
    BY <1>2, <2>1, <2>2
  <2>5. QueueCall(l)
    BY <2>3, <2>4 DEF QueueCall
  <2> QED BY <1>1, <2>3, <2>4, <2>5, TriesAreOrderly
<1>7. ASSUME StartLock PROVE Orderly'
  <2>1. PICK qu \in scenario.locks[k.cur], n \in scenario.waits[k.cur] :
          TryLock(qu, [NoCall EXCEPT !.op = "lock", !.obj = qu, !.wait = n])
    BY <1>7, Zenon DEF StartLock
  <2>2. PICK l : l = [NoCall EXCEPT !.op = "lock", !.obj = qu, !.wait = n]
    OBVIOUS
  <2>3. DOMAIN NoCall \subseteq DOMAIN l /\ l.op = "lock" /\ l.obj = qu
    BY <2>2 DEF NoCall
  <2>4. qu \in Mutex /\ TryLock(qu, l)
    BY <1>2, <2>1, <2>2
  <2>5. QueueCall(l)
    BY <2>3, <2>4 DEF QueueCall
  <2> QED BY <1>1, <2>3, <2>4, <2>5, TryLockIsOrderly
<1>8. ASSUME Reset PROVE Orderly'
  <2>1. PICK qu \in Queue \ Mutex :
          Call(WakeAndYield(k, ToSend(qu)), qu, NewQueue(qu), "run", NoCall)
    BY <1>2, <1>8, Zenon DEF Reset
  <2>2. PICK s : s = WakeAndYield(k, ToSend(qu)) /\ Onward(s, k, {})
    BY <1>1, EventListsExist, WakesAreOnward
  <2>3. PICK r : r = NewQueue(qu) /\ KeepsLocks(r, qu)
    BY CopiesKeepLocks DEF Orderly
  <2> QED BY <2>1, <2>2, <2>3, DoneIsOrderly
<1> QED BY <1>3, <1>4, <1>5, <1>6, <1>7, <1>8, UnlockIsOrderly

\* In the loop a task has a call on a queue.
LEMMA InTheLoop ==
  ASSUME Punctual, Orderly, pc[k.cur] \in Loop
  PROVE  /\ k.cur \in Others /\ k.cur \in Task /\ InPlace(k, {}) /\ QueueCall(Here)
         /\ DOMAIN NoCall \subseteq DOMAIN Here /\ Here.obj \in Queue
         /\ \A p \in Loop \cup {"resume"} : SoundPlace(k.cur, p, Here)
<1>1. /\ k.cur \in Others /\ k.cur \in Task /\ InPlace(k, {})
      /\ SoundPlace(k.cur, pc[k.cur], Here)
  BY HereIsOrderly DEF Loop
<1>2. QueueCall(Here) /\ DOMAIN NoCall \subseteq DOMAIN Here
  BY <1>1 DEF SoundPlace
<1>3. Here.obj \in Queue
  BY <1>2, QueueAssumption DEF QueueCall
<1>4. ASSUME NEW p \in Loop \cup {"resume"} PROVE SoundPlace(k.cur, p, Here)
  BY <1>1, <1>2 DEF SoundPlace, Loop, Others
<1> QED BY <1>1, <1>2, <1>3, <1>4

LEMMA TryAgainIsOrderly ==
  ASSUME IInv, Punctual, Orderly, TryAgain PROVE Orderly'
<1>1. pc[k.cur] = "try" /\ pc[k.cur] \in Loop
  BY DEF TryAgain, At, Loop
<1>2. /\ k.cur \in Others /\ k.cur \in Task /\ QueueCall(Here)
      /\ DOMAIN NoCall \subseteq DOMAIN Here
  BY <1>1, InTheLoop
<1>3. SoundCall(Here)
  BY <1>2, HereIsSound DEF SelectsATask
<1>4. CASE Here.op = "send" /\ TrySend(Here.obj, Here)
  <2>1. Here.obj \in Queue \ Mutex
    BY <1>2, <1>4 DEF QueueCall
  <2>2. Here.where \in {"back", "front", "over"}
    BY <1>3, <1>4, <2>1 DEF SoundCall
  <2> QED BY <1>1, <1>2, <1>4, <2>1, <2>2, TriesAreOrderly
<1>5. CASE \/ Here.op = "receive" /\ TryReceive(Here.obj, Here)
           \/ Here.op = "peek" /\ TryPeek(Here.obj, Here)
  <2>1. Here.obj \in Queue \ Mutex
    BY <1>2, <1>5 DEF QueueCall
  <2> QED BY <1>1, <1>2, <1>5, <2>1, TriesAreOrderly
<1>6. CASE Here.op = "lock" /\ TryLock(Here.obj, Here)
  <2>1. Here.obj \in Mutex
    BY <1>2, <1>6 DEF QueueCall
  <2> QED BY <1>1, <1>2, <1>6, <2>1, TryLockIsOrderly
<1> QED BY <1>4, <1>5, <1>6, Zenon DEF TryAgain

\* prvLockQueue and what comes before and after it.
LEMMA LockingIsOrderly ==
  ASSUME Punctual, Orderly, Suspend \/ LockQueue \/ Look \/ Late
  PROVE  Orderly'
<1>1. pc[k.cur] \in Loop
  BY DEF Suspend, LockQueue, Look, Late, At, Loop
<1>2. /\ InPlace(k, {}) /\ QueueCall(Here) /\ Here.obj \in Queue
      /\ \A p \in Loop \cup {"resume"} : SoundPlace(k.cur, p, Here)
  BY <1>1, InTheLoop
<1>3. CASE Suspend
  <2>1. Goto(SuspendAll(k), "lock", Here) /\ q' = q
    BY <1>3 DEF Suspend
  <2>2. PICK s : s = SuspendAll(k) /\ InPlace(s, {}) /\ s.held = k.held
    BY <1>2, SuspendIsInPlace
  <2> QED BY <1>2, <2>1, <2>2, TaskIsOrderly DEF Loop
<1>4. CASE LockQueue
  <2>1. PICK qu \in Queue : qu = Here.obj
    BY <1>2
  <2>2. /\ {"n", "tx", "rx", "holder"} \subseteq DOMAIN q[qu] /\ q[qu].tx \in Locks
        /\ q[qu].rx \in Locks
    BY DEF Orderly, Counted
  <2>3. PICK r : r = [q[qu] EXCEPT
                        !.rx = IF @ = Unlocked THEN LockedUnmodified ELSE @,
                        !.tx = IF @ = Unlocked THEN LockedUnmodified ELSE @]
    OBVIOUS
  <2>4. Call(k, qu, r, "check", Here)
    BY <1>4, <2>1, <2>3 DEF LockQueue
  <2>5. /\ {"n", "tx", "rx", "holder"} \subseteq DOMAIN r
        /\ r.tx \in {q[qu].tx, LockedUnmodified} /\ r.rx \in {q[qu].rx, LockedUnmodified}
        /\ r.holder = q[qu].holder /\ r.n = q[qu].n
    BY <2>2, <2>3
  <2>6. LockedUnmodified \in Locks
    BY QueueAssumption DEF Locks, LockedUnmodified, Unlocked
  <2>7. r.tx \in Locks /\ r.rx \in Locks
    BY <2>2, <2>5, <2>6
  <2> QED BY <1>2, <2>4, <2>5, <2>7, CallIsOrderly DEF Loop
<1>5. CASE Look
  <2>1. PICK p \in {"unlockTx", "inherit", "place"} :
          /\ Goto(k, p, Here) /\ q' = q
          /\ p = "inherit" => Here.obj \in Mutex /\ Here.op = "lock" /\ Hopeless(Here)
    BY <1>5 DEF Look
  <2>2. p = "inherit" => Here.obj \in Mutex /\ q[Here.obj].n = 0
    BY <2>1 DEF Hopeless, Empty
  <2>3. SoundPlace(k.cur, p, Here) /\ p # "aborted"
    BY <1>2, <2>1 DEF Loop
  <2> QED BY <1>2, <2>1, <2>2, <2>3, TaskIsOrderly
<1>6. CASE Late
  <2>1. PICK p \in {"try", "disinherit", "run"} : Goto(k, p, Here) /\ q' = q
    BY <1>6 DEF Late
  <2>2. p = "run" \/ SoundPlace(k.cur, p, Here)
    BY <1>2, <2>1 DEF Loop
  <2> QED BY <1>2, <2>1, <2>2, TaskIsOrderly
<1> QED BY <1>3, <1>4, <1>5, <1>6

LEMMA TimesOutOrderly ==
  ASSUME Punctual, Orderly, Check PROVE Orderly'
<1> DEFINE late == TimedOut(k, k.cur, Here.wait)
           x    == TicksLeft(k, k.cur, Here.wait)
           nx   == CASE ~late -> "try"
                     [] late /\ Here.op = "send" -> "run"
                     [] OTHER -> "late"
           s    == CheckForTimeOut(k, k.cur, Here.wait)
<1>1. pc[k.cur] \in Loop
  BY DEF Check, At, Loop
<1>2. /\ InPlace(k, {}) /\ QueueCall(Here) /\ k.cur \in Others
      /\ DOMAIN NoCall \subseteq DOMAIN Here
  BY <1>1, InTheLoop
<1>3. InPlace(s, {}) /\ s.held = k.held
  BY <1>2, CheckIsOnward DEF Onward
<1>4. Goto(s, IF late THEN "unlockTx" ELSE "look",
           [Here EXCEPT !.wait = x, !.block = FALSE, !.next = nx]) /\ q' = q
  BY DEF Check
<1> HIDE DEF x, nx, s
<1>5. PICK l : l = [Here EXCEPT !.wait = x, !.block = FALSE, !.next = nx]
  OBVIOUS
<1>6. DOMAIN NoCall \subseteq DOMAIN l /\ l.op = Here.op /\ l.obj = Here.obj
  BY <1>2, <1>5 DEF NoCall
<1>7. PICK p \in {"unlockTx", "look"} : Goto(s, p, l)
  BY <1>4, <1>5
<1>8. SoundPlace(k.cur, p, l)
  BY <1>2, <1>6 DEF SoundPlace, QueueCall, Others
<1> QED BY <1>3, <1>4, <1>7, <1>8, TaskIsOrderly

LEMMA PlacingIsOrderly ==
  ASSUME Punctual, Orderly, Inherit \/ Place
  PROVE  Orderly'
<1>1. pc[k.cur] \in Loop
  BY DEF Inherit, Place, At, Loop
<1>2. /\ InPlace(k, {}) /\ QueueCall(Here) /\ k.cur \in Others /\ k.cur \in Task
      /\ DOMAIN NoCall \subseteq DOMAIN Here /\ Here.obj \in Queue
  BY <1>1, InTheLoop
<1>3. CASE Inherit
  <2>1. PICK h : h = q[Here.obj].holder
    OBVIOUS
  <2>2. h \in Task
    <3>1. pc[k.cur] = "inherit"
      BY <1>3 DEF Inherit, At
    <3>2. Here.obj \in Mutex /\ q[Here.obj].n = 0
      BY <1>2, <3>1 DEF Orderly, Inheriting, Here
    <3> QED BY <2>1, <3>2 DEF Orderly, Owned
  <2>3. PICK s : s = PriorityInherit(k, h) /\ Onward(s, k, {})
    BY <1>2, <2>2, InheritIsOnward
  <2>4. PICK l : l = [Here EXCEPT !.inherited = Inherits(k, h)]
    OBVIOUS
  <2>5. DOMAIN NoCall \subseteq DOMAIN l /\ l.op = Here.op /\ l.obj = Here.obj
    BY <1>2, <2>4 DEF NoCall
  <2>6. Goto(s, "place", l) /\ q' = q
    BY <1>3, <2>1, <2>3, <2>4 DEF Inherit
  <2>7. SoundPlace(k.cur, "place", l)
    BY <1>2, <2>5 DEF SoundPlace, QueueCall, Others
  <2> QED BY <2>3, <2>6, <2>7, TaskIsOrderly DEF Onward
<1>4. CASE Place
  <2>1. WaitList(Here) \in EventList
    BY <1>2, EventListsExist DEF WaitList
  <2>2. PICK s : s = PlaceOnEventList(k, WaitList(Here), Here.wait) /\ Onward(s, k, {})
    BY <1>2, <2>1, PlaceIsOnward
  <2>3. PICK l : l = [Here EXCEPT !.block = TRUE]
    OBVIOUS
  <2>4. DOMAIN NoCall \subseteq DOMAIN l /\ l.op = Here.op /\ l.obj = Here.obj
    BY <1>2, <2>3 DEF NoCall
  <2>5. Goto(s, "unlockTx", l) /\ q' = q
    BY <1>4, <2>2, <2>3 DEF Place
  <2>6. SoundPlace(k.cur, "unlockTx", l)
    BY <1>2, <2>4 DEF SoundPlace, QueueCall, Others
  <2> QED BY <2>2, <2>5, <2>6, TaskIsOrderly DEF Onward
<1> QED BY <1>3, <1>4

LEMMA UnlockingIsOrderly ==
  ASSUME Punctual, Orderly, UnlockTx \/ UnlockRx
  PROVE  Orderly'
<1>1. pc[k.cur] \in Loop
  BY DEF UnlockTx, UnlockRx, At, Loop
<1>2. /\ InPlace(k, {}) /\ Here.obj \in Queue
      /\ \A p \in Loop \cup {"resume"} : SoundPlace(k.cur, p, Here)
  BY <1>1, InTheLoop
<1>3. PICK qu \in Queue : qu = Here.obj
  BY <1>2
<1>4. /\ {"n", "tx", "rx", "holder"} \subseteq DOMAIN q[qu] /\ q[qu].tx \in Locks
      /\ q[qu].rx \in Locks /\ Unlocked \in Locks
  BY QueueAssumption DEF Orderly, Counted, Locks, Unlocked
<1>5. CASE UnlockTx
  <2>1. PICK s : s = WakeCounted(k, ToReceive(qu), q[qu].tx) /\ Onward(s, k, {})
    BY <1>2, EventListsExist, WakeCountedIsOnward
  <2>2. PICK r : r = [q[qu] EXCEPT !.tx = Unlocked]
    OBVIOUS
  <2>3. /\ {"n", "tx", "rx", "holder"} \subseteq DOMAIN r /\ r.tx \in Locks /\ r.rx \in Locks
        /\ r.holder = q[qu].holder /\ r.n = q[qu].n
    BY <1>4, <2>2
  <2>4. Call(s, qu, r, "unlockRx", Here)
    BY <1>3, <1>5, <2>1, <2>2, Zenon DEF UnlockTx
  <2>5. InPlace(s, {}) /\ s.held = k.held
    BY <2>1 DEF Onward
  <2> QED BY <1>2, <2>3, <2>4, <2>5, CallIsOrderly DEF Loop
<1>6. CASE UnlockRx
  <2>1. PICK s : s = WakeCounted(k, ToSend(qu), q[qu].rx) /\ Onward(s, k, {})
    BY <1>2, EventListsExist, WakeCountedIsOnward
  <2>2. PICK r : r = [q[qu] EXCEPT !.rx = Unlocked]
    OBVIOUS
  <2>3. /\ {"n", "tx", "rx", "holder"} \subseteq DOMAIN r /\ r.tx \in Locks /\ r.rx \in Locks
        /\ r.holder = q[qu].holder /\ r.n = q[qu].n
    BY <1>4, <2>2
  <2>4. Call(s, qu, r, "resume", Here)
    BY <1>3, <1>6, <2>1, <2>2, Zenon DEF UnlockRx
  <2>5. InPlace(s, {}) /\ s.held = k.held
    BY <2>1 DEF Onward
  <2> QED BY <1>2, <2>3, <2>4, <2>5, CallIsOrderly
<1> QED BY <1>5, <1>6

\* The waiter of a mutex gave up: here is where HolderHasCompany is needed.
LEMMA DisinheritIsOrderly ==
  ASSUME Punctual, Orderly, HolderHasCompany, Disinherit PROVE Orderly'
<1>1. pc[k.cur] = "disinherit" /\ pc[k.cur] \in Loop
  BY DEF Disinherit, At, Loop
<1>2. InPlace(k, {}) /\ Here.obj \in Queue
  BY <1>1, InTheLoop
<1>3. PICK h : h = q[Here.obj].holder
  OBVIOUS
<1>4. PICK w : w = HighestWaiting(k, Here.obj)
  OBVIOUS
<1>5. h = Nobody \/ h \in Task
  BY <1>2, <1>3 DEF Orderly, Owned
<1>6. w \in Prio
  <2>1. PICK e \in EventList : e = ToReceive(Here.obj)
    BY <1>2, EventListsExist
  <2>2. 0 \in Prio
    BY KernelAssumption DEF Prio
  <2>3. k.events[e] # <<>> => k.item[Head(k.events[e])] \in Prio
    BY <1>2, FirstWaiter DEF InPlace, Fit, Others
  <2> QED BY <1>4, <2>1, <2>2, <2>3 DEF HighestWaiting
<1>7. PICK a : a = PriorityDisinheritAfterTimeout(k, h, w)
  OBVIOUS
<1>8. h # Nobody => Onward(a, k, {})
  <2>1. h # Nobody /\ IsReady(k, h) /\ a.prio[h] # k.prio[h] => a.ready[k.prio[h]] # <<End>>
    BY <1>1, <1>3, <1>4, <1>7 DEF HolderHasCompany, At
  <2> QED BY <1>2, <1>5, <1>6, <1>7, <2>1, DisinheritLateIsOnward
<1>9. PICK s : s = (IF h = Nobody THEN k ELSE a) /\ InPlace(s, {}) /\ s.held = k.held
  BY <1>2, <1>8 DEF Onward
<1>10. Goto(s, "run", Here) /\ q' = q
  BY <1>3, <1>4, <1>7, <1>9 DEF Disinherit
<1> QED BY <1>9, <1>10, TaskIsOrderly

\* The interrupts that send and receive.
LEMMA SendFromISRIsOrderly ==
  ASSUME Punctual, Orderly, SendFromISR PROVE Orderly'
<1>1. PICK qu \in Queue \ Mutex, x \in scenario.items :
        LET r == CopyDataToQueue(q[qu], qu, x, "back")
        IN  /\ q[qu].tx < LockBound
            /\ \/ HandlerCall(WakeOne(k, ToReceive(qu)), qu, r)
               \/ HandlerCall(k, qu, [r EXCEPT !.tx = @ + 1])
  BY ScenarioAssumption DEF SendFromISR, Punctual
<1>2. InPlace(k, InHand) /\ (InHand = {} \/ k.susp = 1)
  BY HereIsOrderly, NobodyAborted
<1>3. Owned(k.held, q) /\ Counted(q)
  BY DEF Orderly
<1>4. PICK a : a = WakeOne(k, ToReceive(qu)) /\ Onward(a, k, InHand)
  BY <1>2, EventListsExist, WakesAreOnward
<1>5. PICK r : r = CopyDataToQueue(q[qu], qu, x, "back") /\ KeepsLocks(r, qu)
               /\ r.tx = q[qu].tx
  <2>1. PICK r : r = CopyDataToQueue(q[qu], qu, x, "back") /\ KeepsLocks(r, qu)
    BY <1>3, CopiesKeepLocks
  <2>2. PICK o : o = q[qu] /\ {"n", "tx", "rx", "holder"} \subseteq DOMAIN o
    BY <1>3 DEF Counted
  <2>3. r = CopyToBack(o, x, Length[qu])
    BY <2>1, <2>2 DEF CopyDataToQueue
  <2>4. r.tx = o.tx
    BY <2>2, <2>3 DEF CopyToBack
  <2> QED BY <2>1, <2>2, <2>4
<1>6. PICK c : c = [r EXCEPT !.tx = @ + 1]
  OBVIOUS
<1>7. KeepsLocks(c, qu)
  <2>1. r.tx + 1 \in Locks
    BY <1>1, <1>5, QueueAssumption DEF KeepsLocks, Locks, Unlocked
  <2> QED BY <1>5, <1>6, <2>1 DEF KeepsLocks
<1>8. PICK s, m : s \in {a, k} /\ m \in {r, c} /\ HandlerCall(s, qu, m)
  BY <1>1, <1>4, <1>5, <1>6
<1>9. KeepsLocks(m, qu)
  BY <1>5, <1>7, <1>8
<1>10. Handler(s) /\ q' = [q EXCEPT ![qu] = m]
  BY <1>8 DEF HandlerCall
<1>11. Owned(k.held, q') /\ Counted(q')
  BY <1>3, <1>9, <1>10, QueueStays DEF KeepsLocks
<1>12. \A u \in Mutex : q'[u].n = q[u].n
  BY <1>3, <1>10, QueueAssumption DEF Counted
<1>13. Onward(s, k, InHand)
  BY <1>2, <1>4, <1>8, HereAlready
<1> QED BY <1>10, <1>11, <1>12, <1>13, HandlerIsOrderly

LEMMA ReceiveFromISRIsOrderly ==
  ASSUME Punctual, Orderly, ReceiveFromISR PROVE Orderly'
<1>1. PICK qu \in Queue \ Mutex :
        LET r == CopyDataFromQueue(q[qu], qu)
        IN  /\ q[qu].rx < LockBound
            /\ \/ HandlerCall(WakeOne(k, ToSend(qu)), qu, r)
               \/ HandlerCall(k, qu, [r EXCEPT !.rx = @ + 1])
  BY ScenarioAssumption DEF ReceiveFromISR, Punctual
<1>2. InPlace(k, InHand) /\ (InHand = {} \/ k.susp = 1)
  BY HereIsOrderly, NobodyAborted
<1>3. Owned(k.held, q) /\ Counted(q)
  BY DEF Orderly
<1>4. PICK a : a = WakeOne(k, ToSend(qu)) /\ Onward(a, k, InHand)
  BY <1>2, EventListsExist, WakesAreOnward
<1>5. PICK r : r = CopyDataFromQueue(q[qu], qu) /\ KeepsLocks(r, qu) /\ r.rx = q[qu].rx
  <2>1. PICK r : r = CopyDataFromQueue(q[qu], qu) /\ KeepsLocks(r, qu)
    BY <1>3, CopiesKeepLocks
  <2>2. PICK o : o = q[qu] /\ {"n", "tx", "rx", "holder"} \subseteq DOMAIN o
    BY <1>3 DEF Counted
  <2>3. r = CopyDataFromQueue(o, qu)
    BY <2>1, <2>2
  <2>4. r.rx = o.rx
    BY <2>2, <2>3 DEF CopyDataFromQueue
  <2> QED BY <2>1, <2>2, <2>4
<1>6. PICK c : c = [r EXCEPT !.rx = @ + 1]
  OBVIOUS
<1>7. KeepsLocks(c, qu)
  <2>1. r.rx + 1 \in Locks
    BY <1>1, <1>5, QueueAssumption DEF KeepsLocks, Locks, Unlocked
  <2> QED BY <1>5, <1>6, <2>1 DEF KeepsLocks
<1>8. PICK s, m : s \in {a, k} /\ m \in {r, c} /\ HandlerCall(s, qu, m)
  BY <1>1, <1>4, <1>5, <1>6
<1>9. KeepsLocks(m, qu)
  BY <1>5, <1>7, <1>8
<1>10. Handler(s) /\ q' = [q EXCEPT ![qu] = m]
  BY <1>8 DEF HandlerCall
<1>11. Owned(k.held, q') /\ Counted(q')
  BY <1>3, <1>9, <1>10, QueueStays DEF KeepsLocks
<1>12. \A u \in Mutex : q'[u].n = q[u].n
  BY <1>3, <1>10, QueueAssumption DEF Counted
<1>13. Onward(s, k, InHand)
  BY <1>2, <1>4, <1>8, HereAlready
<1> QED BY <1>10, <1>11, <1>12, <1>13, HandlerIsOrderly

-----------------------------------------------------------------------------
(* The system that has just started.                                        *)

LEMMA SetIsListed ==
  ASSUME NEW S \in SUBSET Task
  PROVE  LET l == SetToSeq(S) IN l \in Seq(Task) /\ Once(l) /\ ToSet(l) = S
<1>1. PICK n \in Nat : n = Cardinality(S) /\ IsFiniteSet(S)
  BY KernelAssumption, FS_Subset, FS_CardinalityType
<1>2. \E f \in [1 .. n -> S] : IsInjective(f)
  <2>1. ExistsBijection(1 .. n, S)
    BY <1>1, FS_CardinalityType
  <2> QED BY <2>1 DEF ExistsBijection, Bijection, Injection
<1>3. PICK l \in [1 .. n -> S] : l = SetToSeq(S) /\ IsInjective(l)
  BY <1>1, <1>2 DEF SetToSeq
<1>4. l \in Seq(Task) /\ Len(l) = n
  BY <1>3
<1>5. Once(l)
  BY <1>3, <1>4 DEF IsInjective, Once
<1>6. l \in Surjection(1 .. n, S)
  <2>1. l \in Injection(1 .. n, S)
    BY <1>3 DEF Injection
  <2>2. Cardinality(1 .. n) = n
    BY FS_Interval
  <2> QED BY <1>1, <2>1, <2>2, FS_Injection
<1>7. ToSet(l) = S
  BY <1>3, <1>4, <1>6 DEF Surjection, ToSet
<1> QED BY <1>3, <1>4, <1>5, <1>7

LEMMA ListedCircle ==
  ASSUME NEW S \in SUBSET Task, NEW l, l = Append(SetToSeq(S), End)
  PROVE  /\ Circle(l) /\ ToSet(l) = S \cup {End}
         /\ l = <<End>> <=> S = {}
         /\ S # {} => Last(SetToSeq(S)) \in Task
<1>1. PICK m \in Seq(Task) : m = SetToSeq(S) /\ Once(m) /\ ToSet(m) = S
  BY SetIsListed
<1>2. /\ Len(m) \in Nat /\ \A i \in 1 .. Len(m) : m[i] \in Task /\ m[i] \in S
      /\ \A x \in S : \E i \in 1 .. Len(m) : m[i] = x
  BY <1>1, ListMembers
<1>3. /\ l \in Seq(Task \cup {End}) /\ Len(l) = Len(m) + 1 /\ l[Len(m) + 1] = End
      /\ \A i \in 1 .. Len(m) : l[i] = m[i]
  BY <1>1, <1>2
<1>4. /\ \A i \in 1 .. Len(l) : l[i] \in ToSet(l)
      /\ \A x \in ToSet(l) : \E i \in 1 .. Len(l) : l[i] = x
  <2>1. PICK T : T = Task \cup {End}
    OBVIOUS
  <2>2. l \in Seq(T)
    BY <1>3, <2>1
  <2>3. PICK c \in Seq(T) : c = l
    BY <2>2
  <2>4. /\ \A i \in 1 .. Len(c) : c[i] \in ToSet(c)
        /\ \A x \in ToSet(c) : \E i \in 1 .. Len(c) : c[i] = x
    BY ListMembers
  <2> QED BY <2>3, <2>4
<1>5. ToSet(l) = S \cup {End}
  <2>1. ASSUME NEW x \in ToSet(l) PROVE x \in S \cup {End}
    <3>1. PICK i \in 1 .. Len(l) : l[i] = x
      BY <1>4
    <3>2. i \in 1 .. Len(m) \/ i = Len(m) + 1
      BY <1>2, <1>3
    <3> QED BY <1>2, <1>3, <3>1, <3>2
  <2>2. ASSUME NEW x \in S PROVE x \in ToSet(l)
    <3>1. PICK i \in 1 .. Len(m) : m[i] = x
      BY <1>2
    <3>2. i \in 1 .. Len(l)
      BY <1>2, <1>3
    <3> QED BY <1>3, <1>4, <3>1, <3>2
  <2>3. End \in ToSet(l)
    <3>1. Len(m) + 1 \in 1 .. Len(l)
      BY <1>2, <1>3
    <3> QED BY <1>3, <1>4, <3>1
  <2> QED BY <2>1, <2>2, <2>3
<1>6. Once(l)
  <2>1. ASSUME NEW i \in 1 .. Len(l), NEW j \in 1 .. Len(l), i < j PROVE l[i] # l[j]
    <3>1. i \in 1 .. Len(m) /\ (j \in 1 .. Len(m) \/ j = Len(m) + 1)
      BY <1>2, <1>3, <2>1
    <3>2. m[i] # End
      BY <1>2, <3>1, KernelAssumption
    <3> QED BY <1>1, <1>3, <2>1, <3>1, <3>2 DEF Once
  <2> QED BY <2>1 DEF Once
<1>7. Circle(l)
  BY <1>3, <1>5, <1>6 DEF Circle
<1>8. l = <<End>> <=> S = {}
  BY <1>5, <1>7, EmptyCircle, KernelAssumption
<1>9. S # {} => Last(m) \in Task
  <2>1. S # {} => Len(m) \in 1 .. Len(m)
    BY <1>2
  <2> QED BY <1>2, <2>1 DEF Last
<1> QED BY <1>1, <1>5, <1>7, <1>8, <1>9

LEMMA StartsInPlace ==
  ASSUME NEW base \in [Task -> Prio], NEW stopped \in SUBSET (Task \ {Idle})
  PROVE  LET s == StartedKernel(base, stopped)
         IN  InPlace(s, {}) /\ s.held = [t \in Task |-> 0]
<1> DEFINE R(p) == {t \in Task \ stopped : base[t] = p}
           top  == {base[t] : t \in Task \ stopped}
<1>1. PICK s : s = StartedKernel(base, stopped)
  OBVIOUS
<1>2. /\ s.ready = [p \in Prio |-> Append(SetToSeq(R(p)), End)]
      /\ s.delayed = <<>> /\ s.overflow = <<>> /\ s.suspended = stopped
      /\ s.top = top /\ s.prio = base /\ Where \subseteq DOMAIN s
  BY <1>1 DEF StartedKernel, Where
<1>3. /\ s.events = [l \in EventList |-> <<>>] /\ s.item = base /\ s.base = base
      /\ s.held = [t \in Task |-> 0] /\ s.yield = FALSE /\ s.pended = 0
      /\ s.cur = Last(SetToSeq(R(Max(top)))) /\ Else \subseteq DOMAIN s
  BY <1>1 DEF StartedKernel, Else
<1>4. \A p \in Prio : /\ R(p) \in SUBSET Task
                      /\ s.ready[p] = Append(SetToSeq(R(p)), End)
  BY <1>2
<1>5. \A p \in Prio : /\ Circle(s.ready[p]) /\ ToSet(s.ready[p]) = R(p) \cup {End}
                      /\ s.ready[p] = <<End>> <=> R(p) = {}
                      /\ R(p) # {} => Last(SetToSeq(R(p))) \in Task
  BY <1>4, ListedCircle
<1>6. top \in SUBSET Prio /\ base[Idle] \in top /\ \A p \in Prio : p \in top <=> R(p) # {}
  BY KernelAssumption
<1>7. \A t \in Task, p \in Prio : t \in ToSet(s.ready[p]) <=> t \notin stopped /\ base[t] = p
  <2> SUFFICES ASSUME NEW t \in Task, NEW p \in Prio
               PROVE  t \in ToSet(s.ready[p]) <=> t \notin stopped /\ base[t] = p
    OBVIOUS
  <2>1. t \in R(p) <=> t \notin stopped /\ base[t] = p
    OBVIOUS
  <2> HIDE DEF R
  <2>2. ToSet(s.ready[p]) = R(p) \cup {End} /\ t # End
    BY <1>5, KernelAssumption
  <2> QED BY <2>1, <2>2
<1>8. ToSet(<<>>) = {} /\ <<>> \in Seq(Task) /\ Once(<<>>) /\ <<>> \in Seq(Others)
  BY DEF ToSet, Once
<1>9. Lists(s)
  BY <1>2, <1>5, <1>6, <1>7, <1>8 DEF Lists
<1>10. Homes(s, {})
  BY <1>2, <1>7, <1>8 DEF Homes, OneHome, IsReady
<1>11. Bits(s, {})
  BY <1>2, <1>5, <1>6 DEF Bits
<1>12. IsReady(s, Idle)
  BY <1>2, <1>7, KernelAssumption DEF IsReady
<1>13. s.cur \in Task
  <2>1. Max(top) \in top
    BY <1>6, HighestExists
  <2> HIDE DEF top, R
  <2>2. PICK p \in Prio : p = Max(top) /\ R(p) # {}
    BY <1>6, <2>1
  <2> QED BY <1>3, <1>5, <2>2
<1>14. Fit(s)
  <2>1. s.events \in [EventList -> Seq(Others)]
    BY <1>3, <1>8
  <2>2. s.pended \in 0 .. PendBound
    BY <1>3, TasksAssumption
  <2>3. s.base \in [Task -> Prio] /\ s.item \in [Task -> Prio] /\ s.yield \in BOOLEAN
    BY <1>3
  <2> HIDE DEF top, R
  <2> QED BY <1>3, <1>13, <2>1, <2>2, <2>3 DEF Fit
<1> QED BY <1>1, <1>3, <1>9, <1>10, <1>11, <1>12, <1>14 DEF InPlace, Tidy

LEMMA InitIsOrderly == ASSUME Init PROVE Orderly
<1>1. /\ scenario \in Scenarios /\ k = StartedKernel(scenario.base, scenario.stopped)
      /\ pc = [t \in Task |-> "run"] /\ loc = [t \in Task |-> NoCall]
      /\ q = [qu \in Queue |-> NewQueue(qu)]
  BY DEF Init, TasksInit, QueueInit
<1>2. /\ scenario.base \in [Task -> Prio] /\ scenario.stopped \in SUBSET (Task \ {Idle})
  BY <1>1, ScenarioAssumption
<1>3. InPlace(k, {}) /\ k.held = [t \in Task |-> 0]
  BY <1>1, <1>2, StartsInPlace
<1>4. InHand = {}
  BY <1>1 DEF InHand
<1>5. SoundPlaces /\ Inheriting
  BY <1>1, NoCallIsSoundPlace DEF SoundPlaces, Inheriting
<1>6. \A qu \in Queue : /\ {"n", "tx", "rx", "holder"} \subseteq DOMAIN q[qu]
                        /\ q[qu].tx = Unlocked /\ q[qu].rx = Unlocked
                        /\ q[qu].holder = Nobody /\ (qu \in Mutex => q[qu].n = 1)
  BY <1>1 DEF NewQueue
<1>7. Counted(q)
  BY <1>1, <1>6, QueueAssumption DEF Counted, Locks, Unlocked
<1>8. Owned(k.held, q)
  <2>1. \A t \in Task : HeldBy(q, t) = {}
    BY <1>6, QueueAssumption, NobodyAssumption DEF HeldBy
  <2>2. \A t \in Task : k.held[t] = Cardinality(HeldBy(q, t)) /\ k.held[t] = 0
    BY <1>3, <2>1, FS_EmptySet
  <2> QED BY <1>3, <1>6, <2>2, QueueAssumption DEF Owned
<1> QED BY <1>3, <1>4, <1>5, <1>7, <1>8 DEF Orderly

-----------------------------------------------------------------------------
(* Every step. *)

LEMMA TaskStepIsOrderly ==
  ASSUME Punctual, Orderly, TaskStep, q' = q PROVE Orderly'
  BY ResumingIsOrderly, YieldIsOrderly, StartDelayIsOrderly, DelayIsOrderly,
     NotifyTakeIsOrderly, NotifyTakenIsOrderly, NotifyGiveIsOrderly, TaskSuspendIsOrderly,
     TaskSuspendedIsOrderly, TaskResumeIsOrderly, TaskPrioritySetIsOrderly,
     StartAbortDelayIsOrderly, AbortDelayIsOrderly, AbortedDelayIsOrderly, IdleIsOrderly
  DEF TaskStep

LEMMA QueueStepIsOrderly ==
  ASSUME IInv, Punctual, Orderly, HolderHasCompany, QueueStep PROVE Orderly'
  BY CallsAreOrderly, TryAgainIsOrderly, LockingIsOrderly, TimesOutOrderly, PlacingIsOrderly,
     UnlockingIsOrderly, DisinheritIsOrderly
  DEF QueueStep

LEMMA NextIsOrderly ==
  ASSUME IInv, Punctual, Orderly, HolderHasCompany, [Next]_vars PROVE Orderly'
<1>1. CASE TaskStep /\ UNCHANGED q
  BY <1>1, TaskStepIsOrderly
<1>2. CASE HandlerStep /\ UNCHANGED q
  BY <1>2, TickIsOrderly, NotifyFromISRIsOrderly, ResumeFromISRIsOrderly DEF HandlerStep
<1>3. CASE QueueStep
  BY <1>3, QueueStepIsOrderly
<1>4. CASE QueueHandlerStep
  BY <1>4, SendFromISRIsOrderly, ReceiveFromISRIsOrderly DEF QueueHandlerStep
<1>5. CASE UNCHANGED vars
  <2>1. Handler(k) /\ q' = q
    BY <1>5 DEF vars, Handler
  <2>2. Onward(k, k, InHand)
    BY HereAlready DEF Orderly
  <2> QED BY <2>1, <2>2, HandlerIsOrderly DEF Orderly
<1> QED BY <1>1, <1>2, <1>3, <1>4, <1>5 DEF Next

-----------------------------------------------------------------------------
(* What the order of the lists comes to. *)

\* The number of state lists a task is in.
LEMMA OnePlace ==
  ASSUME InPlace(k, InHand), NEW t \in Task, t \notin InHand PROVE Places(t) = 1
<1> DEFINE A == {p \in Prio : InReadyList(k, t, p)}
           B == {l \in {1, 2} : t \in ToSet(IF l = 1 THEN k.delayed ELSE k.overflow)}
<1>1. /\ OneHome(k, t) /\ k.prio[t] \in Prio
      /\ \A p \in Prio : t \in ToSet(k.ready[p]) => p = k.prio[t]
  BY DEF InPlace, Tidy, Homes, Lists
<1>2. A = IF IsReady(k, t) THEN {k.prio[t]} ELSE {}
  BY <1>1 DEF IsReady, InReadyList
<1>3. B = (IF t \in ToSet(k.delayed) THEN {1} ELSE {})
            \cup (IF t \in ToSet(k.overflow) THEN {2} ELSE {})
  OBVIOUS
<1>4. /\ Cardinality({k.prio[t]}) = 1 /\ Cardinality({}) = 0
      /\ Cardinality({1}) = 1 /\ Cardinality({2}) = 1
  BY FS_Singleton, FS_EmptySet
<1>5. PICK a : a = A /\ Cardinality(a) = IF IsReady(k, t) THEN 1 ELSE 0
  BY <1>2, <1>4
<1>6. PICK b : /\ b = B
               /\ ~(t \in ToSet(k.delayed) /\ t \in ToSet(k.overflow)) =>
                    Cardinality(b) = IF t \in ToSet(k.delayed) \/ t \in ToSet(k.overflow)
                                       THEN 1 ELSE 0
  <2>1. CASE t \in ToSet(k.delayed) /\ t \notin ToSet(k.overflow)
    BY <1>3, <1>4, <2>1
  <2>2. CASE t \notin ToSet(k.delayed) /\ t \in ToSet(k.overflow)
    BY <1>3, <1>4, <2>2
  <2>3. CASE t \notin ToSet(k.delayed) /\ t \notin ToSet(k.overflow)
    BY <1>3, <1>4, <2>3
  <2> QED BY <2>1, <2>2, <2>3
<1>7. Places(t) = Cardinality(a) + Cardinality(b) + (IF t \in k.suspended THEN 1 ELSE 0)
  BY <1>5, <1>6 DEF Places
<1> HIDE DEF A, B
<1> QED BY <1>1, <1>5, <1>6, <1>7 DEF OneHome

LEMMA OrderlyIsTyped == ASSUME IInv, Punctual, Orderly PROVE TypeOK
<1>1. /\ k.cur \in Task /\ k.pended \in 0 .. PendBound /\ k.yield \in BOOLEAN
      /\ k.top \subseteq Prio /\ k.prio \in [Task -> Prio] /\ k.base \in [Task -> Prio]
  BY DEF Orderly, InPlace, Tidy, Lists, Fit
<1>2. k.tick \in Time /\ k.next \in Time /\ k.susp \in 0 .. 1
  BY DEF Punctual, Sleepers, Asleep, Suspension
<1>3. k.held \in [Task -> 0 .. Cardinality(Mutex)]
  <2>1. /\ k.held \in [Task -> Nat]
        /\ \A t \in Task : k.held[t] = Cardinality(HeldBy(q, t))
    BY DEF Orderly, Owned
  <2>2. \A t \in Task : HeldBy(q, t) \subseteq Mutex
    BY DEF HeldBy
  <2>3. \A t \in Task : Cardinality(HeldBy(q, t)) <= Cardinality(Mutex)
    BY <2>2, QueueAssumption, FS_Subset
  <2>4. Cardinality(Mutex) \in Nat
    BY QueueAssumption, FS_CardinalityType
  <2> QED BY <2>1, <2>3, <2>4
<1>4. ASSUME NEW qu \in Queue
      PROVE  q[qu].n \in 0 .. Length[qu] /\ q[qu].tx \in Locks /\ q[qu].rx \in Locks
  <2>1. qu \in Mutex => q[qu].n \in {0, 1} /\ Length[qu] = 1
    BY QueueAssumption DEF Orderly, Owned
  <2>2. qu \notin Mutex => q[qu].n \in 0 .. Length[qu]
    BY DEF IInv, SoundRings, SoundRing, Rings
  <2> QED BY <2>1, <2>2 DEF Orderly, Counted
<1> QED BY <1>1, <1>2, <1>3, <1>4 DEF TypeOK, Locks

LEMMA OrderlyIsConsistent ==
  ASSUME IInv, Punctual, Orderly PROVE ListsConsistent /\ SelectsATask
<1>1. InPlace(k, InHand)
  BY DEF Orderly
<1>2. TypeOK
  BY OrderlyIsTyped
<1>3. \A t \in Task \ InHand : Places(t) = 1
  BY <1>1, OnePlace
<1>4. \A t \in Task, p \in Prio : InReadyList(k, t, p) => p = k.prio[t]
  BY <1>1 DEF InPlace, Tidy, Lists, InReadyList
<1>5. k.top = {p \in Prio : k.ready[p] # <<End>>}
  BY <1>1 DEF InPlace, Tidy, Lists, Bits
<1>6. SortedBy(k.delayed, k.wake) /\ SortedBy(k.overflow, k.wake)
      /\ (k.delayed # <<>> => k.next <= k.wake[Head(k.delayed)])
  BY PunctualWakes
<1>7. SelectsATask
  BY <1>2 DEF TypeOK, SelectsATask
<1> QED BY <1>2, <1>3, <1>4, <1>5, <1>6, <1>7, Zenon DEF ListsConsistent

\* No less will do: where the holder has no company, the lists are inconsistent after the step.
LEMMA CompanyIsNeeded ==
  ASSUME Punctual, Orderly, Disinherit, ~HolderHasCompany PROVE ~ListsConsistent'
<1>1. pc[k.cur] = "disinherit" /\ pc[k.cur] \in Loop
  BY DEF Disinherit, At, Loop
<1>2. InPlace(k, {}) /\ Here.obj \in Queue
  BY <1>1, InTheLoop
<1>3. PICK h, w, a :
        /\ h = q[Here.obj].holder /\ w = HighestWaiting(k, Here.obj)
        /\ a = PriorityDisinheritAfterTimeout(k, h, w)
        /\ h # Nobody /\ IsReady(k, h) /\ a.prio[h] # k.prio[h]
        /\ a.ready[k.prio[h]] = <<End>>
  BY DEF HolderHasCompany
<1>4. h \in Task
  BY <1>2, <1>3 DEF Orderly, Owned
<1>5. PICK p : p = IF k.base[h] < w THEN w ELSE k.base[h]
  OBVIOUS
<1>6. PICK b : b = [k EXCEPT !.item[h] = p]
  OBVIOUS
<1>7. a = MoveToPriority(b, h, p, p)
  BY <1>3, <1>5, <1>6 DEF PriorityDisinheritAfterTimeout
<1>8. /\ Where \subseteq DOMAIN b /\ b.prio = k.prio /\ b.ready = k.ready /\ b.top = k.top
      /\ k.prio \in [Task -> Prio]
  BY <1>2, <1>6, Fields DEF Where, Else, InPlace, Tidy, Lists
<1>9. a.prio[h] = p /\ p # k.prio[h]
  <2>1. PICK t \in Task : t = h
    BY <1>4
  <2>2. MoveToPriority(b, t, p, p).prio[t] = p
    BY <1>8, NewPriority
  <2> QED BY <1>3, <1>7, <2>1, <2>2
<1>10. PICK old \in Prio : old = k.prio[h] /\ old \in k.top
  <2>1. k.ready[k.prio[h]] # <<End>>
    <3>1. ToSet(<<End>>) = {End}
      BY DEF ToSet
    <3> QED BY <1>3, <1>4, <3>1, KernelAssumption DEF IsReady
  <2>2. k.prio[h] \in Prio
    BY <1>4, <1>8
  <2> QED BY <1>2, <2>1, <2>2 DEF InPlace, Tidy, Bits
<1>11. old \in a.top
  <2>1. PICK n : n = [b EXCEPT !.prio[h] = p]
    OBVIOUS
  <2>2. n.top = k.top /\ n.prio[h] = p /\ {"ready", "top", "prio"} \subseteq DOMAIN n
    BY <1>4, <1>8, <2>1 DEF Where
  <2>3. PICK o : o = [n EXCEPT !.ready[b.prio[h]] = RemoveFirst(@, h)]
    OBVIOUS
  <2>4. o.top = k.top /\ o.prio[h] = p /\ {"ready", "top", "prio"} \subseteq DOMAIN o
    BY <2>2, <2>3
  <2>5. PICK c : c = IF o.ready[b.prio[h]] = <<End>> THEN [o EXCEPT !.top = @ \ {p}] ELSE o
    OBVIOUS
  <2>6. old \in c.top /\ "top" \in DOMAIN c
    BY <1>9, <1>10, <2>4, <2>5
  <2>7. InReadyList(b, h, b.prio[h])
    BY <1>3, <1>8 DEF IsReady, InReadyList
  <2>8. a = AddToReadyList(c, h)
    BY <1>7, <2>1, <2>3, <2>5, <2>7 DEF MoveToPriority
  <2> QED BY <2>6, <2>8 DEF AddToReadyList
<1>12. Goto(a, "run", Here)
  BY <1>3 DEF Disinherit
<1>13. k'.top = a.top /\ k'.ready = a.ready
  <2>1. k' = Forget(a, k.cur)
    BY <1>12 DEF Goto
  <2> QED BY <2>1 DEF Forget
<1> QED BY <1>3, <1>10, <1>11, <1>13 DEF ListsConsistent

-----------------------------------------------------------------------------
\* Every task is in exactly one state list, the lists are in order, and the
\* bitmap and xNextTaskUnblockTime agree with them (tasks.c: every function
\* that moves a state item), as long as no holder of a mutex loses an inherited
\* priority to a wait that ran out while it has its ready list to itself: the
\* bit of that list would stay set (tasks.c:4299).
THEOREM ListsAreConsistent ==
  ASSUME ~SleepsIntoWrap
  PROVE  Spec /\ []HolderHasCompany => []ListsConsistent
<1> DEFINE Order == IInv /\ Punctual /\ Orderly
<1>1. Init => Order
  BY InitIsSound, InitIsPunctual, InitIsOrderly
<1>2. Order /\ HolderHasCompany /\ [Next]_vars => Order'
  <2>1. Order => SelectsATask
    BY OrderlyIsConsistent
  <2> QED BY <2>1, NextIsSound, NextIsPunctual, NextIsOrderly
<1>3. Order => ListsConsistent
  BY OrderlyIsConsistent
<1> QED BY <1>1, <1>2, <1>3, PTL DEF Spec

\* The kernel always has a task to run (the assertion at tasks.c:176) in the
\* same systems.
THEOREM ATaskIsSelected ==
  ASSUME ~SleepsIntoWrap
  PROVE  Spec /\ []HolderHasCompany => []SelectsATask
<1>1. ListsConsistent => SelectsATask
  BY DEF ListsConsistent, TypeOK, SelectsATask
<1> QED BY <1>1, ListsAreConsistent, PTL
=============================================================================
