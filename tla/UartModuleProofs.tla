-------------------------- MODULE UartModuleProofs --------------------------
(* The two rings between the host and the main loop of the BLE module, for *)
(* every size of the rings that divides the range of their pointers, every *)
(* set of commands, and every way in which the interrupts fall.            *)
EXTENDS UartModule, SequenceTheorems, TLAPS

-----------------------------------------------------------------------------
(* Remainders                                                              *)

LEMMA ModParts ==
  ASSUME NEW m \in Nat \ {0}, NEW x \in Int
  PROVE  /\ x % m \in 0 .. m - 1 /\ x \div m \in Int
         /\ x = (x \div m) * m + (x % m)
  OBVIOUS

LEMMA ModUnique ==
  ASSUME NEW m \in Nat \ {0}, NEW q \in Int, NEW r \in 0 .. m - 1
  PROVE  (q * m + r) % m = r
  OBVIOUS

LEMMA NoMultiple ==
  ASSUME NEW m \in Nat \ {0}, NEW q \in Int, q * m < m, -m < q * m
  PROVE  q = 0
  OBVIOUS

LEMMA ModShift ==
  ASSUME NEW m \in Nat \ {0}, NEW x \in Int, NEW q \in Int
  PROVE  (x + q * m) % m = x % m
<1>1. PICK d \in Int, r \in 0 .. m - 1 : x = d * m + r
  BY ModParts
<1>2. x + q * m = (d + q) * m + r /\ d + q \in Int
  BY <1>1
<1> QED BY <1>1, <1>2, ModUnique

\* A multiple of m added changes nothing modulo m.
LEMMA ModMultiple ==
  ASSUME NEW m \in Nat \ {0}, NEW p \in Nat, p % m = 0,
         NEW x \in Int
  PROVE  (x + p) % m = x % m
<1>1. p = (p \div m) * m /\ p \div m \in Int
  BY ModParts
<1> QED BY <1>1, ModShift

\* Two numbers less than m apart with the same remainder are the same.
LEMMA ModWindow ==
  ASSUME NEW m \in Nat \ {0}, NEW x \in Int, NEW y \in Int,
         x % m = y % m, x <= y, y < x + m
  PROVE  x = y
<1>1. PICK d \in Int, r \in 0 .. m - 1 : x = d * m + r
  BY ModParts
<1>2. PICK e \in Int, t \in 0 .. m - 1 : y = e * m + t
  BY ModParts
<1>3. r = t
  BY <1>1, <1>2, ModUnique
<1>4. y - x = (e - d) * m
  BY <1>1, <1>2, <1>3
<1>5. e - d \in Int /\ (e - d) * m < m /\ -m < (e - d) * m
  BY <1>4
<1>6. e - d = 0
  BY <1>5, NoMultiple
<1> QED BY <1>4, <1>6

-----------------------------------------------------------------------------
(* Ring pointers run modulo P, the entry of one is its rest modulo num.    *)
(* The provers know these operators by the lemmas alone.                   *)

Succ(P, r) == (r + 1) % P
Dist(P, w, r) == (w - r) % P
At(num, p) == p % num

LEMMA PtrStep ==
  ASSUME NEW P \in Nat \ {0}, NEW r \in 0 .. P - 1
  PROVE  (r + 1) % P = (IF r + 1 = P THEN 0 ELSE r + 1)
  OBVIOUS

LEMMA PtrDistance ==
  ASSUME NEW P \in Nat \ {0}, NEW w \in 0 .. P - 1, NEW r \in 0 .. P - 1
  PROVE  (w - r) % P = (IF w >= r THEN w - r ELSE w - r + P)
<1>1. CASE w >= r
  BY <1>1
<1>2. CASE w < r
  <2>1. P % P = 0
    OBVIOUS
  <2>2. (w - r + P) % P = (w - r) % P
    <3>1. w - r \in Int /\ P \in Nat
      OBVIOUS
    <3> QED BY <2>1, <3>1, ModMultiple, Zenon
  <2>3. w - r + P \in 0 .. P - 1
    BY <1>2
  <2>4. (w - r + P) % P = w - r + P
    BY <2>3
  <2> QED BY <1>2, <2>2, <2>4
<1> QED BY <1>1, <1>2

\* What the two steps of a ring do to the number of its entries.
LEMMA PtrFilled ==
  ASSUME NEW P \in Nat \ {0}, NEW w \in 0 .. P - 1, NEW r \in 0 .. P - 1
  PROVE  /\ Dist(P, w, r) \in 0 .. P - 1
         /\ w = r <=> Dist(P, w, r) = 0
         /\ Succ(P, w) \in 0 .. P - 1
         /\ Dist(P, w, r) + 1 < P => Dist(P, Succ(P, w), r) = Dist(P, w, r) + 1
         /\ Dist(P, w, r) > 0 => Dist(P, w, Succ(P, r)) = Dist(P, w, r) - 1
<1> DEFINE w1 == Succ(P, w)
           r1 == Succ(P, r)
<1>1. /\ w1 \in 0 .. P - 1 /\ w1 = (IF w + 1 = P THEN 0 ELSE w + 1)
      /\ r1 \in 0 .. P - 1 /\ r1 = (IF r + 1 = P THEN 0 ELSE r + 1)
  <2>1. w1 = (IF w + 1 = P THEN 0 ELSE w + 1)
    BY PtrStep DEF Succ
  <2>2. r1 = (IF r + 1 = P THEN 0 ELSE r + 1)
    BY PtrStep DEF Succ
  <2> HIDE DEF w1, r1
  <2> QED BY <2>1, <2>2
<1>2. Dist(P, w, r) = (IF w >= r THEN w - r ELSE w - r + P)
  BY PtrDistance DEF Dist
<1> HIDE DEF w1, r1
<1>3. Dist(P, w1, r) = (IF w1 >= r THEN w1 - r ELSE w1 - r + P)
  BY <1>1, PtrDistance DEF Dist
<1>4. Dist(P, w, r1) = (IF w >= r1 THEN w - r1 ELSE w - r1 + P)
  BY <1>1, PtrDistance DEF Dist
<1>5. /\ Dist(P, w, r) + 1 < P => Dist(P, w1, r) = Dist(P, w, r) + 1
      /\ Dist(P, w, r) > 0 => Dist(P, w, r1) = Dist(P, w, r) - 1
  BY <1>1, <1>2, <1>3, <1>4
<1>6. Dist(P, w, r) \in 0 .. P - 1 /\ (w = r <=> Dist(P, w, r) = 0)
  BY <1>2
<1> QED BY <1>1, <1>5, <1>6 DEF w1, r1

\* The entry at w is the one after those that wait.
LEMMA PtrEntry ==
  ASSUME NEW P \in Nat \ {0}, NEW num \in Nat \ {0}, P % num = 0,
         NEW w \in 0 .. P - 1, NEW r \in 0 .. P - 1
  PROVE  /\ At(num, w) = At(num, r + Dist(P, w, r))
         /\ At(num, w) \in 0 .. num - 1
<1>1. Dist(P, w, r) = (IF w >= r THEN w - r ELSE w - r + P)
  BY PtrDistance DEF Dist
<1>2. r + Dist(P, w, r) = w \/ r + Dist(P, w, r) = w + P
  BY <1>1
<1>3. (w + P) % num = w % num
  <2>1. w \in Int /\ P \in Nat
    OBVIOUS
  <2> QED BY <2>1, ModMultiple, Zenon
<1>4. w % num \in 0 .. num - 1
  OBVIOUS
<1> QED BY <1>2, <1>3, <1>4, Zenon DEF At

\* The wrap of a pointer moves no entry.
LEMMA PtrWrap ==
  ASSUME NEW P \in Nat \ {0}, NEW num \in Nat \ {0}, P % num = 0,
         NEW r \in 0 .. P - 1
  PROVE  \A i \in Nat : At(num, Succ(P, r) + i) = At(num, r + 1 + i)
<1> TAKE i \in Nat
<1>1. CASE r + 1 = P
  <2>1. Succ(P, r) + i = i /\ r + 1 + i = i + P
    BY <1>1, PtrStep DEF Succ
  <2>2. (i + P) % num = i % num
    <3>1. i \in Int /\ P \in Nat
      OBVIOUS
    <3> QED BY <3>1, ModMultiple, Zenon
  <2> QED BY <2>1, <2>2, Zenon DEF At
<1>2. CASE r + 1 # P
  BY <1>2, PtrStep DEF Succ
<1> QED BY <1>1, <1>2

\* Among num pointers in a row no two have the same entry.
LEMMA PtrApart ==
  ASSUME NEW num \in Nat \ {0}, NEW first \in Nat, NEW i \in Nat, NEW q \in Nat,
         i < q, q < num
  PROVE  At(num, first + i) # At(num, first + q)
<1>1. first + i \in Int /\ first + q \in Int /\ first + i <= first + q
      /\ first + q < first + i + num /\ first + i # first + q
  OBVIOUS
<1> QED BY <1>1, ModWindow, Zenon DEF At

LEMMA PtrAt ==
  ASSUME NEW num \in Nat \ {0}, NEW p \in Nat
  PROVE  At(num, p) \in 0 .. num - 1
  BY DEF At

-----------------------------------------------------------------------------
(* The invariant                                                           *)

\* q entries of a ring of num, from the one of pointer first on, are the
\* elements of s after the first k.
Entries(s, k, slots, num, first, q) ==
  \A i \in 0 .. q - 1 : s[k + 1 + i] = slots[At(num, first + i)]

(***************************************************************************)
(* spp_tx_fifo: what is owed to the host is in the UART or waits in the    *)
(* ring, in order.  Between the start of a transfer and the pop the entry  *)
(* at rptr is in both and does not wait any more.                          *)
(***************************************************************************)
TxFirst == IF pc = "sent" THEN tr + 1 ELSE tr
TxWaiting == IF pc = "sent" THEN Filled(tw, tr) - 1 ELSE Filled(tw, tr)
InUart == IF tx = None THEN 0 ELSE 1

TxRing ==
  /\ Filled(tw, tr) \in 0 .. TxNum /\ TxWaiting \in Nat
  /\ Len(owed) = InUart + TxWaiting
  /\ tx # None => owed[1] = tx
  /\ Entries(owed, InUart, tslot, TxNum, TxFirst, TxWaiting)

\* uart_send_flag covers the transfer from the end of tx_to_uart_cb on.
SendFlag ==
  /\ pc \in {"sent", "popped"} => ~flag
  /\ tx # None /\ pc \notin {"sent", "popped"} => flag

(***************************************************************************)
(* spp_rx_fifo: what the host has sent and the module has not executed     *)
(* waits in the ring, the last command possibly still in the receiver.     *)
(* Between the execution and the pop the entry at rptr does not wait.      *)
(***************************************************************************)
RxFirst == IF pc = "pop" THEN rr + 1 ELSE rr
RxWaiting ==
  (IF pc = "pop" THEN Filled(rw, rr) - 1 ELSE Filled(rw, rr))
    + (IF rx = "quiet" THEN 0 ELSE 1)

RxRing ==
  /\ pc \in {"exec", "pop"} => Filled(rw, rr) > 0
  /\ Len(pend) = RxWaiting
  /\ dma = Entry(rw, RxNum)
  /\ pc = "exec" => slot[Entry(rr, RxNum)] # Zero

\* Without power management nothing restarts the receive DMA, ...
Undisturbed == ~build.pm => ~torn /\ ~mask /\ ~asleep /\ pc # "pm"

\* ... and the ring holds the commands themselves.
Unharmed ==
  ~build.pm => /\ Entries(pend, 0, slot, RxNum, RxFirst, RxWaiting)
               /\ rx # "quiet" => slot[dma] = cur

\* The host holds the pin around its commands; the chip sleeps in the stack.
Pins == (rx # "quiet" => mcu) /\ (asleep => pc = "main")

IInv == TypeOK /\ TxRing /\ SendFlag /\ RxRing /\ Undisturbed /\ Unharmed /\ Pins
        /\ HostAwakeForMessages /\ SleepsOnlyIdle

-----------------------------------------------------------------------------
(* What happens to the entries of a ring                                   *)

LEMMA EntriesToProve ==
  ASSUME NEW t, NEW b, NEW k \in Nat, NEW q \in Nat, NEW num, NEW first,
         \A i \in 0 .. q : t[k + 1 + i] = b[At(num, first + i)]
  PROVE  Entries(t, k, b, num, first, q + 1)
  BY DEF Entries

\* One more at the end, in an entry that none of the others has.
LEMMA EntriesAppend ==
  ASSUME NEW S, NEW s \in Seq(S), NEW e \in S, NEW k \in Nat, NEW q \in Nat,
         NEW num \in Nat \ {0}, NEW first \in Nat, q < num, Len(s) = k + q,
         NEW slots, DOMAIN slots = 0 .. num - 1, NEW j, j = At(num, first + q),
         Entries(s, k, slots, num, first, q)
  PROVE  Entries(Append(s, e), k, [slots EXCEPT ![j] = e], num, first, q + 1)
<1> DEFINE t == Append(s, e)
           b == [slots EXCEPT ![j] = e]
<1> SUFFICES ASSUME NEW i \in 0 .. q
             PROVE  t[k + 1 + i] = b[At(num, first + i)]
  BY EntriesToProve
<1>1. j \in 0 .. num - 1 /\ At(num, first + i) \in 0 .. num - 1
  <2>1. first + q \in Nat /\ first + i \in Nat
    OBVIOUS
  <2> QED BY <2>1, PtrAt, Zenon
<1>2. CASE i = q
  <2>1. t[k + 1 + i] = e
    BY <1>2, AppendProperties
  <2>2. b[At(num, first + i)] = e
    BY <1>1, <1>2
  <2> QED BY <2>1, <2>2
<1>3. CASE i < q
  <2>1. At(num, first + i) # j
    <3>1. i \in Nat
      OBVIOUS
    <3> QED BY <1>3, <3>1, PtrApart, Zenon
  <2>2. b[At(num, first + i)] = slots[At(num, first + i)]
    BY <1>1, <2>1
  <2>3. k + 1 + i \in 1 .. Len(s) /\ i \in 0 .. q - 1
    BY <1>3
  <2>4. t[k + 1 + i] = s[k + 1 + i]
    BY <2>3, AppendProperties
  <2> QED BY <2>2, <2>3, <2>4 DEF Entries
<1> QED BY <1>2, <1>3

\* The first one does not wait any more.
LEMMA EntriesFirst ==
  ASSUME NEW s, NEW k \in Nat, NEW q \in Nat \ {0}, NEW num \in Nat \ {0},
         NEW first \in Nat, NEW slots, Entries(s, k, slots, num, first, q)
  PROVE  /\ s[k + 1] = slots[At(num, first)]
         /\ Entries(s, k + 1, slots, num, first + 1, q - 1)
<1>1. s[k + 1 + 0] = slots[At(num, first + 0)]
  BY DEF Entries
<1>2. ASSUME NEW i \in 0 .. q - 1 - 1
      PROVE  s[k + 1 + 1 + i] = slots[At(num, first + 1 + i)]
  <2>1. i + 1 \in 0 .. q - 1
    OBVIOUS
  <2>2. s[k + 1 + (i + 1)] = slots[At(num, first + (i + 1))]
    BY <2>1, Zenon DEF Entries
  <2> QED BY <2>2
<1> QED BY <1>1, <1>2 DEF Entries

\* The element in front of them is taken away.
LEMMA EntriesTail ==
  ASSUME NEW S, NEW s \in Seq(S), NEW q \in Nat, NEW num \in Nat \ {0},
         NEW first \in Nat, NEW slots, Len(s) = 1 + q,
         Entries(s, 1, slots, num, first, q)
  PROVE  Entries(Tail(s), 0, slots, num, first, q)
<1> SUFFICES ASSUME NEW i \in 0 .. q - 1
             PROVE  Tail(s)[0 + 1 + i] = slots[At(num, first + i)]
  BY DEF Entries
<1>1. s # <<>> /\ 1 + i \in 1 .. Len(s) - 1
  BY EmptySeq
<1>2. Tail(s)[1 + i] = s[1 + i + 1]
  BY <1>1, HeadTailProperties
<1> QED BY <1>2 DEF Entries

\* The read pointer wraps.
LEMMA EntriesWrap ==
  ASSUME NEW f, NEW g, NEW s, NEW k, NEW q \in Nat, NEW slots, NEW num,
         \A i \in Nat : At(num, g + i) = At(num, f + i),
         Entries(s, k, slots, num, f, q)
  PROVE  Entries(s, k, slots, num, g, q)
<1> SUFFICES ASSUME NEW i \in 0 .. q - 1
             PROVE  s[k + 1 + i] = slots[At(num, g + i)]
  BY Zenon DEF Entries
<1>1. i \in Nat
  OBVIOUS
<1> QED BY <1>1, Zenon DEF Entries

\* Nothing waits in an empty ring.
LEMMA EntriesNone ==
  ASSUME NEW s, NEW k, NEW slots, NEW num, NEW first
  PROVE  Entries(s, k, slots, num, first, 0)
  BY DEF Entries

-----------------------------------------------------------------------------
(* The types, by component                                                 *)

RxTypes ==
  /\ slot \in [0 .. RxNum - 1 -> Cmd \cup {Zero, Torn}]
  /\ rw \in Ptr /\ rr \in Ptr
  /\ rx \in {"quiet", "half", "done"} /\ cur \in Cmd
  /\ pend \in Seq(Cmd) /\ Len(pend) <= build.ahead

TxTypes ==
  /\ tslot \in [0 .. TxNum - 1 -> Message \cup {Zero}]
  /\ tw \in Ptr /\ tr \in Ptr
  /\ tx \in Message \cup {None}
  /\ owed \in Seq(Message)

Places == pc \in {"main", "exec", "pop", "sent", "popped", "pm"}

Flags ==
  /\ torn \in BOOLEAN /\ flag \in BOOLEAN /\ wakeMcu \in BOOLEAN
  /\ restart \in BOOLEAN /\ mcu \in BOOLEAN /\ mask \in BOOLEAN
  /\ wakeTick \in BOOLEAN /\ asleep \in BOOLEAN

\* What the assumption says of the build that runs.
LEMMA Sizes ==
  ASSUME build \in Builds
  PROVE  /\ RxNum \in Nat \ {0} /\ TxNum \in Nat \ {0} /\ PtrMod \in Nat \ {0}
         /\ PtrMod % RxNum = 0 /\ PtrMod % TxNum = 0
         /\ RxNum < PtrMod /\ TxNum < PtrMod
         /\ build.ahead \in 1 .. RxNum - 1 /\ build.pm \in BOOLEAN
         /\ build.cmd \subseteq Cmd /\ RestartCmd \in Cmd
  BY UartAssumption DEF RxNum, TxNum, PtrMod

LEMMA Values ==
  /\ None \notin Message /\ Zero \notin Cmd /\ Torn # Zero
  /\ Cmd \subseteq Message /\ Ev \in Message /\ Torn \in Message
  BY UartAssumption DEF Message

LEMMA TypeParts ==
  ASSUME build \in Builds, TxRing, RxRing
  PROVE  TypeOK <=> RxTypes /\ TxTypes /\ Places /\ Flags
<1>1. Entry(rw, RxNum) \in 0 .. RxNum - 1 \/ rw \notin Ptr
  BY Sizes DEF Entry, Ptr
<1>2. owed \in Seq(Message) => Len(owed) <= TxNum + 1
  BY Sizes, LenProperties DEF TxRing, InUart, TxWaiting
<1>3. TypeOK => RxTypes /\ TxTypes /\ Places /\ Flags
  BY DEF TypeOK, RxTypes, TxTypes, Places, Flags
<1>4. RxTypes /\ TxTypes /\ Places /\ Flags => TypeOK
  BY <1>1, <1>2 DEF TypeOK, RxTypes, TxTypes, Places, Flags, RxRing
<1> QED BY <1>3, <1>4

\* One ring with pointers w and r and num entries.
LEMMA Ptrs ==
  ASSUME build \in Builds, NEW w \in Ptr, NEW r \in Ptr,
         NEW num \in {RxNum, TxNum}
  PROVE  /\ Filled(w, r) \in 0 .. PtrMod - 1
         /\ w = r <=> Filled(w, r) = 0
         /\ Step(w) \in Ptr
         /\ Filled(w, r) + 1 < PtrMod => Filled(Step(w), r) = Filled(w, r) + 1
         /\ Filled(w, r) > 0 => Filled(w, Step(r)) = Filled(w, r) - 1
         /\ Entry(w, num) = At(num, w)
         /\ Entry(w, num) = At(num, r + Filled(w, r))
         /\ Entry(w, num) \in 0 .. num - 1
         /\ \A i \in Nat : At(num, Step(r) + i) = At(num, r + 1 + i)
<1>1. /\ \A x, y : Filled(x, y) = Dist(PtrMod, x, y)
      /\ \A x : Step(x) = Succ(PtrMod, x)
      /\ \A x, n : Entry(x, n) = At(n, x)
      /\ Ptr = 0 .. PtrMod - 1
  BY Zenon DEF Filled, Step, Entry, Dist, Succ, At, Ptr
<1>2. PICK P \in Nat \ {0} : P = PtrMod
  BY Sizes
<1>3. PICK n \in Nat \ {0} : n = num /\ P % n = 0
  BY <1>2, Sizes
<1>4. PICK v \in 0 .. P - 1, x \in 0 .. P - 1 : v = w /\ x = r
  BY <1>1, <1>2
<1>5. /\ Dist(P, v, x) \in 0 .. P - 1
      /\ v = x <=> Dist(P, v, x) = 0
      /\ Succ(P, v) \in 0 .. P - 1
      /\ Dist(P, v, x) + 1 < P => Dist(P, Succ(P, v), x) = Dist(P, v, x) + 1
      /\ Dist(P, v, x) > 0 => Dist(P, v, Succ(P, x)) = Dist(P, v, x) - 1
  BY PtrFilled
<1>6. At(n, v) = At(n, x + Dist(P, v, x)) /\ At(n, v) \in 0 .. n - 1
  <2>1. P % n = 0
    BY <1>3
  <2>2. At(n, v) = At(n, x + Dist(P, v, x))
    BY <2>1, PtrEntry
  <2>3. v \in Nat
    OBVIOUS
  <2>4. At(n, v) \in 0 .. n - 1
    BY <2>3, PtrAt
  <2> QED BY <2>2, <2>4
<1>7. \A i \in Nat : At(n, Succ(P, x) + i) = At(n, x + 1 + i)
  BY <1>3, PtrWrap
<1> QED BY <1>1, <1>2, <1>3, <1>4, <1>5, <1>6, <1>7, Zenon

-----------------------------------------------------------------------------
(* spp_tx_fifo                                                             *)

LEMMA TxSame ==
  ASSUME TxTypes, TxRing, UNCHANGED <<build, tslot, tw, tr, tx, owed>>,
         pc' = "sent" <=> pc = "sent"
  PROVE  TxTypes' /\ TxRing'
  BY DEF TxTypes, TxRing, TxFirst, TxWaiting, InUart, Filled, Entries, Message,
         Ptr, PtrMod, TxNum

\* The write of one more message.
LEMMA SendStep ==
  ASSUME build \in Builds, TxTypes, TxRing, NEW m \in Message, Send(m),
         UNCHANGED <<build, tr, tx>>, pc' = "sent" <=> pc = "sent"
  PROVE  TxTypes' /\ TxRing'
<1>1. CASE Filled(tw, tr) >= TxNum
  <2>1. UNCHANGED <<tslot, tw, owed>>
    BY <1>1, Sizes DEF Send, TxRing
  <2> QED BY <2>1, TxSame
<1>2. CASE Filled(tw, tr) < TxNum
  <2> DEFINE q == TxWaiting
             j == Entry(tw, TxNum)
  <2>1. /\ tslot' = [tslot EXCEPT ![j] = m] /\ tw' = Step(tw)
        /\ owed' = Append(owed, m)
    BY <1>2 DEF Send
  <2>2. /\ TxNum \in Nat \ {0} /\ TxNum < PtrMod /\ PtrMod \in Nat
        /\ tw \in Ptr /\ tr \in Ptr /\ tr \in Nat
    BY Sizes DEF TxTypes, Ptr
  <2>3. /\ Filled(tw, tr) \in Nat /\ tw' \in Ptr
        /\ Filled(tw', tr) = Filled(tw, tr) + 1
        /\ j = At(TxNum, tr + Filled(tw, tr)) /\ j \in 0 .. TxNum - 1
    <3>1. /\ Filled(tw, tr) + 1 < PtrMod => Filled(Step(tw), tr) = Filled(tw, tr) + 1
          /\ Step(tw) \in Ptr /\ j = At(TxNum, tr + Filled(tw, tr))
          /\ j \in 0 .. TxNum - 1
      BY <2>2, Ptrs, Zenon
    <3>2. Filled(tw, tr) \in Nat
      BY DEF TxRing
    <3> QED BY <1>2, <2>1, <2>2, <3>1, <3>2
  <2>4. /\ q \in Nat /\ TxFirst \in Nat /\ TxFirst + q = tr + Filled(tw, tr)
        /\ q < TxNum /\ InUart \in Nat
    BY <1>2, <2>2, <2>3 DEF TxRing, TxFirst, TxWaiting, InUart
  <2>5. j = At(TxNum, TxFirst + q)
    BY <2>3, <2>4
  <2>6. /\ Len(owed) = InUart + q /\ owed \in Seq(Message)
        /\ DOMAIN tslot = 0 .. TxNum - 1
        /\ Entries(owed, InUart, tslot, TxNum, TxFirst, q)
    BY DEF TxRing, TxTypes
  <2>7. Entries(Append(owed, m), InUart, [tslot EXCEPT ![j] = m], TxNum, TxFirst, q + 1)
    BY <2>2, <2>4, <2>5, <2>6, EntriesAppend, Zenon
  <2>8. /\ TxNum' = TxNum /\ PtrMod' = PtrMod /\ TxFirst' = TxFirst
        /\ InUart' = InUart /\ Filled(tw, tr)' = Filled(tw, tr) + 1
        /\ TxWaiting' = q + 1
    BY <2>3 DEF TxNum, PtrMod, TxFirst, InUart, TxWaiting, Filled
  <2>9. /\ owed' \in Seq(Message) /\ Len(owed') = Len(owed) + 1
        /\ tx # None => owed'[1] = owed[1]
    BY <2>1, <2>4, <2>6, AppendProperties, LenProperties DEF InUart
  <2>10. TxRing'
    <3>1. Filled(tw, tr)' \in 0 .. TxNum' /\ TxWaiting' \in Nat
      BY <1>2, <2>2, <2>3, <2>4, <2>8
    <3>2. Len(owed)' = InUart' + TxWaiting'
      BY <2>4, <2>6, <2>8, <2>9
    <3>3. tx' # None => owed'[1] = tx'
      BY <2>9 DEF TxRing
    <3>4. Entries(owed', InUart', tslot', TxNum', TxFirst', TxWaiting')
      BY <2>1, <2>7, <2>8
    <3> QED BY <3>1, <3>2, <3>3, <3>4 DEF TxRing, Entries
  <2>11. TxTypes'
    BY <2>1, <2>3, <2>8, <2>9 DEF TxTypes, Ptr, Message
  <2> QED BY <2>10, <2>11
<1>3. Filled(tw, tr) \in Int /\ TxNum \in Int
  BY Sizes DEF TxRing
<1> QED BY <1>1, <1>2, <1>3

\* The start of a transfer, when the UART has nothing to send.
LEMMA TxStartStep ==
  ASSUME build \in Builds, TxTypes, TxRing, SendFlag, TxStart
  PROVE  TxTypes' /\ TxRing'
<1> DEFINE n == Filled(tw, tr)
<1>1. /\ pc = "main" /\ tx = None /\ tw # tr /\ tx' = tslot[Entry(tr, TxNum)]
      /\ pc' = "sent" /\ UNCHANGED <<build, tslot, tw, tr, owed>>
  BY DEF TxStart, Awake, TxQueued, SendFlag, rxVars
<1>2. /\ TxNum \in Nat \ {0} /\ tw \in Ptr /\ tr \in Ptr /\ tr \in Nat
  BY Sizes DEF TxTypes, Ptr
<1>3. n # 0 /\ Entry(tr, TxNum) = At(TxNum, tr)
  <2>1. tw = tr <=> n = 0
    BY <1>2, Ptrs, Zenon
  <2> QED BY <1>1, <2>1 DEF Entry, At
<1>4. /\ n \in Nat \ {0} /\ n <= TxNum /\ Len(owed) = n
      /\ Entries(owed, 0, tslot, TxNum, tr, n) /\ owed \in Seq(Message)
  BY <1>1, <1>2, <1>3 DEF TxRing, TxWaiting, TxFirst, InUart, TxTypes
<1>5. /\ owed[0 + 1] = tslot[At(TxNum, tr)]
      /\ Entries(owed, 0 + 1, tslot, TxNum, tr + 1, n - 1)
  <2>1. 0 \in Nat
    OBVIOUS
  <2> QED BY <1>2, <1>4, <2>1, EntriesFirst, Zenon
<1>6. tx' = owed[1] /\ tx' \in Message /\ tx' # None
  <2>1. owed[1] \in Message
    BY <1>4, LenProperties
  <2> QED BY <1>1, <1>3, <1>5, <2>1, Values
<1>7. /\ TxNum' = TxNum /\ PtrMod' = PtrMod /\ TxFirst' = tr + 1
      /\ InUart' = 0 + 1 /\ Filled(tw, tr)' = n /\ TxWaiting' = n - 1
  BY <1>1, <1>6 DEF TxNum, PtrMod, TxFirst, InUart, TxWaiting, Filled
<1>8. TxRing'
  <2>1. Entries(owed', InUart', tslot', TxNum', TxFirst', TxWaiting')
    BY <1>1, <1>5, <1>7
  <2>2. /\ Filled(tw, tr)' \in 0 .. TxNum' /\ TxWaiting' \in Nat
        /\ Len(owed)' = InUart' + TxWaiting'
    BY <1>1, <1>2, <1>4, <1>7
  <2> QED BY <1>1, <1>6, <2>1, <2>2 DEF TxRing, Entries
<1>9. TxTypes'
  BY <1>1, <1>6, <1>7 DEF TxTypes, Ptr, Message
<1> QED BY <1>8, <1>9

\* The pop of the entry that is being sent, or already has been.
LEMMA TxPopStep ==
  ASSUME build \in Builds, TxTypes, TxRing, TxPop
  PROVE  TxTypes' /\ TxRing'
<1> DEFINE n == Filled(tw, tr)
<1>1. /\ pc = "sent" /\ pc' = "popped" /\ tr' = Step(tr)
      /\ UNCHANGED <<build, tslot, tw, tx, owed>>
  BY DEF TxPop, rxVars
<1>2. /\ TxNum \in Nat \ {0} /\ tw \in Ptr /\ tr \in Ptr /\ tr \in Nat
  BY Sizes DEF TxTypes, Ptr
<1>3. /\ n \in Nat /\ n > 0 /\ n <= TxNum /\ n - 1 \in Nat
      /\ Len(owed) = InUart + (n - 1)
      /\ Entries(owed, InUart, tslot, TxNum, tr + 1, n - 1)
  BY <1>1, <1>2 DEF TxRing, TxWaiting, TxFirst
<1>4. /\ Filled(tw, Step(tr)) = n - 1 /\ Step(tr) \in Ptr
      /\ \A i \in Nat : At(TxNum, Step(tr) + i) = At(TxNum, tr + 1 + i)
  BY <1>2, <1>3, Ptrs, Zenon
<1>5. Entries(owed, InUart, tslot, TxNum, Step(tr), n - 1)
  BY <1>3, <1>4, EntriesWrap, Zenon
<1>6. /\ TxNum' = TxNum /\ PtrMod' = PtrMod /\ TxFirst' = Step(tr)
      /\ InUart' = InUart /\ Filled(tw, tr)' = n - 1 /\ TxWaiting' = n - 1
  BY <1>1, <1>4 DEF TxNum, PtrMod, TxFirst, InUart, TxWaiting, Filled
<1>7. TxRing'
  <2>1. Entries(owed', InUart', tslot', TxNum', TxFirst', TxWaiting')
    BY <1>1, <1>5, <1>6
  <2>2. /\ Filled(tw, tr)' \in 0 .. TxNum' /\ TxWaiting' \in Nat
        /\ Len(owed)' = InUart' + TxWaiting'
    BY <1>1, <1>2, <1>3, <1>6
  <2>3. tx' # None => owed'[1] = tx'
    BY <1>1 DEF TxRing
  <2> QED BY <2>1, <2>2, <2>3 DEF TxRing, Entries
<1>8. TxTypes'
  BY <1>1, <1>4, <1>6 DEF TxTypes, Ptr, Message
<1> QED BY <1>7, <1>8

\* The end of a transfer: the host has the first of what it is owed.
LEMMA TxDoneStep ==
  ASSUME build \in Builds, TxTypes, TxRing, TxDoneIrq
  PROVE  TxTypes' /\ TxRing' /\ owed # <<>> /\ tx = Head(owed)
<1> DEFINE q == TxWaiting
<1>1. /\ tx # None /\ tx' = None /\ owed' = Tail(owed)
      /\ UNCHANGED <<build, tslot, tw, tr, pc>>
  BY DEF TxDoneIrq, rxVars
<1>2. /\ TxNum \in Nat \ {0} /\ q \in Nat /\ Len(owed) = 1 + q /\ owed[1] = tx
      /\ owed \in Seq(Message) /\ Entries(owed, 1, tslot, TxNum, TxFirst, q)
      /\ TxFirst \in Nat /\ Filled(tw, tr) \in 0 .. TxNum
  BY <1>1, Sizes DEF TxRing, InUart, TxTypes, TxFirst, Ptr
<1>3. Entries(Tail(owed), 0, tslot, TxNum, TxFirst, q)
  BY <1>2, EntriesTail, Zenon
<1>4. owed # <<>> /\ Head(owed) = tx
  BY <1>2
<1>5. Tail(owed) \in Seq(Message) /\ Len(Tail(owed)) = q
  BY <1>2, <1>4, HeadTailProperties
<1>6. /\ TxNum' = TxNum /\ PtrMod' = PtrMod /\ TxFirst' = TxFirst
      /\ InUart' = 0 /\ Filled(tw, tr)' = Filled(tw, tr) /\ TxWaiting' = q
  BY <1>1 DEF TxNum, PtrMod, TxFirst, InUart, TxWaiting, Filled
<1>7. TxRing'
  <2>1. Entries(owed', InUart', tslot', TxNum', TxFirst', TxWaiting')
    BY <1>1, <1>3, <1>6
  <2>2. /\ Filled(tw, tr)' \in 0 .. TxNum' /\ TxWaiting' \in Nat
        /\ Len(owed)' = InUart' + TxWaiting'
    BY <1>1, <1>2, <1>5, <1>6
  <2> QED BY <1>1, <2>1, <2>2 DEF TxRing, Entries
<1>8. TxTypes'
  BY <1>1, <1>5, <1>6 DEF TxTypes, Ptr, Message
<1> QED BY <1>4, <1>7, <1>8

\* After a restart nothing waits and nothing is owed.
LEMMA TxRestart ==
  ASSUME build \in Builds, RestartMod \/ Init
  PROVE  /\ RestartMod => TxTypes' /\ TxRing'
         /\ Init => TxTypes /\ TxRing
<1>1. /\ TxNum \in Nat \ {0} /\ PtrMod \in Nat \ {0} /\ (0 - 0) % PtrMod = 0
      /\ 0 \in 0 .. PtrMod - 1 /\ 0 \in 0 .. TxNum
  BY Sizes
<1>2. <<>> \in Seq(Message) /\ Len(<<>>) = 0
  BY EmptySeq
<1>3. ASSUME RestartMod PROVE TxTypes' /\ TxRing'
  <2>1. /\ build' = build /\ tslot' = [k \in 0 .. TxNum - 1 |-> Zero]
        /\ tw' = 0 /\ tr' = 0 /\ tx' = None /\ pc' = "main" /\ owed' = <<>>
    BY <1>3 DEF RestartMod
  <2>2. TxNum' = TxNum /\ PtrMod' = PtrMod
    BY <2>1 DEF TxNum, PtrMod
  <2>3. Filled(tw, tr)' = 0 /\ TxWaiting' = 0 /\ InUart' = 0
    BY <1>1, <2>1, <2>2 DEF Filled, TxWaiting, InUart
  <2>4. TxTypes'
    BY <1>1, <1>2, <2>1, <2>2 DEF TxTypes, Ptr, Message
  <2>5. TxRing'
    BY <1>1, <1>2, <2>1, <2>2, <2>3 DEF TxRing, Entries
  <2> QED BY <2>4, <2>5
<1>4. ASSUME Init PROVE TxTypes /\ TxRing
  <2>1. /\ tslot = [k \in 0 .. TxNum - 1 |-> Zero]
        /\ tw = 0 /\ tr = 0 /\ tx = None /\ pc = "main" /\ owed = <<>>
    BY <1>4 DEF Init
  <2>2. Filled(tw, tr) = 0 /\ TxWaiting = 0 /\ InUart = 0
    BY <1>1, <2>1 DEF Filled, TxWaiting, InUart
  <2>3. TxTypes
    BY <1>1, <1>2, <2>1 DEF TxTypes, Ptr
  <2>4. TxRing
    BY <1>1, <1>2, <2>1, <2>2 DEF TxRing, Entries
  <2> QED BY <2>3, <2>4
<1> QED BY <1>3, <1>4

\* Every step of the module.
LEMMA TxStep ==
  ASSUME build \in Builds, TxTypes, TxRing, RxTypes, RxRing, SendFlag, [Next]_vars
  PROVE  TxTypes' /\ TxRing'
<1> USE DEF rxVars, txVars, pmVars
<1>1. CASE TxStart
  BY <1>1, TxStartStep
<1>2. CASE TxPop
  BY <1>2, TxPopStep
<1>3. CASE TxDoneIrq
  BY <1>3, TxDoneStep
<1>4. CASE RestartMod
  BY <1>4, TxRestart
<1>5. CASE BleEvent
  BY <1>5, SendStep, Values DEF BleEvent
<1>6. CASE RxExec
  <2>1. slot[Entry(rr, RxNum)] \in Message
    <3>1. rr \in Ptr /\ rr \in Ptr
      BY DEF RxTypes
    <3>2. Entry(rr, RxNum) \in 0 .. RxNum - 1
      BY <3>1, Ptrs, Zenon
    <3> QED BY <1>6, <3>2, Values DEF RxTypes, RxRing, RxExec
  <2> QED BY <1>6, <2>1, SendStep DEF RxExec
<1>7. CASE /\ UNCHANGED <<build, tslot, tw, tr, tx, owed>>
           /\ pc' = "sent" <=> pc = "sent"
  BY <1>7, TxSame
<1>8. CASE Host
  BY <1>7, <1>8 DEF Host, HostRaise, HostLower, HostStart, HostEnd
<1>9. CASE RxDoneIrq \/ RxGet \/ RxPop \/ TxFlag
  BY <1>7, <1>9 DEF RxDoneIrq, RxGet, RxPop, TxFlag, Awake
<1>10. CASE Sleep
  BY <1>7, <1>10 DEF Sleep, SuspendRefused, Suspend, WakeUp, SuspendExit
<1>11. CASE PmMcuLine \/ PmMask
  BY <1>7, <1>11 DEF PmMcuLine, PmMask, Awake
<1>12. CASE UNCHANGED vars
  BY <1>7, <1>12 DEF vars
<1> QED BY <1>1, <1>2, <1>3, <1>4, <1>5, <1>6, <1>8, <1>9, <1>10, <1>11, <1>12
        DEF Next, Irq, Receive, Transmit

-----------------------------------------------------------------------------
(* spp_rx_fifo                                                             *)

LEMMA RxSame ==
  ASSUME RxTypes, RxRing, Unharmed,
         UNCHANGED <<build, slot, rw, rr, dma, rx, cur, pend>>,
         pc' = pc \/ {pc, pc'} \cap {"exec", "pop"} = {}
  PROVE  RxTypes' /\ RxRing' /\ Unharmed'
<1>1. /\ pc' = "pop" <=> pc = "pop" 
      /\ pc' = "exec" <=> pc = "exec"
  OBVIOUS
<1> QED BY <1>1 DEF RxTypes, RxRing, Unharmed, RxFirst, RxWaiting, Filled, Entry,
                    Entries, Ptr, PtrMod, RxNum

\* What the lemmas below need of the ring.
LEMMA RxFacts ==
  ASSUME build \in Builds, RxTypes, RxRing
  PROVE  /\ RxNum \in Nat \ {0} /\ RxNum < PtrMod /\ PtrMod \in Nat
         /\ build.ahead \in Nat /\ build.ahead < RxNum
         /\ rw \in Ptr /\ rr \in Ptr /\ rr \in Nat /\ RxFirst \in Nat
         /\ Filled(rw, rr) \in Nat /\ RxWaiting \in Nat
         /\ pend \in Seq(Cmd) /\ Len(pend) = RxWaiting
         /\ Len(pend) <= build.ahead
         /\ dma = At(RxNum, rr + Filled(rw, rr)) /\ dma \in 0 .. RxNum - 1
         /\ rr \in Ptr /\ Entry(rr, RxNum) = At(RxNum, rr)
<1>1. /\ RxNum \in Nat \ {0} /\ RxNum < PtrMod /\ PtrMod \in Nat
      /\ build.ahead \in Nat /\ build.ahead < RxNum
  BY Sizes
<1>2. rw \in Ptr /\ rr \in Ptr /\ rr \in Nat
  BY <1>1 DEF RxTypes, Ptr
<1>3. /\ Filled(rw, rr) \in 0 .. PtrMod - 1
      /\ Entry(rw, RxNum) = At(RxNum, rr + Filled(rw, rr))
      /\ Entry(rw, RxNum) \in 0 .. RxNum - 1
  BY <1>2, Ptrs, Zenon
<1>4. Len(pend) \in Nat /\ pend \in Seq(Cmd) /\ Len(pend) <= build.ahead
  BY LenProperties DEF RxTypes
<1> QED BY <1>1, <1>2, <1>3, <1>4 DEF RxRing, RxFirst, Entry, At

\* The host begins with a command: the DMA writes it into a free entry.
LEMMA HostStartStep ==
  ASSUME build \in Builds, RxTypes, RxRing, Unharmed, HostStart
  PROVE  RxTypes' /\ RxRing' /\ Unharmed'
<1> DEFINE q == RxWaiting
           n == Filled(rw, rr)
<1>1. PICK c \in build.cmd : /\ cur' = c
                            /\ slot' = [slot EXCEPT ![dma] = c]
                            /\ pend' = Append(pend, c)
  BY DEF HostStart
<1>2. /\ rx = "quiet" /\ rx' = "half" /\ Len(pend) < build.ahead
      /\ UNCHANGED <<build, rw, rr, dma, pc>>
  BY DEF HostStart
<1>3. c \in Cmd /\ c # Zero
  BY Sizes, Values
<1>4. /\ pend' \in Seq(Cmd) /\ Len(pend') = Len(pend) + 1
  BY <1>1, <1>3, RxFacts, AppendProperties
<1>5. /\ RxNum' = RxNum /\ PtrMod' = PtrMod /\ RxFirst' = RxFirst
      /\ Filled(rw, rr)' = n /\ RxWaiting' = q + 1 /\ Entry(rw, RxNum)' = Entry(rw, RxNum)
      /\ Entry(rr, RxNum)' = Entry(rr, RxNum)
  BY <1>2, RxFacts DEF RxNum, PtrMod, RxFirst, RxWaiting, Filled, Entry
<1>6. RxTypes'
  <2>1. slot' \in [0 .. RxNum' - 1 -> Cmd \cup {Zero, Torn}]
    BY <1>1, <1>3, <1>5 DEF RxTypes
  <2>2. rw' \in Ptr' /\ rr' \in Ptr'
    BY <1>2, <1>5, RxFacts DEF Ptr
  <2>3. rx' \in {"quiet", "half", "done"} /\ cur' \in Cmd
    BY <1>1, <1>2, <1>3
  <2>4. Len(pend') <= build'.ahead
    <3>1. Len(pend) \in Nat /\ build.ahead \in Nat
      BY RxFacts
    <3> QED BY <1>2, <1>4, <3>1
  <2> QED BY <1>4, <2>1, <2>2, <2>3, <2>4 DEF RxTypes
<1>7. RxRing'
  <2>1. slot'[Entry(rr, RxNum)] # Zero \/ slot[Entry(rr, RxNum)] = Zero
    <3>1. Entry(rr, RxNum) \in 0 .. RxNum - 1
      BY RxFacts, Ptrs, Zenon
    <3> QED BY <1>1, <1>3, <3>1 DEF RxTypes
  <2> QED BY <1>2, <1>4, <1>5, <2>1 DEF RxRing
<1>8. Unharmed'
  <2> SUFFICES ASSUME ~build.pm
               PROVE  /\ Entries(pend', 0, slot', RxNum, RxFirst, q + 1)
                      /\ slot'[dma] = cur'
    BY <1>2, <1>5 DEF Unharmed, Entries
  <2>1. slot'[dma] = cur'
    BY <1>1, RxFacts DEF RxTypes
  <2>2. /\ q < RxNum /\ q \in Nat /\ RxFirst + q = rr + n /\ 0 \in Nat
        /\ Len(pend) = 0 + q
    <3>1. q < RxNum /\ q \in Nat /\ Len(pend) = 0 + q /\ n \in Nat /\ rr \in Nat
      BY <1>2, RxFacts
    <3>2. RxFirst + q = rr + n
      BY <1>2, <3>1 DEF RxFirst, RxWaiting
    <3> QED BY <3>1, <3>2
  <2>3. dma = At(RxNum, RxFirst + q)
    BY <2>2, RxFacts
  <2>4. Entries(pend, 0, slot, RxNum, RxFirst, q) /\ DOMAIN slot = 0 .. RxNum - 1
    BY DEF Unharmed, RxTypes
  <2>5. Entries(Append(pend, c), 0, [slot EXCEPT ![dma] = c], RxNum, RxFirst, q + 1)
    BY <1>3, <2>2, <2>3, <2>4, RxFacts, EntriesAppend, Zenon
  <2> QED BY <1>1, <2>1, <2>5
<1> QED BY <1>6, <1>7, <1>8

\* The command is complete, and as it was sent if nothing came between.
LEMMA HostEndStep ==
  ASSUME build \in Builds, RxTypes, RxRing, Undisturbed, Unharmed, HostEnd
  PROVE  RxTypes' /\ RxRing' /\ Unharmed'
<1>1. /\ rx = "half" /\ rx' = "done"
      /\ slot' = [slot EXCEPT ![dma] = IF torn THEN Torn ELSE cur]
      /\ UNCHANGED <<build, rw, rr, dma, cur, pc, pend>>
  BY DEF HostEnd
<1>2. /\ RxNum' = RxNum /\ PtrMod' = PtrMod /\ RxFirst' = RxFirst
      /\ Filled(rw, rr)' = Filled(rw, rr) /\ RxWaiting' = RxWaiting
      /\ Entry(rw, RxNum)' = Entry(rw, RxNum) /\ Entry(rr, RxNum)' = Entry(rr, RxNum)
  BY <1>1 DEF RxNum, PtrMod, RxFirst, RxWaiting, Filled, Entry
<1>3. RxTypes'
  BY <1>1, <1>2, RxFacts DEF RxTypes, Ptr
<1>4. RxRing'
  <2>1. slot'[Entry(rr, RxNum)] # Zero \/ slot[Entry(rr, RxNum)] = Zero
    <3>1. Entry(rr, RxNum) \in 0 .. RxNum - 1
      BY RxFacts, Ptrs, Zenon
    <3>2. cur # Zero /\ Torn # Zero
      BY Values DEF RxTypes
    <3> QED BY <1>1, <3>1, <3>2 DEF RxTypes
  <2> QED BY <1>1, <1>2, <2>1 DEF RxRing
<1>5. Unharmed'
  <2> SUFFICES ASSUME ~build.pm PROVE slot' = slot
    BY <1>1, <1>2 DEF Unharmed, Entries
  <2>1. slot[dma] = cur /\ ~torn
    BY <1>1 DEF Unharmed, Undisturbed
  <2> QED BY <1>1, <2>1, RxFacts DEF RxTypes
<1> QED BY <1>3, <1>4, <1>5

\* RXDONE: the command waits in the ring, and the DMA goes on.
LEMMA RxDoneStep ==
  ASSUME build \in Builds, RxTypes, RxRing, Unharmed, RxDoneIrq
  PROVE  RxTypes' /\ RxRing' /\ Unharmed'
<1> DEFINE n == Filled(rw, rr)
<1>1. /\ rx = "done" /\ rx' = "quiet" /\ rw' = Step(rw) /\ dma' = Entry(rw', RxNum)
      /\ UNCHANGED <<build, slot, rr, cur, pc, pend>>
  BY DEF RxDoneIrq
<1>2. n \in Nat /\ n + 1 < PtrMod
  BY <1>1, RxFacts DEF RxWaiting
<1>3. Filled(Step(rw), rr) = n + 1 /\ Step(rw) \in Ptr
  BY <1>2, RxFacts, Ptrs, Zenon
<1>4. /\ RxNum' = RxNum /\ PtrMod' = PtrMod /\ RxFirst' = RxFirst
      /\ Filled(rw, rr)' = n + 1 /\ Entry(rr, RxNum)' = Entry(rr, RxNum)
      /\ Entry(rw, RxNum)' = Entry(rw', RxNum)
  BY <1>1, <1>3 DEF RxNum, PtrMod, RxFirst, Filled, Entry
<1>5. RxWaiting' = RxWaiting
  BY <1>1, <1>2, <1>4 DEF RxWaiting
<1>6. RxTypes'
  BY <1>1, <1>3, <1>4 DEF RxTypes, Ptr
<1>7. RxRing'
  BY <1>1, <1>2, <1>4, <1>5 DEF RxRing
<1>8. Unharmed'
  BY <1>1, <1>4, <1>5 DEF Unharmed, Entries
<1> QED BY <1>6, <1>7, <1>8

\* The handler takes the first command that waits.
LEMMA RxExecStep ==
  ASSUME build \in Builds, RxTypes, RxRing, Unharmed, RxExec
  PROVE  /\ RxTypes' /\ RxRing' /\ Unharmed' /\ pend # <<>>
         /\ ~build.pm => slot[Entry(rr, RxNum)] = Head(pend)
<1> DEFINE q == RxWaiting
<1>1. /\ pc = "exec" /\ pc' = "pop" /\ pend' = Tail(pend)
      /\ UNCHANGED <<build, slot, rw, rr, dma, rx, cur>>
  BY DEF RxExec, rxVars
<1>2. /\ Filled(rw, rr) \in Nat /\ Filled(rw, rr) > 0 /\ q \in Nat \ {0}
      /\ RxFirst = rr /\ Len(pend) = q /\ pend \in Seq(Cmd)
  BY <1>1, RxFacts DEF RxRing, RxWaiting, RxFirst
<1>3. pend # <<>>
  BY <1>2
<1>4. Tail(pend) \in Seq(Cmd) /\ Len(Tail(pend)) = q - 1
  BY <1>2, <1>3, HeadTailProperties
<1>5. /\ RxNum' = RxNum /\ PtrMod' = PtrMod /\ RxFirst' = rr + 1
      /\ Filled(rw, rr)' = Filled(rw, rr) /\ Entry(rw, RxNum)' = Entry(rw, RxNum)
  BY <1>1 DEF RxNum, PtrMod, RxFirst, Filled, Entry
<1>6. RxWaiting' = q - 1
  BY <1>1, <1>2, <1>5 DEF RxWaiting
<1>7. RxTypes'
  <2>1. Len(pend') <= build.ahead
    BY <1>1, <1>2, <1>4, RxFacts
  <2> QED BY <1>1, <1>4, <1>5, <2>1 DEF RxTypes, Ptr
<1>8. RxRing'
  BY <1>1, <1>2, <1>4, <1>5, <1>6 DEF RxRing
<1>9. ASSUME ~build.pm
      PROVE  /\ slot[Entry(rr, RxNum)] = Head(pend)
             /\ Entries(Tail(pend), 0, slot, RxNum, rr + 1, q - 1)
  <2>1. Entries(pend, 0, slot, RxNum, rr, q)
    BY <1>2, <1>9 DEF Unharmed
  <2>2. 0 \in Nat /\ RxNum \in Nat \ {0} /\ rr \in Nat /\ q \in Nat \ {0}
        /\ Entry(rr, RxNum) = At(RxNum, rr)
    BY <1>2, RxFacts
  <2>3. /\ pend[0 + 1] = slot[At(RxNum, rr)]
        /\ Entries(pend, 0 + 1, slot, RxNum, rr + 1, q - 1)
    BY <2>1, <2>2, EntriesFirst, Zenon
  <2>4. /\ Entries(pend, 1, slot, RxNum, rr + 1, q - 1)
        /\ q - 1 \in Nat /\ rr + 1 \in Nat /\ Len(pend) = 1 + (q - 1)
    BY <1>2, <2>2, <2>3
  <2>5. Entries(Tail(pend), 0, slot, RxNum, rr + 1, q - 1)
    BY <1>2, <2>2, <2>4, EntriesTail, Zenon
  <2>6. Head(pend) = pend[1]
    BY <1>2
  <2> QED BY <2>2, <2>3, <2>5, <2>6
<1>10. Unharmed'
  BY <1>1, <1>5, <1>6, <1>9 DEF Unharmed, Entries
<1> QED BY <1>3, <1>7, <1>8, <1>9, <1>10

\* The entry is given back.
LEMMA RxPopStep ==
  ASSUME build \in Builds, RxTypes, RxRing, Unharmed, RxPop
  PROVE  RxTypes' /\ RxRing' /\ Unharmed'
<1> DEFINE n == Filled(rw, rr)
<1>1. /\ pc = "pop" /\ pc' = "main" /\ rr' = Step(rr)
      /\ UNCHANGED <<build, slot, rw, dma, rx, cur, pend>>
  BY DEF RxPop
<1>2. n \in Nat /\ n > 0 /\ RxFirst = rr + 1 /\ RxWaiting \in Nat
  BY <1>1, RxFacts DEF RxRing, RxFirst
<1>3. /\ Filled(rw, Step(rr)) = n - 1 /\ Step(rr) \in Ptr
      /\ \A i \in Nat : At(RxNum, Step(rr) + i) = At(RxNum, rr + 1 + i)
  BY <1>2, RxFacts, Ptrs, Zenon
<1>4. /\ RxNum' = RxNum /\ PtrMod' = PtrMod /\ RxFirst' = Step(rr)
      /\ Filled(rw, rr)' = n - 1 /\ Entry(rw, RxNum)' = Entry(rw, RxNum)
  BY <1>1, <1>3 DEF RxNum, PtrMod, RxFirst, Filled, Entry
<1>5. RxWaiting' = RxWaiting
  BY <1>1, <1>2, <1>4 DEF RxWaiting
<1>6. RxTypes'
  BY <1>1, <1>3, <1>4 DEF RxTypes, Ptr
<1>7. RxRing'
  BY <1>1, <1>2, <1>4, <1>5 DEF RxRing
<1>8. Unharmed'
  <2> SUFFICES ASSUME ~build.pm
               PROVE  Entries(pend, 0, slot, RxNum, Step(rr), RxWaiting)
    BY <1>1, <1>4, <1>5 DEF Unharmed, Entries
  <2>1. Entries(pend, 0, slot, RxNum, rr + 1, RxWaiting)
    BY <1>2 DEF Unharmed
  <2> QED BY <1>2, <1>3, <2>1, EntriesWrap, Zenon
<1> QED BY <1>6, <1>7, <1>8

LEMMA RxRestart ==
  ASSUME build \in Builds
  PROVE  /\ RestartMod => RxTypes' /\ RxRing' /\ Unharmed'
         /\ Init => RxTypes /\ RxRing /\ Unharmed
<1>1. /\ RxNum \in Nat \ {0} /\ PtrMod \in Nat \ {0} /\ (0 - 0) % PtrMod = 0
      /\ 0 \in 0 .. PtrMod - 1 /\ 0 % RxNum = 0 /\ build.ahead \in Nat
      /\ RestartCmd \in Cmd
  BY Sizes
<1>2. <<>> \in Seq(Cmd) /\ Len(<<>>) = 0
  BY EmptySeq
<1>3. ASSUME RestartMod PROVE RxTypes' /\ RxRing' /\ Unharmed'
  <2>1. /\ build' = build /\ slot' = [k \in 0 .. RxNum - 1 |-> Zero]
        /\ rw' = 0 /\ rr' = 0 /\ dma' = 0 /\ rx' = "quiet" /\ cur' = RestartCmd
        /\ pc' = "main" /\ pend' = <<>>
    BY <1>3 DEF RestartMod
  <2>2. RxNum' = RxNum /\ PtrMod' = PtrMod
    BY <2>1 DEF RxNum, PtrMod
  <2>3. Filled(rw, rr)' = 0 /\ RxWaiting' = 0 /\ Entry(rw, RxNum)' = 0
    BY <1>1, <2>1, <2>2 DEF Filled, RxWaiting, Entry
  <2>4. RxTypes'
    BY <1>1, <1>2, <2>1, <2>2 DEF RxTypes, Ptr
  <2>5. RxRing' /\ Unharmed'
    BY <1>1, <1>2, <2>1, <2>2, <2>3 DEF RxRing, Unharmed, Entries
  <2> QED BY <2>4, <2>5
<1>4. ASSUME Init PROVE RxTypes /\ RxRing /\ Unharmed
  <2>1. /\ slot = [k \in 0 .. RxNum - 1 |-> Zero]
        /\ rw = 0 /\ rr = 0 /\ dma = 0 /\ rx = "quiet" /\ cur = RestartCmd
        /\ pc = "main" /\ pend = <<>>
    BY <1>4 DEF Init
  <2>2. Filled(rw, rr) = 0 /\ RxWaiting = 0 /\ Entry(rw, RxNum) = 0
    BY <1>1, <2>1 DEF Filled, RxWaiting, Entry
  <2>3. RxTypes
    BY <1>1, <1>2, <2>1 DEF RxTypes, Ptr
  <2>4. RxRing /\ Unharmed
    BY <1>1, <1>2, <2>1, <2>2 DEF RxRing, Unharmed, Entries
  <2> QED BY <2>3, <2>4
<1> QED BY <1>3, <1>4

\* Every step of the module.
LEMMA RxStep ==
  ASSUME build \in Builds, RxTypes, RxRing, Undisturbed, Unharmed, [Next]_vars
  PROVE  RxTypes' /\ RxRing' /\ Unharmed'
<1> USE DEF rxVars, txVars, pmVars
<1>1. CASE HostStart
  BY <1>1, HostStartStep
<1>2. CASE HostEnd
  BY <1>2, HostEndStep
<1>3. CASE RxDoneIrq
  BY <1>3, RxDoneStep
<1>4. CASE RxGet
  <2>1. /\ pc = "main" /\ pc' = "exec" /\ rw # rr /\ slot[Entry(rr, RxNum)] # Zero
        /\ UNCHANGED <<build, slot, rw, rr, dma, rx, cur, pend>>
    BY <1>4 DEF RxGet, Awake, RxQueued
  <2>2. Filled(rw, rr) # 0 /\ Filled(rw, rr) \in Nat
    <3>1. rw = rr <=> Filled(rw, rr) = 0
      BY RxFacts, Ptrs, Zenon
    <3> QED BY <2>1, <3>1, RxFacts
  <2>3. /\ RxNum' = RxNum /\ PtrMod' = PtrMod /\ RxFirst' = RxFirst
        /\ Filled(rw, rr)' = Filled(rw, rr) /\ RxWaiting' = RxWaiting
        /\ Entry(rw, RxNum)' = Entry(rw, RxNum)
        /\ Entry(rr, RxNum)' = Entry(rr, RxNum)
    BY <2>1 DEF RxNum, PtrMod, RxFirst, Filled, RxWaiting, Entry
  <2>4. RxTypes'
    BY <2>1, <2>3 DEF RxTypes, Ptr
  <2>5. RxRing'
    BY <2>1, <2>2, <2>3 DEF RxRing
  <2>6. Unharmed'
    BY <2>1, <2>3 DEF Unharmed, Entries
  <2> QED BY <2>4, <2>5, <2>6
<1>5. CASE RxExec
  BY <1>5, RxExecStep
<1>6. CASE RxPop
  BY <1>6, RxPopStep
<1>7. CASE RestartMod
  BY <1>7, RxRestart
<1>8. CASE /\ UNCHANGED <<build, slot, rw, rr, dma, rx, cur, pend>>
           /\ pc' = pc \/ {pc, pc'} \cap {"exec", "pop"} = {}
  BY <1>8, RxSame
<1>9. CASE HostRaise \/ HostLower \/ TxDoneIrq
  BY <1>8, <1>9 DEF HostRaise, HostLower, TxDoneIrq
<1>10. CASE Transmit
  BY <1>8, <1>10 DEF Transmit, TxStart, TxPop, TxFlag, Awake
<1>11. CASE Sleep
  BY <1>8, <1>11 DEF Sleep, SuspendRefused, Suspend, WakeUp, SuspendExit, RxRing
<1>12. CASE BleEvent \/ PmMcuLine \/ PmMask
  BY <1>8, <1>12 DEF BleEvent, PmMcuLine, PmMask, Awake
<1>13. CASE UNCHANGED vars
  BY <1>8, <1>13 DEF vars
<1> QED BY <1>1, <1>2, <1>3, <1>4, <1>5, <1>6, <1>7, <1>9, <1>10, <1>11, <1>12,
           <1>13 DEF Next, Host, Irq, Receive

-----------------------------------------------------------------------------
(* The main loop, the flags and the pins                                   *)

LEMMA PlacesStep ==
  ASSUME Places, build \in Builds, [Next]_vars
  PROVE  Places' /\ build' \in Builds
<1> USE DEF rxVars, txVars, pmVars, Places
<1>1. CASE Host \/ Irq
  BY <1>1 DEF Host, HostRaise, HostLower, HostStart, HostEnd, Irq, RxDoneIrq, TxDoneIrq
<1>2. CASE Receive \/ Transmit
  BY <1>2 DEF Receive, RxGet, RxExec, RxPop, Transmit, TxStart, TxPop, TxFlag
<1>3. CASE Sleep
  BY <1>3 DEF Sleep, SuspendRefused, Suspend, WakeUp, SuspendExit
<1>4. CASE BleEvent \/ PmMcuLine \/ PmMask \/ RestartMod \/ UNCHANGED vars
  BY <1>4 DEF BleEvent, PmMcuLine, PmMask, RestartMod, vars
<1> QED BY <1>1, <1>2, <1>3, <1>4 DEF Next

LEMMA FlagsStep ==
  ASSUME Flags, build \in Builds, [Next]_vars
  PROVE  Flags'
<1> USE DEF rxVars, txVars, pmVars, Flags
<1>1. CASE Host \/ Irq
  BY <1>1 DEF Host, HostRaise, HostLower, HostStart, HostEnd, Irq, RxDoneIrq, TxDoneIrq
<1>2. CASE Receive \/ BleEvent
  BY <1>2 DEF Receive, RxGet, RxExec, RxPop, BleEvent, Send
<1>3. CASE Transmit
  BY <1>3 DEF Transmit, TxStart, TxPop, TxFlag
<1>4. CASE Sleep
  BY <1>4 DEF Sleep, SuspendRefused, Suspend, WakeUp, SuspendExit
<1>5. CASE PmMcuLine \/ PmMask \/ UNCHANGED vars
  BY <1>5 DEF PmMcuLine, PmMask, vars, TxBusy, TxQueued, RxQueued, ModuleBusy
<1>6. CASE RestartMod
  <2>1. build.pm \in BOOLEAN
    BY Sizes
  <2> QED BY <1>6, <2>1 DEF RestartMod
<1> QED BY <1>1, <1>2, <1>3, <1>4, <1>5, <1>6 DEF Next

LEMMA SendFlagStep ==
  ASSUME SendFlag, Places, [Next]_vars
  PROVE  SendFlag'
<1> USE DEF rxVars, txVars, pmVars, SendFlag, Places
<1>1. CASE Host \/ Irq
  BY <1>1 DEF Host, HostRaise, HostLower, HostStart, HostEnd, Irq, RxDoneIrq, TxDoneIrq
<1>2. CASE Receive \/ BleEvent
  BY <1>2 DEF Receive, RxGet, RxExec, RxPop, BleEvent, Awake
<1>3. CASE Transmit
  BY <1>3 DEF Transmit, TxStart, TxPop, TxFlag
<1>4. CASE Sleep
  BY <1>4 DEF Sleep, SuspendRefused, Suspend, WakeUp, SuspendExit
<1>5. CASE PmMcuLine
  BY <1>5 DEF PmMcuLine, Awake
<1>6. CASE PmMask
  BY <1>6 DEF PmMask
<1>7. CASE RestartMod
  BY <1>7 DEF RestartMod
<1>8. CASE UNCHANGED vars
  BY <1>8 DEF vars
<1> QED BY <1>1, <1>2, <1>3, <1>4, <1>5, <1>6, <1>7, <1>8 DEF Next

LEMMA UndisturbedStep ==
  ASSUME Undisturbed, [Next]_vars
  PROVE  Undisturbed'
<1> USE DEF rxVars, txVars, pmVars, Undisturbed
<1>1. CASE Host \/ Irq
  BY <1>1 DEF Host, HostRaise, HostLower, HostStart, HostEnd, Irq, RxDoneIrq, TxDoneIrq
<1>2. CASE Receive \/ BleEvent
  BY <1>2 DEF Receive, RxGet, RxExec, RxPop, BleEvent
<1>3. CASE Transmit
  BY <1>3 DEF Transmit, TxStart, TxPop, TxFlag
<1>4. CASE Sleep
  BY <1>4 DEF Sleep, SuspendRefused, Suspend, WakeUp, SuspendExit
<1>5. CASE PmMcuLine \/ PmMask \/ RestartMod \/ UNCHANGED vars
  BY <1>5 DEF PmMcuLine, PmMask, RestartMod, vars
<1> QED BY <1>1, <1>2, <1>3, <1>4, <1>5 DEF Next

LEMMA PinsStep ==
  ASSUME Pins, [Next]_vars
  PROVE  Pins'
<1> USE DEF rxVars, txVars, pmVars, Pins
<1>1. CASE Host \/ Irq
  BY <1>1 DEF Host, HostRaise, HostLower, HostStart, HostEnd, Irq, RxDoneIrq, TxDoneIrq
<1>2. CASE Receive \/ BleEvent
  BY <1>2 DEF Receive, RxGet, RxExec, RxPop, BleEvent, Awake
<1>3. CASE Transmit
  BY <1>3 DEF Transmit, TxStart, TxPop, TxFlag, Awake
<1>4. CASE Sleep
  BY <1>4 DEF Sleep, SuspendRefused, Suspend, WakeUp, SuspendExit, Awake
<1>5. CASE PmMcuLine
  BY <1>5 DEF PmMcuLine, Awake
<1>6. CASE PmMask
  BY <1>6 DEF PmMask
<1>7. CASE RestartMod
  BY <1>7 DEF RestartMod
<1>8. CASE UNCHANGED vars
  BY <1>8 DEF vars
<1> QED BY <1>1, <1>2, <1>3, <1>4, <1>5, <1>6, <1>7, <1>8 DEF Next

\* With nothing in the rings and the UART nothing is owed or pending.
LEMMA NothingLeft ==
  ASSUME build \in Builds, TxTypes, TxRing, SendFlag, RxTypes, RxRing, pc = "main"
  PROVE  /\ ~TxBusy => owed = <<>>
         /\ ~RxQueued /\ rx = "quiet" => pend = <<>>
<1>1. tw = tr <=> Filled(tw, tr) = 0
  BY Ptrs, Zenon DEF TxTypes
<1>2. rw = rr <=> Filled(rw, rr) = 0
  BY Ptrs, Zenon DEF RxTypes
<1>3. ASSUME ~TxBusy PROVE owed = <<>>
  <2>1. Len(owed) = 0
    BY <1>1, <1>3 DEF TxBusy, TxQueued, TxRing, SendFlag, InUart, TxWaiting
  <2> QED BY <2>1, EmptySeq DEF TxTypes
<1>4. ASSUME ~RxQueued, rx = "quiet" PROVE pend = <<>>
  <2>1. Len(pend) = 0
    BY <1>2, <1>4 DEF RxQueued, RxRing, RxWaiting
  <2> QED BY <2>1, EmptySeq DEF RxTypes
<1> QED BY <1>3, <1>4

LEMMA HostAwakeStep ==
  ASSUME build \in Builds, TxTypes, TxRing, SendFlag, RxTypes, RxRing,
         HostAwakeForMessages, [Next]_vars
  PROVE  HostAwakeForMessages'
<1> USE DEF rxVars, txVars, pmVars, HostAwakeForMessages
<1>1. CASE UNCHANGED <<owed, wakeMcu>>
  BY <1>1
<1>2. CASE Host \/ RxDoneIrq
  BY <1>1, <1>2 DEF Host, HostRaise, HostLower, HostStart, HostEnd, RxDoneIrq
<1>3. CASE TxDoneIrq
  <2>1. owed # <<>>
    BY <1>3, TxDoneStep
  <2> QED BY <1>3, <2>1 DEF TxDoneIrq
<1>4. CASE RxExec \/ BleEvent
  BY <1>4 DEF RxExec, BleEvent, Send
<1>5. CASE RxGet \/ RxPop \/ Transmit
  BY <1>1, <1>5 DEF RxGet, RxPop, Transmit, TxStart, TxPop, TxFlag
<1>6. CASE Sleep
  BY <1>1, <1>6 DEF Sleep, SuspendRefused, Suspend, WakeUp, SuspendExit
<1>7. CASE PmMcuLine
  <2>1. pc = "main" /\ owed' = owed /\ (wakeMcu /\ TxBusy => wakeMcu')
    BY <1>7 DEF PmMcuLine, Awake
  <2> QED BY <2>1, NothingLeft
<1>8. CASE PmMask \/ RestartMod \/ UNCHANGED vars
  BY <1>1, <1>8 DEF PmMask, RestartMod, vars
<1> QED BY <1>2, <1>3, <1>4, <1>5, <1>6, <1>7, <1>8 DEF Next, Irq, Receive

LEMMA SleepsOnlyIdleStep ==
  ASSUME build \in Builds, TxTypes, TxRing, SendFlag, RxTypes, RxRing, Pins,
         SleepsOnlyIdle, [Next]_vars
  PROVE  SleepsOnlyIdle'
<1> USE DEF rxVars, txVars, pmVars, SleepsOnlyIdle
<1>1. CASE UNCHANGED <<asleep, pend, owed, rx>> \/ asleep' = FALSE
  BY <1>1
<1>2. CASE Host
  BY <1>1, <1>2 DEF Host, HostRaise, HostLower, HostStart, HostEnd
<1>3. CASE RxDoneIrq
  BY <1>3 DEF RxDoneIrq
<1>4. CASE TxDoneIrq
  <2>1. owed # <<>>
    BY <1>4, TxDoneStep
  <2> QED BY <1>4, <2>1 DEF TxDoneIrq
<1>5. CASE Receive \/ Transmit \/ BleEvent
  BY <1>5 DEF Receive, RxGet, RxExec, RxPop, Transmit, TxStart, TxPop, TxFlag,
              BleEvent, Awake, Pins
<1>6. CASE Suspend
  <2>1. /\ pc = "main" /\ ~mcu /\ ~TxBusy /\ ~RxQueued
        /\ UNCHANGED <<pend, owed, rx>>
    BY <1>6 DEF Suspend, Awake, ModuleBusy
  <2> QED BY <2>1, NothingLeft DEF Pins
<1>7. CASE SuspendRefused \/ WakeUp \/ RestartMod
  BY <1>1, <1>7 DEF SuspendRefused, WakeUp, SuspendExit, RestartMod
<1>8. CASE PmMcuLine \/ PmMask \/ UNCHANGED vars
  BY <1>1, <1>8 DEF PmMcuLine, PmMask, vars
<1> QED BY <1>2, <1>3, <1>4, <1>5, <1>6, <1>7, <1>8 DEF Next, Irq, Sleep

-----------------------------------------------------------------------------
(* The theorems                                                            *)

LEMMA PartsType ==
  build \in Builds /\ TxRing /\ RxRing /\ RxTypes /\ TxTypes /\ Places /\ Flags
    => TypeOK
  BY TypeParts

LEMMA PartsTypeNext ==
  (build \in Builds /\ TxRing /\ RxRing /\ RxTypes /\ TxTypes /\ Places /\ Flags)'
    => TypeOK'
  BY PartsType, PTL

LEMMA InitIInv == Init => IInv
<1> SUFFICES ASSUME Init PROVE IInv
  OBVIOUS
<1>1. build \in Builds /\ build.pm \in BOOLEAN
  BY Sizes DEF Init
<1>2. TxTypes /\ TxRing /\ RxTypes /\ RxRing /\ Unharmed
  BY <1>1, TxRestart, RxRestart
<1>3. Places
  BY DEF Init, Places
<1>4. Flags
  BY <1>1 DEF Init, Flags
<1>5. SendFlag /\ Undisturbed /\ Pins /\ HostAwakeForMessages /\ SleepsOnlyIdle
  BY DEF Init, SendFlag, Undisturbed, Pins, HostAwakeForMessages, SleepsOnlyIdle
<1> QED BY <1>1, <1>2, <1>3, <1>4, <1>5, TypeParts DEF IInv

LEMMA StepIInv ==
  ASSUME IInv, [Next]_vars
  PROVE  IInv'
<1>1. build \in Builds /\ RxTypes /\ TxTypes /\ Places /\ Flags
  BY TypeParts DEF IInv, TypeOK
<1>2. TxTypes' /\ TxRing'
  BY <1>1, TxStep DEF IInv
<1>3. RxTypes' /\ RxRing' /\ Unharmed'
  BY <1>1, RxStep DEF IInv
<1>4. Places' /\ build' \in Builds /\ Flags'
  BY <1>1, PlacesStep, FlagsStep
<1>5. SendFlag' /\ Undisturbed' /\ Pins'
  BY <1>1, SendFlagStep, UndisturbedStep, PinsStep DEF IInv
<1>6. HostAwakeForMessages' /\ SleepsOnlyIdle'
  BY <1>1, HostAwakeStep, SleepsOnlyIdleStep DEF IInv
<1>7. TypeOK'
  BY <1>2, <1>3, <1>4, PartsTypeNext
<1> QED BY <1>2, <1>3, <1>5, <1>6, <1>7 DEF IInv

LEMMA Invariance == Spec => []IInv
  BY InitIInv, StepIInv, PTL DEF Spec

\* The pointers stay in the rings, no more is pending than the host may
\* send ahead, no more is owed than the ring and the UART hold.
THEOREM TypeCorrect == Spec => []TypeOK
<1>1. IInv => TypeOK
  BY DEF IInv
<1> QED BY <1>1, Invariance, PTL

\* GPIO_WAKEUP_MCU is high from spp_send_data until the last byte is out.
THEOREM HostIsAwake == Spec => []HostAwakeForMessages
<1>1. IInv => HostAwakeForMessages
  BY DEF IInv
<1> QED BY <1>1, Invariance, PTL

\* The chip sleeps with nothing in the rings, the receiver or the UART.
THEOREM SleepIsIdle == Spec => []SleepsOnlyIdle
<1>1. IInv => SleepsOnlyIdle
  BY DEF IInv
<1> QED BY <1>1, Invariance, PTL

\* The host receives every accepted message once and in order, whenever
\* TXDONE comes in the three steps of tx_to_uart_cb.
THEOREM Delivery == Spec => DeliversInOrder
<1>1. ASSUME IInv, [Next]_vars, TxDoneIrq
      PROVE  owed # <<>> /\ tx = Head(owed)
  <2>1. build \in Builds /\ TxTypes
    BY <1>1, TypeParts DEF IInv, TypeOK
  <2> QED BY <1>1, <2>1, TxDoneStep DEF IInv
<1> QED BY <1>1, Invariance, PTL DEF Spec, DeliversInOrder

\* Without power management every command is executed once, in order and
\* unharmed, although the handler works in the ring while the DMA writes.
THEOREM Execution == Spec => ExecutesWhatWasSent
<1>1. ASSUME IInv, [Next]_vars, ~build.pm, RxExec
      PROVE  pend # <<>> /\ slot[Entry(rr, RxNum)] = Head(pend)
  <2>1. build \in Builds /\ RxTypes
    BY <1>1, TypeParts DEF IInv, TypeOK
  <2> QED BY <1>1, <2>1, RxExecStep DEF IInv
<1> QED BY <1>1, Invariance, PTL DEF Spec, ExecutesWhatWasSent
=============================================================================
