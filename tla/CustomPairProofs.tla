-------------------------- MODULE CustomPairProofs --------------------------
(***************************************************************************)
(* Proofs about CustomPair for every sector size, table size and device    *)
(* set the assumptions allow.                                              *)
(***************************************************************************)
EXTENDS CustomPair, FiniteSetTheorems, FunctionTheorems, SequenceTheorems,
        TLAPS

(***************************************************************************)
(* The inductive invariant.  RescanFindsTable speaks of the moments when   *)
(* no call is running; between the flash operations of a call the table    *)
(* and the log agree on a part only, which each conjunct names.            *)
(***************************************************************************)

\* Calls during which cfgIdx is the newest record of the log.
Positioned == pc \in {"clean", "rewrite", "idle", "replace", "unpair"}

\* The used records are exactly those up to cfgIdx.
Frontier ==
  /\ LogIsDense
  /\ Positioned => \A s \in Slots : flash[s] # Blank <=> s <= cfgIdx
  /\ pc = "scan" => 0 <= cfgIdx /\ cfgIdx <= NSlots
                    /\ \A s \in Slots : s < cfgIdx => flash[s] # Blank

\* The table follows the order of the log.
Ordered ==
  \A k, m \in DOMAIN tbl : k < m /\ (pc = "rewrite" => m < i)
                             => tbl[k].slot < tbl[m].slot

\* Entries of the table whose record is in flash at present.
Backed(k) ==
  CASE pc = "rewrite" -> k < i
    [] pc = "unpair"  -> k >= i
    [] OTHER          -> TRUE

Sound ==
  \A k \in DOMAIN tbl : Backed(k) => flash[tbl[k].slot] = tbl[k].dev

\* Records the table has an entry for.
Known(s) == \E k \in DOMAIN tbl : Backed(k) /\ tbl[k].slot = s

Complete ==
  \A s \in Slots :
     flash[s] \in Device /\ (pc = "scan" => s < cfgIdx) /\ pc # "off"
       => Known(s)

\* Progress of the calls with several flash operations.
Progress ==
  /\ pc = "off" => tbl = <<>>
  /\ pc = "replace" => Len(tbl) < MaxBonds /\ adr \in Device
  /\ pc \in {"rewrite", "unpair"} => i <= Len(tbl) + 1
  /\ pc = "rewrite" => cfgIdx = i - 2
  /\ pc = "scan" => \A k \in DOMAIN tbl : tbl[k].slot < cfgIdx
  /\ pc = "replace" => cfgIdx < NSlots + AddCap

FewRecords == Cardinality(LiveSlots) <= MaxBonds

IInv == TypeOK /\ Frontier /\ Ordered /\ Sound /\ Complete
        /\ Progress /\ FewRecords

-----------------------------------------------------------------------------
(* Lemmas about the data.                                                  *)

\* memcpy of the entries behind k one place down: user_tbl_slave_mac_
\* delete_by_index and delete_by_adr.
LEMMA RemoveAtProperties ==
  ASSUME NEW S, NEW s \in Seq(S), NEW k \in 1 .. Len(s)
  PROVE  /\ RemoveAt(s, k) \in Seq(S)
         /\ Len(RemoveAt(s, k)) = Len(s) - 1
         /\ \A j \in 1 .. Len(s) - 1 :
              RemoveAt(s, k)[j] = IF j < k THEN s[j] ELSE s[j + 1]
<1> DEFINE a == SubSeq(s, 1, k - 1)
           b == SubSeq(s, k + 1, Len(s))
<1>1. /\ a \in Seq(S) /\ Len(a) = k - 1
      /\ \A j \in 1 .. k - 1 : a[j] = s[j]
  <2>1. \A j \in 1 .. k - 1 : s[j] \in S
    BY ElementOfSeq
  <2> QED BY <2>1, SubSeqProperties
<1>2. /\ b \in Seq(S) /\ Len(b) = Len(s) - k
      /\ \A j \in 1 .. Len(s) - k : b[j] = s[j + k]
  <2>1. \A j \in k + 1 .. Len(s) : s[j] \in S
    BY ElementOfSeq
  <2> QED BY <2>1, SubSeqProperties
<1>3. RemoveAt(s, k) = a \o b
  BY DEF RemoveAt
<1> HIDE DEF a, b
<1>4. /\ a \o b \in Seq(S)
      /\ Len(a \o b) = Len(s) - 1
      /\ \A j \in 1 .. Len(s) - 1 :
           (a \o b)[j] = IF j <= k - 1 THEN a[j] ELSE b[j - (k - 1)]
  BY <1>1, <1>2, ConcatProperties
<1>5. ASSUME NEW j \in 1 .. Len(s) - 1
      PROVE  (a \o b)[j] = IF j < k THEN s[j] ELSE s[j + 1]
  <2>1. Len(s) \in Nat
    BY LenProperties
  <2>2. CASE j < k
    <3>1. (a \o b)[j] = a[j]
      BY <1>4, <2>1, <2>2
    <3> QED BY <1>1, <2>1, <2>2, <3>1
  <2>3. CASE j >= k
    <3>1. (a \o b)[j] = b[j - (k - 1)]
      BY <1>4, <2>1, <2>3
    <3>2. j - (k - 1) \in 1 .. Len(s) - k /\ j - (k - 1) + k = j + 1
      BY <2>1, <2>3
    <3> QED BY <1>2, <2>1, <2>3, <3>1, <3>2
  <2>4. j < k \/ j >= k
    BY <2>1
  <2> QED BY <2>2, <2>3, <2>4
<1> QED BY <1>3, <1>4, <1>5

\* A set of records the first n entries name has at most n members.
LEMMA NamedByTable ==
  ASSUME NEW t \in Seq(Entry), NEW n \in 0 .. Len(t),
         NEW R, \A s \in R : \E k \in 1 .. n : t[k].slot = s
  PROVE  IsFiniteSet(R) /\ Cardinality(R) <= n
<1> DEFINE f == [k \in 1 .. n |-> t[k].slot]
           I == {t[k].slot : k \in 1 .. n}
<1>1. f \in [1 .. n -> I]
  OBVIOUS
<1>2. f \in Surjection(1 .. n, I)
  BY DEF Surjection
<1>3. IsFiniteSet(1 .. n) /\ Cardinality(1 .. n) = n
  BY FS_Interval
<1> HIDE DEF f
<1>4. IsFiniteSet(I) /\ Cardinality(I) <= n
  BY <1>2, <1>3, FS_Surjection
<1>5. R \in SUBSET I
  OBVIOUS
<1>6. Cardinality(I) \in Nat /\ Cardinality(R) \in Nat
  BY <1>4, <1>5, FS_CardinalityType, FS_Subset
<1> QED BY <1>4, <1>5, <1>6, FS_Subset

\* A table whose entries name distinct members of a finite set R, all but
\* c, is shorter than R is large.
LEMMA TableIsSmaller ==
  ASSUME NEW t \in Seq(Entry), NEW R, IsFiniteSet(R), NEW c \in R,
         \A k \in 1 .. Len(t) : t[k].slot \in R /\ t[k].slot # c,
         \A k, m \in 1 .. Len(t) : k < m => t[k].slot # t[m].slot
  PROVE  Len(t) + 1 <= Cardinality(R)
<1> DEFINE f == [k \in 1 .. Len(t) |-> t[k].slot]
           Q == R \ {c}
<1>1. Len(t) \in Nat
  BY LenProperties
<1>2. IsFiniteSet(Q) /\ Cardinality(Q) = Cardinality(R) - 1
  BY FS_RemoveElement
<1>3. f \in [1 .. Len(t) -> Q]
  OBVIOUS
<1>4. \A k, m \in 1 .. Len(t) : f[k] = f[m] => k = m
  BY <1>1
<1>5. f \in Injection(1 .. Len(t), Q)
  BY <1>3, <1>4, Fun_IsInj
<1>6. Cardinality(1 .. Len(t)) = Len(t)
  BY <1>1, FS_Interval
<1> HIDE DEF f, Q
<1>7. Len(t) <= Cardinality(Q)
  BY <1>2, <1>5, <1>6, FS_Injection
<1>8. Cardinality(R) \in Nat
  BY FS_CardinalityType
<1> QED BY <1>1, <1>2, <1>7, <1>8

LEMMA LiveSlotsFinite == IsFiniteSet(LiveSlots)
<1>1. IsFiniteSet(Slots)
  BY NSlotsAssumption, FS_Interval DEF Slots
<1>2. LiveSlots \in SUBSET Slots
  BY DEF LiveSlots
<1> QED BY <1>1, <1>2, FS_Subset

\* Erasing a record, or erasing the sector, adds no live record.
LEMMA FewerRecords ==
  ASSUME FewRecords, LiveSlots' \subseteq LiveSlots
  PROVE  FewRecords'
<1>1. Cardinality(LiveSlots') <= Cardinality(LiveSlots)
  BY LiveSlotsFinite, FS_Subset
<1>2. Cardinality(LiveSlots') \in Nat /\ Cardinality(LiveSlots) \in Nat
  BY LiveSlotsFinite, FS_CardinalityType, FS_Subset
<1> QED BY <1>1, <1>2, MaxBondsAssumption DEF FewRecords

-----------------------------------------------------------------------------
(* Preservation of the inductive invariant, one lemma for each action.     *)

LEMMA InitIInv == Init => IInv
<1> SUFFICES ASSUME Init PROVE IInv
  OBVIOUS
<1>1. LiveSlots = {}
  BY MarksAssumption DEF Init, LiveSlots
<1>2. FewRecords
  BY <1>1, FS_EmptySet, MaxBondsAssumption DEF FewRecords
<1>3. TypeOK
  BY NSlotsAssumption, AddCapAssumption, MaxBondsAssumption
     DEF Init, TypeOK, PCs, Slots
<1>4. tbl = <<>> /\ pc = "off" /\ LogIsDense
  BY DEF Init, LogIsDense
<1> QED BY <1>2, <1>3, <1>4
        DEF IInv, Frontier, Positioned, Ordered, Sound, Complete,
            Progress

\* What every step lemma needs of the state before the step.
LEMMA IInvFacts ==
  ASSUME IInv
  PROVE  /\ Len(tbl) \in 0 .. MaxBonds
         /\ DOMAIN tbl = 1 .. Len(tbl)
         /\ \A k \in 1 .. Len(tbl) : tbl[k] \in Entry /\ tbl[k].slot \in Slots
                                    /\ tbl[k].dev \in Device
         /\ cfgIdx \in Int /\ i \in Nat
         /\ MaxBonds \in Nat /\ NSlots \in Nat /\ MaxBonds < NSlots
<1>1. tbl \in Seq(Entry) /\ Len(tbl) <= MaxBonds
  BY DEF IInv, TypeOK
<1>2. \A k \in 1 .. Len(tbl) : tbl[k] \in Entry
  BY <1>1, ElementOfSeq
<1> QED BY <1>1, <1>2, LenProperties, MaxBondsAssumption, NSlotsAssumption
        DEF IInv, TypeOK, Entry

LEMMA PowerOnIInv == IInv /\ PowerOn => IInv'
<1> SUFFICES ASSUME IInv, PowerOn PROVE IInv'
  OBVIOUS
<1> USE IInvFacts
<1>1. tbl = <<>> /\ tbl' = <<>> /\ pc' = "scan" /\ cfgIdx' = 0
      /\ flash' = flash /\ i' = i /\ adr' = adr
  BY DEF PowerOn, IInv, Progress
<1>2. TypeOK'
  BY <1>1, AddCapAssumption DEF IInv, TypeOK, PCs
<1>3. Frontier'
  BY <1>1 DEF IInv, Frontier, LogIsDense, Positioned, Slots
<1>4. FewRecords'
  BY <1>1 DEF IInv, FewRecords, LiveSlots
<1>5. Ordered' /\ Sound' /\ Progress'
  BY <1>1 DEF Ordered, Sound, Progress
<1>6. Complete'
  BY <1>1 DEF Complete, Slots
<1> QED BY <1>2, <1>3, <1>4, <1>5, <1>6 DEF IInv

LEMMA PowerLossIInv == IInv /\ PowerLoss => IInv'
<1> SUFFICES ASSUME IInv, PowerLoss PROVE IInv'
  OBVIOUS
<1> USE IInvFacts
<1>1. tbl' = <<>> /\ pc' = "off" /\ cfgIdx' = 0
      /\ flash' = flash /\ i' = 1 /\ adr' = NoDevice
  BY DEF PowerLoss
<1>2. TypeOK'
  BY <1>1, AddCapAssumption DEF IInv, TypeOK, PCs
<1>3. Frontier'
  BY <1>1 DEF IInv, Frontier, LogIsDense, Positioned
<1>4. FewRecords'
  BY <1>1 DEF IInv, FewRecords, LiveSlots
<1>5. Ordered' /\ Sound' /\ Progress' /\ Complete'
  BY <1>1 DEF Ordered, Sound, Progress, Complete
<1> QED BY <1>2, <1>3, <1>4, <1>5 DEF IInv

LEMMA ScanErasedIInv == IInv /\ ScanErased => IInv'
<1> SUFFICES ASSUME IInv, ScanErased PROVE IInv'
  OBVIOUS
<1> USE IInvFacts
<1>1. /\ pc = "scan" /\ cfgIdx \in Slots /\ flash[cfgIdx] = Erased
      /\ tbl' = tbl /\ pc' = "scan" /\ cfgIdx' = cfgIdx + 1
      /\ flash' = flash /\ i' = i /\ adr' = adr
  BY DEF ScanErased, Scanning, IInv, Frontier, Slots
<1>2. TypeOK'
  BY <1>1, AddCapAssumption DEF IInv, TypeOK, PCs, Slots
<1>3. Frontier'
  BY <1>1, MarksAssumption DEF IInv, Frontier, LogIsDense, Positioned, Slots
<1>4. FewRecords'
  BY <1>1 DEF IInv, FewRecords, LiveSlots
<1>5. Ordered' /\ Sound' /\ Progress'
  BY <1>1 DEF IInv, Ordered, Sound, Backed, Progress, Slots
<1>6. Complete'
  BY <1>1, MarksAssumption DEF IInv, Complete, Known, Backed, Slots
<1> QED BY <1>2, <1>3, <1>4, <1>5, <1>6 DEF IInv

LEMMA ScanBondedIInv == IInv /\ ScanBonded => IInv'
<1> SUFFICES ASSUME IInv, ScanBonded PROVE IInv'
  OBVIOUS
<1> USE IInvFacts
<1> DEFINE e == [slot |-> cfgIdx, dev |-> flash[cfgIdx]]
<1>1. /\ pc = "scan" /\ cfgIdx \in Slots /\ flash[cfgIdx] \in Device
      /\ tbl' = Append(tbl, e) /\ pc' = "scan" /\ cfgIdx' = cfgIdx + 1
      /\ flash' = flash /\ i' = i /\ adr' = adr
      /\ Len(tbl) < MaxBonds /\ tbl \in Seq(Entry)
  <2>1. Len(tbl) < MaxBonds
    BY DEF ScanBonded, Halted
  <2> QED BY <2>1 DEF ScanBonded, Scanning, IInv, Frontier, Slots, TypeOK
<1>2. e \in Entry /\ e.slot = cfgIdx /\ e.dev = flash[cfgIdx]
  BY <1>1 DEF Entry
<1> HIDE DEF e
<1>3. /\ tbl' \in Seq(Entry) /\ Len(tbl') = Len(tbl) + 1
      /\ \A k \in 1 .. Len(tbl) : tbl'[k] = tbl[k]
      /\ tbl'[Len(tbl) + 1] = e
      /\ DOMAIN tbl' = 1 .. Len(tbl) + 1
  BY <1>1, <1>2, AppendProperties, LenProperties
<1>4. TypeOK'
  BY <1>1, <1>3, AddCapAssumption DEF IInv, TypeOK, PCs, Slots
<1>5. Frontier'
  BY <1>1, MarksAssumption DEF IInv, Frontier, LogIsDense, Positioned, Slots
<1>6. FewRecords'
  BY <1>1 DEF IInv, FewRecords, LiveSlots
<1>7. Ordered' /\ Progress'
  BY <1>1, <1>2, <1>3 DEF IInv, Ordered, Progress, Slots
<1>8. Sound'
  BY <1>1, <1>2, <1>3 DEF IInv, Sound, Backed
<1>9. Complete'
  <2> SUFFICES ASSUME NEW s \in Slots, flash[s] \in Device, s < cfgIdx + 1
               PROVE  \E k \in 1 .. Len(tbl) + 1 : tbl'[k].slot = s
    BY <1>1, <1>3 DEF Complete, Known, Backed
  <2>1. CASE s = cfgIdx
    BY <1>2, <1>3, <2>1
  <2>2. CASE s < cfgIdx
    <3>1. PICK k \in 1 .. Len(tbl) : tbl[k].slot = s
      BY <1>1, <2>2 DEF IInv, Complete, Known
    <3> QED BY <1>3, <3>1
  <2> QED BY <1>1, <2>1, <2>2 DEF Slots
<1> QED BY <1>4, <1>5, <1>6, <1>7, <1>8, <1>9 DEF IInv

\* The record the scan stands at and those of a full table would be more
\* than MaxBonds records.
LEMMA IInvNeverHalts == IInv => NeverHalts
<1> SUFFICES ASSUME IInv, Halted PROVE FALSE
  BY DEF NeverHalts
<1> USE IInvFacts
<1>1. /\ pc = "scan" /\ cfgIdx \in LiveSlots /\ Len(tbl) >= MaxBonds
      /\ tbl \in Seq(Entry)
  BY DEF Halted, Scanning, IInv, Frontier, Slots, TypeOK, LiveSlots
<1>2. \A k \in 1 .. Len(tbl) : tbl[k].slot \in LiveSlots /\ tbl[k].slot # cfgIdx
  BY <1>1 DEF IInv, Sound, Backed, Progress, LiveSlots, Slots
<1>3. \A k, m \in 1 .. Len(tbl) : k < m => tbl[k].slot # tbl[m].slot
  BY <1>1 DEF IInv, Ordered, Slots
<1>4. Len(tbl) + 1 <= Cardinality(LiveSlots)
  BY <1>1, <1>2, <1>3, LiveSlotsFinite, TableIsSmaller
<1>5. Cardinality(LiveSlots) <= MaxBonds /\ Cardinality(LiveSlots) \in Nat
  BY LiveSlotsFinite, FS_CardinalityType DEF IInv, FewRecords
<1> QED BY <1>1, <1>4, <1>5

LEMMA ScanEndIInv == IInv /\ ScanEnd => IInv'
<1> SUFFICES ASSUME IInv, ScanEnd PROVE IInv'
  OBVIOUS
<1> USE IInvFacts
<1>1. /\ pc = "scan" /\ ~Scanning /\ cfgIdx' = cfgIdx - 1
      /\ pc' \in {"clean", "idle"} /\ cfgIdx \in 0 .. NSlots
      /\ UNCHANGED <<flash, tbl, i, adr>>
  BY DEF ScanEnd, IInv, Frontier
<1>2. \A s \in Slots : flash[s] # Blank <=> s < cfgIdx
  <2>1. \A s \in Slots : s < cfgIdx => flash[s] # Blank
    BY <1>1 DEF IInv, Frontier
  <2>2. CASE cfgIdx \in Slots
    <3>1. flash[cfgIdx] = Blank
      BY <1>1, <2>2 DEF Scanning, Slots
    <3> QED BY <1>1, <2>1, <2>2, <3>1 DEF IInv, Frontier, LogIsDense, Slots
  <2>3. CASE cfgIdx \notin Slots
    BY <1>1, <2>1, <2>3 DEF Slots
  <2> QED BY <2>2, <2>3
<1>3. TypeOK'
  BY <1>1, AddCapAssumption DEF IInv, TypeOK, PCs
<1>4. Frontier'
  BY <1>1, <1>2 DEF IInv, Frontier, LogIsDense, Positioned, Slots
<1>5. FewRecords'
  BY <1>1 DEF IInv, FewRecords, LiveSlots
<1>6. Ordered' /\ Sound' /\ Progress'
  BY <1>1 DEF IInv, Ordered, Sound, Backed, Progress
<1>7. Complete'
  BY <1>1, <1>2, MarksAssumption DEF IInv, Complete, Known, Backed
<1> QED BY <1>3, <1>4, <1>5, <1>6, <1>7 DEF IInv

LEMMA CleanEraseIInv == IInv /\ CleanErase => IInv'
<1> SUFFICES ASSUME IInv, CleanErase PROVE IInv'
  OBVIOUS
<1> USE IInvFacts
<1>1. /\ pc = "clean" /\ pc' = "rewrite" /\ cfgIdx' = -1 /\ i' = 1
      /\ flash' = [s \in Slots |-> Blank] /\ UNCHANGED <<tbl, adr>>
  BY DEF CleanErase
<1>2. LiveSlots' = {}
  BY <1>1, MarksAssumption DEF LiveSlots
<1>3. TypeOK'
  BY <1>1, AddCapAssumption DEF IInv, TypeOK, PCs
<1>4. Frontier'
  BY <1>1 DEF Frontier, LogIsDense, Positioned, Slots
<1>5. FewRecords'
  BY <1>2, FewerRecords DEF IInv
<1>6. Ordered' /\ Sound' /\ Progress'
  BY <1>1 DEF Ordered, Sound, Backed, Progress
<1>7. Complete'
  BY <1>1, MarksAssumption DEF Complete
<1> QED BY <1>3, <1>4, <1>5, <1>6, <1>7 DEF IInv

LEMMA CleanRewriteIInv == IInv /\ CleanRewrite => IInv'
<1> SUFFICES ASSUME IInv, CleanRewrite PROVE IInv'
  OBVIOUS
<1> USE IInvFacts
<1>1. /\ pc = "rewrite" /\ pc' = "rewrite" /\ i \in 1 .. Len(tbl)
      /\ cfgIdx = i - 2 /\ cfgIdx' = i - 1 /\ i' = i + 1 /\ adr' = adr
      /\ flash' = [flash EXCEPT ![i - 1] = tbl[i].dev]
      /\ tbl' = [tbl EXCEPT ![i] = [tbl[i] EXCEPT !.slot = i - 1]]
      /\ flash \in [Slots -> Device \cup {Blank, Erased}]
      /\ tbl \in Seq(Entry) /\ i - 1 \in Slots
  <2>1. /\ pc = "rewrite" /\ i \in 1 .. Len(tbl) /\ cfgIdx = i - 2
        /\ cfgIdx + 1 = i - 1 /\ i - 1 \in Slots
    <3>1. pc = "rewrite" /\ i \in 1 .. Len(tbl)
      BY DEF CleanRewrite, IInv, TypeOK
    <3>2. cfgIdx = i - 2
      BY <3>1 DEF IInv, Progress
    <3> QED BY <3>1, <3>2 DEF Slots
  <2> QED BY <2>1 DEF CleanRewrite, IInv, TypeOK
<1> DEFINE e == [tbl[i] EXCEPT !.slot = i - 1]
<1>2. e \in Entry /\ e.slot = i - 1 /\ e.dev = tbl[i].dev
  BY <1>1 DEF Entry
<1> HIDE DEF e
<1>3. /\ tbl' \in Seq(Entry) /\ Len(tbl') = Len(tbl)
      /\ DOMAIN tbl' = 1 .. Len(tbl)
      /\ \A k \in 1 .. Len(tbl) : tbl'[k] = IF k = i THEN e ELSE tbl[k]
  BY <1>1, <1>2, ExceptSeq, LenProperties DEF e
<1>4. TypeOK'
  <2>1. flash' \in [Slots -> Device \cup {Blank, Erased}]
    BY <1>1
  <2>2. cfgIdx' \in -1 .. NSlots + AddCap /\ i' \in 1 .. MaxBonds + 1
    BY <1>1, AddCapAssumption
  <2> QED BY <1>1, <1>3, <2>1, <2>2 DEF IInv, TypeOK, PCs
<1>5. Frontier'
  BY <1>1, MarksAssumption DEF IInv, Frontier, LogIsDense, Positioned, Slots
<1>6. \A k \in 1 .. Len(tbl) : k < i => tbl[k].slot <= i - 2
  BY <1>1, MarksAssumption DEF IInv, Sound, Backed, Frontier, Positioned
<1>7. Ordered'
  <2> SUFFICES ASSUME NEW k \in 1 .. Len(tbl), NEW m \in 1 .. Len(tbl),
                      k < m, m < i + 1
               PROVE  tbl'[k].slot < tbl'[m].slot
    BY <1>1, <1>3 DEF Ordered
  <2>1. tbl'[k] = tbl[k] /\ tbl[k].slot \in Int /\ tbl[k].slot <= i - 2
    BY <1>1, <1>3, <1>6 DEF Slots
  <2>2. CASE m = i
    BY <1>1, <1>2, <1>3, <2>1, <2>2
  <2>3. CASE m < i
    BY <1>1, <1>3, <2>1, <2>3 DEF IInv, Ordered
  <2> QED BY <1>1, <2>2, <2>3
<1>8. Sound'
  <2>1. \A s \in Slots : flash'[s] = IF s = i - 1 THEN tbl[i].dev ELSE flash[s]
    BY <1>1
  <2> SUFFICES ASSUME NEW k \in 1 .. Len(tbl), k < i + 1
               PROVE  flash'[tbl'[k].slot] = tbl'[k].dev
    BY <1>1, <1>3 DEF Sound, Backed
  <2>2. CASE k = i
    BY <1>1, <1>2, <1>3, <2>1, <2>2
  <2>3. CASE k < i
    <3>1. flash[tbl[k].slot] = tbl[k].dev
      BY <1>1, <2>3 DEF IInv, Sound, Backed
    <3>2. tbl'[k] = tbl[k]
      BY <1>3, <2>3
    <3>3. tbl[k].slot \in Int /\ tbl[k].slot <= i - 2
      BY <1>6, <2>3 DEF Slots
    <3>4. tbl[k].slot # i - 1
      BY <3>3
    <3> QED BY <2>1, <3>1, <3>2, <3>4
  <2> QED BY <1>1, <2>2, <2>3
<1>9. \A s \in Slots : flash'[s] \in Device =>
         \E k \in 1 .. i : tbl'[k].slot = s
  <2> SUFFICES ASSUME NEW s \in Slots, flash'[s] \in Device
               PROVE  \E k \in 1 .. i : tbl'[k].slot = s
    OBVIOUS
  <2>1. CASE s = i - 1
    BY <1>1, <1>2, <1>3, <2>1
  <2>2. CASE s # i - 1
    <3>1. PICK k \in 1 .. Len(tbl) : k < i /\ tbl[k].slot = s
      BY <1>1, <2>2 DEF IInv, Complete, Known, Backed
    <3> QED BY <1>1, <1>3, <3>1
  <2> QED BY <2>1, <2>2
<1>10. Complete'
  BY <1>1, <1>3, <1>9 DEF Complete, Known, Backed
<1>11. FewRecords'
  <2>1. i \in 0 .. Len(tbl')
    BY <1>1, <1>3
  <2>2. Cardinality(LiveSlots') <= i /\ IsFiniteSet(LiveSlots')
    BY <1>3, <1>9, <2>1, NamedByTable DEF LiveSlots
  <2> QED BY <1>1, <2>2, FS_CardinalityType DEF FewRecords
<1>12. Progress'
  BY <1>1, <1>3 DEF Progress
<1> QED BY <1>4, <1>5, <1>7, <1>8, <1>10, <1>11, <1>12 DEF IInv

LEMMA CleanEndIInv == IInv /\ CleanEnd => IInv'
<1> SUFFICES ASSUME IInv, CleanEnd PROVE IInv'
  OBVIOUS
<1> USE IInvFacts
<1>1. /\ pc = "rewrite" /\ pc' = "idle" /\ i = Len(tbl) + 1 /\ i' = 1
      /\ UNCHANGED <<flash, tbl, cfgIdx, adr>>
  BY DEF CleanEnd, IInv, Progress
<1>2. TypeOK'
  BY <1>1, AddCapAssumption DEF IInv, TypeOK, PCs
<1>3. Frontier'
  BY <1>1 DEF IInv, Frontier, LogIsDense, Positioned
<1>4. FewRecords'
  BY <1>1 DEF IInv, FewRecords, LiveSlots
<1>5. Ordered' /\ Sound' /\ Progress'
  BY <1>1 DEF IInv, Ordered, Sound, Backed, Progress
<1>6. Complete'
  BY <1>1 DEF IInv, Complete, Known, Backed
<1> QED BY <1>2, <1>3, <1>4, <1>5, <1>6 DEF IInv

\* Taking entry k out of the table and invalidating its record.
LEMMA DeleteByIndexIInv ==
  ASSUME IInv, pc = "idle", NEW k \in 1 .. Len(tbl), DeleteByIndex(k),
         UNCHANGED <<cfgIdx, i>>, pc' \in {"idle", "replace"},
         adr' \in Device \cup {NoDevice},
         pc' = "replace" => adr' \in Device /\ cfgIdx < NSlots + AddCap
  PROVE  IInv'
<1> USE IInvFacts
<1> DEFINE r == tbl[k].slot
<1>1. /\ flash' = [flash EXCEPT ![r] = Erased] /\ r \in Slots
      /\ flash \in [Slots -> Device \cup {Blank, Erased}]
      /\ tbl \in Seq(Entry) /\ tbl' = RemoveAt(tbl, k)
      /\ flash[r] \in Device
  BY DEF DeleteByIndex, IInv, TypeOK, Sound, Backed
<1>2. /\ tbl' \in Seq(Entry) /\ Len(tbl') = Len(tbl) - 1
      /\ DOMAIN tbl' = 1 .. Len(tbl) - 1
      /\ \A j \in 1 .. Len(tbl) - 1 :
           tbl'[j] = IF j < k THEN tbl[j] ELSE tbl[j + 1]
  <2>1. /\ RemoveAt(tbl, k) \in Seq(Entry)
        /\ Len(RemoveAt(tbl, k)) = Len(tbl) - 1
        /\ \A j \in 1 .. Len(tbl) - 1 :
             RemoveAt(tbl, k)[j] = IF j < k THEN tbl[j] ELSE tbl[j + 1]
    BY <1>1, RemoveAtProperties
  <2> QED BY <1>1, <2>1, LenProperties
<1>3. ASSUME NEW j \in 1 .. Len(tbl) - 1
      PROVE  \E m \in 1 .. Len(tbl) :
               /\ tbl'[j] = tbl[m] /\ m # k
               /\ m = IF j < k THEN j ELSE j + 1
  BY <1>2
<1>4. \A m \in 1 .. Len(tbl) : m # k => tbl[m].slot # r
  <2> SUFFICES ASSUME NEW m \in 1 .. Len(tbl), m # k
               PROVE  tbl[m].slot # tbl[k].slot
    OBVIOUS
  <2>1. tbl[m].slot \in Int /\ tbl[k].slot \in Int
    BY DEF Slots
  <2>2. m < k \/ k < m
    OBVIOUS
  <2> QED BY <2>1, <2>2 DEF IInv, Ordered
<1>5. \A s \in Slots : flash'[s] = IF s = r THEN Erased ELSE flash[s]
  BY <1>1
<1> HIDE DEF r
<1>6. TypeOK'
  <2>1. flash' \in [Slots -> Device \cup {Blank, Erased}]
    BY <1>1
  <2> QED BY <1>2, <2>1 DEF IInv, TypeOK, PCs
<1>7. Frontier'
  BY <1>1, <1>5, MarksAssumption
     DEF IInv, Frontier, LogIsDense, Positioned
<1>8. FewRecords'
  <2>1. LiveSlots' \subseteq LiveSlots
    BY <1>1, <1>5 DEF LiveSlots
  <2> QED BY <2>1, FewerRecords DEF IInv
<1>9. Ordered'
  <2> SUFFICES ASSUME NEW a \in 1 .. Len(tbl) - 1, NEW b \in 1 .. Len(tbl) - 1,
                      a < b
               PROVE  tbl'[a].slot < tbl'[b].slot
    BY <1>2 DEF Ordered
  <2>1. PICK m \in 1 .. Len(tbl) :
          tbl'[a] = tbl[m] /\ m = IF a < k THEN a ELSE a + 1
    BY <1>3
  <2>2. PICK n \in 1 .. Len(tbl) :
          tbl'[b] = tbl[n] /\ n = IF b < k THEN b ELSE b + 1
    BY <1>3
  <2>3. m < n
    BY <2>1, <2>2
  <2> QED BY <2>1, <2>2, <2>3 DEF IInv, Ordered
<1>10. Sound'
  <2> SUFFICES ASSUME NEW j \in 1 .. Len(tbl) - 1
               PROVE  flash'[tbl'[j].slot] = tbl'[j].dev
    BY <1>2 DEF Sound
  <2>1. PICK m \in 1 .. Len(tbl) : tbl'[j] = tbl[m] /\ m # k
    BY <1>3
  <2> QED BY <1>4, <1>5, <2>1 DEF IInv, Sound, Backed
<1>11. Complete'
  <2> SUFFICES ASSUME NEW s \in Slots, flash'[s] \in Device
               PROVE  \E j \in 1 .. Len(tbl) - 1 : tbl'[j].slot = s
    BY <1>2 DEF Complete, Known, Backed
  <2>1. s # r /\ flash[s] \in Device
    BY <1>5, MarksAssumption
  <2>2. PICK m \in 1 .. Len(tbl) : tbl[m].slot = s
    BY <2>1 DEF IInv, Complete, Known
  <2>3. m # k
    BY <2>1, <2>2 DEF r
  <2>4. CASE m < k
    <3>1. m \in 1 .. Len(tbl) - 1 /\ tbl'[m] = tbl[m]
      BY <1>2, <2>4
    <3> QED BY <2>2, <3>1
  <2>5. CASE m > k
    <3>1. m - 1 \in 1 .. Len(tbl) - 1 /\ tbl'[m - 1] = tbl[m]
      BY <1>2, <2>5
    <3> QED BY <2>2, <3>1
  <2> QED BY <2>3, <2>4, <2>5
<1>12. Progress'
  BY <1>2 DEF Progress
<1> QED BY <1>6, <1>7, <1>8, <1>9, <1>10, <1>11, <1>12 DEF IInv

\* Appending a record for d, or finding the sector at its end.
LEMMA StoreIInv ==
  ASSUME IInv, pc \in {"idle", "replace"}, Len(tbl) < MaxBonds,
         cfgIdx < NSlots + AddCap, NEW d \in Device, Store(d),
         pc' = "idle", i' = i, adr' \in Device \cup {NoDevice}
  PROVE  IInv'
<1> USE IInvFacts
<1>1. CASE cfgIdx + 1 >= NSlots
  <2>1. UNCHANGED <<flash, tbl>> /\ cfgIdx' = cfgIdx + 1
    BY <1>1 DEF Store
  <2>2. TypeOK'
    BY <2>1, AddCapAssumption DEF IInv, TypeOK, PCs
  <2>3. Frontier'
    BY <1>1, <2>1 DEF IInv, Frontier, LogIsDense, Positioned, Slots
  <2>4. FewRecords'
    BY <2>1 DEF IInv, FewRecords, LiveSlots
  <2>5. Ordered' /\ Sound' /\ Progress'
    BY <2>1 DEF IInv, Ordered, Sound, Backed, Progress
  <2>6. Complete'
    BY <2>1 DEF IInv, Complete, Known, Backed
  <2> QED BY <2>2, <2>3, <2>4, <2>5, <2>6 DEF IInv
<1>2. CASE cfgIdx + 1 < NSlots
  <2> DEFINE c == cfgIdx + 1
             e == [slot |-> c, dev |-> d]
  <2>1. /\ cfgIdx' = c /\ flash' = [flash EXCEPT ![c] = d]
        /\ tbl' = Append(tbl, e) /\ tbl \in Seq(Entry)
        /\ flash \in [Slots -> Device \cup {Blank, Erased}]
        /\ c \in Slots /\ c = cfgIdx + 1
    BY <1>2 DEF Store, IInv, TypeOK, Slots
  <2>2. e \in Entry /\ e.slot = c /\ e.dev = d
    BY <2>1 DEF Entry
  <2> HIDE DEF c, e
  <2>3. /\ tbl' \in Seq(Entry) /\ Len(tbl') = Len(tbl) + 1
        /\ \A k \in 1 .. Len(tbl) : tbl'[k] = tbl[k]
        /\ tbl'[Len(tbl) + 1] = e
        /\ DOMAIN tbl' = 1 .. Len(tbl) + 1
    BY <2>1, <2>2, AppendProperties, LenProperties
  <2>4. \A s \in Slots : flash'[s] = IF s = c THEN d ELSE flash[s]
    BY <2>1
  <2>5. \A k \in 1 .. Len(tbl) : tbl[k].slot < c
    <3> SUFFICES ASSUME NEW k \in 1 .. Len(tbl) PROVE tbl[k].slot < c
      OBVIOUS
    <3>1. flash[tbl[k].slot] = tbl[k].dev /\ tbl[k].slot \in Slots
      BY DEF IInv, Sound, Backed
    <3>2. flash[tbl[k].slot] # Blank
      BY <3>1, MarksAssumption
    <3>3. tbl[k].slot <= cfgIdx
      BY <3>1, <3>2 DEF IInv, Frontier, Positioned
    <3> QED BY <2>1, <3>1, <3>3 DEF Slots
  <2>6. TypeOK'
    <3>1. flash' \in [Slots -> Device \cup {Blank, Erased}]
      BY <2>1
    <3>2. cfgIdx' \in -1 .. NSlots + AddCap
      BY <1>2, <2>1, AddCapAssumption DEF Slots
    <3> QED BY <2>3, <3>1, <3>2 DEF IInv, TypeOK, PCs
  <2>7. Frontier'
    BY <2>1, <2>4, MarksAssumption
       DEF IInv, Frontier, LogIsDense, Positioned, Slots
  <2>8. Ordered' /\ Progress'
    BY <2>1, <2>2, <2>3, <2>5 DEF IInv, Ordered, Progress, Slots
  <2>9. Sound'
    <3> SUFFICES ASSUME NEW k \in 1 .. Len(tbl) + 1
                 PROVE  flash'[tbl'[k].slot] = tbl'[k].dev
      BY <2>3 DEF Sound
    <3>1. CASE k = Len(tbl) + 1
      BY <2>1, <2>2, <2>3, <2>4, <3>1
    <3>2. CASE k \in 1 .. Len(tbl)
      <4>1. tbl[k].slot \in Slots /\ tbl[k].slot # c
        BY <2>5, <3>2 DEF Slots
      <4>2. flash[tbl[k].slot] = tbl[k].dev
        BY <3>2 DEF IInv, Sound, Backed
      <4> QED BY <2>3, <2>4, <3>2, <4>1, <4>2
    <3> QED BY <3>1, <3>2
  <2>10. \A s \in Slots : flash'[s] \in Device =>
           \E k \in 1 .. Len(tbl) + 1 : tbl'[k].slot = s
    <3> SUFFICES ASSUME NEW s \in Slots, flash'[s] \in Device
                 PROVE  \E k \in 1 .. Len(tbl) + 1 : tbl'[k].slot = s
      OBVIOUS
    <3>1. CASE s = c
      BY <2>2, <2>3, <3>1
    <3>2. CASE s # c
      <4>1. PICK k \in 1 .. Len(tbl) : tbl[k].slot = s
        BY <2>4, <3>2 DEF IInv, Complete, Known
      <4> QED BY <2>3, <4>1
    <3> QED BY <3>1, <3>2
  <2>11. Complete'
    BY <2>3, <2>10 DEF Complete, Known, Backed
  <2>12. FewRecords'
    <3>1. Len(tbl) + 1 \in 0 .. Len(tbl')
      BY <2>3
    <3>2. Cardinality(LiveSlots') <= Len(tbl) + 1 /\ IsFiniteSet(LiveSlots')
      BY <2>3, <2>10, <3>1, NamedByTable DEF LiveSlots
    <3> QED BY <3>2, FS_CardinalityType DEF FewRecords
  <2> QED BY <2>6, <2>7, <2>8, <2>9, <2>11, <2>12 DEF IInv
<1> QED BY <1>1, <1>2

LEMMA AddIInv == ASSUME NEW d \in Device PROVE IInv /\ Add(d) => IInv'
<1> SUFFICES ASSUME IInv, Add(d) PROVE IInv'
  OBVIOUS
<1>1. adr \in Device \cup {NoDevice}
  BY DEF IInv, TypeOK
<1> QED BY <1>1, StoreIInv DEF Add, CanAdd

LEMMA AddEvictIInv ==
  ASSUME NEW d \in Device PROVE IInv /\ AddEvict(d) => IInv'
<1> SUFFICES ASSUME IInv, AddEvict(d) PROVE IInv'
  OBVIOUS
<1>1. 1 \in 1 .. Len(tbl)
  BY IInvFacts, MaxBondsAssumption DEF AddEvict
<1> QED BY <1>1, DeleteByIndexIInv DEF AddEvict, CanAdd

LEMMA AddReplaceIInv == IInv /\ AddReplace => IInv'
<1> SUFFICES ASSUME IInv, AddReplace PROVE IInv'
  OBVIOUS
<1>1. adr \in Device /\ Len(tbl) < MaxBonds /\ cfgIdx < NSlots + AddCap
  BY DEF AddReplace, IInv, Progress
<1> QED BY <1>1, StoreIInv DEF AddReplace

LEMMA DeleteByAdrIInv ==
  ASSUME NEW d \in Device PROVE IInv /\ DeleteByAdr(d) => IInv'
<1> SUFFICES ASSUME IInv, DeleteByAdr(d) PROVE IInv'
  OBVIOUS
<1>1. tbl \in Seq(Entry) /\ adr \in Device \cup {NoDevice}
  BY DEF IInv, TypeOK
<1>2. PICK k \in 1 .. Len(tbl) : DeleteByIndex(k)
  BY IInvFacts DEF DeleteByAdr
<1> QED BY <1>1, <1>2, DeleteByIndexIInv DEF DeleteByAdr

LEMMA UnpairIInv == IInv /\ Unpair => IInv'
<1> SUFFICES ASSUME IInv, Unpair PROVE IInv'
  OBVIOUS
<1> USE IInvFacts
<1>1. /\ pc = "idle" /\ pc' = "unpair" /\ i' = 1
      /\ UNCHANGED <<flash, tbl, cfgIdx, adr>>
  BY DEF Unpair
<1>2. TypeOK'
  BY <1>1 DEF IInv, TypeOK, PCs
<1>3. Frontier'
  BY <1>1 DEF IInv, Frontier, LogIsDense, Positioned
<1>4. FewRecords'
  BY <1>1 DEF IInv, FewRecords, LiveSlots
<1>5. Ordered' /\ Sound' /\ Progress'
  BY <1>1 DEF IInv, Ordered, Sound, Backed, Progress
<1>6. Complete'
  BY <1>1 DEF IInv, Complete, Known, Backed
<1> QED BY <1>2, <1>3, <1>4, <1>5, <1>6 DEF IInv

LEMMA UnpairEraseIInv == IInv /\ UnpairErase => IInv'
<1> SUFFICES ASSUME IInv, UnpairErase PROVE IInv'
  OBVIOUS
<1> USE IInvFacts
<1> DEFINE r == tbl[i].slot
<1>1. /\ pc = "unpair" /\ pc' = "unpair" /\ i \in 1 .. Len(tbl) /\ i' = i + 1
      /\ flash' = [flash EXCEPT ![r] = Erased] /\ r \in Slots
      /\ flash \in [Slots -> Device \cup {Blank, Erased}]
      /\ flash[r] \in Device
      /\ UNCHANGED <<tbl, cfgIdx, adr>>
  <2>1. pc = "unpair" /\ i \in 1 .. Len(tbl)
    BY DEF UnpairErase, IInv, TypeOK
  <2>2. flash[r] = tbl[i].dev
    BY <2>1 DEF IInv, Sound, Backed
  <2> QED BY <2>1, <2>2 DEF UnpairErase, IInv, TypeOK
<1>2. \A s \in Slots : flash'[s] = IF s = r THEN Erased ELSE flash[s]
  BY <1>1
<1>3. \A m \in 1 .. Len(tbl) : m # i => tbl[m].slot # r
  <2> SUFFICES ASSUME NEW m \in 1 .. Len(tbl), m # i
               PROVE  tbl[m].slot # tbl[i].slot
    OBVIOUS
  <2>1. tbl[m].slot \in Int /\ tbl[i].slot \in Int
    BY <1>1 DEF Slots
  <2>2. m < i \/ i < m
    BY <1>1
  <2> QED BY <1>1, <2>1, <2>2 DEF IInv, Ordered
<1> HIDE DEF r
<1>4. TypeOK'
  <2>1. flash' \in [Slots -> Device \cup {Blank, Erased}]
    BY <1>1
  <2> QED BY <1>1, <2>1 DEF IInv, TypeOK, PCs
<1>5. Frontier'
  BY <1>1, <1>2, MarksAssumption DEF IInv, Frontier, LogIsDense, Positioned
<1>6. FewRecords'
  <2>1. LiveSlots' \subseteq LiveSlots
    BY <1>1, <1>2 DEF LiveSlots
  <2> QED BY <2>1, FewerRecords DEF IInv
<1>7. Ordered' /\ Progress'
  BY <1>1 DEF IInv, Ordered, Progress
<1>8. Sound'
  BY <1>1, <1>2, <1>3 DEF IInv, Sound, Backed
<1>9. Complete'
  BY <1>1, <1>2, MarksAssumption DEF IInv, Complete, Known, Backed, r
<1> QED BY <1>4, <1>5, <1>6, <1>7, <1>8, <1>9 DEF IInv

LEMMA UnpairEndIInv == IInv /\ UnpairEnd => IInv'
<1> SUFFICES ASSUME IInv, UnpairEnd PROVE IInv'
  OBVIOUS
<1> USE IInvFacts
<1>1. /\ pc = "unpair" /\ pc' = "idle" /\ i > Len(tbl) /\ i' = 1
      /\ tbl' = <<>> /\ UNCHANGED <<flash, cfgIdx, adr>>
  BY DEF UnpairEnd
<1>2. TypeOK'
  BY <1>1 DEF IInv, TypeOK, PCs
<1>3. Frontier'
  BY <1>1 DEF IInv, Frontier, LogIsDense, Positioned
<1>4. FewRecords'
  BY <1>1 DEF IInv, FewRecords, LiveSlots
<1>5. Ordered' /\ Sound' /\ Progress'
  BY <1>1 DEF Ordered, Sound, Progress
<1>6. Complete'
  BY <1>1 DEF IInv, Complete, Known, Backed
<1> QED BY <1>2, <1>3, <1>4, <1>5, <1>6 DEF IInv

LEMMA NextIInv == IInv /\ [Next]_vars => IInv'
<1> SUFFICES ASSUME IInv, [Next]_vars PROVE IInv'
  OBVIOUS
<1>1. CASE PowerOn \/ PowerLoss
  BY <1>1, PowerOnIInv, PowerLossIInv
<1>2. CASE Boot
  BY <1>2, ScanErasedIInv, ScanBondedIInv, ScanEndIInv,
     CleanEraseIInv, CleanRewriteIInv, CleanEndIInv DEF Boot
<1>3. CASE Finish
  BY <1>3, AddReplaceIInv, UnpairEraseIInv, UnpairEndIInv DEF Finish
<1>4. CASE Unpair
  BY <1>4, UnpairIInv
<1>5. ASSUME NEW d \in Device, Add(d) \/ AddEvict(d) \/ DeleteByAdr(d)
      PROVE  IInv'
  BY <1>5, AddIInv, AddEvictIInv, DeleteByAdrIInv
<1>6. CASE UNCHANGED vars
  BY <1>6 DEF vars, IInv, TypeOK, Frontier, LogIsDense,
              Positioned, Ordered, Sound, Backed, Complete, Known, Progress,
              FewRecords, LiveSlots
<1> QED BY <1>1, <1>2, <1>3, <1>4, <1>5, <1>6 DEF Next

-----------------------------------------------------------------------------
(* The theorems.                                                           *)

\* The records of the log, the table and the running call stay consistent
\* through every interleaving of calls, boots and power failures.
THEOREM Invariance == Spec => []IInv
<1> QED BY InitIInv, NextIInv, PTL DEF Spec

\* Type correctness; in particular the table never outgrows its array and
\* no record is written outside the sector.
THEOREM TypeCorrect == Spec => []TypeOK
<1>1. IInv => TypeOK
  BY DEF IInv
<1> QED BY <1>1, Invariance, PTL

\* The "code bug" loop of flash_init is unreachable.
THEOREM NeverHaltsHolds == Spec => []NeverHalts
<1> QED BY IInvNeverHalts, Invariance, PTL

\* Between calls the log and the table say the same.
THEOREM RescanFindsTableHolds == Spec => []RescanFindsTable
<1>1. IInv => RescanFindsTable
  <2> SUFFICES ASSUME IInv, pc = "idle"
               PROVE  /\ LogIsDense
                      /\ LiveSlots = {tbl[k].slot : k \in DOMAIN tbl}
                      /\ \A k \in DOMAIN tbl : flash[tbl[k].slot] = tbl[k].dev
                      /\ \A k, m \in DOMAIN tbl :
                           k < m => tbl[k].slot < tbl[m].slot
    BY DEF RescanFindsTable
  <2>1. \A k \in DOMAIN tbl : flash[tbl[k].slot] = tbl[k].dev
    BY DEF IInv, Sound, Backed
  <2>2. LiveSlots \subseteq {tbl[k].slot : k \in DOMAIN tbl}
    BY DEF IInv, LiveSlots, Complete, Known
  <2>3. {tbl[k].slot : k \in DOMAIN tbl} \subseteq LiveSlots
    BY <2>1, IInvFacts DEF LiveSlots
  <2> QED BY <2>1, <2>2, <2>3 DEF IInv, Frontier, Ordered
<1> QED BY <1>1, Invariance, PTL

\* No record is programmed twice without an erase in between.
THEOREM ProgramsOnlyBlankHolds == Spec => ProgramsOnlyBlank
<1> DEFINE Legal == \A s \in Slots : flash'[s] # flash[s] =>
                      \/ flash[s] = Blank /\ flash'[s] \in Device
                      \/ flash[s] \in Device /\ flash'[s] = Erased
                      \/ pc = "clean" /\ flash'[s] = Blank
<1>1. ASSUME IInv, NEW k \in 1 .. Len(tbl), Backed(k),
             flash' = [flash EXCEPT ![tbl[k].slot] = Erased]
      PROVE  Legal
  <2>1. flash[tbl[k].slot] \in Device
    BY <1>1, IInvFacts DEF IInv, Sound
  <2> QED BY <1>1, <2>1, IInvFacts DEF IInv, TypeOK
<1>2. ASSUME IInv, Positioned, NEW d \in Device,
             flash' = [flash EXCEPT ![cfgIdx + 1] = d]
      PROVE  Legal
  <2>1. cfgIdx + 1 \in Slots => flash[cfgIdx + 1] = Blank
    BY <1>2, IInvFacts DEF IInv, Frontier, Slots
  <2> QED BY <1>2, <2>1 DEF IInv, TypeOK
<1>3. ASSUME IInv, [Next]_vars PROVE Legal
  <2> USE IInvFacts, <1>3
  <2>1. CASE UNCHANGED flash
    BY <2>1
  <2>2. CASE CleanErase
    BY <2>2 DEF CleanErase
  <2>3. CASE CleanRewrite
    <3>1. Positioned /\ i \in 1 .. Len(tbl)
      BY <2>3 DEF CleanRewrite, Positioned, IInv, TypeOK
    <3> QED BY <1>2, <2>3, <3>1 DEF CleanRewrite
  <2>4. ASSUME NEW d \in Device, Store(d), Positioned
        PROVE  Legal
    BY <1>2, <2>1, <2>4 DEF Store
  <2>5. CASE AddReplace
    <3>1. adr \in Device /\ Positioned
      BY <2>5 DEF AddReplace, IInv, Progress, Positioned
    <3> QED BY <2>4, <2>5, <3>1 DEF AddReplace
  <2>6. CASE UnpairErase
    <3>1. i \in 1 .. Len(tbl) /\ Backed(i)
      BY <2>6 DEF UnpairErase, Backed, IInv, TypeOK
    <3> QED BY <1>1, <2>6, <3>1 DEF UnpairErase
  <2>7. ASSUME NEW d \in Device, Add(d) \/ AddEvict(d) \/ DeleteByAdr(d)
        PROVE  Legal
    <3>1. pc = "idle" /\ Positioned
      BY <2>7 DEF Add, AddEvict, DeleteByAdr, CanAdd, Positioned
    <3>2. CASE Add(d)
      BY <2>4, <3>1, <3>2 DEF Add
    <3>3. ASSUME NEW k \in 1 .. Len(tbl), DeleteByIndex(k)
          PROVE  Legal
      BY <1>1, <3>1, <3>3 DEF DeleteByIndex, Backed
    <3>4. CASE AddEvict(d)
      <4>1. 1 \in 1 .. Len(tbl)
        BY <3>4, MaxBondsAssumption DEF AddEvict
      <4> QED BY <3>3, <3>4, <4>1 DEF AddEvict
    <3>5. CASE DeleteByAdr(d)
      BY <3>3, <3>5 DEF DeleteByAdr
    <3> QED BY <2>7, <3>2, <3>4, <3>5
  <2>8. CASE PowerOn \/ PowerLoss \/ Unpair \/ UnpairEnd
    BY <2>1, <2>8 DEF PowerOn, PowerLoss, Unpair, UnpairEnd
  <2>9. CASE ScanErased \/ ScanBonded \/ ScanEnd \/ CleanEnd
    BY <2>1, <2>9
       DEF ScanErased, ScanBonded, ScanEnd, CleanEnd
  <2>10. CASE UNCHANGED vars
    BY <2>1, <2>10 DEF vars
  <2> QED BY <2>2, <2>3, <2>5, <2>6, <2>7, <2>8, <2>9, <2>10
          DEF Next, Boot, Finish
<1>4. ASSUME IInv, [Next]_vars PROVE [Legal]_vars
  BY <1>3, <1>4
<1> QED BY <1>4, Invariance, PTL DEF Spec, ProgramsOnlyBlank

-----------------------------------------------------------------------------
(* The store and its abstract specification: BondStore.                    *)

Nth(L, k) == CHOOSE s \in L : Cardinality({r \in L : r <= s}) = k

\* In a set of n numbers in their order, the k-th is the one that k members
\* reach up to.
LEMMA NthOfOrdered ==
  ASSUME NEW n \in Nat, NEW pos \in [1 .. n -> Int], NEW L,
         \A k, m \in 1 .. n : k < m => pos[k] < pos[m],
         L = {pos[k] : k \in 1 .. n}
  PROVE  /\ Cardinality(L) = n
         /\ \A k \in 1 .. n : Nth(L, k) = pos[k]
<1> DEFINE Upto(j) == {pos[k] : k \in 1 .. j}
<1>1. ASSUME NEW j \in 0 .. n
      PROVE  IsFiniteSet(Upto(j)) /\ Cardinality(Upto(j)) = j
  <2> DEFINE f == [k \in 1 .. j |-> pos[k]]
  <2>1. f \in [1 .. j -> Upto(j)]
    OBVIOUS
  <2>2. \A k, m \in 1 .. j : f[k] = f[m] => k = m
    <3> SUFFICES ASSUME NEW k \in 1 .. j, NEW m \in 1 .. j, pos[k] = pos[m] PROVE k = m
      OBVIOUS
    <3>1. pos[k] \in Int /\ pos[m] \in Int /\ (k < m \/ m < k \/ k = m)
      OBVIOUS
    <3> QED BY <3>1
  <2>3. f \in Injection(1 .. j, Upto(j)) /\ f \in Surjection(1 .. j, Upto(j))
    BY <2>1, <2>2, Fun_IsInj DEF Surjection
  <2>4. IsFiniteSet(1 .. j) /\ Cardinality(1 .. j) = j
    BY FS_Interval
  <2>5. f \in Bijection(1 .. j, Upto(j))
    BY <2>3 DEF Bijection
  <2>6. PICK U : U = Upto(j)
    OBVIOUS
  <2> HIDE DEF f, Upto
  <2>7. f \in Bijection(1 .. j, U)
    BY <2>5, <2>6
  <2>8. IsFiniteSet(U) /\ Cardinality(1 .. j) = Cardinality(U)
    BY <2>4, <2>7, FS_Bijection DEF ExistsBijection
  <2> QED BY <2>4, <2>6, <2>8, Zenon
<1>2. ASSUME NEW j \in 1 .. n
      PROVE  {r \in L : r <= pos[j]} = Upto(j)
  <2>1. ASSUME NEW k \in 1 .. n PROVE pos[k] <= pos[j] <=> k <= j
    <3>1. pos[k] \in Int /\ pos[j] \in Int /\ (k < j => pos[k] < pos[j]) /\ (j < k => pos[j] < pos[k])
      OBVIOUS
    <3> QED BY <3>1
  <2> QED BY <2>1
<1>3. L = Upto(n) /\ n \in 0 .. n
  OBVIOUS
<1>4. \A k \in 1 .. n : Cardinality({r \in L : r <= pos[k]}) = k /\ pos[k] \in L
  <2> SUFFICES ASSUME NEW k \in 1 .. n
               PROVE  Cardinality({r \in L : r <= pos[k]}) = k /\ pos[k] \in L
    OBVIOUS
  <2>1. k \in 0 .. n /\ pos[k] \in L
    OBVIOUS
  <2> HIDE DEF Upto
  <2> QED BY <1>1, <1>2, <2>1
<1>5. \A k \in 1 .. n : \A s \in L : Cardinality({r \in L : r <= s}) = k => s = pos[k]
  BY <1>4
<1> HIDE DEF Upto
<1>6. \A k \in 1 .. n : Nth(L, k) = pos[k]
  BY <1>4, <1>5 DEF Nth
<1> QED BY <1>1, <1>3, <1>6

\* The entries whose records are in flash, once the table is loaded.
From == IF pc = "unpair" THEN i ELSE 1
To   == IF pc = "rewrite" THEN i - 1 ELSE Len(tbl)

Devices(t) == [k \in DOMAIN t |-> t[k].dev]

LogHoldsTable ==
  pc \notin {"off", "scan"} =>
    LiveDevices = [k \in 1 .. To - From + 1 |-> tbl[k + From - 1].dev]

\* The live records are those of the table, in its order.
LEMMA IInvLogHoldsTable == IInv => LogHoldsTable
<1> SUFFICES ASSUME IInv, pc \notin {"off", "scan"}
             PROVE  LiveDevices = [k \in 1 .. To - From + 1 |-> tbl[k + From - 1].dev]
  BY DEF LogHoldsTable
<1>1. PICK lo, hi : lo = From /\ hi = To
  OBVIOUS
<1>2. /\ lo \in Nat \ {0} /\ hi \in 0 .. Len(tbl) /\ lo <= hi + 1
      /\ \A k \in 1 .. Len(tbl) : k \in lo .. hi <=> Backed(k)
  <2>1. i \in 1 .. MaxBonds + 1 /\ (pc \in {"rewrite", "unpair"} => i <= Len(tbl) + 1)
        /\ Len(tbl) \in Nat
    BY IInvFacts DEF IInv, TypeOK, Progress
  <2>2. CASE pc = "unpair"
    BY <1>1, <2>1, <2>2 DEF From, To, Backed
  <2>3. CASE pc = "rewrite"
    BY <1>1, <2>1, <2>3 DEF From, To, Backed
  <2>4. CASE pc \notin {"unpair", "rewrite"}
    BY <1>1, <2>1, <2>4 DEF From, To, Backed
  <2> QED BY <2>2, <2>3, <2>4
<1>3. PICK n \in Nat : n = hi - lo + 1
  BY <1>2
<1>4. PICK pos : pos = [k \in 1 .. n |-> tbl[k + lo - 1].slot]
  OBVIOUS
<1>5. ASSUME NEW k \in 1 .. n
      PROVE  k + lo - 1 \in 1 .. Len(tbl) /\ k + lo - 1 \in lo .. hi /\ Backed(k + lo - 1)
             /\ pos[k] = tbl[k + lo - 1].slot /\ pos[k] \in Slots
  <2>1. k + lo - 1 \in 1 .. Len(tbl) /\ k + lo - 1 \in lo .. hi
    BY <1>2, <1>3, IInvFacts
  <2> QED BY <2>1, <1>2, <1>4, IInvFacts
<1>6. pos \in [1 .. n -> Int]
  BY <1>4, <1>5 DEF Slots
<1>7. \A k, m \in 1 .. n : k < m => pos[k] < pos[m]
  <2> SUFFICES ASSUME NEW k \in 1 .. n, NEW m \in 1 .. n, k < m PROVE pos[k] < pos[m]
    OBVIOUS
  <2>1. PICK a, b : a = k + lo - 1 /\ b = m + lo - 1
    OBVIOUS
  <2>2. a \in 1 .. Len(tbl) /\ b \in 1 .. Len(tbl) /\ a < b /\ Backed(b)
        /\ pos[k] = tbl[a].slot /\ pos[m] = tbl[b].slot
    BY <1>2, <1>5, <2>1, IInvFacts
  <2>3. pc = "rewrite" => b < i
    BY <2>2 DEF Backed
  <2> QED BY <2>2, <2>3, IInvFacts DEF IInv, Ordered
<1>8. LiveSlots = {pos[k] : k \in 1 .. n}
  <2>1. ASSUME NEW s \in LiveSlots PROVE s \in {pos[k] : k \in 1 .. n}
    <3>1. s \in Slots /\ flash[s] \in Device
      BY DEF LiveSlots
    <3>2. PICK k \in 1 .. Len(tbl) : Backed(k) /\ tbl[k].slot = s
      BY <3>1, IInvFacts DEF IInv, Complete, Known
    <3>3. k \in lo .. hi /\ k - lo + 1 \in 1 .. n /\ k - lo + 1 + lo - 1 = k
      BY <1>2, <1>3, <3>2, IInvFacts
    <3> QED BY <1>4, <3>2, <3>3
  <2>2. ASSUME NEW k \in 1 .. n PROVE pos[k] \in LiveSlots
    BY <1>5, IInvFacts DEF IInv, Sound, LiveSlots
  <2> QED BY <2>1, <2>2
<1>9. Cardinality(LiveSlots) = n /\ \A k \in 1 .. n : LiveSlot(k) = pos[k]
  <2>1. /\ Cardinality(LiveSlots) = n
        /\ \A k \in 1 .. n : Nth(LiveSlots, k) = pos[k]
    BY <1>6, <1>7, <1>8, NthOfOrdered
  <2>2. \A k \in 1 .. n : LiveSlot(k) = Nth(LiveSlots, k)
    BY Zenon DEF LiveSlot, Nth
  <2> QED BY <2>1, <2>2
<1>10. \A k \in 1 .. n : flash[pos[k]] = tbl[k + lo - 1].dev
  BY <1>5, IInvFacts DEF IInv, Sound
<1> QED BY <1>1, <1>3, <1>9, <1>10 DEF LiveDevices

LEMMA IInvLogHoldsTableNext == IInv' => LogHoldsTable'
BY IInvLogHoldsTable, PTL

\* In all states in which the whole table is in the log, or comes back to
\* it, the store holds what the table says.
LEMMA BondsAreDevices ==
  ASSUME IInv, pc \in {"clean", "rewrite", "idle", "replace"}
  PROVE  Bonds = Devices(tbl)
<1>1. DOMAIN tbl = 1 .. Len(tbl) /\ Len(tbl) \in Nat
  BY IInvFacts
<1>2. CASE pc = "rewrite"
  BY <1>2 DEF Bonds, Devices
<1>3. CASE pc # "rewrite"
  <2>1. From = 1 /\ To = Len(tbl)
    BY <1>3 DEF From, To
  <2>2. Bonds = [k \in 1 .. Len(tbl) - 1 + 1 |-> tbl[k + 1 - 1].dev]
    BY <1>3, <2>1, IInvLogHoldsTable DEF LogHoldsTable, Bonds
  <2>3. Len(tbl) - 1 + 1 = Len(tbl) /\ \A k \in 1 .. Len(tbl) : k + 1 - 1 = k
    BY <1>1
  <2> QED BY <1>1, <2>2, <2>3 DEF Devices
<1> QED BY <1>2, <1>3

\* What leaves the log and the kind of call alone leaves the bonds alone.
LEMMA BondsStay ==
  ASSUME flash' = flash, pc # "rewrite", pc' # "rewrite"
  PROVE  Bonds' = Bonds
<1>1. LiveSlots' = LiveSlots
  BY DEF LiveSlots
<1>2. \A k : LiveSlot(k)' = LiveSlot(k)
  BY <1>1 DEF LiveSlot
<1>3. LiveDevices' = LiveDevices
  BY <1>1, <1>2 DEF LiveDevices
<1> QED BY <1>3 DEF Bonds

\* The devices of a table without its entry k.
LEMMA DevicesWithout ==
  ASSUME NEW t \in Seq(Entry), NEW k \in 1 .. Len(t)
  PROVE  /\ Devices(t) \in Seq(Device) /\ Len(Devices(t)) = Len(t)
         /\ Devices(RemoveAt(t, k)) = RemoveAt(Devices(t), k)
<1>1. PICK d, u, n : d = Devices(t) /\ u = RemoveAt(t, k) /\ n = Len(t)
  OBVIOUS
<1>2. /\ n \in Nat /\ DOMAIN t = 1 .. n /\ k \in 1 .. n
      /\ \A j \in 1 .. n : t[j] \in Entry /\ t[j].dev \in Device
  <2>1. \A j \in 1 .. Len(t) : t[j] \in Entry
    BY ElementOfSeq
  <2> QED BY <1>1, <2>1, LenProperties DEF Entry
<1>3. d = [j \in 1 .. n |-> t[j].dev] /\ d \in Seq(Device) /\ Len(d) = n
  BY <1>1, <1>2 DEF Devices
<1>4. /\ u \in Seq(Entry) /\ Len(u) = n - 1
      /\ \A j \in 1 .. n - 1 : u[j] = IF j < k THEN t[j] ELSE t[j + 1]
  BY <1>1, RemoveAtProperties
<1>5. DOMAIN u = 1 .. n - 1
  BY <1>4, LenProperties
<1>6. PICK r : r = RemoveAt(d, k)
  OBVIOUS
<1>7. /\ r \in Seq(Device) /\ Len(r) = n - 1
      /\ \A j \in 1 .. n - 1 : r[j] = IF j < k THEN d[j] ELSE d[j + 1]
  <2>1. k \in 1 .. Len(d)
    BY <1>2, <1>3
  <2> QED BY <2>1, <1>3, <1>6, RemoveAtProperties
<1>8. r = [j \in 1 .. n - 1 |-> r[j]]
  BY <1>7
<1>9. \A j \in 1 .. n - 1 : u[j].dev = r[j]
  <2> SUFFICES ASSUME NEW j \in 1 .. n - 1 PROVE u[j].dev = r[j]
    OBVIOUS
  <2>1. j \in 1 .. n /\ j + 1 \in 1 .. n
    BY <1>2
  <2>2. d[j] = t[j].dev /\ d[j + 1] = t[j + 1].dev
    BY <2>1, <1>3
  <2>3. CASE j < k
    BY <2>2, <2>3, <1>4, <1>7
  <2>4. CASE ~(j < k)
    BY <2>2, <2>4, <1>4, <1>7
  <2> QED BY <2>3, <2>4
<1>10. Devices(u) = [j \in 1 .. n - 1 |-> u[j].dev]
  BY <1>5 DEF Devices
<1>11. Devices(u) = r
  BY <1>8, <1>9, <1>10
<1> QED BY <1>1, <1>3, <1>6, <1>11

\* The devices of a table with one more entry.
LEMMA DevicesWith ==
  ASSUME NEW t \in Seq(Entry), NEW e \in Entry
  PROVE  Devices(Append(t, e)) = Append(Devices(t), e.dev)
<1>1. PICK n, u, d : n = Len(t) /\ u = Append(t, e) /\ d = Devices(t)
  OBVIOUS
<1>2. n \in Nat /\ DOMAIN t = 1 .. n /\ \A j \in 1 .. n : t[j].dev \in Device
  <2>1. \A j \in 1 .. Len(t) : t[j] \in Entry
    BY ElementOfSeq
  <2> QED BY <1>1, <2>1, LenProperties DEF Entry
<1>3. d = [j \in 1 .. n |-> t[j].dev] /\ d \in Seq(Device) /\ Len(d) = n
  BY <1>1, <1>2 DEF Devices
<1>4. /\ u \in Seq(Entry) /\ Len(u) = n + 1 /\ DOMAIN u = 1 .. n + 1
      /\ u[n + 1] = e /\ \A j \in 1 .. n : u[j] = t[j]
  BY <1>1, <1>2, AppendProperties, LenProperties
<1>5. e.dev \in Device
  BY DEF Entry
<1>6. PICK r : r = Append(d, e.dev)
  OBVIOUS
<1>7. /\ r \in Seq(Device) /\ Len(r) = n + 1
      /\ r[n + 1] = e.dev /\ \A j \in 1 .. n : r[j] = d[j]
  BY <1>2, <1>3, <1>5, <1>6, AppendProperties
<1>8. r = [j \in 1 .. n + 1 |-> r[j]]
  BY <1>7
<1>9. \A j \in 1 .. n + 1 : u[j].dev = r[j]
  <2> SUFFICES ASSUME NEW j \in 1 .. n + 1 PROVE u[j].dev = r[j]
    OBVIOUS
  <2>1. CASE j = n + 1
    BY <2>1, <1>4, <1>7
  <2>2. CASE j # n + 1
    <3>1. j \in 1 .. n
      BY <2>2, <1>2
    <3> QED BY <3>1, <1>3, <1>4, <1>7
  <2> QED BY <2>1, <2>2
<1>10. Devices(u) = [j \in 1 .. n + 1 |-> u[j].dev]
  BY <1>4 DEF Devices
<1> QED BY <1>1, <1>6, <1>8, <1>9, <1>10

LEMMA IInvBonds ==
  IInv /\ pc \in {"clean", "rewrite", "idle", "replace"} => Bonds = Devices(tbl)
BY BondsAreDevices

LEMMA IInvBondsNext ==
  IInv' /\ pc' \in {"clean", "rewrite", "idle", "replace"} => Bonds' = Devices(tbl')
<1>1. (IInv /\ pc \in {"clean", "rewrite", "idle", "replace"} => Bonds = Devices(tbl))'
  BY IInvBonds, PTL
<1> QED BY <1>1 DEF Devices

\* user_tbl_slave_mac_delete_by_index: one bond is forgotten.
LEMMA DeleteForgets ==
  ASSUME IInv, IInv', pc = "idle", pc' \in {"idle", "replace"},
         NEW k \in 1 .. Len(tbl), DeleteByIndex(k)
  PROVE  \E j \in DOMAIN Bonds : Store_!Forget(j)
<1>1. tbl \in Seq(Entry) /\ tbl' = RemoveAt(tbl, k)
  BY DEF IInv, TypeOK, DeleteByIndex
<1>2. Bonds = Devices(tbl) /\ Bonds' = Devices(tbl')
  BY IInvBonds, IInvBondsNext
<1>3. PICK d : d = Devices(tbl)
  OBVIOUS
<1>4. d \in Seq(Device) /\ Len(d) = Len(tbl) /\ Devices(tbl') = RemoveAt(d, k)
  BY <1>1, <1>3, DevicesWithout
<1>5. k \in DOMAIN d
  BY <1>4
<1>6. RemoveAt(d, k) = Store_!RemoveAt(d, k)
  BY DEF RemoveAt, Store_!RemoveAt
<1>7. Store_!Forget(k)
  BY <1>2, <1>3, <1>4, <1>6 DEF Store_!Forget
<1> QED BY <1>2, <1>3, <1>5, <1>7

\* user_tbl_slave_mac_add: one bond is remembered, or the sector is full.
LEMMA StoreRemembers ==
  ASSUME IInv, IInv', pc \in {"idle", "replace"}, pc' = "idle",
         Len(tbl) < MaxBonds, NEW d \in Device, Store(d)
  PROVE  (\E c \in Device : Store_!Remember(c)) \/ Bonds' = Bonds
<1>1. CASE UNCHANGED <<flash, tbl>>
  BY <1>1, BondsStay
<1>2. CASE cfgIdx + 1 < NSlots /\ tbl' = Append(tbl, [slot |-> cfgIdx + 1, dev |-> d])
  <2>1. PICK e : e = [slot |-> cfgIdx + 1, dev |-> d]
    OBVIOUS
  <2>2. e \in Entry /\ e.dev = d /\ tbl' = Append(tbl, e) /\ tbl \in Seq(Entry)
    BY <1>2, <2>1, IInvFacts DEF IInv, TypeOK, Entry, Slots
  <2>3. Bonds = Devices(tbl) /\ Bonds' = Devices(tbl')
    BY IInvBonds, IInvBondsNext
  <2>4. Devices(tbl') = Append(Devices(tbl), d)
    BY <2>2, DevicesWith
  <2>5. Len(Devices(tbl)) = Len(tbl)
    <3>1. DOMAIN tbl = 1 .. Len(tbl) /\ Len(tbl) \in Nat
      BY IInvFacts
    <3> QED BY <3>1 DEF Devices
  <2> QED BY <2>3, <2>4, <2>5 DEF Store_!Remember
<1> QED BY <1>1, <1>2 DEF Store

\* user_tbl_slave_mac_delete_all: the oldest bond is forgotten.
LEMMA UnpairForgets ==
  ASSUME IInv, IInv', UnpairErase
  PROVE  \E j \in DOMAIN Bonds : Store_!Forget(j)
<1>1. /\ pc = "unpair" /\ pc' = "unpair" /\ i \in 1 .. Len(tbl) /\ i' = i + 1 /\ tbl' = tbl
  BY DEF UnpairErase, IInv, TypeOK
<1>2. PICK n \in Nat : n = Len(tbl)
  <2>1. Len(tbl) \in Nat
    BY IInvFacts
  <2> QED BY <2>1
<1>3. /\ Bonds  = [k \in 1 .. n - i + 1 |-> tbl[k + i - 1].dev]
      /\ Bonds' = [k \in 1 .. n - (i + 1) + 1 |-> tbl[k + (i + 1) - 1].dev]
  <2>1. From = i /\ To = n /\ From' = i + 1 /\ To' = n
    BY <1>1, <1>2 DEF From, To
  <2>2. LiveDevices = [k \in 1 .. n - i + 1 |-> tbl[k + i - 1].dev]
    BY <1>1, <2>1, IInvLogHoldsTable DEF LogHoldsTable
  <2>3. LiveDevices' = [k \in 1 .. n - (i + 1) + 1 |-> tbl'[k + (i + 1) - 1].dev]
    BY <1>1, <2>1, IInvLogHoldsTableNext DEF LogHoldsTable
  <2> QED BY <1>1, <2>2, <2>3 DEF Bonds
<1>4. \A k \in 1 .. n : tbl[k].dev \in Device
  BY <1>2, IInvFacts
<1>5. PICK b, q : b = Bonds /\ q = n - i + 1
  OBVIOUS
<1>6. /\ q \in Nat /\ 1 \in 1 .. q /\ i \in Nat
      /\ \A k \in 1 .. q : k + i - 1 \in 1 .. n
      /\ \A k \in 1 .. q - 1 : k + 1 \in 1 .. q /\ k + 1 + i - 1 = k + (i + 1) - 1
      /\ n - (i + 1) + 1 = q - 1
  BY <1>1, <1>2, <1>5
<1>7. /\ b \in Seq(Device) /\ Len(b) = q
      /\ \A k \in 1 .. q : b[k] = tbl[k + i - 1].dev
  BY <1>3, <1>4, <1>5, <1>6
<1>8. PICK r : r = RemoveAt(b, 1)
  OBVIOUS
<1>9. /\ r \in Seq(Device) /\ Len(r) = q - 1
      /\ \A k \in 1 .. q - 1 : r[k] = IF k < 1 THEN b[k] ELSE b[k + 1]
  <2>1. 1 \in 1 .. Len(b)
    BY <1>6, <1>7
  <2> QED BY <2>1, <1>7, <1>8, RemoveAtProperties
<1>10. \A k \in 1 .. q - 1 : r[k] = tbl[k + (i + 1) - 1].dev
  <2> SUFFICES ASSUME NEW k \in 1 .. q - 1 PROVE r[k] = tbl[k + (i + 1) - 1].dev
    OBVIOUS
  <2>1. r[k] = b[k + 1] /\ k + 1 \in 1 .. q
    BY <1>6, <1>9
  <2> QED BY <2>1, <1>6, <1>7
<1>11. r = Bonds'
  <2>1. r = [k \in 1 .. q - 1 |-> r[k]]
    BY <1>9
  <2>2. Bonds' = [k \in 1 .. q - 1 |-> tbl[k + (i + 1) - 1].dev]
    BY <1>3, <1>6
  <2> QED BY <2>1, <2>2, <1>10
<1>12. 1 \in DOMAIN b
  BY <1>6, <1>7
<1>13. RemoveAt(b, 1) = Store_!RemoveAt(b, 1)
  BY DEF RemoveAt, Store_!RemoveAt
<1>14. Store_!Forget(1)
  BY <1>5, <1>8, <1>11, <1>13 DEF Store_!Forget
<1> QED BY <1>5, <1>12, <1>14

\* Power fails while the sector is written again: the bonds that are not
\* there yet are the youngest.
LEMMA PowerLossShortens ==
  ASSUME IInv, pc = "rewrite", PowerLoss
  PROVE  (\E n \in 0 .. Len(Bonds) - 1 : Store_!LoseYoungest(n)) \/ Bonds' = Bonds
<1>1. flash' = flash /\ pc' = "off"
  BY DEF PowerLoss
<1>2. PICK b, n : b = Bonds /\ n = Len(tbl)
  OBVIOUS
<1>3. /\ n \in Nat /\ DOMAIN tbl = 1 .. n /\ i \in 1 .. n + 1
      /\ \A k \in 1 .. n : tbl[k].dev \in Device
  BY <1>2, IInvFacts DEF IInv, TypeOK, Progress
<1>4. b = [k \in 1 .. n |-> tbl[k].dev]
  BY <1>2, <1>3 DEF Bonds
<1>5. b \in Seq(Device) /\ Len(b) = n
  BY <1>3, <1>4
<1>6. LiveDevices = [k \in 1 .. i - 1 |-> tbl[k].dev]
  <2>1. From = 1 /\ To = i - 1
    BY DEF From, To
  <2>2. LiveDevices = [k \in 1 .. i - 1 - 1 + 1 |-> tbl[k + 1 - 1].dev]
    BY <2>1, IInvLogHoldsTable DEF LogHoldsTable
  <2>3. i - 1 - 1 + 1 = i - 1 /\ \A k \in 1 .. i - 1 : k + 1 - 1 = k
    BY <1>3
  <2> QED BY <2>2, <2>3
<1>7. Bonds' = LiveDevices
  <2>1. LiveSlots' = LiveSlots
    BY <1>1 DEF LiveSlots
  <2>2. \A k : LiveSlot(k)' = LiveSlot(k)
    BY <2>1 DEF LiveSlot
  <2>3. LiveDevices' = LiveDevices
    BY <1>1, <2>1, <2>2 DEF LiveDevices
  <2> QED BY <1>1, <2>3 DEF Bonds
<1>8. CASE i = n + 1
  <2>1. i - 1 = n
    BY <1>8, <1>3
  <2> QED BY <2>1, <1>2, <1>4, <1>6, <1>7
<1>9. CASE i <= n
  <2>1. i - 1 \in 0 .. Len(b) - 1
    BY <1>3, <1>5, <1>9
  <2>2. PICK r : r = SubSeq(b, 1, i - 1)
    OBVIOUS
  <2>3. /\ r \in Seq(Device) /\ Len(r) = i - 1
        /\ \A k \in 1 .. i - 1 : r[k] = b[k]
    <3>1. \A k \in 1 .. i - 1 : b[k] \in Device
      BY <1>3, <1>4, <1>9
    <3> QED BY <3>1, <2>2, <1>3, <1>5, <1>9
  <2>4. r = [k \in 1 .. i - 1 |-> r[k]]
    BY <2>3
  <2>5. \A k \in 1 .. i - 1 : r[k] = tbl[k].dev
    <3>1. \A k \in 1 .. i - 1 : k \in 1 .. n
      BY <1>3, <1>9
    <3>2. \A k \in 1 .. n : b[k] = tbl[k].dev
      BY <1>4
    <3> QED BY <2>3, <3>1, <3>2
  <2>6. Bonds' = r
    BY <2>4, <2>5, <1>6, <1>7
  <2> QED BY <2>1, <2>2, <2>6, <1>2 DEF Store_!LoseYoungest
<1> QED BY <1>3, <1>8, <1>9

LEMMA NextRefines ==
  ASSUME IInv, IInv', [Next]_vars
  PROVE  [Store_!Next]_Bonds
<1> SUFFICES Store_!Next \/ Bonds' = Bonds
  OBVIOUS
<1>1. CASE PowerOn \/ ScanErased \/ ScanBonded \/ ScanEnd \/ Unpair \/ UnpairEnd
  <2>1. flash' = flash /\ pc # "rewrite" /\ pc' # "rewrite"
    BY <1>1 DEF PowerOn, ScanErased, ScanBonded, ScanEnd, Unpair, UnpairEnd, Scanning
  <2> QED BY <2>1, BondsStay
<1>2. CASE PowerLoss
  <2>1. CASE pc = "rewrite"
    BY <1>2, <2>1, PowerLossShortens DEF Store_!Next
  <2>2. CASE pc # "rewrite"
    <3>1. flash' = flash /\ pc' # "rewrite"
      BY <1>2 DEF PowerLoss
    <3> QED BY <2>2, <3>1, BondsStay
  <2> QED BY <2>1, <2>2
<1>3. CASE CleanErase \/ CleanEnd
  <2>1. pc \in {"clean", "rewrite"} /\ pc' \in {"rewrite", "idle"} /\ tbl' = tbl
    BY <1>3 DEF CleanErase, CleanEnd
  <2> QED BY <2>1, IInvBonds, IInvBondsNext
<1>4. CASE CleanRewrite
  <2>1. /\ pc = "rewrite" /\ pc' = "rewrite" /\ tbl' = [tbl EXCEPT ![i].slot = cfgIdx + 1]
        /\ i \in DOMAIN tbl
    BY <1>4, IInvFacts DEF CleanRewrite, IInv, TypeOK
  <2>2. DOMAIN tbl' = DOMAIN tbl /\ \A k \in DOMAIN tbl : tbl'[k].dev = tbl[k].dev
    <3>1. DOMAIN tbl' = DOMAIN tbl
      BY <2>1
    <3>2. ASSUME NEW k \in DOMAIN tbl PROVE tbl'[k].dev = tbl[k].dev
      <4>1. tbl[k] \in Entry
        BY IInvFacts
      <4>2. tbl'[k] = IF k = i THEN [tbl[k] EXCEPT !.slot = cfgIdx + 1] ELSE tbl[k]
        BY <2>1
      <4> QED BY <4>1, <4>2 DEF Entry
    <3> QED BY <3>1, <3>2
  <2> QED BY <2>1, <2>2 DEF Bonds
<1>5. CASE AddReplace
  <2>1. /\ pc = "replace" /\ pc' = "idle" /\ Store(adr) /\ adr \in Device /\ Len(tbl) < MaxBonds
    BY <1>5 DEF AddReplace, IInv, Progress
  <2> QED BY <2>1, StoreRemembers DEF Store_!Next
<1>6. CASE UnpairErase
  BY <1>6, UnpairForgets DEF Store_!Next
<1>7. ASSUME NEW d \in Device, Add(d)
      PROVE  Store_!Next \/ Bonds' = Bonds
  <2>1. pc = "idle" /\ pc' = "idle" /\ Store(d) /\ Len(tbl) < MaxBonds
    BY <1>7 DEF Add, CanAdd
  <2> QED BY <2>1, StoreRemembers DEF Store_!Next
<1>8. ASSUME NEW d \in Device, AddEvict(d)
      PROVE  Store_!Next \/ Bonds' = Bonds
  <2>1. pc = "idle" /\ pc' = "replace" /\ DeleteByIndex(1) /\ 1 \in 1 .. Len(tbl)
    BY <1>8, IInvFacts, MaxBondsAssumption DEF AddEvict, CanAdd
  <2> QED BY <2>1, DeleteForgets DEF Store_!Next
<1>9. ASSUME NEW d \in Device, DeleteByAdr(d)
      PROVE  Store_!Next \/ Bonds' = Bonds
  <2>1. pc = "idle" /\ pc' = "idle" /\ \E k \in 1 .. Len(tbl) : DeleteByIndex(k)
    BY <1>9, IInvFacts DEF DeleteByAdr
  <2> QED BY <2>1, DeleteForgets DEF Store_!Next
<1>10. CASE UNCHANGED vars
  <2>1. flash' = flash /\ tbl' = tbl /\ pc' = pc
    BY <1>10 DEF vars
  <2>2. CASE pc = "rewrite"
    BY <2>1, <2>2 DEF Bonds
  <2>3. CASE pc # "rewrite"
    BY <2>1, <2>3, BondsStay
  <2> QED BY <2>2, <2>3
<1> QED BY <1>1, <1>2, <1>3, <1>4, <1>5, <1>6, <1>7, <1>8, <1>9, <1>10
        DEF Next, Boot, Finish

LEMMA InitRefines ==
  ASSUME Init
  PROVE  Store_!Init
<1>1. LiveSlots = {} /\ pc = "off"
  BY MarksAssumption DEF Init, LiveSlots
<1>2. Cardinality(LiveSlots) = 0
  BY <1>1, FS_EmptySet
<1>3. Bonds = [k \in 1 .. 0 |-> flash[LiveSlot(k)]]
  BY <1>1, <1>2 DEF Bonds, LiveDevices
<1> QED BY <1>3 DEF Store_!Init

\* The log and the table implement the list of bonds: whatever calls, boots
\* and power failures happen, a bond enters at the young end, leaves alone,
\* never changes place and never comes back by itself; only a power failure
\* while the sector is rewritten loses bonds, and then the youngest.
THEOREM StoreImplementsBondStore == Spec => ImplementsBondStore
<1>1. ASSUME IInv, IInv', [Next]_vars PROVE [Store_!Next]_Bonds
  BY <1>1, NextRefines
<1>2. Init => Store_!Init
  BY InitRefines
<1> QED BY <1>1, <1>2, Invariance, PTL DEF Spec, ImplementsBondStore, Store_!Spec

=============================================================================
