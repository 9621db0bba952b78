--------------------------- MODULE MainLoopProofs ---------------------------
(* The three parts that main_loop polls: the keyboard scan of proc_keyboard,*)
(* the table of blt_soft_timer_process, and the log of tlkapi_debug_handler.*)
(*                                                                         *)
(* Keyboard: type correctness, and that scanning stops only with the matrix *)
(* released, for every matrix, every number of keys held down and every     *)
(* ReleaseCnt from 3 on.                                                    *)
(*                                                                         *)
(* Software timers: the table stays sorted across the wrap-around of the    *)
(* timer word and no timer is missed, for every number of timers, every     *)
(* width of the word, all margins and intervals, and callbacks that add and *)
(* delete timers in the middle of a pass.                                   *)
(*                                                                         *)
(* Debug log: what is logged comes out in order, and "not busy" means that  *)
(* it is out, for every number of slots, every width of the pointers that   *)
(* it divides, and any number of messages.                                  *)
EXTENDS Keyboard, SoftTimer, DebugLog, SequenceTheorems, WellFoundedInduction, TLAPS

-----------------------------------------------------------------------------
(* The keyboard.                                                           *)

(***************************************************************************)
(* relCnt counts down from ReleaseCnt - 1 with every scan that sees no key.*)
(* After one such scan the raw matrix is empty, after two the debounced    *)
(* matrix is, and the scans stop only when the count has reached 0.        *)
(***************************************************************************)
Countdown ==
  /\ relCnt > 0 => retLast # {}
  /\ relCnt <= ReleaseCnt - 2 => pre = {}
  /\ relCnt <= ReleaseCnt - 3 => last = {}

IInv == TypeOK /\ Countdown /\ StopsReleased

LEMMA InitIInv == Init => IInv
<1> SUFFICES ASSUME Init PROVE IInv
  OBVIOUS
<1>1. relCnt \in 0 .. ReleaseCnt - 1
  BY ReleaseAssumption DEF Init
<1>2. TypeOK
  BY <1>1 DEF Init, TypeOK
<1>3. Countdown /\ StopsReleased
  BY DEF Init, Countdown, StopsReleased
<1> QED BY <1>2, <1>3 DEF IInv

\* What one call of kb_key_pressed leaves behind.
LEMMA KeyPressedStep ==
  ASSUME TypeOK, Countdown, KeyPressed
  PROVE  /\ relCnt' \in 0 .. ReleaseCnt - 1
         /\ retLast' \subseteq Rows(Key) /\ need' \subseteq Rows(Key)
         /\ relCnt' > 0 => retLast' # {}
         /\ Rows(pressed) # {} => need' # {} /\ relCnt' = ReleaseCnt - 1
         /\ Rows(pressed) = {} /\ need' = {} => relCnt = 0 /\ relCnt' = 0
         /\ Rows(pressed) = {} /\ need' # {} => relCnt' = relCnt - 1
<1> USE ReleaseAssumption DEF TypeOK, Countdown
<1>1. Rows(pressed) \subseteq Rows(Key)
  BY DEF Rows
<1>2. CASE Rows(pressed) # {}
  BY <1>1, <1>2 DEF KeyPressed
<1>3. CASE Rows(pressed) = {} /\ relCnt > 0
  BY <1>1, <1>3 DEF KeyPressed
<1>4. CASE Rows(pressed) = {} /\ relCnt = 0
  BY <1>1, <1>4 DEF KeyPressed
<1> QED BY <1>2, <1>3, <1>4

LEMMA ScanKeyStep ==
  ASSUME IInv, ScanKey, UNCHANGED pressed
  PROVE  /\ relCnt' \in 0 .. ReleaseCnt - 1
         /\ retLast' \subseteq Rows(Key) /\ need' \subseteq Rows(Key)
         /\ pre' \subseteq Key /\ last' \subseteq Key
         /\ Countdown' /\ StopsReleased'
<1> USE ReleaseAssumption
<1>1. KeyPressed /\ TypeOK /\ Countdown /\ StopsReleased
  BY DEF ScanKey, IInv
<1>2. pre' \subseteq Key /\ last' \subseteq Key
  BY <1>1 DEF ScanKey, ScanKeyValue, Debounce, Matrix, TypeOK
<1>3. Countdown' /\ StopsReleased'
  <2>1. CASE Rows(pressed) # {}
    BY <1>1, <2>1, KeyPressedStep DEF Countdown, StopsReleased
  <2>2. CASE Rows(pressed) = {} /\ need' = {}
    BY <1>1, <2>2, KeyPressedStep DEF Countdown, StopsReleased, ScanKey,
         ScanKeyValue
  <2>3. CASE Rows(pressed) = {} /\ need' # {}
    <3>1. pressed = {}
      BY <2>3 DEF Rows
    <3>2. pre' = {} /\ last' = last \cap pre
      BY <2>3, <3>1 DEF ScanKey, ScanKeyValue, Debounce, Matrix
    <3>3. relCnt' = relCnt - 1 /\ (relCnt' > 0 => retLast' # {})
      BY <1>1, <2>3, KeyPressedStep
    <3>4. relCnt' <= ReleaseCnt - 3 => last' = {}
      BY <1>1, <3>2, <3>3 DEF Countdown, TypeOK
    <3> QED BY <2>3, <3>2, <3>3, <3>4 DEF Countdown, StopsReleased
  <2> QED BY <2>1, <2>2, <2>3
<1> QED BY <1>1, <1>2, <1>3, KeyPressedStep

UiTypeOK ==
  /\ notReleased \in BOOLEAN
  /\ keyType \in {"none", "consumer", "keyboard"}
  /\ kbReport \in (Key \ Consumer) \cup {NoKey}
  /\ coReport \in Consumer \cup {NoKey}

LEMMA KeyChangeStep ==
  ASSUME NEW K, UiTypeOK, KeyChange(K)
  PROVE  UiTypeOK'
<1>1. notReleased' \in BOOLEAN
  BY DEF KeyChange
<1>2. CASE Cardinality(K) = 2 /\ UNCHANGED <<keyType, kbReport, coReport>>
  BY <1>1, <1>2 DEF UiTypeOK
<1>3. CASE \E k \in Key : K = {k} /\ Single(k)
  BY <1>1, <1>3 DEF UiTypeOK, Single
<1>4. CASE Cardinality(K) \notin {1, 2} /\ Release
  BY <1>1, <1>4 DEF UiTypeOK, Release
<1> QED BY <1>2, <1>3, <1>4 DEF KeyChange

LEMMA StepIInv == IInv /\ [Next]_vars => IInv'
<1> SUFFICES ASSUME IInv, [Next]_vars PROVE IInv'
  OBVIOUS
<1>1. CASE Touch
  <2>1. pressed' \subseteq Key
    BY <1>1 DEF Touch, IInv, TypeOK
  <2> QED BY <1>1, <2>1
       DEF Touch, IInv, TypeOK, Countdown, StopsReleased, scanVars, uiVars
<1>2. CASE ProcKeyboard
  <2>1. ScanKey /\ UNCHANGED pressed
    BY <1>2 DEF ProcKeyboard
  <2>2. UiTypeOK'
    <3>1. UiTypeOK
      BY DEF IInv, TypeOK, UiTypeOK
    <3>2. CASE KeyChange(last')
      BY <3>1, <3>2, KeyChangeStep
    <3>3. CASE UNCHANGED uiVars
      BY <3>1, <3>3 DEF UiTypeOK, uiVars
    <3> QED BY <1>2, <3>2, <3>3 DEF ProcKeyboard
  <2>3. pressed' \subseteq Key
    BY <2>1 DEF IInv, TypeOK
  <2> QED BY <2>1, <2>2, <2>3, ScanKeyStep DEF IInv, TypeOK, UiTypeOK
<1>3. CASE UNCHANGED vars
  BY <1>3 DEF vars, scanVars, uiVars, IInv, TypeOK, Countdown, StopsReleased
<1> QED BY <1>1, <1>2, <1>3 DEF Next

\* IInv holds in every reachable state of the keyboard.
THEOREM Invariance == Spec => []IInv
  BY InitIInv, StepIInv, PTL DEF Spec

\* Type correctness: no report leaves its kind, no count its range.
THEOREM TypeCorrect == Spec => []TypeOK
<1>1. IInv => TypeOK
  BY DEF IInv
<1> QED BY <1>1, Invariance, PTL

\* When kb_scan_key asks for no scan pin, no key counts as down.
THEOREM StopsReleasedHolds == Spec => []StopsReleased
<1>1. IInv => StopsReleased
  BY DEF IInv
<1> QED BY <1>1, Invariance, PTL

-----------------------------------------------------------------------------
(* The software timers: the arithmetic of the timer word.                  *)

\* How far t lies ahead of n (below 0: behind), as the timer word tells it.
Ahead(t, n) ==
  LET d == t - n
  IN  IF d >= WordMod - SortSpan THEN d - WordMod
      ELSE IF d < -SortSpan THEN d + WordMod ELSE d

\* A timer that is overdue by MaxTimers calls of process is still in its
\* window.
Prompt == MaxTimers * MaxGap + MarginPre < MarginPost

\* How late the timer in place r may be when process has been called: the
\* places before it are served first, one call each.
Delay == [r \in 0 .. MaxTimers |-> (MaxTimers - r) * MaxGap]

LEMMA DelayFacts ==
  /\ \A r \in 0 .. MaxTimers : Delay[r] \in Nat /\ Delay[r] <= Delay[0]
  /\ \A r \in 1 .. MaxTimers : Delay[r - 1] = Delay[r] + MaxGap
  /\ Prompt => Delay[0] + MarginPre < MarginPost
<1>1. MaxGap \in Nat /\ MaxTimers \in Nat
  BY TimerAssumption
<1>2. \A x \in Nat : x * MaxGap \in Nat
  BY <1>1
<1>3. ASSUME NEW r \in 0 .. MaxTimers PROVE Delay[r] \in Nat /\ Delay[r] <= Delay[0]
  <2>1. PICK x \in Nat : x = MaxTimers - r
    BY <1>1
  <2>2. /\ Delay[r] = x * MaxGap /\ Delay[0] = MaxTimers * MaxGap
        /\ MaxTimers = x + r /\ r \in Nat
    BY <1>1, <2>1 DEF Delay
  <2>3. MaxTimers * MaxGap = x * MaxGap + r * MaxGap
    BY <1>1, <2>2
  <2> QED BY <1>2, <2>2, <2>3
<1>4. ASSUME NEW r \in 1 .. MaxTimers PROVE Delay[r - 1] = Delay[r] + MaxGap
  <2>1. PICK x \in Nat : x = MaxTimers - r
    BY <1>1
  <2>2. Delay[r] = x * MaxGap /\ Delay[r - 1] = (x + 1) * MaxGap
    BY <1>1, <2>1 DEF Delay
  <2>3. (x + 1) * MaxGap = x * MaxGap + MaxGap
    BY <1>1
  <2> QED BY <2>2, <2>3
<1>5. Delay[0] = MaxTimers * MaxGap
  BY <1>1 DEF Delay
<1> QED BY <1>3, <1>4, <1>5 DEF Prompt

LEMMA Remainder ==
  ASSUME NEW m \in Nat \ {0}, NEW x \in Int
  PROVE  /\ x % m \in 0 .. m - 1
         /\ 0 <= x /\ x < m => x % m = x
         /\ m <= x /\ x < m + m => x % m = x - m
         /\ -m <= x /\ x < 0 => x % m = x + m
<1>1. ASSUME NEW c \in Int, NEW r \in 0 .. m - 1 PROVE (c * m + r) % m = r
  OBVIOUS
<1>2. ASSUME 0 <= x, x < m PROVE x % m = x
  BY <1>2
<1>3. ASSUME m <= x, x < m + m PROVE x % m = x - m
  <2>1. x - m \in 0 .. m - 1
    BY <1>3
  <2>2. (1 * m + (x - m)) % m = x - m
    BY <1>1, <2>1
  <2>3. 1 * m + (x - m) = x
    OBVIOUS
  <2> QED BY <2>2, <2>3
<1>4. ASSUME -m <= x, x < 0 PROVE x % m = x + m
  <2>1. x + m \in 0 .. m - 1
    BY <1>4
  <2>2. ((-1) * m + (x + m)) % m = x + m
    BY <1>1, <2>1
  <2>3. (-1) * m + (x + m) = x
    OBVIOUS
  <2> QED BY <2>2, <2>3
<1>5. x % m \in 0 .. m - 1
  OBVIOUS
<1> QED BY <1>2, <1>3, <1>4, <1>5

LEMMA WordFacts ==
  /\ WordMod \in Nat \ {0} /\ SortSpan \in Nat /\ MarginPre \in Nat
  /\ MarginPost \in Nat /\ WakeSpan \in Nat /\ MaxGap \in Nat /\ MaxTimers \in Nat
  /\ MarginPre < WakeSpan /\ WakeSpan < MarginPost /\ MarginPost < SortSpan
  /\ 4 * SortSpan <= WordMod
  /\ Time = 0 .. WordMod - 1
BY TimerAssumption DEF Time

LEMMA DiffIs ==
  ASSUME NEW x \in Int, NEW y \in Int
  PROVE  /\ 0 <= x - y /\ x - y < WordMod => Diff(x, y) = x - y
         /\ WordMod <= x - y /\ x - y < WordMod + WordMod => Diff(x, y) = x - y - WordMod
         /\ -WordMod <= x - y /\ x - y < 0 => Diff(x, y) = x - y + WordMod
<1>1. PICK d \in Int : d = x - y
  OBVIOUS
<1>2. Diff(x, y) = d % WordMod
  BY <1>1 DEF Diff
<1> HIDE DEF Diff
<1>3. /\ 0 <= d /\ d < WordMod => d % WordMod = d
      /\ WordMod <= d /\ d < WordMod + WordMod => d % WordMod = d - WordMod
      /\ -WordMod <= d /\ d < 0 => d % WordMod = d + WordMod
  BY Remainder, WordFacts
<1> QED BY <1>1, <1>2, <1>3

\* A timer in the reach of TIME_COMPARE_BIG, and not later than allowed.
Close(t, n) == Ahead(t, n) >= -Delay[0] /\ Ahead(t, n) <= SortSpan - MarginPost

LEMMA AheadIs ==
  ASSUME NEW t \in Time, NEW n \in Time
  PROVE  /\ Ahead(t, n) \in Int
         /\ -SortSpan <= Ahead(t, n) /\ Ahead(t, n) < WordMod - SortSpan
         /\ \/ t - n = Ahead(t, n) \/ t - n = Ahead(t, n) + WordMod
            \/ t - n = Ahead(t, n) - WordMod
BY WordFacts DEF Ahead

LEMMA DelayIsShort ==
  ASSUME Prompt
  PROVE  Delay[0] \in Nat /\ Delay[0] + MarginPre < MarginPost
BY DelayFacts, WordFacts

\* Whether t1 is not before t2.
LEMMA CompareIs ==
  ASSUME Prompt, NEW t1 \in Time, NEW t2 \in Time, NEW n \in Time,
         Close(t1, n), Close(t2, n)
  PROVE  TimeCompareBig(t1, t2) <=> Ahead(t1, n) >= Ahead(t2, n)
<1>1. PICK x \in Int : x = Ahead(t1, n)
  BY AheadIs
<1>2. PICK y \in Int : y = Ahead(t2, n)
  BY AheadIs
<1>3. /\ t1 - n = x \/ t1 - n = x + WordMod \/ t1 - n = x - WordMod
      /\ t2 - n = y \/ t2 - n = y + WordMod \/ t2 - n = y - WordMod
  BY <1>1, <1>2, AheadIs
<1>4. -SortSpan < x - y /\ x - y < SortSpan
  BY <1>1, <1>2, DelayIsShort, WordFacts DEF Close
<1>6. t1 - t2 < WordMod /\ -WordMod < t1 - t2 /\ t1 \in Int /\ t2 \in Int /\ n \in Int
  BY WordFacts
<1>5. Diff(t1, t2) = IF t1 - t2 < 0 THEN t1 - t2 + WordMod
                     ELSE IF t1 - t2 < WordMod THEN t1 - t2 ELSE t1 - t2 - WordMod
  <2>8. /\ 0 <= t1 - t2 /\ t1 - t2 < WordMod => Diff(t1, t2) = t1 - t2
        /\ WordMod <= t1 - t2 /\ t1 - t2 < WordMod + WordMod
             => Diff(t1, t2) = t1 - t2 - WordMod
        /\ -WordMod <= t1 - t2 /\ t1 - t2 < 0 => Diff(t1, t2) = t1 - t2 + WordMod
    BY <1>6, DiffIs
  <2> QED BY <1>6, <2>8, WordFacts
<1>7. Diff(t1, t2) < SortSpan <=> x >= y
  BY <1>3, <1>4, <1>5, <1>6, WordFacts
<1> QED BY <1>1, <1>2, <1>7 DEF TimeCompareBig

LEMMA ExpiredIs ==
  ASSUME Prompt, NEW t \in Time, NEW n \in Time, Close(t, n)
  PROVE  Expired(t, n) <=> Ahead(t, n) <= MarginPre
<1>1. PICK x \in Int : x = Ahead(t, n)
  BY AheadIs
<1>2. t - n = x \/ t - n = x + WordMod \/ t - n = x - WordMod
  BY <1>1, AheadIs
<1>3. /\ -MarginPost < x - MarginPre /\ x - MarginPre <= SortSpan
      /\ x + MarginPre < MarginPost + SortSpan
  BY <1>1, DelayIsShort, WordFacts DEF Close
<1>4. /\ t \in Int /\ n \in Int /\ n + MarginPre \in Int
      /\ -WordMod < n - t /\ n - t < WordMod
      /\ -WordMod <= n + MarginPre - t /\ n + MarginPre - t < WordMod + WordMod
  BY WordFacts
<1>5. Diff(n + MarginPre, t)
        = IF n + MarginPre - t < 0 THEN n + MarginPre - t + WordMod
          ELSE IF n + MarginPre - t < WordMod THEN n + MarginPre - t
          ELSE n + MarginPre - t - WordMod
  <2>1. PICK z \in Int : z = n + MarginPre
    BY <1>4
  <2>2. Diff(z, t) = IF z - t < 0 THEN z - t + WordMod
                     ELSE IF z - t < WordMod THEN z - t ELSE z - t - WordMod
    <3>8. /\ 0 <= z - t /\ z - t < WordMod => Diff(z, t) = z - t
          /\ WordMod <= z - t /\ z - t < WordMod + WordMod
               => Diff(z, t) = z - t - WordMod
          /\ -WordMod <= z - t /\ z - t < 0 => Diff(z, t) = z - t + WordMod
      BY <1>4, DiffIs
    <3> QED BY <1>4, <2>1, <3>8, WordFacts
  <2> QED BY <1>4, <2>1, <2>2, WordFacts
<1>6. Diff(n + MarginPre, t) < MarginPost <=> x <= MarginPre
  <2>0. x >= -Delay[0] /\ x <= SortSpan - MarginPost
    BY <1>1 DEF Close
  <2>1. MarginPre - x < MarginPost /\ MarginPre - x + WordMod >= MarginPost
    BY <2>0, DelayIsShort, WordFacts
  <2> QED BY <1>2, <1>3, <1>4, <1>5, <2>1, WordFacts
<1> QED BY <1>1, <1>6 DEF Expired

LEMMA NotLate ==
  ASSUME Prompt, NEW t \in Time, NEW n \in Time, Close(t, n)
  PROVE  LET d == IF Diff(n, t) < WordMod \div 2 THEN Diff(n, t) ELSE 0
         IN  d + MarginPre < MarginPost
<1>1. PICK x \in Int : x = Ahead(t, n)
  BY AheadIs
<1>2. t - n = x \/ t - n = x + WordMod \/ t - n = x - WordMod
  BY <1>1, AheadIs
<1>3. x >= -Delay[0] /\ x <= SortSpan - MarginPost
  BY <1>1 DEF Close
<1>4. /\ t \in Int /\ n \in Int /\ -WordMod < n - t /\ n - t < WordMod
  BY WordFacts
<1>5. Diff(n, t) = IF n - t < 0 THEN n - t + WordMod
                   ELSE IF n - t < WordMod THEN n - t ELSE n - t - WordMod
  <2>8. /\ 0 <= n - t /\ n - t < WordMod => Diff(n, t) = n - t
        /\ WordMod <= n - t /\ n - t < WordMod + WordMod
             => Diff(n, t) = n - t - WordMod
        /\ -WordMod <= n - t /\ n - t < 0 => Diff(n, t) = n - t + WordMod
    BY <1>4, DiffIs
  <2> QED BY <1>4, <2>8, WordFacts
<1>6. WordMod \div 2 \in Nat /\ 2 * (WordMod \div 2) <= WordMod
  <2>1. \A w \in Nat : w \div 2 \in Nat /\ 2 * (w \div 2) <= w
    OBVIOUS
  <2> QED BY <2>1, WordFacts
<1>7. Diff(n, t) <= Delay[0] \/ Diff(n, t) >= WordMod - SortSpan
  BY <1>2, <1>3, <1>4, <1>5, DelayIsShort, WordFacts
<1>8. Diff(n, t) \in Int
  BY <1>4, <1>5, WordFacts
<1>9. WordMod - SortSpan >= WordMod \div 2
  BY <1>6, WordFacts
<1> QED BY <1>6, <1>7, <1>8, <1>9, DelayIsShort, WordFacts

\* A timer v ticks ahead, and what is left of it when time goes on.
LEMMA AheadOfNew ==
  ASSUME NEW n \in Time, NEW v \in Nat, v <= SortSpan
  PROVE  (n + v) % WordMod \in Time /\ Ahead((n + v) % WordMod, n) = v
<1>1. PICK x \in Int : x = n + v /\ 0 <= x /\ x < WordMod + WordMod
  BY WordFacts
<1>2. /\ x % WordMod \in 0 .. WordMod - 1
      /\ x < WordMod => x % WordMod = x
      /\ WordMod <= x => x % WordMod = x - WordMod
  BY <1>1, Remainder, WordFacts
<1>3. PICK y \in Int : y = x % WordMod
  BY <1>2
<1>4. y \in Time /\ (y = n + v \/ y = n + v - WordMod) /\ n \in Int
  BY <1>1, <1>2, <1>3, WordFacts
<1>5. Ahead(y, n) = v
  BY <1>4, WordFacts DEF Ahead
<1> QED BY <1>1, <1>3, <1>4, <1>5

LEMMA AheadAtTick ==
  ASSUME Prompt, NEW t \in Time, NEW n \in Time, Close(t, n)
  PROVE  /\ (n + 1) % WordMod \in Time
         /\ Ahead(t, (n + 1) % WordMod) = Ahead(t, n) - 1
<1>1. PICK y \in Int : y = (n + 1) % WordMod /\ y \in Time /\ (y = n + 1 \/ y = n + 1 - WordMod)
  <2>1. PICK x \in Int : x = n + 1 /\ 0 <= x /\ x < WordMod + WordMod
    BY WordFacts
  <2>2. /\ x % WordMod \in 0 .. WordMod - 1
        /\ x < WordMod => x % WordMod = x
        /\ WordMod <= x => x % WordMod = x - WordMod
    BY <2>1, Remainder, WordFacts
  <2>3. PICK y \in Int : y = x % WordMod
    BY <2>2
  <2>4. y \in Time /\ (y = n + 1 \/ y = n + 1 - WordMod)
    BY <2>1, <2>2, <2>3, WordFacts
  <2> QED BY <2>1, <2>3, <2>4
<1>2. PICK x \in Int : x = Ahead(t, n)
  BY AheadIs
<1>3. /\ t - n = x \/ t - n = x + WordMod \/ t - n = x - WordMod
      /\ x >= -Delay[0] /\ x <= SortSpan - MarginPost
  BY <1>2, AheadIs DEF Close
<1>4. /\ t \in Int /\ n \in Int /\ -WordMod < t - y /\ t - y < WordMod
      /\ x - 1 > -SortSpan /\ x - 1 < WordMod - SortSpan
  BY <1>1, <1>3, DelayIsShort, WordFacts
<1>5. t - y = x - 1 \/ t - y = x - 1 + WordMod \/ t - y = x - 1 - WordMod
  <2>1. \/ t - y = x - 1 \/ t - y = x - 1 + WordMod \/ t - y = x - 1 - WordMod
        \/ t - y = x - 1 + (WordMod + WordMod)
    BY <1>1, <1>3, <1>4, WordFacts
  <2> QED BY <1>4, <2>1, DelayIsShort, WordFacts
<1>6. Ahead(t, y) = x - 1
  BY <1>1, <1>4, <1>5, WordFacts DEF Ahead
<1> QED BY <1>1, <1>2, <1>6

-----------------------------------------------------------------------------
(* The software timers: sorting.                                           *)

Near(s, n) == \A r \in 1 .. Len(s) : Close(s[r].t, n)

\* The latest timers of s, those behind place q, are in order.
TopInOrder(s, n, q) ==
  \A r, m \in 1 .. Len(s) : r < m /\ q < m => Ahead(s[r].t, n) <= Ahead(s[m].t, n)

InOrder(s, n) == TopInOrder(s, n, 0)

\* No timer of s is later than its place allows, x ticks after the call.
InTime(s, n, x) == \A r \in 1 .. Len(s) : Ahead(s[r].t, n) >= -(Delay[r] + x)

\* The same when one of the timers has been served and is not yet back in
\* its place: those behind it are one place further than they will be.
ServedAt(s, n, p) ==
  \A r \in 1 .. Len(s) : Ahead(s[r].t, n) >= IF r < p THEN -Delay[r]
                                             ELSE IF r = p THEN 0 ELSE -Delay[r - 1]

Served(s, n) == \E p \in 1 .. Len(s) + 1 : ServedAt(s, n, p)

\* What sorting keeps.
Keeps(s, c, n) ==
  /\ c \in Seq(Timer) /\ Len(c) = Len(s) /\ Near(c, n)
  /\ \A x \in Nat : InTime(s, n, x) => InTime(c, n, x)
  /\ Served(s, n) => Served(c, n)

LEMMA SwapIs ==
  ASSUME Prompt, NEW n \in Time, NEW s \in Seq(Timer), Near(s, n), NEW j \in 1 .. Len(s) - 1
  PROVE  /\ CompareAndSwap(s, j) \in Seq(Timer) /\ Len(CompareAndSwap(s, j)) = Len(s)
         /\ \A r \in 1 .. Len(s) : r # j /\ r # j + 1 => CompareAndSwap(s, j)[r] = s[r]
         /\ \/ /\ Ahead(s[j].t, n) >= Ahead(s[j + 1].t, n)
               /\ CompareAndSwap(s, j)[j] = s[j + 1] /\ CompareAndSwap(s, j)[j + 1] = s[j]
            \/ /\ Ahead(s[j].t, n) < Ahead(s[j + 1].t, n)
               /\ CompareAndSwap(s, j)[j] = s[j] /\ CompareAndSwap(s, j)[j + 1] = s[j + 1]
<1>1. /\ j \in 1 .. Len(s) /\ j + 1 \in 1 .. Len(s) /\ j # j + 1
      /\ s[j] \in Timer /\ s[j + 1] \in Timer
  OBVIOUS
<1>2. s[j].t \in Time /\ s[j + 1].t \in Time
  BY <1>1 DEF Timer
<1>3. TimeCompareBig(s[j].t, s[j + 1].t) <=> Ahead(s[j].t, n) >= Ahead(s[j + 1].t, n)
  BY <1>1, <1>2, CompareIs DEF Near
<1>4. Ahead(s[j].t, n) \in Int /\ Ahead(s[j + 1].t, n) \in Int
  BY <1>2, AheadIs
<1>5. CASE TimeCompareBig(s[j].t, s[j + 1].t)
  <2>1. CompareAndSwap(s, j) = [s EXCEPT ![j] = s[j + 1], ![j + 1] = s[j]]
    BY <1>5 DEF CompareAndSwap
  <2> QED BY <1>1, <1>3, <1>5, <2>1
<1>6. CASE ~TimeCompareBig(s[j].t, s[j + 1].t)
  <2>1. CompareAndSwap(s, j) = s
    BY <1>6 DEF CompareAndSwap
  <2>2. Ahead(s[j].t, n) < Ahead(s[j + 1].t, n)
    BY <1>3, <1>4, <1>6
  <2> QED BY <1>1, <2>1, <2>2
<1> QED BY <1>5, <1>6

\* The same of the times alone: a before the comparison, b after it.
SwapOfLeads(s, c, n, j, a, b) ==
  /\ a \in [1 .. Len(s) -> Int] /\ b \in [1 .. Len(s) -> Int]
  /\ \A r \in 1 .. Len(s) : a[r] = Ahead(s[r].t, n)
  /\ \A r \in 1 .. Len(s) : b[r] = Ahead(c[r].t, n)
  /\ \A r \in 1 .. Len(s) : r # j /\ r # j + 1 => b[r] = a[r]
  /\ \/ a[j] >= a[j + 1] /\ b[j] = a[j + 1] /\ b[j + 1] = a[j]
     \/ a[j] < a[j + 1] /\ b[j] = a[j] /\ b[j + 1] = a[j + 1]

LEMMA SwapLeads ==
  ASSUME Prompt, NEW n \in Time, NEW s \in Seq(Timer), Near(s, n), NEW j \in 1 .. Len(s) - 1,
         NEW c \in Seq(Timer), c = CompareAndSwap(s, j)
  PROVE  \E a, b : SwapOfLeads(s, c, n, j, a, b)
<1>2. /\ Len(c) = Len(s)
      /\ \A r \in 1 .. Len(s) : r # j /\ r # j + 1 => c[r] = s[r]
      /\ \/ Ahead(s[j].t, n) >= Ahead(s[j + 1].t, n) /\ c[j] = s[j + 1] /\ c[j + 1] = s[j]
         \/ Ahead(s[j].t, n) < Ahead(s[j + 1].t, n) /\ c[j] = s[j] /\ c[j + 1] = s[j + 1]
  BY SwapIs
<1>3. \A r \in 1 .. Len(s) : s[r] \in Timer /\ c[r] \in Timer
  BY <1>2
<1>4. \A r \in 1 .. Len(s) : s[r].t \in Time /\ c[r].t \in Time
  BY <1>3 DEF Timer
<1>5. \A r \in 1 .. Len(s) : Ahead(s[r].t, n) \in Int /\ Ahead(c[r].t, n) \in Int
  BY <1>4, AheadIs
<1> DEFINE a == [r \in 1 .. Len(s) |-> Ahead(s[r].t, n)]
           b == [r \in 1 .. Len(s) |-> Ahead(c[r].t, n)]
<1>6. a \in [1 .. Len(s) -> Int] /\ b \in [1 .. Len(s) -> Int]
  BY <1>5
<1>7. \A r \in 1 .. Len(s) : a[r] = Ahead(s[r].t, n) /\ b[r] = Ahead(c[r].t, n)
  OBVIOUS
<1> HIDE DEF a, b
<1>8. j \in 1 .. Len(s) /\ j + 1 \in 1 .. Len(s)
  OBVIOUS
<1>9. /\ \A r \in 1 .. Len(s) : r # j /\ r # j + 1 => b[r] = a[r]
      /\ \/ a[j] >= a[j + 1] /\ b[j] = a[j + 1] /\ b[j + 1] = a[j]
         \/ a[j] < a[j + 1] /\ b[j] = a[j] /\ b[j + 1] = a[j + 1]
  BY <1>2, <1>7, <1>8
<1>10. SwapOfLeads(s, c, n, j, a, b)
  BY <1>6, <1>7, <1>9 DEF SwapOfLeads
<1> QED BY <1>10

LEMMA DelayOrder ==
  ASSUME NEW j \in 1 .. MaxTimers - 1
  PROVE  /\ Delay[j - 1] \in Nat /\ Delay[j] \in Nat /\ Delay[j + 1] \in Nat
         /\ Delay[j + 1] <= Delay[j] /\ Delay[j] <= Delay[j - 1]
<1>1. /\ j \in 1 .. MaxTimers /\ j + 1 \in 1 .. MaxTimers /\ (j + 1) - 1 = j
      /\ j - 1 \in 0 .. MaxTimers /\ j \in 0 .. MaxTimers /\ j + 1 \in 0 .. MaxTimers
  BY WordFacts
<1> QED BY <1>1, DelayFacts, WordFacts

LEMMA SwapKeeps ==
  ASSUME Prompt, NEW n \in Time, NEW s \in Seq(Timer), Near(s, n), NEW j \in 1 .. Len(s) - 1,
         Len(s) <= MaxTimers
  PROVE  Keeps(s, CompareAndSwap(s, j), n)
<1>1. PICK c \in Seq(Timer) : c = CompareAndSwap(s, j)
  BY SwapIs
<1>2. Len(c) = Len(s)
  BY <1>1, SwapIs
<1>0. PICK a, b : SwapOfLeads(s, c, n, j, a, b)
  BY <1>1, SwapLeads
<1>3. /\ a \in [1 .. Len(s) -> Int] /\ b \in [1 .. Len(s) -> Int]
      /\ \A r \in 1 .. Len(s) : a[r] = Ahead(s[r].t, n)
      /\ \A r \in 1 .. Len(s) : b[r] = Ahead(c[r].t, n)
      /\ \A r \in 1 .. Len(s) : r # j /\ r # j + 1 => b[r] = a[r]
      /\ \/ a[j] >= a[j + 1] /\ b[j] = a[j + 1] /\ b[j + 1] = a[j]
         \/ a[j] < a[j + 1] /\ b[j] = a[j] /\ b[j + 1] = a[j + 1]
  BY <1>0 DEF SwapOfLeads
<1>4. j \in 1 .. Len(s) /\ j + 1 \in 1 .. Len(s) /\ j \in 1 .. MaxTimers - 1 /\ (j + 1) - 1 = j
  BY WordFacts
<1>5. Near(c, n)
  <2>1. \A r \in 1 .. Len(s) : a[r] >= -Delay[0] /\ a[r] <= SortSpan - MarginPost
    BY <1>3 DEF Near, Close
  <2>2. \A r \in 1 .. Len(s) : b[r] >= -Delay[0] /\ b[r] <= SortSpan - MarginPost
    BY <1>3, <1>4, <2>1
  <2> QED BY <1>2, <1>3, <2>2 DEF Near, Close
<1>6. /\ Delay[j - 1] \in Nat /\ Delay[j] \in Nat /\ Delay[j + 1] \in Nat
      /\ Delay[j + 1] <= Delay[j] /\ Delay[j] <= Delay[j - 1]
  BY <1>4, DelayOrder
<1>7. ASSUME NEW x \in Nat, InTime(s, n, x) PROVE InTime(c, n, x)
  <2>1. \A r \in 1 .. Len(s) : a[r] >= -(Delay[r] + x)
    BY <1>3, <1>7 DEF InTime
  <2>2. b[j] >= -(Delay[j] + x) /\ b[j + 1] >= -(Delay[j + 1] + x)
    <3>1. a[j] >= -(Delay[j] + x) /\ a[j + 1] >= -(Delay[j + 1] + x)
      BY <1>4, <2>1
    <3>2. a[j] \in Int /\ a[j + 1] \in Int
      BY <1>3, <1>4
    <3>3. CASE a[j] >= a[j + 1] /\ b[j] = a[j + 1] /\ b[j + 1] = a[j]
      <4>1. PICK d, e \in Nat : d = Delay[j] /\ e = Delay[j + 1] /\ e <= d
        BY <1>6
      <4>2. PICK y \in Int : y = a[j + 1] /\ y >= -(e + x)
        BY <3>1, <3>2, <4>1
      <4>3. PICK z \in Int : z = a[j] /\ z >= y
        BY <3>2, <3>3, <4>2
      <4>4. y >= -(d + x) /\ z >= -(e + x)
        <5>1. e <= d
          BY <4>1
        <5>2. y >= -(e + x)
          BY <4>2
        <5>3. z >= y
          BY <4>3
        <5> QED BY <5>1, <5>2, <5>3
      <4> QED BY <3>3, <4>1, <4>2, <4>3, <4>4
    <3>4. CASE a[j] < a[j + 1] /\ b[j] = a[j] /\ b[j + 1] = a[j + 1]
      BY <3>1, <3>4
    <3> QED BY <1>3, <3>3, <3>4
  <2>3. \A r \in 1 .. Len(s) : b[r] >= -(Delay[r] + x)
    BY <1>3, <2>1, <2>2
  <2> QED BY <1>2, <1>3, <2>3 DEF InTime
<1>8. ASSUME Served(s, n) PROVE Served(c, n)
  <2>1. PICK p \in 1 .. Len(s) + 1 : ServedAt(s, n, p)
    BY <1>8 DEF Served
  <2> DEFINE Bound(q, r) == IF r < q THEN -Delay[r] ELSE IF r = q THEN 0 ELSE -Delay[r - 1]
  <2>2. \A r \in 1 .. Len(s) : a[r] >= Bound(p, r)
    BY <1>3, <2>1 DEF ServedAt
  <2>3. PICK q \in 1 .. Len(s) + 1 :
          q = IF p = j /\ a[j] >= a[j + 1] THEN j + 1
              ELSE IF p = j + 1 /\ a[j] >= a[j + 1] THEN j + 1 ELSE p
    BY <1>4
  <2>4. b[j] >= Bound(q, j) /\ b[j + 1] >= Bound(q, j + 1)
    <3>1. a[j] >= Bound(p, j) /\ a[j + 1] >= Bound(p, j + 1)
      BY <1>4, <2>2
    <3>2. a[j] \in Int /\ a[j + 1] \in Int /\ j \in Nat /\ p \in Nat
      BY <1>3, <1>4
    <3>3. CASE a[j] >= a[j + 1] /\ b[j] = a[j + 1] /\ b[j + 1] = a[j]
      <4>1. q = IF p = j \/ p = j + 1 THEN j + 1 ELSE p
        BY <2>3, <3>3
      <4>5. PICK d, e, h \in Nat : /\ d = Delay[j] /\ e = Delay[j + 1] /\ h = Delay[j - 1]
                                 /\ e <= d /\ d <= h
        BY <1>6
      <4>6. PICK y, z \in Int : y = a[j + 1] /\ z = a[j] /\ z >= y
        BY <3>2, <3>3
      <4>7. /\ z >= IF j < p THEN -d ELSE IF j = p THEN 0 ELSE -h
            /\ y >= IF j + 1 < p THEN -e ELSE IF j + 1 = p THEN 0 ELSE -d
        BY <1>4, <3>1, <4>5, <4>6
      <4>8. Bound(q, j) = IF j < q THEN -d ELSE IF j = q THEN 0 ELSE -h
        BY <4>5
      <4>9. Bound(q, j + 1) = IF j + 1 < q THEN -e ELSE IF j + 1 = q THEN 0 ELSE -d
        BY <1>4, <4>5
      <4> HIDE DEF Bound
      <4>10. q \in Nat /\ p \in Nat /\ j \in Nat
        BY <3>2
      <4>11. e <= d /\ d <= h
        BY <4>5
      <4>12. z >= y
        BY <4>6
      <4>2. y >= Bound(q, j)
        BY <4>1, <4>7, <4>8, <4>10, <4>11, <4>12
      <4>3. z >= Bound(q, j + 1)
        BY <4>1, <4>7, <4>9, <4>10, <4>11, <4>12
      <4> QED BY <3>3, <4>2, <4>3, <4>6
    <3>4. CASE a[j] < a[j + 1] /\ b[j] = a[j] /\ b[j + 1] = a[j + 1]
      <4>1. ~(a[j] >= a[j + 1])
        BY <3>2, <3>4
      <4>2. q = p
        BY <2>3, <4>1
      <4> HIDE DEF Bound
      <4> QED BY <3>1, <3>4, <4>2
    <3> QED BY <1>3, <3>3, <3>4
  <2>5. \A r \in 1 .. Len(s) : b[r] >= Bound(q, r)
    <3> SUFFICES ASSUME NEW r \in 1 .. Len(s), r # j, r # j + 1 PROVE b[r] >= Bound(q, r)
      BY <2>4
    <3>1. b[r] = a[r] /\ a[r] >= Bound(p, r)
      BY <1>3, <2>2
    <3>2. Bound(q, r) = Bound(p, r)
      BY <1>4, <2>3
    <3> QED BY <3>1, <3>2
  <2>6. ServedAt(c, n, q)
    BY <1>2, <1>3, <2>5 DEF ServedAt
  <2> QED BY <1>2, <2>6 DEF Served
<1> QED BY <1>1, <1>2, <1>5, <1>7, <1>8 DEF Keeps

LEMMA SwapTop ==
  ASSUME Prompt, NEW n \in Time, NEW s \in Seq(Timer), Near(s, n), NEW j \in 1 .. Len(s) - 1
  PROVE  /\ \A q \in 0 .. Len(s) :
              j < q /\ TopInOrder(s, n, q) => TopInOrder(CompareAndSwap(s, j), n, q)
         /\ (\A r \in 1 .. j : Ahead(s[r].t, n) <= Ahead(s[j].t, n))
              => \A r \in 1 .. j + 1 : Ahead(CompareAndSwap(s, j)[r].t, n)
                                         <= Ahead(CompareAndSwap(s, j)[j + 1].t, n)
<1>1. PICK c \in Seq(Timer) : c = CompareAndSwap(s, j)
  BY SwapIs
<1>2. Len(c) = Len(s)
  BY <1>1, SwapIs
<1>0. PICK a, b : SwapOfLeads(s, c, n, j, a, b)
  BY <1>1, SwapLeads
<1>3. /\ a \in [1 .. Len(s) -> Int] /\ b \in [1 .. Len(s) -> Int]
      /\ \A r \in 1 .. Len(s) : a[r] = Ahead(s[r].t, n)
      /\ \A r \in 1 .. Len(s) : b[r] = Ahead(c[r].t, n)
      /\ \A r \in 1 .. Len(s) : r # j /\ r # j + 1 => b[r] = a[r]
      /\ \/ a[j] >= a[j + 1] /\ b[j] = a[j + 1] /\ b[j + 1] = a[j]
         \/ a[j] < a[j + 1] /\ b[j] = a[j] /\ b[j + 1] = a[j + 1]
  BY <1>0 DEF SwapOfLeads
<1>4. j \in 1 .. Len(s) /\ j + 1 \in 1 .. Len(s)
  OBVIOUS
<1>5. ASSUME NEW q \in 0 .. Len(s), j < q, TopInOrder(s, n, q) PROVE TopInOrder(c, n, q)
  <2>1. \A r, m \in 1 .. Len(s) : r < m /\ q < m => a[r] <= a[m]
    BY <1>3, <1>5 DEF TopInOrder
  <2>0. ASSUME \A r, m \in 1 .. Len(s) : r < m /\ q < m => b[r] <= b[m]
        PROVE  TopInOrder(c, n, q)
    <3>1. ASSUME NEW r \in 1 .. Len(c), NEW m \in 1 .. Len(c), r < m, q < m
          PROVE  Ahead(c[r].t, n) <= Ahead(c[m].t, n)
      <4>1. b[r] = Ahead(c[r].t, n) /\ b[m] = Ahead(c[m].t, n)
        BY <1>2, <1>3
      <4>2. b[r] <= b[m]
        BY <1>2, <2>0, <3>1
      <4> QED BY <4>1, <4>2
    <3> QED BY <3>1, Zenon DEF TopInOrder
  <2> SUFFICES ASSUME NEW r \in 1 .. Len(s), NEW m \in 1 .. Len(s), r < m, q < m
               PROVE  b[r] <= b[m]
    BY <2>0
  <2>2. m # j /\ m # j + 1 /\ j < m /\ j + 1 < m
    BY <1>5
  <2>3. b[m] = a[m]
    BY <1>3, <2>2
  <2>4. a[r] <= a[m] /\ a[j] <= a[m] /\ a[j + 1] <= a[m]
    <3>1. a[r] <= a[m]
      BY <2>1
    <3>2. a[j] <= a[m]
      BY <1>4, <2>1, <2>2
    <3>3. a[j + 1] <= a[m]
      BY <1>4, <2>1, <2>2
    <3> QED BY <3>1, <3>2, <3>3
  <2>5. b[r] = a[r] \/ b[r] = a[j] \/ b[r] = a[j + 1]
    <3>1. CASE r # j /\ r # j + 1
      BY <1>3, <3>1
    <3>2. CASE r = j
      BY <1>3, <3>2
    <3>3. CASE r = j + 1
      BY <1>3, <3>3
    <3> QED BY <3>1, <3>2, <3>3
  <2>6. b[r] <= a[m]
    BY <2>4, <2>5
  <2> QED BY <2>3, <2>6
<1>6. ASSUME \A r \in 1 .. j : Ahead(s[r].t, n) <= Ahead(s[j].t, n),
             NEW r \in 1 .. j + 1
      PROVE  Ahead(c[r].t, n) <= Ahead(c[j + 1].t, n)
  <2>1. ASSUME NEW k \in 1 .. j PROVE a[k] <= a[j]
    <3>1. k \in 1 .. Len(s)
      BY <1>4
    <3>2. a[k] = Ahead(s[k].t, n) /\ a[j] = Ahead(s[j].t, n)
      BY <1>3, <1>4, <3>1
    <3>3. Ahead(s[k].t, n) <= Ahead(s[j].t, n)
      BY <1>6
    <3> QED BY <3>2, <3>3
  <2>2. r \in 1 .. Len(s)
    BY <1>4
  <2>3. a[j] \in Int /\ a[j + 1] \in Int
    BY <1>3, <1>4
  <2>4. b[r] <= b[j + 1]
    <3>1. CASE r = j + 1
      BY <1>3, <1>4, <3>1
    <3>2. CASE r = j
      BY <1>3, <2>3, <3>2
    <3>3. CASE r # j /\ r # j + 1
      <4>1. b[r] = a[r]
        BY <1>3, <2>2, <3>3
      <4>2. a[r] <= a[j]
        <5>1. r \in 1 .. j
          BY <3>3
        <5> QED BY <2>1, <5>1
      <4>3. a[r] \in Int
        BY <1>3, <2>2
      <4> QED BY <1>3, <2>3, <4>1, <4>2, <4>3
    <3> QED BY <3>1, <3>2, <3>3
  <2> QED BY <1>3, <1>4, <2>2, <2>4
<1> QED BY <1>1, <1>5, <1>6

LEMMA LeastElement ==
  ASSUME NEW S \in SUBSET Nat, S # {}
  PROVE  \E x \in S : \A y \in S : x <= y
<1>1. PICK x \in S : \A y \in S : ~(<<y, x>> \in OpToRel(<, Nat))
  BY WFMin, NatLessThanWellFounded, Zenon
<1>2. \A y \in S : ~(y < x)
  BY <1>1 DEF OpToRel
<1> QED BY <1>2

LEMMA AllNaturals ==
  ASSUME NEW P \in SUBSET Nat, 0 \in P, \A m \in P : m + 1 \in P
  PROVE  P = Nat
<1> SUFFICES ASSUME Nat \ P # {} PROVE FALSE
  OBVIOUS
<1>1. PICK n \in Nat \ P : \A m \in Nat \ P : n <= m
  <2>1. Nat \ P \in SUBSET Nat
    OBVIOUS
  <2> QED BY <2>1, LeastElement
<1>2. n # 0 /\ n - 1 \in Nat
  BY <1>1
<1>3. n - 1 \in P
  <2>1. ~(n <= n - 1)
    BY <1>1
  <2> QED BY <1>1, <1>2, <2>1
<1>4. (n - 1) + 1 = n
  BY <1>1
<1> QED BY <1>1, <1>3, <1>4

\* What holds before a loop and after every turn holds at its end.
LEMMA LastTurn ==
  ASSUME NEW n \in Nat, NEW P, 0 \in P, \A k \in 1 .. n : k - 1 \in P => k \in P
  PROVE  n \in P
<1> DEFINE Q == {m \in Nat : m <= n => m \in P}
<1>1. 0 \in Q
  OBVIOUS
<1>2. ASSUME NEW m \in Q PROVE m + 1 \in Q
  <2>1. m \in Nat /\ m + 1 \in Nat
    OBVIOUS
  <2>2. CASE m + 1 <= n
    <3>1. m \in P /\ m + 1 \in 1 .. n /\ (m + 1) - 1 = m
      BY <2>1, <2>2
    <3> QED BY <2>1, <3>1
  <2> QED BY <2>1, <2>2
<1>3. Q = Nat
  BY <1>1, <1>2, AllNaturals
<1> QED BY <1>3

\* The inner loop of the sort: h is what it has made of s at each turn.
PassRun(s, n, h) ==
  /\ BubblePass(s, n) = h[n] /\ h[0] = s
  /\ \A k \in 1 .. n : h[k] = CompareAndSwap(h[k - 1], k)

LEMMA PassRuns ==
  ASSUME NEW s, NEW n \in Nat
  PROVE  \E h : PassRun(s, n, h)
<1> DEFINE Body(f, m) == [k \in 0 .. m |-> IF k = 0 THEN s ELSE CompareAndSwap(f[k - 1], k)]
           P == {m \in Nat : \E f : f = Body(f, m)}
           r == CHOOSE f : f = Body(f, n)
<1>1. BubblePass(s, n) = r[n]
  BY DEF BubblePass
<1>2. 0 \in P
  <2>1. [k \in 0 .. 0 |-> s] = Body([k \in 0 .. 0 |-> s], 0)
    OBVIOUS
  <2> QED BY <2>1
<1>3. ASSUME NEW m \in P PROVE m + 1 \in P
  <2>1. m \in Nat /\ m + 1 \in Nat
    OBVIOUS
  <2>2. PICK f : f = Body(f, m)
    OBVIOUS
  <2> DEFINE h == [k \in 0 .. m + 1 |-> IF k = m + 1 THEN CompareAndSwap(f[m], m + 1) ELSE f[k]]
  <2>3. \A k \in 0 .. m : f[k] = IF k = 0 THEN s ELSE CompareAndSwap(f[k - 1], k)
    BY <2>2
  <2>4. \A k \in 0 .. m : h[k] = f[k]
    BY <2>1
  <2>5. h[m + 1] = CompareAndSwap(f[m], m + 1)
    BY <2>1
  <2> HIDE DEF Body, P
  <2>6. \A k \in 0 .. m + 1 : h[k] = IF k = 0 THEN s ELSE CompareAndSwap(h[k - 1], k)
    <3> SUFFICES ASSUME NEW k \in 0 .. m + 1
                 PROVE  h[k] = IF k = 0 THEN s ELSE CompareAndSwap(h[k - 1], k)
      OBVIOUS
    <3>1. CASE k = m + 1
      <4>1. k - 1 = m /\ m \in 0 .. m /\ k # 0
        BY <3>1, <2>1
      <4>2. h[m] = f[m]
        BY <4>1, <2>4
      <4> HIDE DEF h
      <4> QED BY <3>1, <4>1, <4>2, <2>5
    <3>2. CASE k \in 0 .. m /\ k # 0
      <4>1. k - 1 \in 0 .. m
        BY <3>2, <2>1
      <4>2. h[k - 1] = f[k - 1] /\ h[k] = f[k]
        BY <3>2, <4>1, <2>4
      <4> HIDE DEF h
      <4> QED BY <3>2, <4>2, <2>3
    <3>3. CASE k = 0
      <4>1. 0 \in 0 .. m
        BY <2>1
      <4>2. h[0] = f[0]
        BY <4>1, <2>4
      <4> HIDE DEF h
      <4> QED BY <3>3, <4>1, <4>2, <2>3
    <3>4. k = m + 1 \/ (k \in 0 .. m /\ k # 0) \/ k = 0
      BY <2>1
    <3> QED BY <3>1, <3>2, <3>3, <3>4
  <2>7. h = [k \in 0 .. m + 1 |-> h[k]]
    OBVIOUS
  <2> HIDE DEF h
  <2>8. h = Body(h, m + 1)
    BY <2>6, <2>7 DEF Body
  <2> QED BY <2>1, <2>8 DEF P
<1>4. n \in P
  <2>1. P \in SUBSET Nat
    OBVIOUS
  <2> HIDE DEF P
  <2> QED BY <1>2, <1>3, <2>1, AllNaturals
<1>5. r = Body(r, n)
  BY <1>4
<1> HIDE DEF r
<1>6. \A k \in 0 .. n : r[k] = IF k = 0 THEN s ELSE CompareAndSwap(r[k - 1], k)
  BY <1>5
<1>7. 0 \in 0 .. n /\ \A k \in 1 .. n : k \in 0 .. n /\ k # 0
  OBVIOUS
<1> HIDE DEF Body, P
<1>8. PassRun(s, n, r)
  BY <1>1, <1>6, <1>7 DEF PassRun
<1> QED BY <1>8

\* The outer loop.
SortRun(s, h) ==
  /\ SortTimers(s) = h[Len(s)] /\ h[0] = s
  /\ \A k \in 1 .. Len(s) : h[k] = BubblePass(h[k - 1], Len(s) - k)

LEMMA SortRuns ==
  ASSUME NEW s, Len(s) \in Nat
  PROVE  \E h : SortRun(s, h)
<1> DEFINE Body(f, m) == [k \in 0 .. m |-> IF k = 0 THEN s ELSE BubblePass(f[k - 1], Len(s) - k)]
           P == {m \in Nat : \E f : f = Body(f, m)}
           r == CHOOSE f : f = Body(f, Len(s))
<1>1. SortTimers(s) = r[Len(s)]
  BY DEF SortTimers
<1>2. 0 \in P
  <2>1. [k \in 0 .. 0 |-> s] = Body([k \in 0 .. 0 |-> s], 0)
    OBVIOUS
  <2> QED BY <2>1
<1>3. ASSUME NEW m \in P PROVE m + 1 \in P
  <2>1. m \in Nat /\ m + 1 \in Nat
    OBVIOUS
  <2>2. PICK f : f = Body(f, m)
    OBVIOUS
  <2> DEFINE h == [k \in 0 .. m + 1 |-> IF k = m + 1 THEN BubblePass(f[m], Len(s) - (m + 1)) ELSE f[k]]
  <2>3. \A k \in 0 .. m : f[k] = IF k = 0 THEN s ELSE BubblePass(f[k - 1], Len(s) - k)
    BY <2>2
  <2>4. \A k \in 0 .. m : h[k] = f[k]
    BY <2>1
  <2>5. h[m + 1] = BubblePass(f[m], Len(s) - (m + 1))
    BY <2>1
  <2> HIDE DEF Body, P
  <2>6. \A k \in 0 .. m + 1 : h[k] = IF k = 0 THEN s ELSE BubblePass(h[k - 1], Len(s) - k)
    <3> SUFFICES ASSUME NEW k \in 0 .. m + 1
                 PROVE  h[k] = IF k = 0 THEN s ELSE BubblePass(h[k - 1], Len(s) - k)
      OBVIOUS
    <3>1. CASE k = m + 1
      <4>1. k - 1 = m /\ m \in 0 .. m /\ k # 0
        BY <3>1, <2>1
      <4>2. h[m] = f[m]
        BY <4>1, <2>4
      <4> HIDE DEF h
      <4> QED BY <3>1, <4>1, <4>2, <2>5
    <3>2. CASE k \in 0 .. m /\ k # 0
      <4>1. k - 1 \in 0 .. m
        BY <3>2, <2>1
      <4>2. h[k - 1] = f[k - 1] /\ h[k] = f[k]
        BY <3>2, <4>1, <2>4
      <4> HIDE DEF h
      <4> QED BY <3>2, <4>2, <2>3
    <3>3. CASE k = 0
      <4>1. 0 \in 0 .. m
        BY <2>1
      <4>2. h[0] = f[0]
        BY <4>1, <2>4
      <4> HIDE DEF h
      <4> QED BY <3>3, <4>1, <4>2, <2>3
    <3>4. k = m + 1 \/ (k \in 0 .. m /\ k # 0) \/ k = 0
      BY <2>1
    <3> QED BY <3>1, <3>2, <3>3, <3>4
  <2>7. h = [k \in 0 .. m + 1 |-> h[k]]
    OBVIOUS
  <2> HIDE DEF h
  <2>8. h = Body(h, m + 1)
    BY <2>6, <2>7 DEF Body
  <2> QED BY <2>1, <2>8 DEF P
<1>4. Len(s) \in P
  <2>1. P \in SUBSET Nat
    OBVIOUS
  <2> HIDE DEF P
  <2> QED BY <1>2, <1>3, <2>1, AllNaturals
<1>5. r = Body(r, Len(s))
  BY <1>4
<1> HIDE DEF r
<1>6. \A k \in 0 .. Len(s) : r[k] = IF k = 0 THEN s ELSE BubblePass(r[k - 1], Len(s) - k)
  BY <1>5
<1>7. 0 \in 0 .. Len(s) /\ \A k \in 1 .. Len(s) : k \in 0 .. Len(s) /\ k # 0
  OBVIOUS
<1> HIDE DEF Body, P
<1>8. SortRun(s, r)
  BY <1>1, <1>6, <1>7 DEF SortRun
<1> QED BY <1>8

LEMMA KeepsItself ==
  ASSUME NEW n \in Time, NEW s \in Seq(Timer), Near(s, n)
  PROVE  Keeps(s, s, n)
BY DEF Keeps

LEMMA KeepsOn ==
  ASSUME NEW n, NEW s, NEW c, NEW d, Keeps(s, c, n), Keeps(c, d, n)
  PROVE  Keeps(s, d, n)
BY DEF Keeps

\* One pass of the sort puts the latest of the timers it reaches last.
LEMMA PassKeeps ==
  ASSUME Prompt, NEW n \in Time, NEW s \in Seq(Timer), Near(s, n), Len(s) <= MaxTimers,
         NEW m \in Nat, m < Len(s), TopInOrder(s, n, m + 1)
  PROVE  /\ Keeps(s, BubblePass(s, m), n)
         /\ TopInOrder(BubblePass(s, m), n, m)
<1>0. PICK h : PassRun(s, m, h)
  BY PassRuns
<1>1. /\ BubblePass(s, m) = h[m] /\ h[0] = s
      /\ \A k \in 1 .. m : h[k] = CompareAndSwap(h[k - 1], k)
  BY <1>0 DEF PassRun
<1> DEFINE Latest(c, k) == \A r \in 1 .. k + 1 : Ahead(c[r].t, n) <= Ahead(c[k + 1].t, n)
           P == {k \in 0 .. m : /\ Keeps(s, h[k], n) /\ TopInOrder(h[k], n, m + 1)
                                /\ Latest(h[k], k)}
<1>2. 0 \in P
  <2>1. Keeps(s, s, n)
    BY KeepsItself
  <2>2. Ahead(s[1].t, n) \in Int
    <3>1. s[1] \in Timer
      OBVIOUS
    <3> QED BY <3>1, AheadIs DEF Timer
  <2>3. Latest(s, 0)
    <3>1. \A r \in 1 .. 0 + 1 : r = 1
      OBVIOUS
    <3>2. 0 + 1 = 1
      OBVIOUS
    <3>3. Ahead(s[1].t, n) <= Ahead(s[1].t, n)
      BY <2>2
    <3> QED BY <3>1, <3>2, <3>3
  <2> QED BY <1>1, <2>1, <2>3
<1>3. ASSUME NEW k \in 1 .. m, k - 1 \in P PROVE k \in P
  <2>1. PICK c : c = h[k - 1] /\ Keeps(s, c, n) /\ TopInOrder(c, n, m + 1) /\ Latest(c, k - 1)
    BY <1>3
  <2>2. c \in Seq(Timer) /\ Len(c) = Len(s) /\ Near(c, n)
    BY <2>1 DEF Keeps
  <2>3. k \in 1 .. Len(c) - 1 /\ m + 1 \in 0 .. Len(c) /\ k < m + 1 /\ k \in 0 .. m
        /\ (k - 1) + 1 = k
    BY <2>2
  <2>4. Keeps(c, CompareAndSwap(c, k), n)
    BY <2>2, <2>3, SwapKeeps
  <2>5. Keeps(s, CompareAndSwap(c, k), n)
    BY <2>1, <2>4, KeepsOn
  <2>6. \A r \in 1 .. k : Ahead(c[r].t, n) <= Ahead(c[k].t, n)
    BY <2>1, <2>3
  <2>7. TopInOrder(CompareAndSwap(c, k), n, m + 1) /\ Latest(CompareAndSwap(c, k), k)
    BY <2>1, <2>2, <2>3, <2>6, SwapTop
  <2>8. h[k] = CompareAndSwap(c, k)
    BY <1>1, <2>1
  <2> HIDE DEF Latest
  <2> QED BY <2>3, <2>5, <2>7, <2>8
<1>4. m \in P
  <2> HIDE DEF P
  <2> QED BY <1>2, <1>3, LastTurn
<1>5. PICK c : c = BubblePass(s, m) /\ Keeps(s, c, n) /\ TopInOrder(c, n, m + 1) /\ Latest(c, m)
  BY <1>1, <1>4
<1>6. Len(c) = Len(s)
  BY <1>5 DEF Keeps
<1>7. TopInOrder(c, n, m)
  <2> SUFFICES ASSUME NEW r \in 1 .. Len(c), NEW k \in 1 .. Len(c), r < k, m < k
               PROVE  Ahead(c[r].t, n) <= Ahead(c[k].t, n)
    BY DEF TopInOrder
  <2>1. CASE m + 1 < k
    BY <1>5, <2>1 DEF TopInOrder
  <2>2. CASE k = m + 1
    <3>1. r \in 1 .. m + 1
      BY <2>2
    <3> QED BY <1>5, <2>2, <3>1
  <2> QED BY <1>6, <2>1, <2>2
<1> QED BY <1>5, <1>7

\* blt_soft_timer_sort leaves the table in the order of the timer word.
LEMMA SortKeeps ==
  ASSUME Prompt, NEW n \in Time, NEW s \in Seq(Timer), Near(s, n), Len(s) <= MaxTimers
  PROVE  Keeps(s, SortTimers(s), n) /\ InOrder(SortTimers(s), n)
<1>0. Len(s) \in Nat
  OBVIOUS
<1>6. PICK h : SortRun(s, h)
  BY <1>0, SortRuns
<1>1. /\ SortTimers(s) = h[Len(s)] /\ h[0] = s
      /\ \A k \in 1 .. Len(s) : h[k] = BubblePass(h[k - 1], Len(s) - k)
  BY <1>6 DEF SortRun
<1> DEFINE P == {k \in 0 .. Len(s) : Keeps(s, h[k], n) /\ TopInOrder(h[k], n, Len(s) - k)}
<1>2. 0 \in P
  <2>1. Keeps(s, s, n)
    BY KeepsItself
  <2>2. TopInOrder(s, n, Len(s) - 0)
    BY DEF TopInOrder
  <2> QED BY <1>0, <1>1, <2>1, <2>2
<1>3. ASSUME NEW k \in 1 .. Len(s), k - 1 \in P PROVE k \in P
  <2>1. PICK c : c = h[k - 1] /\ Keeps(s, c, n) /\ TopInOrder(c, n, Len(s) - (k - 1))
    BY <1>3
  <2>2. c \in Seq(Timer) /\ Len(c) = Len(s) /\ Near(c, n)
    BY <2>1 DEF Keeps
  <2>3. PICK m \in Nat : m = Len(s) - k
    BY <1>0
  <2>4. m < Len(c) /\ Len(s) - (k - 1) = m + 1 /\ k \in 0 .. Len(s)
    BY <1>0, <2>2, <2>3
  <2>5. Keeps(c, BubblePass(c, m), n) /\ TopInOrder(BubblePass(c, m), n, m)
    BY <2>1, <2>2, <2>4, PassKeeps
  <2>6. Keeps(s, BubblePass(c, m), n)
    BY <2>1, <2>5, KeepsOn
  <2>7. h[k] = BubblePass(c, m)
    BY <1>1, <2>1, <2>3
  <2> QED BY <2>3, <2>4, <2>5, <2>6, <2>7
<1>4. Len(s) \in P
  <2> HIDE DEF P
  <2> QED BY <1>0, <1>2, <1>3, LastTurn
<1>5. Len(s) - Len(s) = 0
  BY <1>0
<1> QED BY <1>1, <1>4, <1>5 DEF InOrder

\* In order, and one timer served: then no place is later than it may be.
LEMMA ServedInOrder ==
  ASSUME NEW n \in Time, NEW s \in Seq(Timer), Len(s) <= MaxTimers,
         InOrder(s, n), Served(s, n)
  PROVE  InTime(s, n, 0)
<1>1. PICK p \in 1 .. Len(s) + 1 : ServedAt(s, n, p)
  BY DEF Served
<1>2. \A r \in 1 .. Len(s) : Ahead(s[r].t, n) \in Int
  <2>1. \A r \in 1 .. Len(s) : s[r] \in Timer
    OBVIOUS
  <2>2. \A r \in 1 .. Len(s) : s[r].t \in Time
    BY <2>1 DEF Timer
  <2> QED BY <2>2, AheadIs
<1>3. \A r \in 1 .. Len(s) : Delay[r] \in Nat
  BY DelayFacts, WordFacts
<1> SUFFICES ASSUME NEW r \in 1 .. Len(s) PROVE Ahead(s[r].t, n) >= -(Delay[r] + 0)
  BY DEF InTime
<1>4. -(Delay[r] + 0) = -Delay[r] /\ -Delay[r] <= 0
  BY <1>3
<1>5. CASE r < p
  BY <1>1, <1>4, <1>5 DEF ServedAt
<1>6. CASE r = p
  <2>1. Ahead(s[r].t, n) >= 0
    BY <1>1, <1>6 DEF ServedAt
  <2> QED BY <1>2, <1>3, <1>4, <2>1
<1>7. CASE p < r
  <2>1. p \in 1 .. Len(s) /\ 0 < r
    BY <1>7
  <2>2. Ahead(s[p].t, n) >= 0
    BY <1>1, <2>1 DEF ServedAt
  <2>3. Ahead(s[p].t, n) <= Ahead(s[r].t, n)
    BY <1>7, <2>1 DEF InOrder, TopInOrder
  <2>4. Ahead(s[p].t, n) \in Int /\ Ahead(s[r].t, n) \in Int
    BY <1>2, <2>1
  <2>5. Ahead(s[r].t, n) >= 0
    BY <2>2, <2>3, <2>4
  <2> QED BY <1>3, <1>4, <2>4, <2>5
<1> QED BY <1>5, <1>6, <1>7

-----------------------------------------------------------------------------
(* The software timers: the table.                                         *)

LEMMA RemoveAtProperties ==
  ASSUME NEW S, NEW s \in Seq(S), NEW k \in 1 .. Len(s)
  PROVE  /\ RemoveAt(s, k) \in Seq(S)
         /\ Len(RemoveAt(s, k)) = Len(s) - 1
         /\ \A j \in 1 .. Len(s) - 1 :
              RemoveAt(s, k)[j] = IF j < k THEN s[j] ELSE s[j + 1]
<1> DEFINE a == SubSeq(s, 1, k - 1)
           b == SubSeq(s, k + 1, Len(s))
<1>1. /\ a \in Seq(S) /\ Len(a) = k - 1
      /\ \A j \in 1 .. k - 1 : a[j] = s[j]
  <2>1. \A j \in 1 .. k - 1 : s[j] \in S
    BY ElementOfSeq
  <2> QED BY <2>1, SubSeqProperties
<1>2. /\ b \in Seq(S) /\ Len(b) = Len(s) - k
      /\ \A j \in 1 .. Len(s) - k : b[j] = s[j + k]
  <2>1. \A j \in k + 1 .. Len(s) : s[j] \in S
    BY ElementOfSeq
  <2> QED BY <2>1, SubSeqProperties
<1>3. RemoveAt(s, k) = a \o b
  BY DEF RemoveAt
<1> HIDE DEF a, b
<1>4. /\ a \o b \in Seq(S)
      /\ Len(a \o b) = Len(s) - 1
      /\ \A j \in 1 .. Len(s) - 1 :
           (a \o b)[j] = IF j <= k - 1 THEN a[j] ELSE b[j - (k - 1)]
  BY <1>1, <1>2, ConcatProperties
<1>5. ASSUME NEW j \in 1 .. Len(s) - 1
      PROVE  (a \o b)[j] = IF j < k THEN s[j] ELSE s[j + 1]
  <2>1. Len(s) \in Nat
    BY LenProperties
  <2>2. CASE j < k
    <3>1. (a \o b)[j] = a[j]
      BY <1>4, <2>1, <2>2
    <3> QED BY <1>1, <2>1, <2>2, <3>1
  <2>3. CASE j >= k
    <3>0. ~(j <= k - 1)
      BY <2>1, <2>3
    <3>1. (a \o b)[j] = b[j - (k - 1)]
      BY <1>4, <3>0
    <3>2. j - (k - 1) \in 1 .. Len(s) - k /\ j - (k - 1) + k = j + 1
      BY <2>1, <2>3
    <3> QED BY <1>2, <2>1, <2>3, <3>1, <3>2
  <2>4. j < k \/ j >= k
    BY <2>1
  <2> QED BY <2>2, <2>3, <2>4
<1> QED BY <1>3, <1>4, <1>5

\* A timer added.
LEMMA TimerAdded ==
  ASSUME Prompt, NEW n \in Time, NEW s \in Seq(Timer), Near(s, n), Len(s) < MaxTimers,
         NEW e \in Timer, 0 <= Ahead(e.t, n), Ahead(e.t, n) <= SortSpan - MarginPost
  PROVE  /\ Append(s, e) \in Seq(Timer) /\ Len(Append(s, e)) = Len(s) + 1
         /\ Keeps(Append(s, e), SortTimers(Append(s, e)), n)
         /\ InOrder(SortTimers(Append(s, e)), n)
         /\ \A x \in Nat : InTime(s, n, x) => InTime(SortTimers(Append(s, e)), n, x)
         /\ Served(s, n) => Served(SortTimers(Append(s, e)), n)
<1>1. PICK a \in Seq(Timer) : a = Append(s, e)
  <2>1. Append(s, e) \in Seq(Timer)
    OBVIOUS
  <2> QED BY <2>1
<1>2. /\ Len(a) = Len(s) + 1 /\ Len(s) \in Nat /\ a[Len(s) + 1] = e
      /\ \A r \in 1 .. Len(s) : a[r] = s[r]
  BY <1>1
<1>3. \A r \in 1 .. Len(a) : r \in 1 .. Len(s) \/ r = Len(s) + 1
  BY <1>2
<1>4. e.t \in Time
  BY DEF Timer
<1>5. Ahead(e.t, n) \in Int /\ Delay[0] \in Nat
  BY <1>4, AheadIs, DelayIsShort
<1>6. Near(a, n)
  BY <1>2, <1>3, <1>5 DEF Near, Close
<1>7. Len(a) <= MaxTimers
  BY <1>2, WordFacts
<1>8. \A r \in 1 .. Len(a) : Delay[r] \in Nat /\ Delay[r - 1] \in Nat
  <2> SUFFICES ASSUME NEW r \in 1 .. Len(a) PROVE Delay[r] \in Nat /\ Delay[r - 1] \in Nat
    OBVIOUS
  <2>1. r \in 0 .. MaxTimers /\ r - 1 \in 0 .. MaxTimers
    BY <1>2, <1>7, WordFacts
  <2> QED BY <2>1, DelayFacts
<1>9. Keeps(a, SortTimers(a), n) /\ InOrder(SortTimers(a), n)
  BY <1>6, <1>7, SortKeeps
<1>10. ASSUME NEW x \in Nat, InTime(s, n, x) PROVE InTime(SortTimers(a), n, x)
  <2> SUFFICES ASSUME NEW r \in 1 .. Len(a) PROVE Ahead(a[r].t, n) >= -(Delay[r] + x)
    BY <1>9 DEF InTime, Keeps
  <2>1. CASE r \in 1 .. Len(s)
    BY <1>2, <1>10, <2>1 DEF InTime
  <2>2. CASE r = Len(s) + 1
    <3>1. PICK d \in Nat : d = Delay[r]
      BY <1>8
    <3>2. -(d + x) <= 0
      OBVIOUS
    <3>3. Ahead(e.t, n) >= -(d + x)
      BY <1>5, <3>2
    <3> QED BY <1>2, <2>2, <3>1, <3>3
  <2> QED BY <1>3, <2>1, <2>2
<1>11. ASSUME Served(s, n) PROVE Served(SortTimers(a), n)
  <2>1. PICK p \in 1 .. Len(s) + 1 : ServedAt(s, n, p)
    BY <1>11 DEF Served
  <2>2. p \in 1 .. Len(a) + 1
    BY <1>2
  <2>3. ServedAt(a, n, p)
    <3> SUFFICES ASSUME NEW r \in 1 .. Len(a)
                 PROVE  Ahead(a[r].t, n) >= IF r < p THEN -Delay[r]
                                            ELSE IF r = p THEN 0 ELSE -Delay[r - 1]
      BY DEF ServedAt
    <3>1. CASE r \in 1 .. Len(s)
      BY <1>2, <2>1, <3>1 DEF ServedAt
    <3>2. CASE r = Len(s) + 1
      <4>1. Ahead(a[r].t, n) \in Int /\ Ahead(a[r].t, n) >= 0
        BY <1>2, <1>5, <3>2
      <4>2. Delay[r] \in Nat /\ Delay[r - 1] \in Nat
        BY <1>8
      <4> QED BY <4>1, <4>2
    <3> QED BY <1>3, <3>1, <3>2
  <2>4. Served(a, n)
    BY <2>2, <2>3 DEF Served
  <2> QED BY <1>9, <2>4 DEF Keeps
<1> QED BY <1>1, <1>2, <1>9, <1>10, <1>11

\* A timer taken out: those behind it move up.
LEMMA TimerRemoved ==
  ASSUME Prompt, NEW n \in Time, NEW s \in Seq(Timer), Near(s, n), Len(s) <= MaxTimers,
         NEW m \in 1 .. Len(s)
  PROVE  /\ RemoveAt(s, m) \in Seq(Timer) /\ Len(RemoveAt(s, m)) = Len(s) - 1
         /\ Near(RemoveAt(s, m), n)
         /\ InOrder(s, n) => InOrder(RemoveAt(s, m), n)
         /\ \A x \in Nat : InTime(s, n, x) => InTime(RemoveAt(s, m), n, x)
         /\ Served(s, n) => Served(RemoveAt(s, m), n)
         /\ m = 1 /\ InTime(s, n, MaxGap) => Served(RemoveAt(s, m), n)
<1>1. PICK c \in Seq(Timer) : c = RemoveAt(s, m)
  BY RemoveAtProperties
<1>2. /\ Len(c) = Len(s) - 1 /\ Len(s) \in Nat
      /\ \A r \in 1 .. Len(c) : c[r] = IF r < m THEN s[r] ELSE s[r + 1]
  <2>1. /\ Len(RemoveAt(s, m)) = Len(s) - 1
        /\ \A r \in 1 .. Len(s) - 1 : RemoveAt(s, m)[r] = IF r < m THEN s[r] ELSE s[r + 1]
    BY RemoveAtProperties
  <2> QED BY <1>1, <2>1
<1> DEFINE a == [r \in 1 .. Len(s) |-> Ahead(s[r].t, n)]
           b == [r \in 1 .. Len(c) |-> Ahead(c[r].t, n)]
<1>3. a \in [1 .. Len(s) -> Int]
  <2>1. \A r \in 1 .. Len(s) : s[r] \in Timer
    OBVIOUS
  <2>2. \A r \in 1 .. Len(s) : s[r].t \in Time
    BY <2>1 DEF Timer
  <2>3. \A r \in 1 .. Len(s) : Ahead(s[r].t, n) \in Int
    BY <2>2, AheadIs
  <2> QED BY <2>3
<1>4. /\ \A r \in 1 .. Len(s) : a[r] = Ahead(s[r].t, n)
      /\ \A r \in 1 .. Len(c) : b[r] = Ahead(c[r].t, n)
  OBVIOUS
<1>5. \A r \in 1 .. Len(c) : /\ r < m => b[r] = a[r]
                             /\ m <= r => b[r] = a[r + 1]
                             /\ r \in 1 .. Len(s) /\ r + 1 \in 1 .. Len(s)
  <2> SUFFICES ASSUME NEW r \in 1 .. Len(c)
               PROVE  /\ r < m => b[r] = a[r]
                      /\ m <= r => b[r] = a[r + 1]
                      /\ r \in 1 .. Len(s) /\ r + 1 \in 1 .. Len(s)
    OBVIOUS
  <2>1. r \in 1 .. Len(s) /\ r + 1 \in 1 .. Len(s) /\ (m <= r => ~(r < m))
    BY <1>2
  <2>2. c[r] = IF r < m THEN s[r] ELSE s[r + 1]
    BY <1>2
  <2> QED BY <1>4, <2>1, <2>2
<1> HIDE DEF a, b
<1>6. \A r \in 1 .. Len(s) : /\ Delay[r] \in Nat /\ Delay[r - 1] \in Nat
                             /\ Delay[r - 1] = Delay[r] + MaxGap
  <2> SUFFICES ASSUME NEW r \in 1 .. Len(s)
               PROVE  /\ Delay[r] \in Nat /\ Delay[r - 1] \in Nat
                      /\ Delay[r - 1] = Delay[r] + MaxGap
    OBVIOUS
  <2>1. r \in 1 .. MaxTimers /\ r \in 0 .. MaxTimers /\ r - 1 \in 0 .. MaxTimers
    BY WordFacts
  <2> QED BY <2>1, DelayFacts
<1>7. \A r \in 1 .. Len(c) : /\ Delay[r] \in Nat /\ Delay[r - 1] \in Nat
                             /\ Delay[r + 1] \in Nat /\ (r + 1) - 1 = r
                             /\ Delay[r] = Delay[r + 1] + MaxGap
                             /\ Delay[r - 1] = Delay[r] + MaxGap
  <2> SUFFICES ASSUME NEW r \in 1 .. Len(c)
               PROVE  /\ Delay[r] \in Nat /\ Delay[r - 1] \in Nat
                      /\ Delay[r + 1] \in Nat /\ (r + 1) - 1 = r
                      /\ Delay[r] = Delay[r + 1] + MaxGap
                      /\ Delay[r - 1] = Delay[r] + MaxGap
    OBVIOUS
  <2>1. (r + 1) - 1 = r
    OBVIOUS
  <2> QED BY <1>5, <1>6, <2>1
<1>8. Near(c, n)
  <2>1. \A r \in 1 .. Len(s) : a[r] >= -Delay[0] /\ a[r] <= SortSpan - MarginPost
    BY <1>4 DEF Near, Close
  <2>2. \A r \in 1 .. Len(c) : b[r] >= -Delay[0] /\ b[r] <= SortSpan - MarginPost
    <3> SUFFICES ASSUME NEW r \in 1 .. Len(c) PROVE b[r] >= -Delay[0] /\ b[r] <= SortSpan - MarginPost
      OBVIOUS
    <3>1. r < m \/ m <= r
      OBVIOUS
    <3> QED BY <1>5, <2>1, <3>1
  <2> QED BY <1>4, <2>2 DEF Near, Close
<1>9. ASSUME InOrder(s, n) PROVE InOrder(c, n)
  <2>1. \A r, k \in 1 .. Len(s) : r < k => a[r] <= a[k]
    BY <1>4, <1>9 DEF InOrder, TopInOrder
  <2> SUFFICES ASSUME NEW r \in 1 .. Len(c), NEW k \in 1 .. Len(c), r < k
               PROVE  b[r] <= b[k]
    BY <1>4 DEF InOrder, TopInOrder
  <2>2. /\ r \in 1 .. Len(s) /\ r + 1 \in 1 .. Len(s) /\ k \in 1 .. Len(s) /\ k + 1 \in 1 .. Len(s)
    BY <1>5
  <2>3. CASE k < m
    <3>1. b[r] = a[r] /\ b[k] = a[k]
      BY <1>5, <2>3
    <3> QED BY <2>1, <2>2, <3>1
  <2>4. CASE r < m /\ m <= k
    <3>1. b[r] = a[r] /\ b[k] = a[k + 1] /\ r < k + 1
      BY <1>5, <2>4
    <3> QED BY <2>1, <2>2, <3>1
  <2>5. CASE m <= r
    <3>1. b[r] = a[r + 1] /\ b[k] = a[k + 1] /\ r + 1 < k + 1
      BY <1>5, <2>5
    <3> QED BY <2>1, <2>2, <3>1
  <2>6. k < m \/ (r < m /\ m <= k) \/ m <= r
    OBVIOUS
  <2> QED BY <2>3, <2>4, <2>5, <2>6
<1>10. ASSUME NEW x \in Nat, InTime(s, n, x) PROVE InTime(c, n, x)
  <2>1. \A r \in 1 .. Len(s) : a[r] >= -(Delay[r] + x)
    BY <1>4, <1>10 DEF InTime
  <2> SUFFICES ASSUME NEW r \in 1 .. Len(c) PROVE b[r] >= -(Delay[r] + x)
    BY <1>4 DEF InTime
  <2>2. CASE r < m
    BY <1>5, <2>1, <2>2
  <2>3. CASE m <= r
    <3>1. b[r] = a[r + 1] /\ r + 1 \in 1 .. Len(s)
      BY <1>5, <2>3
    <3>7. Delay[r] \in Nat /\ Delay[r + 1] \in Nat /\ Delay[r] = Delay[r + 1] + MaxGap
      BY <1>7
    <3>2. PICK d, e \in Nat : d = Delay[r] /\ e = Delay[r + 1] /\ d = e + MaxGap
      BY <3>7
    <3>3. PICK y \in Int : y = a[r + 1]
      BY <1>3, <3>1
    <3>4. y >= -(e + x)
      BY <2>1, <3>1, <3>2, <3>3
    <3>5. d = e + MaxGap
      BY <3>2
    <3>6. y >= -(d + x)
      BY <3>4, <3>5, WordFacts
    <3> QED BY <3>1, <3>2, <3>3, <3>6
  <2> QED BY <2>2, <2>3
<1>11. ASSUME Served(s, n) PROVE Served(c, n)
  <2>1. PICK p \in 1 .. Len(s) + 1 : ServedAt(s, n, p)
    BY <1>11 DEF Served
  <2> DEFINE Bound(z, r) == IF r < z THEN -Delay[r] ELSE IF r = z THEN 0 ELSE -Delay[r - 1]
  <2>2. \A r \in 1 .. Len(s) : a[r] >= Bound(p, r)
    BY <1>4, <2>1 DEF ServedAt
  <2>3. PICK z \in 1 .. Len(c) + 1 : z = IF p = m THEN Len(c) + 1 ELSE IF m < p THEN p - 1 ELSE p
    <3>1. Len(c) + 1 \in 1 .. Len(c) + 1 /\ Len(c) + 1 = Len(s)
      BY <1>2
    <3>2. m < p => p - 1 \in 1 .. Len(s)
      BY <1>2
    <3>3. p < m => p \in 1 .. Len(s)
      BY <1>2
    <3>4. p = m \/ m < p \/ p < m
      BY <1>2
    <3> QED BY <3>1, <3>2, <3>3, <3>4
  <2>4. ASSUME NEW r \in 1 .. Len(c) PROVE b[r] >= Bound(z, r)
    <3>1. PICK d, e, h \in Nat : /\ d = Delay[r] /\ e = Delay[r + 1] /\ h = Delay[r - 1]
                                 /\ d = e + MaxGap /\ h = d + MaxGap
      <4>1. /\ Delay[r] \in Nat /\ Delay[r + 1] \in Nat /\ Delay[r - 1] \in Nat
            /\ Delay[r] = Delay[r + 1] + MaxGap /\ Delay[r - 1] = Delay[r] + MaxGap
        BY <1>7
      <4> QED BY <4>1
    <3>2. d >= e /\ h >= d
      <4>1. d = e + MaxGap /\ h = d + MaxGap
        BY <3>1
      <4> QED BY <4>1, WordFacts
    <3>3. Bound(z, r) = IF r < z THEN -d ELSE IF r = z THEN 0 ELSE -h
      BY <3>1
    <3>4. r \in 1 .. Len(s) /\ r + 1 \in 1 .. Len(s) /\ (r + 1) - 1 = r
      BY <1>5
    <3>5. Bound(p, r) = IF r < p THEN -d ELSE IF r = p THEN 0 ELSE -h
      BY <3>1
    <3>6. Bound(p, r + 1) = IF r + 1 < p THEN -e ELSE IF r + 1 = p THEN 0 ELSE -d
      BY <3>1, <3>4
    <3>7. PICK y \in Int : y = a[r] /\ y >= Bound(p, r)
      BY <1>3, <2>2, <3>4
    <3>8. PICK w \in Int : w = a[r + 1] /\ w >= Bound(p, r + 1)
      BY <1>3, <2>2, <3>4
    <3> HIDE DEF Bound
    <3>9. y >= Bound(p, r) /\ w >= Bound(p, r + 1)
      BY <3>7, <3>8
    <3>10. Len(c) \in Nat /\ p \in Nat /\ m \in Nat /\ r \in Nat /\ z \in Nat /\ r <= Len(c)
      BY <1>2
    <3>11. CASE r < m
      <4>1. y >= Bound(z, r)
        BY <2>3, <3>2, <3>3, <3>5, <3>9, <3>10, <3>11
      <4> QED BY <1>5, <3>7, <3>11, <4>1
    <3>12. CASE m <= r
      <4>1. w >= Bound(z, r)
        BY <2>3, <3>2, <3>3, <3>6, <3>9, <3>10, <3>12
      <4> QED BY <1>5, <3>8, <3>12, <4>1
    <3> QED BY <3>10, <3>11, <3>12
  <2>5. ServedAt(c, n, z)
    BY <1>4, <2>4 DEF ServedAt
  <2> QED BY <2>5 DEF Served
<1>12. ASSUME m = 1, InTime(s, n, MaxGap) PROVE Served(c, n)
  <2>1. \A r \in 1 .. Len(s) : a[r] >= -(Delay[r] + MaxGap)
    BY <1>4, <1>12 DEF InTime
  <2>2. ASSUME NEW r \in 1 .. Len(c) PROVE b[r] >= -Delay[r] /\ r < Len(c) + 1
    <3>1. b[r] = a[r + 1] /\ r + 1 \in 1 .. Len(s)
      BY <1>5, <1>12
    <3>2. Delay[r + 1] + MaxGap = Delay[r]
      BY <1>7
    <3>3. a[r + 1] >= -Delay[r]
      BY <2>1, <3>1, <3>2
    <3> QED BY <1>2, <3>1, <3>3
  <2>3. ServedAt(c, n, Len(c) + 1)
    BY <1>4, <2>2 DEF ServedAt
  <2>4. Len(c) + 1 \in 1 .. Len(c) + 1
    BY <1>2
  <2> QED BY <2>3, <2>4 DEF Served
<1> QED BY <1>1, <1>2, <1>8, <1>9, <1>10, <1>11, <1>12

\* The timer in place m served and due again.
LEMMA TimerAgain ==
  ASSUME Prompt, NEW n \in Time, NEW s \in Seq(Timer), Near(s, n), Len(s) <= MaxTimers,
         NEW m \in 1 .. Len(s),
         NEW e \in Timer, 0 <= Ahead(e.t, n), Ahead(e.t, n) <= SortSpan - MarginPost
  PROVE  LET c == [s EXCEPT ![m] = e]
         IN  /\ c \in Seq(Timer) /\ Len(c) = Len(s) /\ Near(c, n)
             /\ Served(s, n) => Served(c, n)
             /\ m = 1 /\ InTime(s, n, MaxGap) => Served(c, n)
<1>1. PICK c \in Seq(Timer) : c = [s EXCEPT ![m] = e]
  <2>1. [s EXCEPT ![m] = e] \in Seq(Timer)
    OBVIOUS
  <2> QED BY <2>1
<1>2. /\ Len(c) = Len(s) /\ Len(s) \in Nat /\ c[m] = e
      /\ \A r \in 1 .. Len(s) : r # m => c[r] = s[r]
  BY <1>1
<1>3. e.t \in Time
  BY DEF Timer
<1>4. Ahead(e.t, n) \in Int /\ Delay[0] \in Nat
  BY <1>3, AheadIs, DelayIsShort
<1>5. Near(c, n)
  BY <1>2, <1>4 DEF Near, Close
<1>6. \A r \in 1 .. Len(s) : /\ Delay[r] \in Nat /\ Delay[r - 1] \in Nat
                             /\ Delay[r - 1] = Delay[r] + MaxGap
  <2> SUFFICES ASSUME NEW r \in 1 .. Len(s)
               PROVE  /\ Delay[r] \in Nat /\ Delay[r - 1] \in Nat
                      /\ Delay[r - 1] = Delay[r] + MaxGap
    OBVIOUS
  <2>1. r \in 1 .. MaxTimers /\ r \in 0 .. MaxTimers /\ r - 1 \in 0 .. MaxTimers
    BY WordFacts
  <2> QED BY <2>1, DelayFacts
<1>7. ASSUME Served(s, n) PROVE Served(c, n)
  <2>1. PICK p \in 1 .. Len(s) + 1 : ServedAt(s, n, p)
    BY <1>7 DEF Served
  <2>2. ServedAt(c, n, p)
    <3> SUFFICES ASSUME NEW r \in 1 .. Len(s)
                 PROVE  Ahead(c[r].t, n) >= IF r < p THEN -Delay[r]
                                            ELSE IF r = p THEN 0 ELSE -Delay[r - 1]
      BY <1>2 DEF ServedAt
    <3>1. CASE r # m
      BY <1>2, <2>1, <3>1 DEF ServedAt
    <3>2. CASE r = m
      <4>1. Ahead(c[r].t, n) \in Int /\ Ahead(c[r].t, n) >= 0
        BY <1>2, <1>4, <3>2
      <4>2. Delay[r] \in Nat /\ Delay[r - 1] \in Nat
        BY <1>6
      <4> QED BY <4>1, <4>2
    <3> QED BY <3>1, <3>2
  <2> QED BY <1>2, <2>2 DEF Served
<1>8. ASSUME m = 1, InTime(s, n, MaxGap) PROVE Served(c, n)
  <2>1. ASSUME NEW r \in 1 .. Len(s)
        PROVE  Ahead(c[r].t, n) >= IF r < 1 THEN -Delay[r]
                                   ELSE IF r = 1 THEN 0 ELSE -Delay[r - 1]
    <3>1. CASE r = 1
      BY <1>2, <1>4, <1>8, <3>1
    <3>2. CASE r # 1
      <4>1. Ahead(s[r].t, n) >= -(Delay[r] + MaxGap) /\ c[r] = s[r]
        BY <1>2, <1>8, <3>2 DEF InTime
      <4>2. Delay[r] + MaxGap = Delay[r - 1] /\ ~(r < 1)
        BY <1>6
      <4> QED BY <3>2, <4>1, <4>2
    <3> QED BY <3>1, <3>2
  <2>2. ServedAt(c, n, 1)
    BY <1>2, <2>1 DEF ServedAt
  <2>3. 1 \in 1 .. Len(c) + 1
    BY <1>2
  <2> QED BY <2>2, <2>3 DEF Served
<1> QED BY <1>1, <1>2, <1>5, <1>7, <1>8

-----------------------------------------------------------------------------
(* The software timers: the invariant.                                     *)

\* Between the calls of process the table is in order, no timer is later
\* than its place allows, and no wake-up but the first timer's is armed.
BetweenCalls ==
  pc = "main" => /\ InOrder(tbl, now) /\ InTime(tbl, now, gap)
                 /\ tbl # <<>> => wake \in {NoWake, tbl[1].t}

\* In a pass all timers are as late as the call found them, until the first
\* has been served; the order may be lost once a timer is due again.
InPass ==
  pc # "main" => /\ pnow = now /\ gap = 0
                 /\ ~change => InOrder(tbl, now)
                 /\ i = 1 => InTime(tbl, now, MaxGap)
                 /\ i # 1 => Served(tbl, now)

\* A pass begins with a first timer that is due.
FirstIsDue ==
  /\ pc = "loop" /\ i = 1 => tbl # <<>> /\ Expired(tbl[1].t, now)
  /\ pc = "cb" => i <= MaxTimers

TimersInv == TimersTyped /\ Near(tbl, now) /\ BetweenCalls /\ InPass /\ FirstIsDue

LEMMA InitTimersInv == TimersInit => TimersInv
<1> SUFFICES ASSUME TimersInit PROVE TimersInv
  OBVIOUS
<1>1. tbl = <<>> /\ Len(tbl) = 0 /\ tbl \in Seq(Timer) /\ pc = "main"
  BY DEF TimersInit
<1>2. 0 \in Time /\ 1 \in 1 .. MaxTimers + 1 /\ 0 \in 0 .. MaxGap /\ 0 <= MaxTimers
  BY WordFacts
<1>3. TimersTyped
  BY <1>1, <1>2 DEF TimersInit, TimersTyped, NoWake
<1>4. Near(tbl, now) /\ InOrder(tbl, now) /\ InTime(tbl, now, gap)
  BY <1>1 DEF Near, InOrder, TopInOrder, InTime
<1> QED BY <1>1, <1>3, <1>4 DEF TimersInv, BetweenCalls, InPass, FirstIsDue

LEMMA IntervalFacts ==
  ASSUME NEW v \in Interval
  PROVE  v \in Nat /\ v <= SortSpan - MarginPost /\ v <= SortSpan
BY IntervalAssumption, WordFacts

LEMMA ArmedIs ==
  ASSUME NEW t, NEW n
  PROVE  Armed(t, n) \in {t, NoWake}
BY DEF Armed

LEMMA FirstTyped ==
  ASSUME NEW s \in Seq(Timer), s # <<>>
  PROVE  1 \in 1 .. Len(s) /\ s[1] \in Timer /\ s[1].t \in Time
<1>1. 1 \in 1 .. Len(s)
  OBVIOUS
<1>2. s[1] \in Timer
  BY <1>1
<1> QED BY <1>1, <1>2 DEF Timer

\* blt_soft_timer_add
LEMMA AddKeepsInv ==
  ASSUME Prompt, TimersInv, pc \in {"main", "cb"}, NEW f \in Callback, NEW v \in Interval,
         Add(f, v), UNCHANGED <<now, pc, i, pnow, change, run, gap>>
  PROVE  TimersInv'
<1>0. TimersTyped /\ Near(tbl, now) /\ BetweenCalls /\ InPass /\ FirstIsDue
  BY DEF TimersInv
<1>1. now \in Time /\ tbl \in Seq(Timer) /\ Len(tbl) < MaxTimers
  BY <1>0 DEF TimersTyped, Add
<1>2. v \in Nat /\ v <= SortSpan - MarginPost /\ v <= SortSpan
  BY IntervalFacts
<1>3. PICK e : e = [cb |-> f, t |-> (now + v) % WordMod, interval |-> v]
  OBVIOUS
<1>4. (now + v) % WordMod \in Time /\ Ahead((now + v) % WordMod, now) = v
  BY <1>1, <1>2, AheadOfNew
<1>5. e \in Timer /\ e.t = (now + v) % WordMod
  BY <1>3, <1>4 DEF Timer
<1>6. 0 <= Ahead(e.t, now) /\ Ahead(e.t, now) <= SortSpan - MarginPost
  BY <1>2, <1>4, <1>5
<1>7. PICK c : c = SortTimers(Append(tbl, e))
  OBVIOUS
<1>8. tbl' = c /\ wake' = c[1].t
  BY <1>3, <1>7 DEF Add
<1>9. /\ c \in Seq(Timer) /\ Len(c) = Len(tbl) + 1 /\ Near(c, now) /\ InOrder(c, now)
      /\ \A x \in Nat : InTime(tbl, now, x) => InTime(c, now, x)
      /\ Served(tbl, now) => Served(c, now)
  BY <1>0, <1>1, <1>5, <1>6, <1>7, TimerAdded DEF Keeps
<1>10. Len(c) <= MaxTimers /\ c # <<>>
  BY <1>1, <1>9, WordFacts
<1>11. c[1].t \in Time
  BY <1>9, <1>10, FirstTyped
<1>12. TimersTyped'
  BY <1>0, <1>8, <1>9, <1>10, <1>11 DEF TimersTyped
<1>13. Near(tbl, now)' /\ InOrder(tbl, now)'
  BY <1>8, <1>9
<1>14. BetweenCalls'
  <2> SUFFICES ASSUME pc' = "main" PROVE InTime(tbl, now, gap)'
    BY <1>8, <1>13 DEF BetweenCalls
  <2>1. InTime(tbl, now, gap) /\ gap \in Nat
    BY <1>0, WordFacts DEF BetweenCalls, TimersTyped
  <2>2. InTime(c, now, gap)
    BY <1>9, <2>1
  <2> QED BY <1>8, <2>2
<1>15. InPass'
  <2> SUFFICES ASSUME pc' # "main"
               PROVE  /\ i = 1 => InTime(c, now, MaxGap)
                      /\ i # 1 => Served(c, now)
    BY <1>0, <1>8, <1>13 DEF InPass
  <2>1. (i = 1 => InTime(tbl, now, MaxGap)) /\ (i # 1 => Served(tbl, now)) /\ MaxGap \in Nat
    BY <1>0, WordFacts DEF InPass
  <2> QED BY <1>9, <2>1
<1>16. FirstIsDue'
  BY <1>0 DEF FirstIsDue
<1> QED BY <1>12, <1>13, <1>14, <1>15, <1>16 DEF TimersInv

\* blt_soft_timer_delete
LEMMA DeleteKeepsInv ==
  ASSUME Prompt, TimersInv, pc \in {"main", "cb"}, NEW f \in Callback,
         Delete(f), UNCHANGED <<now, pc, i, pnow, change, run, gap>>
  PROVE  TimersInv'
<1>0. TimersTyped /\ Near(tbl, now) /\ BetweenCalls /\ InPass /\ FirstIsDue
  BY DEF TimersInv
<1>1. now \in Time /\ tbl \in Seq(Timer) /\ Len(tbl) <= MaxTimers
  BY <1>0 DEF TimersTyped
<1>2. PICK m \in 1 .. Len(tbl) :
        /\ tbl' = RemoveAt(tbl, m)
        /\ wake' = IF m # 1 THEN wake
                   ELSE Armed(IF tbl' = <<>> THEN tbl[1].t ELSE tbl'[1].t, now)
  <2>1. DOMAIN tbl = 1 .. Len(tbl)
    BY <1>1
  <2> QED BY <2>1 DEF Delete
<1>3. PICK c : c = RemoveAt(tbl, m)
  OBVIOUS
<1>4. /\ c \in Seq(Timer) /\ Len(c) = Len(tbl) - 1 /\ Near(c, now)
      /\ InOrder(tbl, now) => InOrder(c, now)
      /\ \A x \in Nat : InTime(tbl, now, x) => InTime(c, now, x)
      /\ Served(tbl, now) => Served(c, now)
  BY <1>0, <1>1, <1>3, TimerRemoved
<1>5. tbl' = c /\ Len(c) <= MaxTimers
  <2>1. Len(tbl) \in Nat
    BY <1>1
  <2> QED BY <1>1, <1>2, <1>3, <1>4, <2>1, WordFacts
<1>6. tbl # <<>> /\ tbl[1].t \in Time
  BY <1>1, FirstTyped
<1>7. wake' \in Time \cup {NoWake}
  <2>1. CASE m # 1
    BY <1>0, <1>2, <2>1 DEF TimersTyped
  <2>2. CASE m = 1
    <3>1. c # <<>> => c[1].t \in Time
      BY <1>4, FirstTyped
    <3>2. PICK t \in Time : t = IF c = <<>> THEN tbl[1].t ELSE c[1].t
      BY <1>6, <3>1
    <3>3. wake' = Armed(t, now)
      BY <1>2, <1>5, <2>2, <3>2
    <3> QED BY <3>3, ArmedIs
  <2> QED BY <2>1, <2>2
<1>8. TimersTyped'
  BY <1>0, <1>4, <1>5, <1>7 DEF TimersTyped
<1>9. Near(tbl, now)'
  BY <1>4, <1>5
<1>10. BetweenCalls'
  <2> SUFFICES ASSUME pc' = "main"
               PROVE  /\ InOrder(c, now) /\ InTime(c, now, gap)
                      /\ c # <<>> => wake' \in {NoWake, c[1].t}
    BY <1>5 DEF BetweenCalls
  <2>1. /\ InOrder(tbl, now) /\ InTime(tbl, now, gap) /\ gap \in Nat
        /\ wake \in {NoWake, tbl[1].t}
    BY <1>0, <1>6, WordFacts DEF BetweenCalls, TimersTyped
  <2>2. InOrder(c, now) /\ InTime(c, now, gap)
    BY <1>4, <2>1
  <2>3. ASSUME c # <<>> PROVE wake' \in {NoWake, c[1].t}
    <3>1. CASE m # 1
      <4>1. 1 \in 1 .. Len(tbl) - 1
        BY <1>4, <2>3
      <4>2. 1 < m
        BY <3>1
      <4>3. c[1] = tbl[1]
        BY <1>1, <1>3, <4>1, <4>2, RemoveAtProperties
      <4> QED BY <1>2, <2>1, <3>1, <4>3
    <3>2. CASE m = 1
      <4>1. wake' = Armed(c[1].t, now)
        BY <1>2, <1>5, <2>3, <3>2
      <4> QED BY <4>1, ArmedIs
    <3> QED BY <3>1, <3>2
  <2> QED BY <2>2, <2>3
<1>11. InPass'
  <2> SUFFICES ASSUME pc' # "main"
               PROVE  /\ ~change => InOrder(c, now)
                      /\ i = 1 => InTime(c, now, MaxGap)
                      /\ i # 1 => Served(c, now)
    BY <1>0, <1>5 DEF InPass
  <2>1. /\ ~change => InOrder(tbl, now)
        /\ i = 1 => InTime(tbl, now, MaxGap)
        /\ i # 1 => Served(tbl, now)
        /\ MaxGap \in Nat
    BY <1>0, WordFacts DEF InPass
  <2> QED BY <1>4, <2>1
<1>12. FirstIsDue'
  BY <1>0 DEF FirstIsDue
<1> QED BY <1>8, <1>9, <1>10, <1>11, <1>12 DEF TimersInv

LEMMA AppCallKeepsInv ==
  ASSUME Prompt, TimersInv, AppCall PROVE TimersInv'
<1>1. pc \in {"main", "cb"} /\ UNCHANGED <<now, pc, i, pnow, change, run, gap>>
  BY DEF AppCall
<1>2. PICK f \in Callback : Delete(f) \/ \E v \in Interval : Add(f, v)
  BY DEF AppCall
<1>3. CASE Delete(f)
  BY <1>1, <1>3, DeleteKeepsInv
<1>4. CASE \E v \in Interval : Add(f, v)
  BY <1>1, <1>4, AddKeepsInv
<1> QED BY <1>2, <1>3, <1>4

LEMMA TickKeepsInv ==
  ASSUME Prompt, TimersInv, Tick PROVE TimersInv'
<1>0. TimersTyped /\ Near(tbl, now) /\ BetweenCalls /\ InPass /\ FirstIsDue
  BY DEF TimersInv
<1>1. /\ now \in Time /\ tbl \in Seq(Timer) /\ Len(tbl) <= MaxTimers /\ gap \in Nat
      /\ pc = "main" /\ gap < MaxGap /\ now' = (now + 1) % WordMod /\ gap' = gap + 1
      /\ UNCHANGED <<tbl, wake, pc, i, pnow, change, run>>
  BY <1>0, WordFacts DEF TimersTyped, Tick
<1>2. \A r \in 1 .. Len(tbl) : tbl[r].t \in Time /\ Close(tbl[r].t, now)
  <2>1. \A r \in 1 .. Len(tbl) : tbl[r] \in Timer
    BY <1>1
  <2> QED BY <1>0, <2>1 DEF Timer, Near
<1>3. PICK n \in Time : n = now'
  <2>1. ASSUME tbl = <<>> PROVE (now + 1) % WordMod \in Time
    <3>1. PICK v \in Nat : v = 1 /\ v <= SortSpan
      BY WordFacts
    <3>2. (now + v) % WordMod \in Time
      BY <1>1, <3>1, AheadOfNew
    <3> QED BY <3>1, <3>2
  <2>2. ASSUME tbl # <<>> PROVE (now + 1) % WordMod \in Time
    <3>1. 1 \in 1 .. Len(tbl)
      BY <1>1, <2>2, FirstTyped
    <3> QED BY <1>1, <1>2, <3>1, AheadAtTick
  <2> QED BY <1>1, <2>1, <2>2
<1> DEFINE a == [r \in 1 .. Len(tbl) |-> Ahead(tbl[r].t, now)]
<1>4. a \in [1 .. Len(tbl) -> Int]
  <2>1. \A r \in 1 .. Len(tbl) : Ahead(tbl[r].t, now) \in Int
    BY <1>1, <1>2, AheadIs
  <2> QED BY <2>1
<1>5. \A r \in 1 .. Len(tbl) : a[r] = Ahead(tbl[r].t, now)
  OBVIOUS
<1> HIDE DEF a
<1>6. \A r \in 1 .. Len(tbl) : Ahead(tbl[r].t, n) = a[r] - 1
  <2> SUFFICES ASSUME NEW r \in 1 .. Len(tbl) PROVE Ahead(tbl[r].t, n) = a[r] - 1
    OBVIOUS
  <2>1. Ahead(tbl[r].t, (now + 1) % WordMod) = Ahead(tbl[r].t, now) - 1
    BY <1>1, <1>2, AheadAtTick
  <2> QED BY <1>1, <1>3, <1>5, <2>1
<1>7. \A r \in 1 .. Len(tbl) : a[r] >= -(Delay[r] + gap)
  BY <1>0, <1>1, <1>5 DEF BetweenCalls, InTime
<1>8. \A r \in 1 .. Len(tbl) : Delay[r] \in Nat /\ Delay[r] + MaxGap <= Delay[0]
  <2> SUFFICES ASSUME NEW r \in 1 .. Len(tbl)
               PROVE  Delay[r] \in Nat /\ Delay[r] + MaxGap <= Delay[0]
    OBVIOUS
  <2>1. r \in 1 .. MaxTimers /\ r \in 0 .. MaxTimers /\ r - 1 \in 0 .. MaxTimers
    BY <1>1, WordFacts
  <2>2. Delay[r] \in Nat /\ Delay[r - 1] <= Delay[0] /\ Delay[r - 1] = Delay[r] + MaxGap
    BY <2>1, DelayFacts
  <2> QED BY <2>2
<1>9. Near(tbl, n)
  <2> SUFFICES ASSUME NEW r \in 1 .. Len(tbl)
               PROVE  a[r] - 1 >= -Delay[0] /\ a[r] - 1 <= SortSpan - MarginPost
    BY <1>6 DEF Near, Close
  <2>1. a[r] <= SortSpan - MarginPost
    BY <1>2, <1>5 DEF Close
  <2>2. PICK y \in Int : y = a[r]
    BY <1>4
  <2>3. PICK d \in Nat : d = Delay[r]
    BY <1>8
  <2>4. PICK x \in Nat : x = Delay[0]
    BY DelayIsShort
  <2>5. y >= -(d + gap) /\ d + MaxGap <= x /\ y <= SortSpan - MarginPost
    BY <1>7, <1>8, <2>1, <2>2, <2>3, <2>4
  <2>6. y - 1 >= -x /\ y - 1 <= SortSpan - MarginPost
    BY <1>1, <2>5, WordFacts
  <2> QED BY <2>2, <2>4, <2>6
<1>10. InOrder(tbl, n)
  <2>1. \A r, m \in 1 .. Len(tbl) : r < m => a[r] <= a[m]
    BY <1>0, <1>1, <1>5 DEF BetweenCalls, InOrder, TopInOrder
  <2>2. \A r, m \in 1 .. Len(tbl) : r < m => a[r] - 1 <= a[m] - 1
    BY <1>4, <2>1
  <2> QED BY <1>6, <2>2 DEF InOrder, TopInOrder
<1>11. InTime(tbl, n, gap + 1)
  <2> SUFFICES ASSUME NEW r \in 1 .. Len(tbl) PROVE a[r] - 1 >= -(Delay[r] + (gap + 1))
    BY <1>6 DEF InTime
  <2>1. a[r] >= -(Delay[r] + gap) /\ a[r] \in Int /\ Delay[r] \in Nat
    BY <1>4, <1>7, <1>8
  <2> QED BY <1>1, <2>1
<1>12. gap + 1 \in 0 .. MaxGap
  BY <1>1, WordFacts
<1>13. TimersTyped'
  BY <1>0, <1>1, <1>3, <1>12 DEF TimersTyped
<1>14. Near(tbl, now)'
  BY <1>1, <1>3, <1>9
<1>15. BetweenCalls'
  BY <1>0, <1>1, <1>3, <1>10, <1>11 DEF BetweenCalls
<1>16. InPass' /\ FirstIsDue'
  BY <1>1 DEF InPass, FirstIsDue
<1> QED BY <1>13, <1>14, <1>15, <1>16 DEF TimersInv

\* A timer that has not to be served yet is not late.
LEMMA AllAhead ==
  ASSUME Prompt, NEW n \in Time, NEW s \in Seq(Timer), Len(s) <= MaxTimers, Near(s, n),
         InOrder(s, n), s # <<>>, ~Expired(s[1].t, n)
  PROVE  InTime(s, n, 0)
<1>1. 1 \in 1 .. Len(s) /\ s[1].t \in Time
  BY FirstTyped
<1>2. PICK y \in Int : y = Ahead(s[1].t, n)
  BY <1>1, AheadIs
<1>3. ~(y <= MarginPre)
  BY <1>1, <1>2, ExpiredIs DEF Near
<1>4. y >= 0
  BY <1>3, WordFacts
<1> SUFFICES ASSUME NEW r \in 1 .. Len(s) PROVE Ahead(s[r].t, n) >= -(Delay[r] + 0)
  BY DEF InTime
<1>5. s[r].t \in Time
  <2>1. s[r] \in Timer
    OBVIOUS
  <2> QED BY <2>1 DEF Timer
<1>6. PICK z \in Int : z = Ahead(s[r].t, n)
  BY <1>5, AheadIs
<1>7. y <= z
  <2>1. r = 1 \/ 1 < r
    OBVIOUS
  <2> QED BY <1>1, <1>2, <1>6, <2>1 DEF InOrder, TopInOrder
<1>8. PICK d \in Nat : d = Delay[r]
  BY DelayFacts, WordFacts
<1>9. z >= -(d + 0)
  BY <1>4, <1>7
<1> QED BY <1>6, <1>8, <1>9

LEMMA ProcessKeepsInv ==
  ASSUME Prompt, TimersInv, Process PROVE TimersInv'
<1>0. TimersTyped /\ Near(tbl, now) /\ BetweenCalls /\ InPass /\ FirstIsDue
  BY DEF TimersInv
<1>1. /\ now \in Time /\ tbl \in Seq(Timer) /\ Len(tbl) <= MaxTimers /\ gap \in Nat
      /\ gap <= MaxGap /\ 0 \in 0 .. MaxGap
  BY <1>0, WordFacts DEF TimersTyped
<1>2. CASE ProcessEmpty
  <2>1. /\ pc = "main" /\ tbl = <<>> /\ wake' = NoWake /\ gap' = 0
        /\ UNCHANGED <<now, tbl, pc, i, pnow, change, run>>
    BY <1>2 DEF ProcessEmpty
  <2>2. TimersTyped'
    BY <1>0, <1>1, <2>1 DEF TimersTyped
  <2>3. Near(tbl, now)' /\ InOrder(tbl, now)'
    BY <1>0, <2>1 DEF BetweenCalls
  <2>4. Len(tbl) = 0
    BY <2>1
  <2>5. InTime(tbl, now, 0)
    BY <2>4 DEF InTime
  <2>6. BetweenCalls'
    BY <2>1, <2>3, <2>5 DEF BetweenCalls
  <2>7. InPass' /\ FirstIsDue'
    BY <2>1 DEF InPass, FirstIsDue
  <2> QED BY <2>2, <2>3, <2>6, <2>7 DEF TimersInv
<1>3. CASE ProcessTooEarly
  <2>1. /\ pc = "main" /\ tbl # <<>> /\ ~Expired(tbl[1].t, now) /\ gap' = 0
        /\ UNCHANGED <<now, tbl, wake, pc, i, pnow, change, run>>
    BY <1>3 DEF ProcessTooEarly
  <2>2. TimersTyped'
    BY <1>0, <1>1, <2>1 DEF TimersTyped
  <2>3. /\ InOrder(tbl, now) /\ (tbl # <<>> => wake \in {NoWake, tbl[1].t})
    BY <1>0, <2>1 DEF BetweenCalls
  <2>4. InTime(tbl, now, 0)
    BY <1>0, <1>1, <2>1, <2>3, AllAhead
  <2>5. BetweenCalls' /\ Near(tbl, now)'
    BY <1>0, <2>1, <2>3, <2>4 DEF BetweenCalls
  <2>6. InPass' /\ FirstIsDue'
    BY <2>1 DEF InPass, FirstIsDue
  <2> QED BY <2>2, <2>5, <2>6 DEF TimersInv
<1>4. CASE ProcessBegin
  <2>1. /\ pc = "main" /\ tbl # <<>> /\ Expired(tbl[1].t, now) /\ gap' = 0
        /\ pc' = "loop" /\ i' = 1 /\ pnow' = now /\ change' = FALSE
        /\ UNCHANGED <<now, tbl, wake, run>>
    BY <1>4 DEF ProcessBegin
  <2>2. TimersTyped'
    <3>1. 1 \in 1 .. MaxTimers + 1 /\ "loop" \in {"main", "loop", "cb"}
      BY WordFacts
    <3> QED BY <1>0, <1>1, <2>1, <3>1 DEF TimersTyped
  <2>3. InOrder(tbl, now) /\ InTime(tbl, now, gap)
    BY <1>0, <2>1 DEF BetweenCalls
  <2>4. InTime(tbl, now, MaxGap)
    <3> SUFFICES ASSUME NEW r \in 1 .. Len(tbl)
                 PROVE  Ahead(tbl[r].t, now) >= -(Delay[r] + MaxGap)
      BY DEF InTime
    <3>1. tbl[r].t \in Time
      <4>1. tbl[r] \in Timer
        BY <1>1
      <4> QED BY <4>1 DEF Timer
    <3>2. PICK y \in Int : y = Ahead(tbl[r].t, now)
      BY <1>1, <3>1, AheadIs
    <3>3. PICK d \in Nat : d = Delay[r]
      <4>1. r \in 0 .. MaxTimers
        BY <1>1, WordFacts
      <4> QED BY <4>1, DelayFacts
    <3>4. y >= -(d + gap)
      BY <2>3, <3>2, <3>3 DEF InTime
    <3>5. y >= -(d + MaxGap)
      BY <1>1, <3>4, WordFacts
    <3> QED BY <3>2, <3>3, <3>5
  <2>5. BetweenCalls' /\ Near(tbl, now)'
    BY <1>0, <2>1 DEF BetweenCalls
  <2>6. InPass'
    BY <2>1, <2>3, <2>4 DEF InPass
  <2>7. FirstIsDue'
    BY <2>1 DEF FirstIsDue
  <2> QED BY <2>2, <2>5, <2>6, <2>7 DEF TimersInv
<1> QED BY <1>2, <1>3, <1>4 DEF Process

LEMMA LoopPassKeepsInv ==
  ASSUME Prompt, TimersInv, LoopPass PROVE TimersInv'
<1>0. TimersTyped /\ Near(tbl, now) /\ BetweenCalls /\ InPass /\ FirstIsDue
  BY DEF TimersInv
<1>1. /\ pc = "loop" /\ i <= Len(tbl) /\ ~Expired(tbl[i].t, pnow) /\ i' = i + 1
      /\ UNCHANGED <<now, tbl, wake, pc, pnow, change, run, gap>>
  BY DEF LoopPass, Serving
<1>2. i # 1 /\ Served(tbl, now) /\ pnow = now
  BY <1>0, <1>1 DEF FirstIsDue, InPass
<1>3. i \in 1 .. MaxTimers + 1 /\ Len(tbl) <= MaxTimers /\ Len(tbl) \in Nat
  BY <1>0 DEF TimersTyped
<1>4. i + 1 \in 1 .. MaxTimers + 1 /\ i + 1 # 1
  BY <1>1, <1>3, WordFacts
<1>5. TimersTyped'
  BY <1>0, <1>1, <1>4 DEF TimersTyped
<1>6. InPass'
  BY <1>0, <1>1, <1>2, <1>4 DEF InPass
<1>7. BetweenCalls' /\ FirstIsDue' /\ Near(tbl, now)'
  BY <1>0, <1>1, <1>4 DEF BetweenCalls, FirstIsDue
<1> QED BY <1>5, <1>6, <1>7 DEF TimersInv

LEMMA LoopCallKeepsInv ==
  ASSUME TimersInv, LoopCall PROVE TimersInv'
<1>0. TimersTyped /\ Near(tbl, now) /\ BetweenCalls /\ InPass /\ FirstIsDue
  BY DEF TimersInv
<1>1. /\ pc = "loop" /\ i <= Len(tbl) /\ pc' = "cb" /\ run' = tbl[i].cb
      /\ UNCHANGED <<now, tbl, wake, i, pnow, change, gap>>
  BY DEF LoopCall, Serving
<1>2. /\ i \in 1 .. MaxTimers + 1 /\ Len(tbl) <= MaxTimers /\ Len(tbl) \in Nat
      /\ tbl \in Seq(Timer)
  BY <1>0 DEF TimersTyped
<1>3. i \in 1 .. Len(tbl) /\ i <= MaxTimers
  BY <1>1, <1>2, WordFacts
<1>4. tbl[i] \in Timer
  BY <1>2, <1>3
<1>5. tbl[i].cb \in Callback
  BY <1>4 DEF Timer
<1>6. TimersTyped'
  BY <1>0, <1>1, <1>5 DEF TimersTyped
<1>7. InPass'
  BY <1>0, <1>1 DEF InPass
<1>8. BetweenCalls' /\ FirstIsDue' /\ Near(tbl, now)'
  BY <1>0, <1>1, <1>3 DEF BetweenCalls, FirstIsDue
<1> QED BY <1>6, <1>7, <1>8 DEF TimersInv

\* What the return of a callback has in common, whatever it does to tbl.
LEMMA ReturnKeepsInv ==
  ASSUME TimersInv, CbReturn,
         tbl' \in Seq(Timer), Len(tbl') <= MaxTimers, Near(tbl', now), change' \in BOOLEAN,
         ~change' => InOrder(tbl', now), Served(tbl', now)
  PROVE  TimersInv'
<1>0. TimersTyped /\ InPass /\ FirstIsDue
  BY DEF TimersInv
<1>1. /\ pc = "cb" /\ pc' = "loop" /\ i' = i + 1 /\ run' = None
      /\ UNCHANGED <<now, wake, pnow, gap>>
  BY DEF CbReturn
<1>2. i \in 1 .. MaxTimers + 1 /\ i <= MaxTimers
  BY <1>0, <1>1 DEF TimersTyped, FirstIsDue
<1>3. i + 1 \in 1 .. MaxTimers + 1 /\ i + 1 # 1
  BY <1>2, WordFacts
<1>4. TimersTyped'
  BY <1>0, <1>1, <1>3 DEF TimersTyped
<1>5. Near(tbl, now)' /\ Served(tbl, now)' /\ (~change' => InOrder(tbl, now)')
  BY <1>1
<1>6. InPass'
  BY <1>0, <1>1, <1>3, <1>5 DEF InPass
<1>7. BetweenCalls' /\ FirstIsDue'
  BY <1>1, <1>3 DEF BetweenCalls, FirstIsDue
<1> QED BY <1>4, <1>5, <1>6, <1>7 DEF TimersInv

\* If nothing is left at the index, the table is as if it had been served.
LEMMA PastTheEnd ==
  ASSUME TimersInv, pc = "cb", ~(i <= Len(tbl))
  PROVE  Served(tbl, now)
<1>0. tbl \in Seq(Timer) /\ i \in 1 .. MaxTimers + 1 /\ InPass
  BY DEF TimersInv, TimersTyped
<1>1. CASE i # 1
  BY <1>0, <1>1 DEF InPass
<1>2. CASE i = 1
  <2>1. Len(tbl) \in Nat
    BY <1>0
  <2>2. Len(tbl) = 0
    BY <1>2, <2>1
  <2>3. ServedAt(tbl, now, 1) /\ 1 \in 1 .. Len(tbl) + 1
    BY <2>2 DEF ServedAt
  <2> QED BY <2>3 DEF Served
<1> QED BY <1>1, <1>2

LEMMA CbStopKeepsInv ==
  ASSUME Prompt, TimersInv, CbStop PROVE TimersInv'
<1>0. TimersTyped /\ Near(tbl, now) /\ InPass
  BY DEF TimersInv
<1>1. /\ CbReturn /\ pc = "cb" /\ change' = change
      /\ tbl' = IF i <= Len(tbl) THEN RemoveAt(tbl, i) ELSE tbl
  BY DEF CbStop, CbReturn
<1>2. /\ now \in Time /\ tbl \in Seq(Timer) /\ Len(tbl) <= MaxTimers /\ Len(tbl) \in Nat
      /\ i \in 1 .. MaxTimers + 1 /\ change \in BOOLEAN
  BY <1>0 DEF TimersTyped
<1>3. /\ ~change => InOrder(tbl, now)
      /\ i = 1 => InTime(tbl, now, MaxGap)
      /\ i # 1 => Served(tbl, now)
  BY <1>0, <1>1 DEF InPass
<1>4. CASE i <= Len(tbl)
  <2>1. PICK m \in 1 .. Len(tbl) : m = i
    BY <1>2, <1>4
  <2>2. PICK c : c = RemoveAt(tbl, m)
    OBVIOUS
  <2>3. /\ c \in Seq(Timer) /\ Len(c) = Len(tbl) - 1 /\ Near(c, now)
        /\ InOrder(tbl, now) => InOrder(c, now)
        /\ Served(tbl, now) => Served(c, now)
        /\ m = 1 /\ InTime(tbl, now, MaxGap) => Served(c, now)
    BY <1>0, <1>2, <2>2, TimerRemoved
  <2>4. Len(c) <= MaxTimers
    BY <1>2, <2>3, WordFacts
  <2>5. Served(c, now) /\ (~change => InOrder(c, now))
    BY <1>3, <2>1, <2>3
  <2>6. tbl' = c
    BY <1>1, <1>4, <2>1, <2>2
  <2> QED BY <1>1, <1>2, <2>3, <2>4, <2>5, <2>6, ReturnKeepsInv
<1>5. CASE ~(i <= Len(tbl))
  <2>1. tbl' = tbl
    BY <1>1, <1>5
  <2>2. Served(tbl, now)
    BY <1>1, <1>5, PastTheEnd
  <2> QED BY <1>0, <1>1, <1>2, <1>3, <2>1, <2>2, ReturnKeepsInv
<1> QED BY <1>4, <1>5

LEMMA CbAgainKeepsInv ==
  ASSUME Prompt, TimersInv, CbAgain PROVE TimersInv'
<1>0. TimersTyped /\ Near(tbl, now) /\ InPass
  BY DEF TimersInv
<1>1. /\ CbReturn /\ pc = "cb" /\ change' = TRUE
      /\ IF i <= Len(tbl)
         THEN \E v \in Interval \cup {tbl[i].interval} :
                tbl' = [tbl EXCEPT ![i] = Rescheduled(tbl[i], v)]
         ELSE tbl' = tbl
  BY DEF CbAgain, CbReturn
<1>2. /\ now \in Time /\ tbl \in Seq(Timer) /\ Len(tbl) <= MaxTimers /\ Len(tbl) \in Nat
      /\ i \in 1 .. MaxTimers + 1
  BY <1>0 DEF TimersTyped
<1>3. /\ i = 1 => InTime(tbl, now, MaxGap)
      /\ i # 1 => Served(tbl, now)
      /\ pnow = now
  BY <1>0, <1>1 DEF InPass
<1>4. CASE i <= Len(tbl)
  <2>1. PICK m \in 1 .. Len(tbl) : m = i
    BY <1>2, <1>4
  <2>2. PICK v \in Interval \cup {tbl[m].interval} :
          tbl' = [tbl EXCEPT ![m] = Rescheduled(tbl[m], v)]
    BY <1>1, <1>4, <2>1
  <2>3. tbl[m] \in Timer
    BY <1>2
  <2>4. v \in Interval
    BY <2>2, <2>3 DEF Timer
  <2>5. v \in Nat /\ v <= SortSpan - MarginPost /\ v <= SortSpan
    BY <2>4, IntervalFacts
  <2>6. (now + v) % WordMod \in Time /\ Ahead((now + v) % WordMod, now) = v
    BY <1>2, <2>5, AheadOfNew
  <2>7. PICK e : e = Rescheduled(tbl[m], v)
    OBVIOUS
  <2>8. e \in Timer /\ e.t = (now + v) % WordMod
    BY <1>3, <2>3, <2>4, <2>6, <2>7 DEF Rescheduled, Timer
  <2>9. 0 <= Ahead(e.t, now) /\ Ahead(e.t, now) <= SortSpan - MarginPost
    BY <2>5, <2>6, <2>8
  <2>10. PICK c : c = [tbl EXCEPT ![m] = e]
    OBVIOUS
  <2>11. /\ c \in Seq(Timer) /\ Len(c) = Len(tbl) /\ Near(c, now)
         /\ Served(tbl, now) => Served(c, now)
         /\ m = 1 /\ InTime(tbl, now, MaxGap) => Served(c, now)
    BY <1>0, <1>2, <2>8, <2>9, <2>10, TimerAgain
  <2>12. Served(c, now) /\ Len(c) <= MaxTimers
    BY <1>2, <1>3, <2>1, <2>11
  <2>13. tbl' = c
    BY <2>2, <2>7, <2>10
  <2> QED BY <1>1, <2>11, <2>12, <2>13, ReturnKeepsInv
<1>5. CASE ~(i <= Len(tbl))
  <2>1. tbl' = tbl
    BY <1>1, <1>5
  <2>2. Served(tbl, now)
    BY <1>1, <1>5, PastTheEnd
  <2> QED BY <1>0, <1>1, <1>2, <2>1, <2>2, ReturnKeepsInv
<1> QED BY <1>4, <1>5

LEMMA LoopEndKeepsInv ==
  ASSUME Prompt, TimersInv, LoopEnd PROVE TimersInv'
<1>0. TimersTyped /\ Near(tbl, now) /\ InPass /\ FirstIsDue
  BY DEF TimersInv
<1>1. /\ pc = "loop" /\ i > Len(tbl) /\ pc' = "main" /\ i' = 1
      /\ tbl' = (IF change THEN SortTimers(tbl) ELSE tbl)
      /\ wake' = (IF tbl' = <<>> THEN NoWake ELSE Armed(tbl'[1].t, pnow))
      /\ change' = FALSE /\ pnow' = 0 /\ UNCHANGED <<now, run, gap>>
  BY DEF LoopEnd
<1>2. /\ now \in Time /\ tbl \in Seq(Timer) /\ Len(tbl) <= MaxTimers /\ Len(tbl) \in Nat
      /\ i \in 1 .. MaxTimers + 1 /\ change \in BOOLEAN
  BY <1>0 DEF TimersTyped
<1>3. i # 1
  <2> SUFFICES ASSUME i = 1 PROVE FALSE
    OBVIOUS
  <2>1. tbl # <<>>
    BY <1>0, <1>1 DEF FirstIsDue
  <2>2. 1 \in 1 .. Len(tbl)
    BY <1>2, <2>1, FirstTyped
  <2> QED BY <1>1, <1>2, <2>2
<1>4. /\ Served(tbl, now) /\ (~change => InOrder(tbl, now)) /\ pnow = now /\ gap = 0
  BY <1>0, <1>1, <1>3 DEF InPass
<1>5. PICK c : c = IF change THEN SortTimers(tbl) ELSE tbl
  OBVIOUS
<1>6. /\ c \in Seq(Timer) /\ Len(c) = Len(tbl) /\ Near(c, now)
      /\ InOrder(c, now) /\ Served(c, now)
  <2>1. CASE change
    <3>1. Keeps(tbl, SortTimers(tbl), now) /\ InOrder(SortTimers(tbl), now)
      BY <1>0, <1>2, SortKeeps
    <3> QED BY <1>4, <1>5, <2>1, <3>1 DEF Keeps
  <2>2. CASE ~change
    BY <1>0, <1>2, <1>4, <1>5, <2>2
  <2> QED BY <2>1, <2>2
<1>7. Len(c) <= MaxTimers
  BY <1>2, <1>6
<1>8. InTime(c, now, 0)
  BY <1>2, <1>6, <1>7, ServedInOrder
<1>9. tbl' = c
  BY <1>1, <1>5
<1>10. wake' \in Time \cup {NoWake} /\ (c # <<>> => wake' \in {NoWake, c[1].t})
  <2>1. CASE c = <<>>
    BY <1>1, <1>9, <2>1
  <2>2. CASE c # <<>>
    <3>1. c[1].t \in Time
      BY <1>6, <2>2, FirstTyped
    <3>2. wake' = Armed(c[1].t, pnow)
      BY <1>1, <1>9, <2>2
    <3>3. wake' \in {c[1].t, NoWake}
      BY <3>2, ArmedIs
    <3> QED BY <3>1, <3>3
  <2> QED BY <2>1, <2>2
<1>11. 1 \in 1 .. MaxTimers + 1 /\ 0 \in Time /\ "main" \in {"main", "loop", "cb"}
  BY WordFacts
<1>12. TimersTyped'
  BY <1>0, <1>1, <1>6, <1>7, <1>9, <1>10, <1>11 DEF TimersTyped
<1>13. Near(tbl, now)' /\ InOrder(tbl, now)' /\ InTime(tbl, now, gap)'
  BY <1>1, <1>4, <1>6, <1>8, <1>9
<1>14. BetweenCalls'
  BY <1>9, <1>10, <1>13 DEF BetweenCalls
<1>15. InPass' /\ FirstIsDue'
  BY <1>1 DEF InPass, FirstIsDue
<1> QED BY <1>12, <1>13, <1>14, <1>15 DEF TimersInv

LEMMA StutterKeepsInv ==
  ASSUME TimersInv, UNCHANGED timersVars PROVE TimersInv'
<1>1. UNCHANGED <<now, tbl, wake, pc, i, pnow, change, run, gap>>
  BY DEF timersVars
<1>2. TimersTyped' /\ Near(tbl, now)'
  BY <1>1 DEF TimersInv, TimersTyped
<1>3. BetweenCalls' /\ InPass' /\ FirstIsDue'
  BY <1>1 DEF TimersInv, BetweenCalls, InPass, FirstIsDue
<1> QED BY <1>2, <1>3 DEF TimersInv

LEMMA NextTimersInv ==
  ASSUME Prompt, TimersInv, [TimersNext]_timersVars PROVE TimersInv'
<1>1. CASE Pass
  BY <1>1, LoopPassKeepsInv, LoopCallKeepsInv, CbStopKeepsInv, CbAgainKeepsInv,
     LoopEndKeepsInv DEF Pass
<1>2. CASE UNCHANGED timersVars
  BY <1>2, StutterKeepsInv
<1> QED BY <1>1, <1>2, AppCallKeepsInv, ProcessKeepsInv, TickKeepsInv DEF TimersNext

\* Every reachable state of the timers is in order as far as the pass has
\* come, and no timer is later than its place allows.
THEOREM TimersInvariant ==
  ASSUME Prompt PROVE TimersSpec => []TimersInv
<1>1. TimersInv /\ [TimersNext]_timersVars => TimersInv'
  BY NextTimersInv
<1> QED BY <1>1, InitTimersInv, PTL DEF TimersSpec

LEMMA InvIsConsistent ==
  ASSUME Prompt, TimersInv PROVE TableConsistent
<1>1. /\ now \in Time /\ tbl \in Seq(Timer) /\ Near(tbl, now)
  BY DEF TimersInv, TimersTyped
<1>2. \A r \in 1 .. Len(tbl) : /\ tbl[r].t \in Time /\ Close(tbl[r].t, now)
                               /\ Ahead(tbl[r].t, now) \in Int
  <2>1. \A r \in 1 .. Len(tbl) : tbl[r] \in Timer
    BY <1>1
  <2>2. \A r \in 1 .. Len(tbl) : tbl[r].t \in Time
    BY <2>1 DEF Timer
  <2> QED BY <1>1, <2>2, AheadIs DEF Near
<1>3. Sorted
  <2> SUFFICES ASSUME pc = "main", NEW r \in DOMAIN tbl, NEW m \in DOMAIN tbl, r < m
               PROVE  Diff(tbl[m].t, tbl[r].t) < SortSpan
    BY DEF Sorted
  <2>1. r \in 1 .. Len(tbl) /\ m \in 1 .. Len(tbl)
    BY <1>1
  <2>2. Ahead(tbl[r].t, now) <= Ahead(tbl[m].t, now)
    BY <2>1 DEF TimersInv, BetweenCalls, InOrder, TopInOrder
  <2>3. Ahead(tbl[m].t, now) >= Ahead(tbl[r].t, now)
    BY <1>2, <2>1, <2>2
  <2>4. TimeCompareBig(tbl[m].t, tbl[r].t)
    BY <1>1, <1>2, <2>1, <2>3, CompareIs
  <2> QED BY <2>4 DEF TimeCompareBig
<1>4. WakeNotBeyondFirst
  <2> SUFFICES ASSUME pc = "main", wake # NoWake, tbl # <<>>
               PROVE  Diff(tbl[1].t, wake) < SortSpan
    BY DEF WakeNotBeyondFirst
  <2>1. PICK t \in Time : t = tbl[1].t
    BY <1>1, FirstTyped
  <2>2. wake = t
    BY <2>1 DEF TimersInv, BetweenCalls
  <2>3. t \in Int /\ t - t = 0 /\ 0 < WordMod
    BY WordFacts
  <2>4. Diff(t, t) = 0
    BY <2>3, DiffIs
  <2> QED BY <2>1, <2>2, <2>4, WordFacts
<1> QED BY <1>3, <1>4 DEF TableConsistent, TimersInv

LEMMA InvMissesNone ==
  ASSUME Prompt, TimersInv PROVE NoTimerMissed
<1>1. /\ now \in Time /\ tbl \in Seq(Timer) /\ Near(tbl, now)
  BY DEF TimersInv, TimersTyped
<1> SUFFICES ASSUME NEW r \in DOMAIN tbl PROVE Late(tbl[r]) + MarginPre < MarginPost
  BY DEF NoTimerMissed
<1>2. r \in 1 .. Len(tbl)
  BY <1>1
<1>3. tbl[r] \in Timer
  BY <1>1, <1>2
<1>4. tbl[r].t \in Time /\ Close(tbl[r].t, now)
  BY <1>1, <1>2, <1>3 DEF Timer, Near
<1>5. PICK d : d = IF Diff(now, tbl[r].t) < WordMod \div 2 THEN Diff(now, tbl[r].t) ELSE 0
  OBVIOUS
<1>6. d + MarginPre < MarginPost
  BY <1>1, <1>4, <1>5, NotLate
<1> QED BY <1>5, <1>6 DEF Late

\* The table is typed and sorted, across the wrap-around of the timer word,
\* and no wake-up is armed behind its first timer: blt_soft_timer_sort, add,
\* delete and the loop of process, with callbacks that add and delete too.
THEOREM TableIsConsistent ==
  ASSUME Prompt PROVE TimersSpec => []TableConsistent
<1>1. TimersInv => TableConsistent
  BY InvIsConsistent
<1> QED BY <1>1, TimersInvariant, PTL

\* No timer slips behind the window in which blt_is_timer_expired sees it,
\* if process is called often enough for one late timer per call.
THEOREM TimersAreNotMissed ==
  ASSUME Prompt PROVE TimersSpec => []NoTimerMissed
<1>1. TimersInv => NoTimerMissed
  BY InvMissesNone
<1> QED BY <1>1, TimersInvariant, PTL

-----------------------------------------------------------------------------
(* The debug log.  Message m lies in the slot of its number: counted without*)
(* the wrap of the pointers, wptr is the number of messages logged and rptr *)
(* that of the messages taken.                                              *)

\* Nobody logs while my_printf does, no text is cut, and there is a slot for
\* each message that may wait, the one that is written and the one that is
\* sent.
NotOverrun ==
  /\ \A u \in Builds : ~({"printf", "irq"} \subseteq u)
  /\ PrintKind \subseteq {"short"}
  /\ Quota + 2 <= Num

Printing == main # "loop"
Logged   == IF Printing THEN count - 1 ELSE count
Taken    == Len(out) + Len(sending)
Place(m) == (m - 1) % Num

-----------------------------------------------------------------------------
(* The inductive invariant.                                                *)

Types ==
  /\ dbg_chn \in Channel /\ users \in Builds
  /\ slot \in [Slots -> [id : Message, len : Message]]
  /\ sending = <<>> \/ (Len(sending) = 1 /\ sending \in Seq([at : Slots, len : Message]))
  /\ main \in {"loop", "header", "load", "store"}
  /\ print \in [id : Message, at : Slots, len : Message, ptr : 0 .. Wrap - 1]
  /\ count \in Message
  /\ out \in Seq([id : Message, whole : BOOLEAN])

Pointers ==
  /\ Logged \in Nat /\ wptr = Logged % Wrap
  /\ Taken \in Nat /\ rptr = Taken % Wrap

\* There is room, for the message that my_printf writes as well.
Room ==
  /\ Taken <= Logged /\ Logged <= Taken + Quota + 1
  /\ Printing => Logged <= Taken + Quota

Stored ==
  \A m \in Message : Taken < m /\ m <= Logged => slot[Place(m)] = [id |-> m, len |-> m]

InFlight ==
  sending # <<>> =>
    sending[1] = [at |-> Place(Taken), len |-> Taken] /\ slot[Place(Taken)].id = Taken

Written ==
  Printing =>
    /\ "printf" \in users
    /\ print.at = Place(count) /\ print.len = count /\ slot[Place(count)].id = count
    /\ main \in {"load", "store"} => slot[Place(count)].len = count
    /\ main = "store" => print.ptr = wptr

Output == \A k \in DOMAIN out : out[k].id = k /\ out[k].whole

LogInv == Types /\ Pointers /\ Room /\ Stored /\ InFlight /\ Written /\ Output
-----------------------------------------------------------------------------
(* Remainders.                                                             *)

LEMMA Quotient ==
  ASSUME NEW m \in Nat \ {0}, NEW x \in Int
  PROVE  \E q \in Int, r \in 0 .. m - 1 : x = q * m + r /\ x % m = r
OBVIOUS

LEMMA Rest ==
  ASSUME NEW m \in Nat \ {0}, NEW q \in Int, NEW r \in 0 .. m - 1
  PROVE  (q * m + r) % m = r
OBVIOUS

LEMMA Between ==
  ASSUME NEW m \in Nat \ {0}, NEW q \in Int, q * m < m, -m < q * m
  PROVE  q = 0
OBVIOUS

\* Whole rounds leave the rest alone.
LEMMA Rounds ==
  ASSUME NEW m \in Nat \ {0}, NEW x \in Int, NEW q \in Int
  PROVE  (x + q * m) % m = x % m
<1>1. PICK d \in Int, r \in 0 .. m - 1 : x = d * m + r /\ x % m = r
  BY Quotient
<1>2. x + q * m = (d + q) * m + r /\ d + q \in Int
  BY <1>1
<1> QED BY <1>1, <1>2, Rest

\* The two pointers behave like the numbers they are the rests of.
LEMMA PointerStep ==
  ASSUME NEW m \in Nat \ {0}, NEW x \in Int
  PROVE  ((x % m) + 1) % m = (x + 1) % m
<1>1. PICK q \in Int, r \in 0 .. m - 1 : x = q * m + r /\ x % m = r
  BY Quotient
<1>2. x + 1 = (r + 1) + q * m /\ r + 1 \in Int
  BY <1>1
<1>3. (r + 1 + q * m) % m = (r + 1) % m
  BY <1>2, Rounds
<1> QED BY <1>1, <1>2, <1>3

LEMMA PointerDistance ==
  ASSUME NEW m \in Nat \ {0}, NEW x \in Int, NEW y \in Int, x <= y, y < x + m
  PROVE  ((y % m) - (x % m)) % m = y - x
<1>1. PICK q \in Int, r \in 0 .. m - 1 : x = q * m + r /\ x % m = r
  BY Quotient
<1>2. PICK p \in Int, s \in 0 .. m - 1 : y = p * m + s /\ y % m = s
  BY Quotient
<1>3. s - r = (y - x) + (q - p) * m /\ q - p \in Int /\ y - x \in 0 .. m - 1
  <2>1. (q - p) * m = q * m - p * m
    BY <1>1, <1>2
  <2> QED BY <1>1, <1>2, <2>1
<1>4. ((y - x) + (q - p) * m) % m = (y - x) % m
  <2>1. y - x \in Int
    OBVIOUS
  <2> QED BY <1>3, <2>1, Rounds
<1>5. (y - x) % m = y - x
  BY <1>3
<1> QED BY <1>1, <1>2, <1>3, <1>4, <1>5

\* The slot of a pointer is that of its number, as Num divides Wrap.
LEMMA PointerSlot ==
  ASSUME NEW m \in Nat \ {0}, NEW w \in Nat \ {0}, w % m = 0, NEW x \in Nat
  PROVE  (x % w) % m = x % m
<1>1. PICK q \in Int, r \in 0 .. w - 1 : x = q * w + r /\ x % w = r
  BY Quotient
<1>2. PICK d \in Int : w = d * m
  <2>1. PICK d \in Int, e \in 0 .. m - 1 : w = d * m + e /\ w % m = e
    BY Quotient
  <2> QED BY <2>1
<1>3. x = r + (q * d) * m /\ q * d \in Int /\ r \in Int
  BY <1>1, <1>2
<1>4. (r + (q * d) * m) % m = r % m
  BY <1>3, Rounds
<1> QED BY <1>1, <1>3, <1>4

\* Messages whose numbers are less than Num apart have their own slots.
LEMMA OwnSlots ==
  ASSUME NEW m \in Nat \ {0}, NEW x \in Int, NEW y \in Int, x < y, y < x + m
  PROVE  x % m # y % m
<1> SUFFICES ASSUME x % m = y % m PROVE FALSE
  OBVIOUS
<1>1. PICK q \in Int, r \in 0 .. m - 1 : x = q * m + r /\ x % m = r
  BY Quotient
<1>2. PICK p \in Int, s \in 0 .. m - 1 : y = p * m + s /\ y % m = s
  BY Quotient
<1>3. y - x = (p - q) * m /\ p - q \in Int
  <2>1. (p - q) * m = p * m - q * m
    BY <1>1, <1>2
  <2> QED BY <1>1, <1>2, <2>1
<1>4. p - q = 0
  BY <1>3, Between
<1> QED BY <1>3, <1>4

\* The slot behind that of a message, unless it was the last one.
LEMMA NextSlot ==
  ASSUME NEW m \in Nat \ {0}, NEW x \in Int, (x % m) + 1 < m
  PROVE  (x % m) + 1 = (x + 1) % m
<1>1. PICK q \in Int, r \in 0 .. m - 1 : x = q * m + r /\ x % m = r
  BY Quotient
<1>2. x + 1 = q * m + (r + 1) /\ r + 1 \in 0 .. m - 1
  BY <1>1
<1>3. (q * m + (r + 1)) % m = r + 1
  BY <1>2, Rest
<1> QED BY <1>1, <1>2, <1>3

-----------------------------------------------------------------------------
(* Numbers, pointers and slots of the log.                                 *)

LEMMA SlotsFit == Num <= Wrap
<1>1. Num \in Nat \ {0} /\ Wrap \in Nat \ {0} /\ Wrap % Num = 0 /\ Wrap \in Int
  BY FifoAssumption
<1>2. PICK d \in Int, e \in 0 .. Num - 1 : Wrap = d * Num + e /\ Wrap % Num = e
  BY <1>1, Quotient
<1>3. Wrap = d * Num
  BY <1>1, <1>2
<1>4. d >= 1
  <2>1. d <= 0 => d * Num <= 0
    BY <1>1
  <2> QED BY <1>1, <1>3, <2>1
<1>5. (d - 1) * Num >= 0 /\ d * Num = (d - 1) * Num + Num
  BY <1>1, <1>4
<1> QED BY <1>1, <1>3, <1>5

LEMMA PointerOf ==
  ASSUME NEW x \in Nat
  PROVE  /\ x % Wrap \in 0 .. Wrap - 1
         /\ Index(x % Wrap) = Place(x + 1)
         /\ ((x % Wrap) + 1) % Wrap = (x + 1) % Wrap
<1>1. Num \in Nat \ {0} /\ Wrap \in Nat \ {0} /\ Wrap % Num = 0
  BY FifoAssumption
<1>2. (x % Wrap) % Num = x % Num
  BY <1>1, PointerSlot
<1>3. x + 1 - 1 = x
  OBVIOUS
<1>4. Index(x % Wrap) = Place(x + 1)
  BY <1>2, <1>3 DEF Index, Place
<1>5. ((x % Wrap) + 1) % Wrap = (x + 1) % Wrap
  <2>1. x \in Int
    OBVIOUS
  <2> QED BY <1>1, <2>1, PointerStep, Zenon
<1>6. x % Wrap \in 0 .. Wrap - 1
  BY <1>1
<1> QED BY <1>4, <1>5, <1>6

LEMMA PlaceIsSlot ==
  ASSUME NEW x \in Int
  PROVE  Place(x) \in Slots
BY FifoAssumption DEF Place, Slots

LEMMA PlacesApart ==
  ASSUME NEW x \in Int, NEW y \in Int, x < y, y < x + Num
  PROVE  Place(x) # Place(y)
<1>1. Num \in Nat \ {0} /\ x - 1 \in Int /\ y - 1 \in Int /\ x - 1 < y - 1 /\ y - 1 < x - 1 + Num
  BY FifoAssumption
<1> QED BY <1>1, OwnSlots DEF Place

LEMMA PlaceBehind ==
  ASSUME NEW x \in Int, Place(x) + 1 \in Slots
  PROVE  Place(x) + 1 = Place(x + 1)
<1>1. Num \in Nat \ {0} /\ x - 1 \in Int /\ ((x - 1) % Num) + 1 < Num
  BY FifoAssumption DEF Place, Slots
<1>2. ((x - 1) % Num) + 1 = (x - 1 + 1) % Num
  BY <1>1, NextSlot
<1>3. x - 1 + 1 = x + 1 - 1
  OBVIOUS
<1> QED BY <1>2, <1>3 DEF Place

\* The pointers say how many messages wait.
LEMMA PendingIs ==
  ASSUME NotOverrun, Pointers, Room
  PROVE  /\ Pending = Logged - Taken
         /\ wptr = rptr <=> Logged = Taken
<1>1. PICK l \in Nat, t \in Nat : /\ l = Logged /\ t = Taken
                                 /\ wptr = l % Wrap /\ rptr = t % Wrap
                                 /\ t <= l /\ l <= t + Quota + 1
  BY DEF Pointers, Room
<1>2. Wrap \in Nat \ {0} /\ Quota \in Nat /\ l < t + Wrap /\ l \in Int /\ t \in Int
  BY SlotsFit, <1>1, FifoAssumption DEF NotOverrun
<1>3. ((l % Wrap) - (t % Wrap)) % Wrap = l - t
  BY <1>1, <1>2, PointerDistance, Zenon
<1>4. l % Wrap = t % Wrap => l = t
  <2> SUFFICES ASSUME l % Wrap = t % Wrap PROVE l = t
    OBVIOUS
  <2>1. l % Wrap \in Int /\ (l % Wrap) - (t % Wrap) = 0 /\ 0 % Wrap = 0
    BY <1>2
  <2> QED BY <2>1, <1>3, <1>1
<1> QED BY <1>1, <1>3, <1>4 DEF Pending

-----------------------------------------------------------------------------
(* The steps.                                                              *)

LEMMA InitLogInv == LogInit => LogInv
<1> SUFFICES ASSUME LogInit PROVE LogInv
  OBVIOUS
<1> USE DEF LogInit
<1>1. /\ Num \in Nat \ {0} /\ Wrap \in Nat \ {0} /\ Quota \in Nat /\ MaxLog \in Nat
  BY FifoAssumption
<1>2. 0 \in Message /\ 0 \in Slots /\ 0 \in 0 .. Wrap - 1 /\ 0 % Wrap = 0
  BY <1>1 DEF Message, Slots
<1>3. Types
  <2>1. slot \in [Slots -> [id : Message, len : Message]]
    BY <1>2
  <2>2. print \in [id : Message, at : Slots, len : Message, ptr : 0 .. Wrap - 1]
    BY <1>2
  <2>3. out \in Seq([id : Message, whole : BOOLEAN])
    OBVIOUS
  <2> QED BY <1>2, <2>1, <2>2, <2>3 DEF Types
<1>4. ~Printing /\ Logged = 0 /\ Taken = 0
  BY DEF Printing, Logged, Taken
<1>5. Pointers /\ Room
  BY <1>1, <1>2, <1>4 DEF Pointers, Room
<1>6. Stored
  BY <1>4 DEF Stored, Message
<1>7. InFlight /\ Written /\ Output
  BY <1>4 DEF InFlight, Written, Output
<1> QED BY <1>3, <1>5, <1>6, <1>7 DEF LogInv

LEMMA Constants == 
  ASSUME NotOverrun
  PROVE  /\ Num \in Nat \ {0} /\ Wrap \in Nat \ {0} /\ Quota \in Nat /\ MaxLog \in Nat
         /\ Quota + 2 <= Num
BY FifoAssumption DEF NotOverrun

\* What is known when the next message may be logged.
LEMMA BeforeLogging ==
  ASSUME NotOverrun, LogInv, main = "loop", MayLog
  PROVE  /\ count \in Nat /\ count + 1 \in Message /\ Logged = count
         /\ Taken \in Nat /\ Taken <= count /\ count <= Taken + Quota
         /\ wptr = count % Wrap /\ rptr = Taken % Wrap
         /\ Index(wptr) = Place(count + 1) /\ Place(count + 1) \in Slots
<1> USE DEF LogInv
<1>1. Logged = count /\ Logged \in Nat /\ Taken \in Nat
  BY DEF Pointers, Logged, Printing
<1>2. Pending = Logged - Taken /\ count < MaxLog /\ Pending <= Quota
  BY PendingIs DEF MayLog
<1>3. count + 1 \in Message
  BY <1>1, <1>2, Constants DEF Message
<1>4. wptr = Logged % Wrap /\ rptr = Taken % Wrap /\ Taken <= Logged
  BY DEF Pointers, Room
<1>5. Logged <= Taken + Quota
  BY <1>1, <1>2, Constants
<1>6. Index(wptr) = Place(count + 1) /\ Place(count + 1) \in Slots
  BY <1>1, <1>4, PointerOf, PlaceIsSlot
<1> QED BY <1>1, <1>3, <1>4, <1>5, <1>6

\* tlkapi_send_str_data: the message goes to a free slot, and so does the
\* byte too much of its header.
LEMMA SendStrDataKeepsLogInv ==
  ASSUME NotOverrun, LogInv, main = "loop", MayLog, NEW kind \in SendKind,
         SendStrData(kind), UNCHANGED <<built, rptr, sending, main, print, out>>
  PROVE  LogInv'
<1> USE DEF LogInv
<1>1. PICK c \in Nat, t \in Nat :
        /\ c = count /\ c = Logged /\ t = Taken /\ c + 1 \in Message
        /\ wptr = c % Wrap /\ rptr = t % Wrap
        /\ t <= c /\ c <= t + Quota
  BY BeforeLogging
<1>2. /\ Index(wptr) = Place(c + 1) /\ Place(c + 1) \in Slots
      /\ (wptr + 1) % Wrap = (c + 1) % Wrap
  BY <1>1, PointerOf, PlaceIsSlot
<1>3. /\ count' = c + 1 /\ wptr' = (c + 1) % Wrap /\ slot' = Filled(Place(c + 1), c + 1, kind)
      /\ rptr' = rptr /\ sending' = sending /\ main' = "loop" /\ print' = print /\ out' = out
      /\ dbg_chn' = dbg_chn /\ users' = users
  BY <1>1, <1>2 DEF SendStrData, built
<1>4. slot \in [Slots -> [id : Message, len : Message]]
  BY DEF Types
<1>5. /\ slot' \in [Slots -> [id : Message, len : Message]]
      /\ slot'[Place(c + 1)] = [id |-> c + 1, len |-> c + 1]
      /\ \A j \in Slots : j # Place(c + 1) =>
           /\ slot'[j].id = slot[j].id
           /\ j # Place(c + 1) + 1 => slot'[j] = slot[j]
  <2> DEFINE F(j) == CASE j = Place(c + 1) -> [id |-> c + 1, len |-> c + 1]
                       [] j = Place(c + 1) + 1 /\ kind = "full" -> [slot[j] EXCEPT !.len = 0]
                       [] OTHER -> slot[j]
  <2>1. slot' = [j \in Slots |-> F(j)]
    BY <1>3 DEF Filled
  <2>2. Place(c + 1) \in Slots /\ Place(c + 1) \in Int /\ 0 \in Message
    BY <1>2, Constants DEF Slots, Message
  <2>3. F(Place(c + 1)) = [id |-> c + 1, len |-> c + 1]
    BY <2>2
  <2>4. ASSUME NEW j \in Slots, j # Place(c + 1)
        PROVE  /\ F(j) \in [id : Message, len : Message]
               /\ F(j).id = slot[j].id
               /\ j # Place(c + 1) + 1 => F(j) = slot[j]
    <3>1. CASE j = Place(c + 1) + 1 /\ kind = "full"
      <4>1. F(j) = [slot[j] EXCEPT !.len = 0]
        BY <2>4, <3>1
      <4> HIDE DEF F
      <4> QED BY <4>1, <3>1, <2>2, <1>4
    <3>2. CASE ~(j = Place(c + 1) + 1 /\ kind = "full")
      <4>1. F(j) = slot[j]
        BY <2>4, <3>2
      <4> HIDE DEF F
      <4> QED BY <4>1, <1>4
    <3> QED BY <3>1, <3>2
  <2>5. F(Place(c + 1)) \in [id : Message, len : Message]
    BY <2>3, <1>1
  <2> HIDE DEF F
  <2> QED BY <2>1, <2>2, <2>3, <2>4, <2>5
<1>6. ~Printing' /\ Logged' = c + 1 /\ Taken' = t
  BY <1>1, <1>3 DEF Printing, Logged, Taken
<1>7. Types'
  BY <1>1, <1>3, <1>5 DEF Types
<1>8. Pointers' /\ Room'
  BY <1>1, <1>3, <1>6, Constants DEF Pointers, Room
<1>9. Stored'
  <2> SUFFICES ASSUME NEW m \in Message, t < m, m <= c + 1
               PROVE  slot'[Place(m)] = [id |-> m, len |-> m]
    BY <1>6 DEF Stored
  <2>0. m \in Int /\ Place(m) \in Slots
    BY PlaceIsSlot DEF Message
  <2>1. CASE m = c + 1
    BY <2>1, <1>5
  <2>2. CASE m # c + 1
    <3>1. m < c + 1 /\ c + 1 < m + Num /\ m < c + 2 /\ c + 2 < m + Num /\ m <= c
      BY <2>0, <2>2, <1>1, Constants
    <3>2. Place(m) # Place(c + 1) /\ Place(m) # Place(c + 2)
      BY <3>1, <2>0, PlacesApart
    <3>3. Place(m) # Place(c + 1) + 1
      <4>1. c + 1 + 1 = c + 2 /\ c + 1 \in Int
        OBVIOUS
      <4> QED BY <4>1, <3>2, <2>0, PlaceBehind
    <3>4. slot[Place(m)] = [id |-> m, len |-> m]
      BY <3>1, <1>1 DEF Stored
    <3> QED BY <3>2, <3>3, <3>4, <2>0, <1>5
  <2> QED BY <2>1, <2>2
<1>10. InFlight'
  <2> SUFFICES ASSUME sending # <<>>
               PROVE  sending[1] = [at |-> Place(t), len |-> t] /\ slot'[Place(t)].id = t
    BY <1>3, <1>6 DEF InFlight
  <2>1. sending[1] = [at |-> Place(t), len |-> t] /\ slot[Place(t)].id = t
    BY <1>1 DEF InFlight
  <2>2. t \in Int /\ c + 1 \in Int /\ t < c + 1 /\ c + 1 < t + Num
    BY <1>1, Constants
  <2>3. Place(t) # Place(c + 1) /\ Place(t) \in Slots
    BY <2>2, PlacesApart, PlaceIsSlot
  <2> QED BY <2>1, <2>3, <1>5
<1>11. Written' /\ Output'
  BY <1>3, <1>6 DEF Written, Output
<1> QED BY <1>7, <1>8, <1>9, <1>10, <1>11

\* my_printf writes the text of the message into a free slot.
LEMMA PrintfFormatKeepsLogInv ==
  ASSUME NotOverrun, LogInv, PrintfFormat
  PROVE  LogInv'
<1> USE DEF LogInv
<1>1. main = "loop" /\ MayLog /\ "printf" \in users
  BY DEF PrintfFormat, MainFree
<1>2. PICK c, t, p : c = count /\ t = Taken /\ p = Place(c + 1)
  OBVIOUS
<1>3. /\ c \in Nat /\ c + 1 \in Message /\ Logged = c /\ t \in Nat /\ t <= c /\ c <= t + Quota
      /\ wptr = c % Wrap /\ rptr = t % Wrap /\ Index(wptr) = p /\ p \in Slots
  BY <1>1, <1>2, BeforeLogging
<1>4. /\ count' = c + 1 /\ wptr' = wptr /\ rptr' = rptr /\ sending' = sending /\ out' = out
      /\ main' = "header" /\ dbg_chn' = dbg_chn /\ users' = users
  BY <1>2 DEF PrintfFormat, built
<1>5. print' = [print EXCEPT !.id = c + 1, !.at = p, !.len = c + 1]
  <2>1. PICK kind \in PrintKind :
          print' = [print EXCEPT !.id = c + 1, !.at = p,
                                 !.len = IF kind = "long" THEN 0 ELSE c + 1]
    BY <1>2, <1>3 DEF PrintfFormat
  <2>2. kind # "long"
    BY DEF NotOverrun
  <2> QED BY <2>1, <2>2
<1>6. slot \in [Slots -> [id : Message, len : Message]]
  BY DEF Types
<1>7. /\ slot' \in [Slots -> [id : Message, len : Message]]
      /\ slot'[p].id = c + 1
      /\ \A j \in Slots : j # p => slot'[j] = slot[j]
  <2>1. slot' = [slot EXCEPT ![p].id = c + 1]
    BY <1>2, <1>3 DEF PrintfFormat
  <2> QED BY <2>1, <1>3, <1>6
<1>8. Printing' /\ Logged' = c /\ Taken' = t
  BY <1>2, <1>3, <1>4 DEF Printing, Logged, Taken
<1>9. print' \in [id : Message, at : Slots, len : Message, ptr : 0 .. Wrap - 1]
  BY <1>3, <1>5 DEF Types
<1>10. Types'
  BY <1>3, <1>4, <1>7, <1>9 DEF Types
<1>11. Pointers' /\ Room'
  BY <1>3, <1>4, <1>8, Constants DEF Pointers, Room
<1>12. Stored'
  <2> SUFFICES ASSUME NEW m \in Message, t < m, m <= c
               PROVE  slot'[Place(m)] = [id |-> m, len |-> m]
    BY <1>8 DEF Stored
  <2>1. m \in Int /\ m < c + 1 /\ c + 1 < m + Num /\ c + 1 \in Int
    BY <1>3, Constants DEF Message
  <2>2. Place(m) # p /\ Place(m) \in Slots
    BY <1>2, <2>1, PlacesApart, PlaceIsSlot
  <2>3. slot[Place(m)] = [id |-> m, len |-> m]
    BY <1>2, <1>3 DEF Stored
  <2> QED BY <1>7, <2>2, <2>3
<1>13. InFlight'
  <2> SUFFICES ASSUME sending # <<>>
               PROVE  sending[1] = [at |-> Place(t), len |-> t] /\ slot'[Place(t)].id = t
    BY <1>4, <1>8 DEF InFlight
  <2>1. sending[1] = [at |-> Place(t), len |-> t] /\ slot[Place(t)].id = t
    BY <1>2 DEF InFlight
  <2>2. t \in Int /\ c + 1 \in Int /\ t < c + 1 /\ c + 1 < t + Num
    BY <1>3, Constants
  <2>3. Place(t) # p /\ Place(t) \in Slots
    BY <1>2, <2>2, PlacesApart, PlaceIsSlot
  <2> QED BY <2>1, <2>3, <1>7
<1>14. Written'
  <2>1. print'.at = p /\ print'.len = c + 1
    BY <1>5, <1>3 DEF Types
  <2>2. p = Place(count') /\ main' = "header"
    BY <1>2, <1>4
  <2> QED BY <1>1, <1>4, <1>7, <2>1, <2>2 DEF Written
<1>15. Output'
  BY <1>4 DEF Output
<1> QED BY <1>10, <1>11, <1>12, <1>13, <1>14, <1>15

\* What is known while my_printf is at work.
LEMMA WhilePrinting ==
  ASSUME NotOverrun, LogInv, Printing
  PROVE  /\ count \in Nat /\ count \in Message /\ Logged = count - 1 /\ count - 1 \in Nat
         /\ Taken \in Nat /\ Taken <= count - 1 /\ count - 1 <= Taken + Quota
         /\ wptr = (count - 1) % Wrap /\ rptr = Taken % Wrap
         /\ print.at = Place(count) /\ print.len = count /\ Place(count) \in Slots
         /\ slot[Place(count)].id = count
<1> USE DEF LogInv
<1>1. count \in Message /\ count \in Nat /\ count \in Int
  BY Constants DEF Types, Message
<1>2. Logged = count - 1
  BY DEF Logged
<1>3. Logged \in Nat /\ Taken \in Nat /\ wptr = Logged % Wrap /\ rptr = Taken % Wrap
  BY DEF Pointers
<1>4. Taken <= Logged /\ Logged <= Taken + Quota
  BY DEF Room
<1> QED BY <1>1, <1>2, <1>3, <1>4, PlaceIsSlot DEF Written

\* my_printf writes the length.
LEMMA PrintfHeaderKeepsLogInv ==
  ASSUME NotOverrun, LogInv, PrintfHeader
  PROVE  LogInv'
<1> USE DEF LogInv
<1>1. Printing /\ main = "header"
  BY DEF PrintfHeader, Printing
<1>2. PICK c, t, p : c = count /\ t = Taken /\ p = Place(c)
  OBVIOUS
<1>3. /\ c \in Nat /\ c \in Message /\ Logged = c - 1 /\ c - 1 \in Nat
      /\ t \in Nat /\ t <= c - 1 /\ c - 1 <= t + Quota
      /\ print.at = p /\ print.len = c /\ p \in Slots /\ slot[p].id = c
  BY <1>1, <1>2, WhilePrinting
<1>4. /\ count' = c /\ wptr' = wptr /\ rptr' = rptr /\ sending' = sending /\ out' = out
      /\ main' = "load" /\ print' = print /\ dbg_chn' = dbg_chn /\ users' = users
  BY <1>2 DEF PrintfHeader, built
<1>5. slot \in [Slots -> [id : Message, len : Message]]
  BY DEF Types
<1>6. /\ slot' \in [Slots -> [id : Message, len : Message]]
      /\ slot'[p].len = c /\ slot'[p].id = c
      /\ \A j \in Slots : j # p => slot'[j] = slot[j]
  <2>1. slot' = [slot EXCEPT ![p].len = c]
    BY <1>3 DEF PrintfHeader
  <2> QED BY <2>1, <1>3, <1>5
<1>7. Printing' /\ Logged' = c - 1 /\ Logged' = Logged /\ Taken' = t /\ Taken' = Taken
  BY <1>2, <1>3, <1>4 DEF Printing, Logged, Taken
<1>8. Types'
  BY <1>3, <1>4, <1>6 DEF Types
<1>9. Pointers' /\ Room'
  BY <1>1, <1>4, <1>7 DEF Pointers, Room
<1>10. Stored'
  <2> SUFFICES ASSUME NEW m \in Message, t < m, m <= c - 1
               PROVE  slot'[Place(m)] = [id |-> m, len |-> m]
    BY <1>7 DEF Stored
  <2>1. m \in Int /\ m < c /\ c < m + Num /\ c \in Int
    BY <1>3, Constants DEF Message
  <2>2. Place(m) # p /\ Place(m) \in Slots
    BY <1>2, <2>1, PlacesApart, PlaceIsSlot
  <2>3. slot[Place(m)] = [id |-> m, len |-> m]
    BY <1>2, <1>3 DEF Stored
  <2> QED BY <1>6, <2>2, <2>3
<1>11. InFlight'
  <2> SUFFICES ASSUME sending # <<>>
               PROVE  sending[1] = [at |-> Place(t), len |-> t] /\ slot'[Place(t)].id = t
    BY <1>4, <1>7 DEF InFlight
  <2>1. sending[1] = [at |-> Place(t), len |-> t] /\ slot[Place(t)].id = t
    BY <1>2 DEF InFlight
  <2>2. t \in Int /\ c \in Int /\ t < c /\ c < t + Num
    BY <1>3, Constants
  <2>3. Place(t) # p /\ Place(t) \in Slots
    BY <1>2, <2>2, PlacesApart, PlaceIsSlot
  <2> QED BY <2>1, <2>3, <1>6
<1>12. Written'
  <2>1. p = Place(count') /\ main' = "load" /\ "printf" \in users
    BY <1>1, <1>2, <1>4 DEF Written
  <2> QED BY <1>3, <1>4, <1>6, <2>1 DEF Written
<1>13. Output'
  BY <1>4 DEF Output
<1> QED BY <1>8, <1>9, <1>10, <1>11, <1>12, <1>13

\* my_printf reads wptr.
LEMMA PrintfLoadKeepsLogInv ==
  ASSUME NotOverrun, LogInv, PrintfLoad
  PROVE  LogInv'
<1> USE DEF LogInv
<1>1. Printing /\ main = "load"
  BY DEF PrintfLoad, Printing
<1>2. /\ UNCHANGED <<dbg_chn, users, wptr, rptr, slot, sending, count, out>>
      /\ main' = "store" /\ print' = [print EXCEPT !.ptr = wptr]
  BY DEF PrintfLoad, built
<1>3. Printing' /\ Logged' = Logged /\ Taken' = Taken
  BY <1>1, <1>2 DEF Printing, Logged, Taken
<1>4. wptr \in 0 .. Wrap - 1
  BY PointerOf DEF Pointers
<1>5. print \in [id : Message, at : Slots, len : Message, ptr : 0 .. Wrap - 1]
  BY DEF Types
<1>6. /\ print' \in [id : Message, at : Slots, len : Message, ptr : 0 .. Wrap - 1]
      /\ print'.at = print.at /\ print'.len = print.len /\ print'.ptr = wptr
  BY <1>2, <1>4, <1>5
<1>7. Types'
  BY <1>2, <1>6 DEF Types
<1>8. Pointers' /\ Room'
  BY <1>1, <1>2, <1>3 DEF Pointers, Room
<1>9. Stored' /\ InFlight' /\ Output'
  BY <1>2, <1>3 DEF Stored, InFlight, Output
<1>10. Written'
  BY <1>1, <1>2, <1>6 DEF Written
<1> QED BY <1>7, <1>8, <1>9, <1>10

\* my_printf writes wptr: the message is logged.
LEMMA PrintfStoreKeepsLogInv ==
  ASSUME NotOverrun, LogInv, PrintfStore
  PROVE  LogInv'
<1> USE DEF LogInv
<1>1. Printing /\ main = "store"
  BY DEF PrintfStore, Printing
<1>2. PICK c, t, p : c = count /\ t = Taken /\ p = Place(c)
  OBVIOUS
<1>3. /\ c \in Nat /\ c \in Message /\ Logged = c - 1 /\ c - 1 \in Nat
      /\ t \in Nat /\ t <= c - 1 /\ c - 1 <= t + Quota
      /\ wptr = (c - 1) % Wrap /\ rptr = t % Wrap /\ p \in Slots /\ slot[p].id = c
  BY <1>1, <1>2, WhilePrinting
<1>4. print.ptr = wptr /\ slot[p].len = c
  BY <1>1, <1>2 DEF Written
<1>5. /\ UNCHANGED <<dbg_chn, users, rptr, slot, sending, print, count, out>>
      /\ main' = "loop" /\ wptr' = (wptr + 1) % Wrap
  BY <1>4 DEF PrintfStore, built
<1>6. wptr' = c % Wrap
  <2>1. c - 1 + 1 = c
    BY <1>3
  <2>2. (((c - 1) % Wrap) + 1) % Wrap = (c - 1 + 1) % Wrap
    BY <1>3, PointerOf
  <2> QED BY <1>3, <1>5, <2>1, <2>2
<1>7. ~Printing' /\ Logged' = c /\ Taken' = t
  BY <1>2, <1>5 DEF Printing, Logged, Taken
<1>8. Types'
  BY <1>5 DEF Types
<1>9. Pointers' /\ Room'
  BY <1>3, <1>5, <1>6, <1>7, Constants DEF Pointers, Room
<1>10. Stored'
  <2> SUFFICES ASSUME NEW m \in Message, t < m, m <= c
               PROVE  slot[Place(m)] = [id |-> m, len |-> m]
    BY <1>5, <1>7 DEF Stored
  <2>1. CASE m = c
    <3>1. slot[p] \in [id : Message, len : Message]
      BY <1>3 DEF Types
    <3>2. slot[p] = [id |-> c, len |-> c]
      BY <3>1, <1>3, <1>4
    <3> QED BY <2>1, <3>2, <1>2
  <2>2. CASE m # c
    <3>1. m <= c - 1
      BY <2>2, <1>3 DEF Message
    <3> QED BY <3>1, <1>2, <1>3 DEF Stored
  <2> QED BY <2>1, <2>2
<1>11. InFlight' /\ Output'
  BY <1>2, <1>5, <1>7 DEF InFlight, Output
<1>12. Written'
  BY <1>7 DEF Written
<1> QED BY <1>8, <1>9, <1>10, <1>11, <1>12

-----------------------------------------------------------------------------
(* The messages that are sent.                                             *)

\* What was sent is the next message, whole.
LEMMA SentOutput ==
  ASSUME NotOverrun, LogInv, sending # <<>>, Sent
  PROVE  /\ Len(out) + 1 = Taken
         /\ out' \in Seq([id : Message, whole : BOOLEAN]) /\ Len(out') = Taken
         /\ Output'
<1> USE DEF LogInv
<1>1. PICK t, n : t = Taken /\ n = Len(out)
  OBVIOUS
<1>2. /\ out \in Seq([id : Message, whole : BOOLEAN]) /\ n \in Nat /\ Len(sending) = 1
      /\ t = n + 1
  BY <1>1, LenProperties DEF Types, Taken
<1>3. sending[1] = [at |-> Place(t), len |-> t] /\ slot[Place(t)].id = t
  BY <1>1 DEF InFlight
<1>4. Place(t) \in Slots /\ t \in Message
  <2>1. Place(t) \in Slots
    BY <1>2, PlaceIsSlot
  <2>2. slot[Place(t)] \in [id : Message, len : Message]
    BY <2>1 DEF Types
  <2> QED BY <1>3, <2>1, <2>2
<1>5. PICK e : e = [id |-> t, whole |-> TRUE]
  OBVIOUS
<1>6. out' = Append(out, e) /\ e \in [id : Message, whole : BOOLEAN]
  <2>1. (t = slot[Place(t)].id) = TRUE
    BY <1>3
  <2>2. sending[1].at = Place(t) /\ sending[1].len = t
    BY <1>3
  <2>3. out' = Append(out, [id |-> t, whole |-> t = slot[Place(t)].id])
    BY <2>2, <1>3 DEF Sent
  <2> QED BY <2>1, <2>3, <1>4, <1>5
<1>7. /\ out' \in Seq([id : Message, whole : BOOLEAN]) /\ Len(out') = n + 1
      /\ out'[n + 1] = e /\ \A k \in 1 .. n : out'[k] = out[k]
  BY <1>1, <1>2, <1>6, AppendProperties
<1>8. Output'
  <2> SUFFICES ASSUME NEW k \in DOMAIN out' PROVE out'[k].id = k /\ out'[k].whole
    BY DEF Output
  <2>1. k \in 1 .. n + 1
    BY <1>7, LenProperties
  <2>2. CASE k = n + 1
    BY <2>2, <1>2, <1>5, <1>7
  <2>3. CASE k \in 1 .. n
    <3>1. k \in DOMAIN out
      BY <2>3, <1>1, <1>2, LenProperties
    <3> QED BY <2>3, <3>1, <1>7 DEF Output
  <2> QED BY <1>2, <2>1, <2>2, <2>3
<1> QED BY <1>1, <1>2, <1>7, <1>8

\* The next message is taken.
LEMMA TakeKeepsLogInv ==
  ASSUME NotOverrun, LogInv, wptr # rptr, Take, UNCHANGED <<built, wptr, slot, main, print, count>>,
         out' \in Seq([id : Message, whole : BOOLEAN]), Len(out') = Taken, Output'
  PROVE  LogInv'
<1> USE DEF LogInv
<1>1. PICK l, t, p : l = Logged /\ t = Taken /\ p = Place(t + 1)
  OBVIOUS
<1>2. /\ l \in Nat /\ wptr = l % Wrap /\ t \in Nat /\ rptr = t % Wrap
      /\ t < l /\ l <= t + Quota + 1 /\ (Printing => l <= t + Quota)
  <2>1. Logged # Taken
    BY PendingIs
  <2> QED BY <1>1, <2>1 DEF Pointers, Room
<1>3. t + 1 \in Message /\ t + 1 <= l
  <2>1. count \in Nat /\ count <= MaxLog /\ l <= count
    BY <1>1, Constants DEF Types, Message, Logged
  <2> QED BY <1>2, <2>1, Constants DEF Message
<1>4. Index(rptr) = p /\ p \in Slots /\ (rptr + 1) % Wrap = (t + 1) % Wrap
  BY <1>1, <1>2, PointerOf, PlaceIsSlot
<1>5. slot[p] = [id |-> t + 1, len |-> t + 1]
  BY <1>1, <1>2, <1>3 DEF Stored
<1>6. sending' = <<[at |-> p, len |-> t + 1]>> /\ rptr' = (t + 1) % Wrap
  BY <1>4, <1>5 DEF Take
<1>7. /\ wptr' = wptr /\ slot' = slot /\ main' = main /\ print' = print /\ count' = count
      /\ dbg_chn' = dbg_chn /\ users' = users
  BY DEF built
<1>8. /\ Len(sending') = 1 /\ sending' \in Seq([at : Slots, len : Message])
      /\ sending'[1] = [at |-> p, len |-> t + 1]
  <2>1. [at |-> p, len |-> t + 1] \in [at : Slots, len : Message]
    BY <1>3, <1>4
  <2> QED BY <1>6, <2>1
<1>9. Printing' = Printing /\ Logged' = l /\ Taken' = t + 1
  BY <1>1, <1>7, <1>8 DEF Printing, Logged, Taken
<1>10. Types'
  BY <1>7, <1>8 DEF Types
<1>11. Pointers' /\ Room'
  <2>1. t + 1 \in Nat /\ t + 1 <= l /\ l <= t + 1 + Quota + 1 /\ (Printing => l <= t + 1 + Quota)
    BY <1>2, <1>3, Constants
  <2>2. Pointers'
    BY <1>2, <1>6, <1>7, <1>9, <2>1 DEF Pointers
  <2> QED BY <1>9, <2>1, <2>2 DEF Room
<1>12. Stored'
  <2> SUFFICES ASSUME NEW m \in Message, t + 1 < m, m <= l
               PROVE  slot[Place(m)] = [id |-> m, len |-> m]
    BY <1>7, <1>9 DEF Stored
  <2>1. t < m
    BY <1>2 DEF Message
  <2> QED BY <2>1, <1>1 DEF Stored
<1>13. InFlight'
  BY <1>1, <1>5, <1>7, <1>8, <1>9 DEF InFlight
<1>14. Written'
  BY <1>7, <1>9 DEF Written
<1> QED BY <1>10, <1>11, <1>12, <1>13, <1>14

\* Nothing is sent any more.
LEMMA IdleKeepsLogInv ==
  ASSUME NotOverrun, LogInv, sending' = <<>>,
         UNCHANGED <<built, wptr, rptr, slot, main, print, count>>,
         out' \in Seq([id : Message, whole : BOOLEAN]), Len(out') = Taken, Output'
  PROVE  LogInv'
<1> USE DEF LogInv
<1>1. /\ wptr' = wptr /\ rptr' = rptr /\ slot' = slot /\ main' = main /\ print' = print
      /\ count' = count /\ dbg_chn' = dbg_chn /\ users' = users
  BY DEF built
<1>2. Taken \in Nat /\ Len(sending') = 0
  BY DEF Pointers
<1>3. Printing' = Printing /\ Logged' = Logged /\ Taken' = Taken
  BY <1>1, <1>2 DEF Printing, Logged, Taken
<1>4. Types'
  BY <1>1 DEF Types
<1>5. Pointers' /\ Room'
  BY <1>1, <1>3 DEF Pointers, Room
<1>6. Stored' /\ InFlight'
  BY <1>1, <1>3 DEF Stored, InFlight
<1>7. Written'
  BY <1>1, <1>3 DEF Written
<1> QED BY <1>4, <1>5, <1>6, <1>7

-----------------------------------------------------------------------------
(* What is proved.                                                         *)

LEMMA NextLogInv ==
  ASSUME NotOverrun, LogInv, [LogNext]_logVars
  PROVE  LogInv'
<1>1. CASE LogMain
  <2>1. /\ main = "loop" /\ MayLog /\ UNCHANGED <<built, rptr, sending, main, print, out>>
        /\ \E kind \in SendKind : SendStrData(kind)
    BY <1>1 DEF LogMain, MainFree
  <2> QED BY <2>1, SendStrDataKeepsLogInv
<1>2. CASE LogIrq
  <2>1. /\ MayLog /\ UNCHANGED <<built, rptr, sending, main, print, out>>
        /\ \E kind \in SendKind : SendStrData(kind)
    BY <1>2 DEF LogIrq
  <2>2. main = "loop"
    <3>1. "irq" \in users /\ ~({"printf", "irq"} \subseteq users)
      BY <1>2 DEF LogIrq, LogInv, Types, NotOverrun
    <3> QED BY <3>1 DEF LogInv, Written, Printing
  <2> QED BY <2>1, <2>2, SendStrDataKeepsLogInv
<1>3. CASE PrintfFormat
  BY <1>3, PrintfFormatKeepsLogInv
<1>4. CASE PrintfHeader
  BY <1>4, PrintfHeaderKeepsLogInv
<1>5. CASE PrintfLoad
  BY <1>5, PrintfLoadKeepsLogInv
<1>6. CASE PrintfStore
  BY <1>6, PrintfStoreKeepsLogInv
<1>7. CASE Handler
  <2>1. /\ wptr # rptr /\ Take /\ sending = <<>>
        /\ UNCHANGED <<built, wptr, slot, main, print, count>> /\ out' = out
    BY <1>7 DEF Handler
  <2>2. out \in Seq([id : Message, whole : BOOLEAN]) /\ Len(out) \in Nat /\ Output
    BY LenProperties DEF LogInv, Types
  <2>3. Len(out') = Taken /\ Output'
    BY <2>1, <2>2 DEF Taken, Output
  <2> QED BY <2>1, <2>2, <2>3, TakeKeepsLogInv
<1>8. CASE HandlerEnd
  <2>1. /\ sending # <<>> /\ Sent /\ sending' = <<>>
        /\ UNCHANGED <<built, wptr, rptr, slot, main, print, count>>
    BY <1>8 DEF HandlerEnd
  <2> QED BY <2>1, SentOutput, IdleKeepsLogInv
<1>9. CASE UartIrq
  <2>1. /\ sending # <<>> /\ Sent /\ UNCHANGED <<built, wptr, slot, main, print, count>>
        /\ IF wptr # rptr THEN Take ELSE sending' = <<>> /\ UNCHANGED rptr
    BY <1>9 DEF UartIrq
  <2>2. CASE wptr # rptr
    BY <2>1, <2>2, SentOutput, TakeKeepsLogInv
  <2>3. CASE wptr = rptr
    BY <2>1, <2>3, SentOutput, IdleKeepsLogInv
  <2> QED BY <2>2, <2>3
<1>10. CASE UNCHANGED logVars
  BY <1>10 DEF logVars, LogInv, Types, Pointers, Room, Stored, InFlight, Written, Output,
               Logged, Taken, Printing
<1> QED BY <1>1, <1>2, <1>3, <1>4, <1>5, <1>6, <1>7, <1>8, <1>9, <1>10 DEF LogNext

LEMMA LogInvariance == ASSUME NotOverrun PROVE LogSpec => []LogInv
<1>1. NotOverrun
  OBVIOUS
<1> QED BY InitLogInv, NextLogInv, <1>1, PTL DEF LogSpec

LEMMA LogInvImpliesOutputInOrder ==
  ASSUME LogInv
  PROVE  OutputInOrder
<1> USE DEF LogInv
<1>1. wptr \in 0 .. Wrap - 1 /\ rptr \in 0 .. Wrap - 1
  BY PointerOf DEF Pointers
<1>2. sending = <<>> \/ (Len(sending) = 1 /\ sending[1] \in [at : Slots, len : Message])
  <2>1. CASE sending = <<>>
    BY <2>1
  <2>2. CASE Len(sending) = 1 /\ sending \in Seq([at : Slots, len : Message])
    <3>1. 1 \in 1 .. Len(sending)
      BY <2>2
    <3>2. sending[1] \in [at : Slots, len : Message]
      BY <2>2, <3>1, ElementOfSeq
    <3> QED BY <2>2, <3>2
  <2> QED BY <2>1, <2>2 DEF Types
<1>3. LogTyped
  BY <1>1, <1>2 DEF LogTyped, Types
<1> QED BY <1>3 DEF OutputInOrder, Output

LEMMA LogInvImpliesNotBusyIsOut ==
  ASSUME NotOverrun, LogInv
  PROVE  NotBusyIsOut
<1> SUFFICES ASSUME MainFree, ~IsBusy PROVE Len(out) = count
  BY DEF NotBusyIsOut
<1>1. main = "loop" /\ sending = <<>> /\ wptr = rptr
  BY DEF MainFree, IsBusy
<1>2. Logged = Taken
  BY <1>1, PendingIs DEF LogInv
<1>3. Logged = count /\ Len(sending) = 0
  BY <1>1 DEF Logged, Printing
<1>4. Len(out) \in Nat
  BY LenProperties DEF LogInv, Types
<1> QED BY <1>2, <1>3, <1>4 DEF Taken

\* As long as the ring is not overrun, what is logged comes out in that
\* order, nothing twice and nothing left out, every message whole: the slots
\* that wptr, rptr and the channel use are never the same
\* (tlkapi_send_str_data, my_printf, tlkapi_debug_handler).
THEOREM LogIsInOrder == ASSUME NotOverrun PROVE LogSpec => []OutputInOrder
<1>1. NotOverrun
  OBVIOUS
<1>2. LogInv => OutputInOrder
  BY LogInvImpliesOutputInOrder
<1> QED BY <1>1, <1>2, LogInvariance, PTL

\* tlkapi_debug_isBusy says "not busy" to the main program only when
\* everything that was logged is out.
THEOREM IdleIsOut == ASSUME NotOverrun PROVE LogSpec => []NotBusyIsOut
<1>1. NotOverrun
  OBVIOUS
<1>2. LogInv => NotBusyIsOut
  BY <1>1, LogInvImpliesNotBusyIsOut
<1> QED BY <1>1, <1>2, LogInvariance, PTL
=============================================================================
