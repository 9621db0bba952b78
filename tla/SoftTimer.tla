------------------------------ MODULE SoftTimer ------------------------------
(***************************************************************************)
(* The software timers of vendor/common/blt_soft_timer.c: a small table of *)
(* timers sorted by expiry time, served by blt_soft_timer_process, which   *)
(* the main loop calls and which also arms the application wake-up of the  *)
(* power manager.  Times are words of the system timer and wrap at WordMod *)
(* (2^32 in the code); all comparisons are differences modulo WordMod.     *)
(*                                                                         *)
(* The pass over the table is a step per entry, because a callback is      *)
(* application code: it may itself add and delete timers.                  *)
(***************************************************************************)
EXTENDS Integers, Sequences, SequencesExt

CONSTANTS
  Callback,     \* callback functions; no caller of add passes NULL
  None,         \* no callback is running
  Interval,     \* the intervals callers ask for, in ticks
  MaxTimers,    \* MAX_TIMER_NUM
  WordMod,      \* 2^32: the system timer is a 32-bit word
  SortSpan,     \* BIT(30): TIME_COMPARE_BIG sees differences below it
  MarginPre,    \* BLT_TIMER_SAFE_MARGIN_PRE
  MarginPost,   \* BLT_TIMER_SAFE_MARGIN_POST
  WakeSpan,     \* 3000 ms: wake-ups further away are not armed
  MaxGap,       \* longest time between two calls of process
  Reentrant     \* may callbacks call add and delete?

ASSUME TimerAssumption ==
  /\ MaxTimers \in Nat \ {0}
  /\ Reentrant \in BOOLEAN
  /\ {WordMod, SortSpan, MarginPre, MarginPost, WakeSpan, MaxGap} \subseteq Nat
  /\ MarginPre < WakeSpan /\ WakeSpan < MarginPost
  /\ MarginPost < SortSpan /\ 4 * SortSpan <= WordMod

\* An interval must stay clear of the reach of TIME_COMPARE_BIG.
ASSUME IntervalAssumption ==
  \A v \in Interval : v \in Nat /\ MarginPre < v /\ v + MarginPost <= SortSpan

Time == 0 .. WordMod - 1

NoWake == -1

VARIABLES
  now,     \* the system timer
  tbl,     \* blt_timer.timer[0 .. currentNum - 1]
  wake,    \* the tick armed with bls_pm_setAppWakeupLowPower, or NoWake
  pc,      \* "main"; inside process: "loop", and "cb" during a callback
  i,       \* loop index of process, counted from 1
  pnow,    \* the value of now that process works with
  change,  \* change_flg of process
  run,     \* the callback that is running
  gap      \* time since process was called

timersVars == <<now, tbl, wake, pc, i, pnow, change, run, gap>>

Timer == [cb : Callback, t : Time, interval : Interval]

TimersTyped ==
  /\ now \in Time /\ pnow \in Time
  /\ tbl \in Seq(Timer) /\ Len(tbl) <= MaxTimers
  /\ wake \in Time \cup {NoWake}
  /\ pc \in {"main", "loop", "cb"}
  /\ i \in 1 .. MaxTimers + 1
  /\ change \in BOOLEAN
  /\ run \in Callback \cup {None}
  /\ gap \in 0 .. MaxGap

TimersInit ==
  /\ now = 0 /\ pnow = 0
  /\ tbl = <<>>
  /\ wake = NoWake
  /\ pc = "main"
  /\ i = 1
  /\ change = FALSE
  /\ run = None
  /\ gap = 0

-----------------------------------------------------------------------------
(* Time arithmetic and sorting.                                            *)

Diff(a, b) == (a - b) % WordMod

TimeCompareBig(t1, t2) == Diff(t1, t2) < SortSpan

\* no margin for a pass that comes late
MutExpired(t, n) == Diff(n, t) < MarginPre

\* blt_is_timer_expired
Expired(t, n) == Diff(n + MarginPre, t) < MarginPost

\* One comparison of the bubble sort of blt_soft_timer_sort.
CompareAndSwap(s, j) ==
  IF TimeCompareBig(s[j].t, s[j + 1].t)
  THEN [s EXCEPT ![j] = s[j + 1], ![j + 1] = s[j]]
  ELSE s

\* The inner loop: the comparisons from the first on.
BubblePass(s, n) ==
  LET after[j \in 0 .. n] == IF j = 0 THEN s ELSE CompareAndSwap(after[j - 1], j)
  IN  after[n]

\* Every pass compares one pair less; the last one here compares nothing.
SortTimers(s) ==
  LET after[p \in 0 .. Len(s)] ==
        IF p = 0 THEN s ELSE BubblePass(after[p - 1], Len(s) - p)
  IN  after[Len(s)]

\* The tick armed for t, unless t is too far away or already past.
Armed(t, n) == IF Diff(t, n) < WakeSpan THEN t ELSE NoWake

-----------------------------------------------------------------------------
(* The calls of the application, from the main loop or from a callback.    *)

\* blt_soft_timer_add; with a full table nothing happens
Add(f, v) ==
  /\ Len(tbl) < MaxTimers
  /\ tbl' = SortTimers(Append(tbl, [cb |-> f, t |-> (now + v) % WordMod,
                                    interval |-> v]))
  /\ wake' = tbl'[1].t

\* blt_soft_timer_delete takes out the first timer with this callback.  If
\* that was entry 0 the wake-up is set anew from entry 0, which in a table
\* that is now empty still holds the timer taken out.
Delete(f) ==
  \E k \in DOMAIN tbl :
    /\ tbl[k].cb = f
    /\ \A m \in 1 .. k - 1 : tbl[m].cb # f
    /\ tbl' = RemoveAt(tbl, k)
    /\ wake' = IF k # 1 THEN wake
               ELSE Armed(IF tbl' = <<>> THEN tbl[1].t ELSE tbl'[1].t, now)

AppCall ==
  /\ pc = "main" \/ (pc = "cb" /\ Reentrant)
  /\ \E f \in Callback : Delete(f) \/ \E v \in Interval : Add(f, v)
  /\ UNCHANGED <<now, pc, i, pnow, change, run, gap>>

-----------------------------------------------------------------------------
(* blt_soft_timer_process                                                  *)

ProcessEmpty ==
  /\ pc = "main"
  /\ tbl = <<>>
  /\ wake' = NoWake
  /\ gap' = 0
  /\ UNCHANGED <<now, tbl, pc, i, pnow, change, run>>

ProcessTooEarly ==
  /\ pc = "main"
  /\ tbl # <<>>
  /\ ~Expired(tbl[1].t, now)
  /\ gap' = 0
  /\ UNCHANGED <<now, tbl, wake, pc, i, pnow, change, run>>

ProcessBegin ==
  /\ pc = "main"
  /\ tbl # <<>>
  /\ Expired(tbl[1].t, now)
  /\ pc' = "loop"
  /\ i' = 1
  /\ pnow' = now
  /\ change' = FALSE
  /\ gap' = 0
  /\ UNCHANGED <<now, tbl, wake, run>>

Serving == pc = "loop" /\ i <= Len(tbl)

\* the index is not advanced past a timer that is not due
MutLoopPass ==
  /\ Serving
  /\ ~Expired(tbl[i].t, pnow)
  /\ UNCHANGED timersVars

LoopPass ==
  /\ Serving
  /\ ~Expired(tbl[i].t, pnow)
  /\ i' = i + 1
  /\ UNCHANGED <<now, tbl, wake, pc, pnow, change, run, gap>>

LoopCall ==
  /\ Serving
  /\ Expired(tbl[i].t, pnow)
  /\ pc' = "cb"
  /\ run' = tbl[i].cb
  /\ UNCHANGED <<now, tbl, wake, i, pnow, change, gap>>

\* The callback is over: go on with the next index.
CbReturn ==
  /\ pc = "cb"
  /\ pc' = "loop"
  /\ i' = i + 1
  /\ run' = None
  /\ UNCHANGED <<now, wake, pnow, gap>>

\* A negative result deletes entry i, if the table still reaches that far.
CbStop ==
  /\ CbReturn
  /\ tbl' = IF i <= Len(tbl) THEN RemoveAt(tbl, i) ELSE tbl
  /\ UNCHANGED change

Rescheduled(e, v) == [e EXCEPT !.t = (pnow + v) % WordMod, !.interval = v]

\* change_flg is not set
MutCbAgain ==
  /\ CbReturn
  /\ change' = change
  /\ IF i <= Len(tbl)
     THEN \E v \in Interval \cup {tbl[i].interval} :
            tbl' = [tbl EXCEPT ![i] = Rescheduled(tbl[i], v)]
     ELSE UNCHANGED tbl

\* Result 0 keeps the interval of entry i, a positive one is a new one.
\* Beyond the end of the table the write goes to an unused entry.
CbAgain ==
  /\ CbReturn
  /\ change' = TRUE
  /\ IF i <= Len(tbl)
     THEN \E v \in Interval \cup {tbl[i].interval} :
            tbl' = [tbl EXCEPT ![i] = Rescheduled(tbl[i], v)]
     ELSE UNCHANGED tbl

LoopEnd ==
  /\ pc = "loop"
  /\ i > Len(tbl)
  /\ pc' = "main"
  /\ i' = 1
  /\ tbl' = IF change THEN SortTimers(tbl) ELSE tbl
  /\ wake' = IF tbl' = <<>> THEN NoWake ELSE Armed(tbl'[1].t, pnow)
  /\ change' = FALSE
  /\ pnow' = 0
  /\ UNCHANGED <<now, run, gap>>

-----------------------------------------------------------------------------
(* Time passes while the main loop is elsewhere or the chip sleeps.  The   *)
(* armed wake-up and, at the latest, the next BLE event bring process back *)
(* (the closed-source stack: MaxGap stands for its longest interval).      *)

Tick ==
  /\ pc = "main"
  /\ gap < MaxGap
  /\ now = wake => gap = 0
  /\ now' = (now + 1) % WordMod
  /\ gap' = gap + 1
  /\ UNCHANGED <<tbl, wake, pc, i, pnow, change, run>>

Process == ProcessEmpty \/ ProcessTooEarly \/ ProcessBegin

Pass == LoopPass \/ LoopCall \/ CbStop \/ CbAgain \/ LoopEnd

TimersNext == AppCall \/ Process \/ Pass \/ Tick

TimersSpec == TimersInit /\ [][TimersNext]_timersVars

\* Time goes on, the pass is a loop that ends, and the main loop calls
\* process at the latest when Tick waits for it.
TimersFairness ==
  /\ WF_timersVars(Tick) /\ WF_timersVars(Pass)
  /\ WF_timersVars(Process /\ gap > 0)

TimersFairSpec == TimersSpec /\ TimersFairness

-----------------------------------------------------------------------------
(* Properties.                                                             *)

\* Whenever process is not in the middle of a pass the table is sorted, in
\* the circular order of the timer word, across its wrap-around: entry 0 is
\* the timer that is due first.
Sorted ==
  pc = "main" => \A k, m \in DOMAIN tbl :
                   k < m => Diff(tbl[m].t, tbl[k].t) < SortSpan

\* How far a timer is overdue; 0 if its time has not come.
Late(e) == IF Diff(now, e.t) < WordMod \div 2 THEN Diff(now, e.t) ELSE 0

\* No timer slips behind the expiry window, where it would stay silent
\* until the timer word has wrapped around: even though a callback that
\* deletes itself makes the pass skip the next entry, and although far
\* timers have no wake-up armed, it is enough that process runs every
\* MaxGap ticks, with MaxTimers * MaxGap below the window.
NoTimerMissed ==
  \A k \in DOMAIN tbl : Late(tbl[k]) + MarginPre < MarginPost

\* A wake-up that is armed is never later than the first timer, so the chip
\* does not sleep through a timer because of a stale wake-up.
WakeNotBeyondFirst ==
  pc = "main" /\ wake # NoWake /\ tbl # <<>> /\ Diff(tbl[1].t, now) < SortSpan
    => Diff(tbl[1].t, wake) < SortSpan

\* The table is what blt_soft_timer_sort and the loop leave it: typed, in
\* order, and never with an older wake-up than its first timer.
TableConsistent == TimersTyped /\ Sorted /\ WakeNotBeyondFirst

HasTimer(f) == \E k \in DOMAIN tbl : tbl[k].cb = f

\* Once the application leaves the timers alone, each timer of the table is
\* served again and again until its callback stops it.
EveryTimerServed ==
  <>[][~AppCall]_timersVars =>
    \A f \in Callback : []<>(run = f \/ ~HasTimer(f))

=============================================================================
