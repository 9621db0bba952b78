----------------------------- MODULE RtosQueue -----------------------------
(***************************************************************************)
(* Queues and mutexes of FreeRTOS (3rd-party/freertos-V5/queue.c).         *)
(*                                                                         *)
(* A task that finds the queue full (or empty) suspends the scheduler,     *)
(* locks the queue, looks again and puts itself on the queue's event list; *)
(* an interrupt that sends or receives meanwhile only counts in cTxLock or *)
(* cRxLock, and prvUnlockQueue wakes as many waiters.  Every step between  *)
(* two of these is one at which an interrupt may come.                     *)
(***************************************************************************)
EXTENDS RtosTasks

CONSTANTS
  Mutex,      \* the elements of Queue that are mutexes
  Length,     \* uxLength of each queue
  LockBound   \* bound: sends and receives of interrupts while it is locked

ASSUME QueueAssumption ==
  /\ Mutex \subseteq Queue /\ IsFiniteSet(Mutex) /\ LockBound \in Nat
  /\ \A qu \in Queue : Length[qu] \in Nat \ {0}
  /\ \A qu \in Mutex : Length[qu] = 1

\* A system sends to queues it has, at one of their ends, locks mutexes, and
\* waits for a number of ticks that is one (a TickType_t).  Its priorities are
\* less than configMAX_PRIORITIES, and the idle task runs the kernel's code only.
ASSUME ScenarioAssumption ==
  \A sc \in Scenarios : /\ sc.queues \subseteq Queue
                        /\ sc.where \subseteq {"back", "front"}
                        /\ sc.delays \subseteq Time
                        /\ sc.base \in [Task -> Prio] /\ sc.prios \subseteq Prio
                        /\ sc.stopped \subseteq Task \ {Idle}
                        /\ sc.does[Idle] \subseteq {"sleep"}
                        /\ \A t \in Task : /\ sc.locks[t] \subseteq Mutex
                                           /\ sc.waits[t] \subseteq Time

VARIABLE q  \* the queues

Unlocked         == -1   \* queueUNLOCKED
LockedUnmodified == 0    \* queueLOCKED_UNMODIFIED
Nobody           == "nobody"

ASSUME NobodyAssumption == Nobody \notin Task

\* A queue keeps its items in a ring of len slots: wr is where pcWriteTo
\* points, rd where pcReadFrom does (the slot read last).
NewQueue(qu) ==
  [n |-> IF qu \in Mutex THEN 1 ELSE 0,
   ring |-> [i \in 0 .. Length[qu] - 1 |-> "empty"],
   wr |-> 0, rd |-> Length[qu] - 1,
   tx |-> Unlocked, rx |-> Unlocked, holder |-> Nobody]

QueueInit == q = [qu \in Queue |-> NewQueue(qu)]

Full(qu)  == q[qu].n = Length[qu]
Empty(qu) == q[qu].n = 0

\* prvCopyDataToQueue: to the back, to the front, or over the only item.
CopyToBack(r, x, len) ==
  [r EXCEPT !.ring[r.wr] = x, !.wr = (@ + 1) % len, !.n = @ + 1]

\* A mutant: pcReadFrom moves before the item is written.
MutCopyToFront(r, x, len) ==
  [r EXCEPT !.ring[(r.rd - 1) % len] = x, !.rd = (@ - 1) % len, !.n = @ + 1]

CopyToFront(r, x, len) ==
  [r EXCEPT !.ring[r.rd] = x, !.rd = (@ - 1) % len, !.n = @ + 1]

Overwrite(r, x, len) ==
  [CopyToFront(r, x, len) EXCEPT !.n = IF r.n > 0 THEN r.n ELSE 1]

CopyDataToQueue(r, qu, x, where) ==
  IF qu \in Mutex THEN [r EXCEPT !.holder = Nobody, !.n = @ + 1]
  ELSE CASE where = "back"  -> CopyToBack(r, x, Length[qu])
         [] where = "front" -> CopyToFront(r, x, Length[qu])
         [] where = "over"  -> Overwrite(r, x, Length[qu])

\* prvCopyDataFromQueue and the count; the item goes to the caller, and what
\* the slot still holds is not read again.
CopyDataFromQueue(r, qu) ==
  LET i == (r.rd + 1) % Length[qu]
  IN  [r EXCEPT !.rd = i, !.n = @ - 1, !.ring[i] = "empty"]

\* Wake the first waiter of l and switch if it outranks the caller.
WakeAndYield(s, l) ==
  IF s.events[l] = <<>> THEN s
  ELSE YieldIf(WakesHigher(s, l), RemoveFromEventList(s, l))

WakeOne(s, l) == IF s.events[l] = <<>> THEN s ELSE RemoveFromEventList(s, l)

\* A call of the running task on queue qu leaves it as r.
Call(s, qu, r, p, l) == Goto(s, p, l) /\ q' = [q EXCEPT ![qu] = r]

\* The critical section that found no room or nothing: fail, or remember
\* when the wait began (which nothing reads when the wait has no limit).
Blocks(qu, wait, l) ==
  IF wait = 0 THEN Call(k, qu, q[qu], "run", l)
  ELSE Call(IF l.set \/ wait = MaxDelay THEN k ELSE InternalSetTimeOutState(k, k.cur),
            qu, q[qu], "suspend", [l EXCEPT !.set = TRUE])

-----------------------------------------------------------------------------
(* The first critical section of xQueueGenericSend, xQueueReceive,         *)
(* xQueuePeek and xQueueSemaphoreTake, entered from the application and    *)
(* again from the loop ("try"); l are the locals of the call.              *)

\* The priority a mutex gives back: the yield is made for the waiter if
\* there is one, for the lower priority only if there is none.
GiveBack(s, qu) ==
  LET less == PriorityDisinherit(s, s.cur)
  IN  IF s.events[ToReceive(qu)] # <<>> THEN WakeAndYield(less, ToReceive(qu))
      ELSE YieldIf(Disinherits(s, s.cur), less)

TrySend(qu, l) ==
  IF q[qu].n < Length[qu] \/ l.where = "over"
    THEN Call(IF qu \in Mutex THEN GiveBack(k, qu)
                              ELSE WakeAndYield(k, ToReceive(qu)),
              qu, CopyDataToQueue(q[qu], qu, l.item, l.where), "run", l)
    ELSE Blocks(qu, l.wait, l)

TryReceive(qu, l) ==
  IF q[qu].n > 0
    THEN Call(WakeAndYield(k, ToSend(qu)), qu, CopyDataFromQueue(q[qu], qu), "run", l)
    ELSE Blocks(qu, l.wait, l)

\* The item stays, so the next waiter may have it too.
TryPeek(qu, l) ==
  IF q[qu].n > 0
    THEN Call(WakeAndYield(k, ToReceive(qu)), qu, q[qu], "run", l)
    ELSE Blocks(qu, l.wait, l)

TryLock(qu, l) ==
  IF q[qu].n > 0
    THEN Call(WakeAndYield([k EXCEPT !.held[k.cur] = @ + 1], ToSend(qu)), qu,
              [q[qu] EXCEPT !.n = @ - 1, !.holder = k.cur], "run", l)
    ELSE Blocks(qu, l.wait, l)

StartSend ==
  /\ Calls("send")
  /\ \E qu \in scenario.queues \ Mutex, x \in scenario.items, n \in scenario.waits[k.cur],
        w \in scenario.where :
       TrySend(qu, [NoCall EXCEPT !.op = "send", !.obj = qu, !.item = x,
                                  !.where = w, !.wait = n])

\* xQueueOverwrite, for queues of one item
StartOverwrite ==
  /\ Calls("overwrite")
  /\ \E qu \in scenario.queues \ Mutex, x \in scenario.items :
       /\ Length[qu] = 1
       /\ TrySend(qu, [NoCall EXCEPT !.op = "send", !.obj = qu, !.item = x,
                                     !.where = "over"])

StartReceive ==
  /\ Calls("receive")
  /\ \E qu \in scenario.queues \ Mutex, n \in scenario.waits[k.cur] :
       TryReceive(qu, [NoCall EXCEPT !.op = "receive", !.obj = qu, !.wait = n])

StartPeek ==
  /\ Calls("peek")
  /\ \E qu \in scenario.queues \ Mutex, n \in scenario.waits[k.cur] :
       TryPeek(qu, [NoCall EXCEPT !.op = "peek", !.obj = qu, !.wait = n])

\* xQueueReset: one sender is woken, however many places there are.
Reset ==
  /\ Calls("reset")
  /\ \E qu \in scenario.queues \ Mutex :
       Call(WakeAndYield(k, ToSend(qu)), qu, NewQueue(qu), "run", NoCall)

\* A task takes its mutexes one after the other and gives back those it has.
StartLock ==
  /\ Calls("lock")
  /\ \E qu \in scenario.locks[k.cur], n \in scenario.waits[k.cur] :
       /\ q[qu].holder # k.cur
       /\ TryLock(qu, [NoCall EXCEPT !.op = "lock", !.obj = qu, !.wait = n])

StartUnlock ==
  /\ Calls("lock")
  /\ \E qu \in scenario.locks[k.cur] :
       /\ q[qu].holder = k.cur
       /\ TrySend(qu, [NoCall EXCEPT !.op = "send", !.obj = qu])

TryAgain ==
  /\ At("try")
  /\ \/ Here.op = "send"    /\ TrySend(Here.obj, Here)
     \/ Here.op = "receive" /\ TryReceive(Here.obj, Here)
     \/ Here.op = "peek"    /\ TryPeek(Here.obj, Here)
     \/ Here.op = "lock"    /\ TryLock(Here.obj, Here)

-----------------------------------------------------------------------------
(* The rest of the loop, the same in the four functions but for the        *)
(* event list, the mutex and what a wait that ran out means.               *)

WaitList(l) == IF l.op = "send" THEN ToSend(l.obj) ELSE ToReceive(l.obj)
Hopeless(l) == IF l.op = "send" THEN Full(l.obj) ELSE Empty(l.obj)

Suspend == /\ At("suspend")
           /\ Goto(SuspendAll(k), "lock", Here)
           /\ UNCHANGED q

\* prvLockQueue
LockQueue ==
  /\ At("lock")
  /\ LET Locked(c) == IF c = Unlocked THEN LockedUnmodified ELSE c
     IN  Call(k, Here.obj, [q[Here.obj] EXCEPT !.rx = Locked(@), !.tx = Locked(@)],
              "check", Here)

\* xTaskCheckForTimeOut
Check ==
  /\ At("check")
  /\ LET late == TimedOut(k, k.cur, Here.wait)
     IN  Goto(CheckForTimeOut(k, k.cur, Here.wait),
              IF late THEN "unlockTx" ELSE "look",
              [Here EXCEPT !.wait = TicksLeft(k, k.cur, @), !.block = FALSE,
                           !.next = CASE ~late -> "try"
                                      [] late /\ Here.op = "send" -> "run"
                                      [] OTHER -> "late"])
  /\ UNCHANGED q

\* prvIsQueueFull, prvIsQueueEmpty
Look ==
  /\ At("look")
  /\ Goto(k, IF ~Hopeless(Here) THEN "unlockTx"
             ELSE IF Here.obj \in Mutex /\ Here.op = "lock" THEN "inherit"
             ELSE "place", Here)
  /\ UNCHANGED q

Inherit ==
  /\ At("inherit")
  /\ LET holder == q[Here.obj].holder
     IN  Goto(PriorityInherit(k, holder), "place",
              [Here EXCEPT !.inherited = Inherits(k, holder)])
  /\ UNCHANGED q

Place ==
  /\ At("place")
  /\ Goto(PlaceOnEventList(k, WaitList(Here), Here.wait), "unlockTx",
          [Here EXCEPT !.block = TRUE])
  /\ UNCHANGED q

\* A mutant: one waiter for any count.
MutWakeCounted(s, l, count) == IF count > 0 THEN WakeOne(s, l) ELSE s

\* prvUnlockQueue: one critical section for each direction.  It wakes a
\* waiter for each count of the lock while there are any; queueUNLOCKED, -1,
\* is no count.
WakeCounted(s, l, count) ==
  LET WakeNext(a) == WakeOne(a, l)
  IN  IF count \in Nat THEN Repeat(WakeNext, count, s) ELSE s

UnlockTx ==
  /\ At("unlockTx")
  /\ Call(WakeCounted(k, ToReceive(Here.obj), q[Here.obj].tx), Here.obj,
          [q[Here.obj] EXCEPT !.tx = Unlocked], "unlockRx", Here)

UnlockRx ==
  /\ At("unlockRx")
  /\ Call(WakeCounted(k, ToSend(Here.obj), q[Here.obj].rx), Here.obj,
          [q[Here.obj] EXCEPT !.rx = Unlocked], "resume", Here)

\* The wait of a receiver ran out: it goes only if there is still nothing.
Late ==
  /\ At("late")
  /\ Goto(k, IF ~Empty(Here.obj) THEN "try"
             ELSE IF Here.inherited THEN "disinherit" ELSE "run", Here)
  /\ UNCHANGED q

\* prvGetDisinheritPriorityAfterTimeout
HighestWaiting(s, qu) ==
  LET l == s.events[ToReceive(qu)] IN IF l = <<>> THEN 0 ELSE s.item[Head(l)]

Disinherit ==
  /\ At("disinherit")
  /\ LET holder == q[Here.obj].holder
     IN  Goto(IF holder = Nobody THEN k
              ELSE PriorityDisinheritAfterTimeout(k, holder,
                     HighestWaiting(k, Here.obj)),
              "run", Here)
  /\ UNCHANGED q

-----------------------------------------------------------------------------
(* Interrupts that send and receive.  They do not switch: the tick does,   *)
(* or the next call that finds xYieldPending.                              *)

HandlerCall(s, qu, r) == Handler(s) /\ q' = [q EXCEPT ![qu] = r]

SendFromISR ==
  /\ "send" \in scenario.isr
  /\ \E qu \in scenario.queues \ Mutex, x \in scenario.items :
       LET r == CopyDataToQueue(q[qu], qu, x, "back")
       IN  /\ ~Full(qu) /\ q[qu].tx < LockBound
           /\ IF q[qu].tx = Unlocked
                THEN HandlerCall(WakeOne(k, ToReceive(qu)), qu, r)
                ELSE HandlerCall(k, qu, [r EXCEPT !.tx = @ + 1])

ReceiveFromISR ==
  /\ "receive" \in scenario.isr
  /\ \E qu \in scenario.queues \ Mutex :
       LET r == CopyDataFromQueue(q[qu], qu)
       IN  /\ ~Empty(qu) /\ q[qu].rx < LockBound
           /\ IF q[qu].rx = Unlocked
                THEN HandlerCall(WakeOne(k, ToSend(qu)), qu, r)
                ELSE HandlerCall(k, qu, [r EXCEPT !.rx = @ + 1])

-----------------------------------------------------------------------------
QueueStep ==
  \/ StartSend \/ StartOverwrite \/ StartReceive \/ StartPeek \/ StartLock
  \/ StartUnlock \/ Reset
  \/ TryAgain \/ Suspend \/ LockQueue \/ Check \/ Look \/ Inherit \/ Place
  \/ UnlockTx \/ UnlockRx \/ Late \/ Disinherit

QueueHandlerStep == SendFromISR \/ ReceiveFromISR

=============================================================================
