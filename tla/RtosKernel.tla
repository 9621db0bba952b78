----------------------------- MODULE RtosKernel ----------------------------
(***************************************************************************)
(* The scheduler of the RTOS build of the sample: its lists, the tick, the *)
(* context switch, the suspension of the scheduler and priority            *)
(* inheritance (3rd-party/freertos-V5/tasks.c and list.c).                 *)
(*                                                                         *)
(* The kernel's data are one record s with the fields                      *)
(*   ready, delayed, overflow, suspended   the lists of state items        *)
(*   events         the lists of event items                               *)
(*   wake, item     the value of a task's state item (a tick) and of its   *)
(*                  event item (kept as a priority: the code stores        *)
(*                  configMAX_PRIORITIES minus it)                         *)
(*   prio, base, held   uxPriority, uxBasePriority, uxMutexesHeld          *)
(*   top            uxTopReadyPriority: the priorities whose bit is set    *)
(*   cur            pxCurrentTCB                                           *)
(*   tick, pended, next   xTickCount, xPendedTicks, xNextTaskUnblockTime   *)
(*   susp, yield    uxSchedulerSuspended, xYieldPending                    *)
(*   aborted        the tasks with ucDelayAborted                          *)
(*   nval, nstate   ulNotifiedValue, ucNotifyState                         *)
(*   timing, passed, entered   the TimeOut_t of the calls in progress: who *)
(*                  has one, for whom xNumOfOverflows has changed since it *)
(*                  was set, and xTimeOnEntering                           *)
(* and a kernel function is an operator from one such record to the next.  *)
(***************************************************************************)
EXTENDS Integers, Sequences, FiniteSets, SequencesExt

CONSTANTS
  Task,            \* the tasks, Idle among them
  Idle,            \* the idle task (priority 0)
  End,             \* the end marker of a list (xListEnd)
  Queue,           \* the queues and mutexes
  MaxPriorities,   \* configMAX_PRIORITIES
  TickMod          \* 2 to the width of TickType_t

ASSUME KernelAssumption ==
  /\ IsFiniteSet(Task) /\ Idle \in Task /\ End \notin Task
  /\ MaxPriorities \in Nat \ {0} /\ TickMod \in Nat /\ TickMod > 2

Prio     == 0 .. MaxPriorities - 1
Time     == 0 .. TickMod - 1
MaxDelay == TickMod - 1          \* portMAX_DELAY

\* The lists of event items: who waits to send, who to receive, and the
\* tasks readied while the scheduler is suspended (xPendingReadyList).
ToSend(qu)    == <<qu, "send">>
ToReceive(qu) == <<qu, "receive">>
Pending       == <<"pending">>
EventList     == {Pending} \cup {ToSend(qu) : qu \in Queue}
                           \cup {ToReceive(qu) : qu \in Queue}

-----------------------------------------------------------------------------
(* Lists.  A ready list is the circle from the successor of pxIndex round  *)
(* to pxIndex, with End in it; every other list has pxIndex at its end.    *)
(* A task has one state item and one event item.                           *)

InsertEnd(l, t) == InsertAt(l, Len(l), t)

\* vListInsert: before the first of those with a greater value (later).
InsertBefore(l, t, later) ==
  LET i == SelectInSeq(l, LAMBDA u : u \in later)
  IN  InsertAt(l, IF i = 0 THEN Len(l) + 1 ELSE i, t)

Rotate(l)  == Append(Tail(l), Head(l))
Advance(l) == IF Head(l) = End THEN Rotate(Rotate(l)) ELSE Rotate(l)

RemoveStateItem(s, t) ==
  [s EXCEPT !.ready     = [p \in Prio |-> RemoveFirst(@[p], t)],
            !.delayed   = RemoveFirst(@, t),
            !.overflow  = RemoveFirst(@, t),
            !.suspended = @ \ {t},
            !.wake[t]   = 0]          \* never read outside a list

RemoveEventItem(s, t) ==
  [s EXCEPT !.events = [l \in EventList |-> RemoveFirst(@[l], t)]]

InEventList(s, t) == \E l \in EventList : t \in ToSet(s.events[l])

InReadyList(s, t, p) == t \in ToSet(s.ready[p])

\* What a loop leaves of s that takes Body n times.
Repeat(Body(_), n, s) ==
  LET after[i \in 0 .. n] == IF i = 0 THEN s ELSE Body(after[i - 1])
  IN  after[n]

-----------------------------------------------------------------------------
(* The ready lists and their bitmap uxTopReadyPriority (the set top).      *)

AddToReadyList(s, t) ==
  [s EXCEPT !.ready[s.prio[t]] = InsertEnd(@, t),
            !.top = @ \cup {s.prio[t]}]

\* A mutant: the bit of an emptied list stays set.
MutResetReadyPriority(s, p) == s

ResetReadyPriority(s, p) ==
  IF s.ready[p] = <<End>> THEN [s EXCEPT !.top = @ \ {p}] ELSE s

SelectHighestPriorityTask(s) ==
  LET p == Max(s.top)
      l == Advance(s.ready[p])
  IN  [s EXCEPT !.ready[p] = l, !.cur = Last(l)]

SwitchContext(s) ==
  IF s.susp > 0
    THEN [s EXCEPT !.yield = TRUE]
    ELSE SelectHighestPriorityTask([s EXCEPT !.yield = FALSE])

\* Switch when the caller found a task that is to run before it.
YieldIf(cond, s) == IF cond THEN SwitchContext(s) ELSE s

-----------------------------------------------------------------------------
(* Time. *)

\* A mutant: the first of the delayed tasks is not looked at.
MutResetNextTaskUnblockTime(s) == [s EXCEPT !.next = MaxDelay]

ResetNextTaskUnblockTime(s) ==
  [s EXCEPT !.next = IF s.delayed = <<>> THEN MaxDelay
                     ELSE s.wake[Head(s.delayed)]]

SwitchDelayedLists(s) ==
  ResetNextTaskUnblockTime([s EXCEPT !.delayed = s.overflow,
                                     !.overflow = s.delayed,
                                     !.passed = s.timing])

AddCurrentTaskToDelayedList(s, ticks, indefinitely) ==
  LET t    == s.cur
      p    == s.prio[t]
      out  == ResetReadyPriority(RemoveStateItem(
                [s EXCEPT !.aborted = @ \ {t}], t), p)
      wake == (s.tick + ticks) % TickMod
      timed == [out EXCEPT !.wake[t] = wake]
      later == {u \in Task : timed.wake[u] > wake}
  IN  CASE ticks = MaxDelay /\ indefinitely ->
             [out EXCEPT !.suspended = @ \cup {t}]
        [] ~(ticks = MaxDelay /\ indefinitely) /\ wake < s.tick ->
             [timed EXCEPT !.overflow = InsertBefore(@, t, later)]
        [] OTHER ->
             [timed EXCEPT !.delayed = InsertBefore(@, t, later),
                           !.next = IF wake < @ THEN wake ELSE @]

\* A task leaves its state list and its event list and becomes ready.
Unblock(s, t) == AddToReadyList(RemoveEventItem(RemoveStateItem(s, t), t), t)

\* xTaskIncrementTick while the scheduler runs: the tasks whose time has
\* come, then the state, then whether the tick asks for a switch.
Advanced(s) ==
  LET moved == [s EXCEPT !.tick = (@ + 1) % TickMod]
  IN  IF moved.tick = 0 THEN SwitchDelayedLists(moved) ELSE moved

\* The time of the first of the delayed tasks has come.
Due(s) == s.delayed # <<>> /\ s.wake[Head(s.delayed)] <= s.tick

UnblockFirst(s) == IF Due(s) THEN Unblock(s, Head(s.delayed)) ELSE s

UnblockDue(s) ==
  IF s.tick >= s.next
    THEN ResetNextTaskUnblockTime(Repeat(UnblockFirst, Len(s.delayed), s))
    ELSE s

IncrementTick(s) ==
  IF s.susp > 0 THEN [s EXCEPT !.pended = @ + 1] ELSE UnblockDue(Advanced(s))

TickSwitches(s) ==
  /\ s.susp = 0
  /\ \/ \E t \in ToSet(Advanced(s).delayed) \ ToSet(IncrementTick(s).delayed) :
          s.prio[t] >= s.prio[s.cur]
     \/ Len(IncrementTick(s).ready[s.prio[s.cur]]) > 2
     \/ s.yield

\* xTaskResumeAll up to its yield, whether it yields, and all of it.
UnblockPended(s) ==
  LET t == Head(s.events[Pending])
  IN  IF s.events[Pending] = <<>> THEN s
      ELSE [Unblock(s, t) EXCEPT !.yield = @ \/ s.prio[t] >= s.prio[s.cur]]

PendedToReady(s) ==
  IF s.events[Pending] = <<>> THEN s
  ELSE ResetNextTaskUnblockTime(Repeat(UnblockPended, Cardinality(Task), s))

PendedTick(s) == [IncrementTick(s) EXCEPT !.yield = @ \/ TickSwitches(s)]

CatchUp(s) == [Repeat(PendedTick, s.pended, s) EXCEPT !.pended = 0]

ResumedAll(s) ==
  LET one == [s EXCEPT !.susp = @ - 1]
  IN  IF one.susp = 0 THEN CatchUp(PendedToReady(one)) ELSE one

AlreadyYielded(s) == LET r == ResumedAll(s) IN r.susp = 0 /\ r.yield

ResumeAll(s) == YieldIf(AlreadyYielded(s), ResumedAll(s))

-----------------------------------------------------------------------------
(* Event lists: insertion by the priority the item held then, removal of   *)
(* the first waiter.                                                       *)

PlaceOnEventList(s, l, ticks) ==
  LET later == {u \in Task : s.item[u] < s.item[s.cur]}
  IN  AddCurrentTaskToDelayedList(
        [s EXCEPT !.events[l] = InsertBefore(@, s.cur, later)], ticks, TRUE)

\* The first waiter outranks the running task (the function's result).
WakesHigher(s, l) == s.prio[Head(s.events[l])] > s.prio[s.cur]

RemoveFromEventList(s, l) ==
  LET t     == Head(s.events[l])
      taken == [s EXCEPT !.events[l] = Tail(@)]
      ready == IF s.susp = 0
                 THEN ResetNextTaskUnblockTime(
                        AddToReadyList(RemoveStateItem(taken, t), t))
                 ELSE [taken EXCEPT !.events[Pending] = Append(@, t)]
  IN  [ready EXCEPT !.yield = @ \/ WakesHigher(s, l)]

\* The TimeOut_t is a local of the call: it goes when the call returns.
Forget(s, t) ==
  [s EXCEPT !.entered[t] = 0, !.timing = @ \ {t}, !.passed = @ \ {t}]

InternalSetTimeOutState(s, t) ==
  [s EXCEPT !.entered[t] = s.tick, !.timing = @ \cup {t}, !.passed = @ \ {t}]

Elapsed(s, t) == (s.tick - s.entered[t]) % TickMod

TimedOut(s, t, wait) ==
  \/ t \in s.aborted
  \/ /\ wait # MaxDelay
     /\ \/ t \in s.passed /\ s.tick >= s.entered[t]
        \/ Elapsed(s, t) >= wait

\* What xTaskCheckForTimeOut leaves in the kernel and in *pxTicksToWait.
CheckForTimeOut(s, t, wait) ==
  IF t \in s.aborted THEN [s EXCEPT !.aborted = @ \ {t}]
  ELSE IF wait = MaxDelay \/ TimedOut(s, t, wait) THEN s
  ELSE InternalSetTimeOutState(s, t)

\* A mutant: what has passed is not taken off.
MutTicksLeft(s, t, wait) == IF TimedOut(s, t, wait) THEN 0 ELSE wait

TicksLeft(s, t, wait) ==
  IF t \in s.aborted \/ wait = MaxDelay THEN wait
  ELSE IF TimedOut(s, t, wait) THEN 0 ELSE wait - Elapsed(s, t)

-----------------------------------------------------------------------------
(* Priority inheritance. *)

\* A task's priority changes while it may be in a ready list: it goes to
\* the end of the list of its new one.  cleared is the bit that is reset
\* when the old list is left empty.
MoveToPriority(s, t, p, cleared) ==
  LET old  == s.prio[t]
      new  == [s EXCEPT !.prio[t] = p]
      out  == [new EXCEPT !.ready[old] = RemoveFirst(@, t)]
      bits == IF out.ready[old] = <<End>>
                THEN [out EXCEPT !.top = @ \ {cleared}] ELSE out
  IN  IF InReadyList(s, t, old) THEN AddToReadyList(bits, t) ELSE new

PriorityInherit(s, holder) ==
  LET p == s.prio[s.cur]
  IN  IF s.prio[holder] < p
        THEN MoveToPriority([s EXCEPT !.item[holder] = p], holder, p,
                            s.prio[holder])
        ELSE s

\* The result of xTaskPriorityInherit.
Inherits(s, holder) == s.base[holder] < s.prio[s.cur]

\* A mutant: the count is compared as if it had been lowered.
MutDisinherits(s, t) == s.prio[t] # s.base[t] /\ s.held[t] = 0

\* xTaskPriorityDisinherit: the holder, which runs, gives a mutex back.
Disinherits(s, t) == s.prio[t] # s.base[t] /\ s.held[t] = 1

PriorityDisinherit(s, t) ==
  LET less == [s EXCEPT !.held[t] = @ - 1]
  IN  IF Disinherits(s, t)
        THEN MoveToPriority([less EXCEPT !.item[t] = s.base[t]], t, s.base[t],
                            s.prio[t])
        ELSE less

\* The waiter gave up: the holder keeps the priority of the next waiter.
\* The bit reset at line 4299 is that of the new priority.
PriorityDisinheritAfterTimeout(s, t, highest) ==
  LET p == IF s.base[t] < highest THEN highest ELSE s.base[t]
  IN  IF s.prio[t] # p /\ s.held[t] = 1
        THEN MoveToPriority([s EXCEPT !.item[t] = p], t, p, p)
        ELSE s

\* vTaskPrioritySet, up to its yield.
PrioritySet(s, t, p) ==
  LET new == IF s.base[t] = s.prio[t] THEN p ELSE s.prio[t]
      set == [s EXCEPT !.base[t] = p, !.item[t] = p]
  IN  IF s.base[t] = p THEN s ELSE MoveToPriority(set, t, new, s.prio[t])

\* A mutant: raising another task never switches.
MutPrioritySetYields(s, t, p) == p < s.base[t] /\ t = s.cur

PrioritySetYields(s, t, p) ==
  IF p > s.base[t] THEN t # s.cur /\ p >= s.prio[s.cur]
                   ELSE p < s.base[t] /\ t = s.cur

=============================================================================
