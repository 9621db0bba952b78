-------------------------------- MODULE Rtos --------------------------------
(***************************************************************************)
(* The RTOS build: tasks, interrupts, queues and mutexes together, in one  *)
(* of a few systems (scenario), and what the kernel promises them.         *)
(***************************************************************************)
EXTENDS RtosQueue

vars == <<scenario, k, pc, loc, q>>

Init == TasksInit /\ QueueInit

Next ==
  \/ TaskStep /\ UNCHANGED q
  \/ HandlerStep /\ UNCHANGED q
  \/ QueueStep
  \/ QueueHandlerStep

Step == (TaskStep /\ UNCHANGED q) \/ QueueStep

\* The task of the highest priority.
Foremost == CHOOSE t \in Task \ scenario.stopped :
              \A u \in Task \ scenario.stopped : scenario.base[u] <= scenario.base[t]

\* A call that has begun goes on while its task runs, in the end also that of
\* a foremost task which ticks keep interrupting (a tick is far longer than a
\* step), and the tick comes.  No task has to make a call.  These are weak,
\* strong and weak fairness of Step, Step and Tick, with the conditions under
\* which they are enabled written out.
InCall == pc[k.cur] # "run"

Fairness ==
  /\ []<>~InCall \/ []<><<Step>>_vars
  /\ <>[](k.cur # Foremost \/ ~InCall) \/ []<><<k.cur = Foremost /\ Step>>_vars
  /\ []<><<Tick /\ UNCHANGED q>>_vars

Spec == Init /\ [][Next]_vars

FairSpec == Spec /\ Fairness

-----------------------------------------------------------------------------
(* The type invariant. *)
TypeOK ==
  /\ k.cur \in Task /\ k.tick \in Time /\ k.next \in Time
  /\ k.pended \in 0 .. PendBound /\ k.susp \in 0 .. 1 /\ k.yield \in BOOLEAN
  /\ k.top \subseteq Prio
  /\ k.prio \in [Task -> Prio] /\ k.base \in [Task -> Prio]
  /\ k.held \in [Task -> 0 .. Cardinality(Mutex)]
  /\ \A qu \in Queue : /\ q[qu].n \in 0 .. Length[qu]
                       /\ q[qu].tx \in Unlocked .. LockBound
                       /\ q[qu].rx \in Unlocked .. LockBound

\* The task whose state item another task has in its hands (xTaskAbortDelay
\* between taking it from its list and making it ready).
InHand == {loc[t].obj : t \in {u \in Task : pc[u] = "aborted"}}

Places(t) ==
  Cardinality({p \in Prio : InReadyList(k, t, p)})
  + Cardinality({l \in {1, 2} : t \in ToSet(IF l = 1 THEN k.delayed ELSE k.overflow)})
  + (IF t \in k.suspended THEN 1 ELSE 0)

SortedBy(l, f) == \A i, j \in 1 .. Len(l) : i < j => f[l[i]] <= f[l[j]]

\* Everything is typed, every task is in exactly one state list, a ready one in the list of its
\* priority; the delayed lists are in the order of their wake times; the
\* bitmap tells which ready lists have a task; xNextTaskUnblockTime is never
\* later than the first wake time (tasks.c: the lists and prvAddTaskToReadyList,
\* prvAddCurrentTaskToDelayedList, prvResetNextTaskUnblockTime).
ListsConsistent ==
  /\ TypeOK
  /\ \A t \in Task \ InHand : Places(t) = 1
  /\ \A t \in Task, p \in Prio : InReadyList(k, t, p) => p = k.prio[t]
  /\ SortedBy(k.delayed, k.wake) /\ SortedBy(k.overflow, k.wake)
  /\ k.top = {p \in Prio : k.ready[p] # <<End>>}
  /\ k.delayed # <<>> => k.next <= k.wake[Head(k.delayed)]

\* A mutex of more than two tasks.  When its holder gives it back with an
\* inherited priority while another task waits, xQueueGenericSend switches only
\* to that one (queue.c:869), although "a context switch should occur when the
\* last mutex is returned whether a task is waiting on it or not"
\* (tasks.c:4199): a ready task between the two priorities has to wait.
Contended == \E qu \in Mutex : Cardinality({t \in Task : qu \in scenario.locks[t]}) > 2

\* While the scheduler may switch and no switch is pending, the running task
\* is one of the highest priority that is ready (vTaskSwitchContext and the
\* yields of every call); a task that has blocked itself runs on to its yield.
HighestPriorityRuns ==
  ~Contended /\ k.susp = 0 /\ ~k.yield /\ ~At("yield") /\ ~At("suspended") =>
    /\ InReadyList(k, k.cur, k.prio[k.cur])
    /\ k.prio[k.cur] = Max(k.top)

\* No task sleeps past its time: what waits in the delayed list has its wake
\* time ahead, at the latest now, what waits in the overflow list has it
\* after the wrap (xTaskIncrementTick).
NobodyOverslept ==
  /\ \A t \in ToSet(k.delayed)  : k.wake[t] >= k.tick
  /\ \A t \in ToSet(k.overflow) : k.wake[t] <= k.tick

\* A task that has no mutex runs at its own priority, and the holder of a
\* mutex at no less than that of any task waiting for it
\* (xTaskPriorityInherit, xTaskPriorityDisinherit and ..AfterTimeout).
InheritsPriority ==
  /\ \A t \in Task : k.held[t] = 0 => k.prio[t] = k.base[t]
  /\ \A qu \in Mutex : \A t \in ToSet(k.events[ToReceive(qu)]) :
       q[qu].holder # Nobody => k.prio[q[qu].holder] >= k.base[t]

\* A queue hands out what it was given, in order: a step puts one item at an
\* end, takes the first, overwrites the only one, empties it on demand, or
\* leaves it alone (prvCopyDataToQueue and prvCopyDataFromQueue on the ring).
Contents(r, len) == [i \in 1 .. r.n |-> r.ring[(r.rd + i) % len]]

QueueIsFifo ==
  [][\A qu \in Queue \ Mutex :
       LET old == Contents(q[qu], Length[qu])
           new == Contents(q'[qu], Length[qu])
       IN  \/ new = old
           \/ old # <<>> /\ new = Tail(old)
           \/ \E x \in scenario.items : new \in {Append(old, x), <<x>> \o old}
           \/ Length[qu] = 1 /\ Len(new) = 1
           \/ new = <<>> /\ Calls("reset")]_vars

\* Nobody waits at a queue that could serve it: then the queue is locked and
\* counts what its prvUnlockQueue owes, or a task that was woken for it has
\* still to look (xTaskRemoveFromEventList, cTxLock, cRxLock).
Awake(ops, qu) ==
  \E t \in Task : /\ loc[t].op \in ops /\ loc[t].obj = qu
                  /\ ~\E l \in EventList \ {Pending} : t \in ToSet(k.events[l])

NoLostWakeUp ==
  \A qu \in Queue :
    /\ ~Empty(qu) /\ k.events[ToReceive(qu)] # <<>> =>
         q[qu].tx > LockedUnmodified \/ Awake({"lock", "receive", "peek"}, qu)
    /\ ~Full(qu) /\ k.events[ToSend(qu)] # <<>> =>
         q[qu].rx > LockedUnmodified \/ Awake({"send"}, qu)

\* The task of the highest priority comes back from every call it makes with
\* a limit, and from a wait for a notification that has come, although no
\* interrupt switches to it itself (xTaskCheckForTimeOut, xTaskIncrementTick,
\* xYieldPending).
CallsReturn ==
  (/\ ~Contended /\ pc[Foremost] # "run"
   /\ loc[Foremost].wait # MaxDelay \/ k.nval[Foremost] > 0) ~> pc[Foremost] = "run"

-----------------------------------------------------------------------------
(* What comments and assertions say and the code does not do.              *)

\* "Find the highest priority list that contains ready tasks" (tasks.c:176,
\* with an assertion that it does): the kernel has a task to run.
SelectsATask == k.cur \in Task

=============================================================================
