----------------------------- MODULE RtosTasks -----------------------------
(***************************************************************************)
(* What tasks and interrupts do to the kernel without a queue: delays,     *)
(* notifications, suspending, resuming and repriorising one another, the   *)
(* tick, and the idle task that sleeps without ticks (tasks.c and          *)
(* portable/GCC/RISC-V/port.c, portASM.S).                                 *)
(*                                                                         *)
(* Only the running task k.cur takes steps, a step being a stretch of code *)
(* no interrupt can be taken in or no interrupt can tell apart; interrupt  *)
(* handlers step between any two of them.  What the application's tasks    *)
(* and handlers do is a scenario: who calls which function.                *)
(***************************************************************************)
EXTENDS RtosKernel

CONSTANTS
  Scenarios,       \* what the tasks and interrupts of a system call
  SleepThreshold,  \* configEXPECTED_IDLE_TIME_BEFORE_SLEEP
  SleepsIntoWrap,  \* FALSE bounds a sleep: see SuppressTicksAndSleep
  PendBound,       \* bound: ticks while the scheduler is suspended
  NotifyBound      \* bound: notifications not yet taken

ASSUME TasksAssumption ==
  /\ SleepsIntoWrap \in BOOLEAN
  /\ SleepThreshold \in Nat /\ PendBound \in Nat /\ NotifyBound \in Nat

VARIABLES
  scenario,  \* the element of Scenarios this system is (it never changes)
  k,         \* the kernel
  pc,        \* where each task is
  loc        \* the locals of the call each task is in

NoCall == [op |-> "none", obj |-> "none", item |-> "none", where |-> "back",
           wait |-> 0, set |-> FALSE, inherited |-> FALSE,
           block |-> FALSE, next |-> "run"]

\* The system after vTaskStartScheduler: every task but those the scenario
\* keeps suspended is ready, the first of the highest priority runs.
StartedKernel(base, stopped) ==
  LET At(p) == SetToSeq({t \in Task \ stopped : base[t] = p})
      top   == {base[t] : t \in Task \ stopped}
  IN  [ready |-> [p \in Prio |-> Append(At(p), End)],
       delayed |-> <<>>, overflow |-> <<>>, suspended |-> stopped,
       events |-> [l \in EventList |-> <<>>],
       wake |-> [t \in Task |-> 0], item |-> base, prio |-> base,
       base |-> base, held |-> [t \in Task |-> 0], top |-> top,
       cur |-> Last(At(Max(top))), tick |-> 0, pended |-> 0,
       next |-> MaxDelay, susp |-> 0, yield |-> FALSE, aborted |-> {},
       nval |-> [t \in Task |-> 0], nstate |-> [t \in Task |-> "none"],
       timing |-> {}, passed |-> {}, entered |-> [t \in Task |-> 0]]

TasksInit ==
  /\ scenario \in Scenarios
  /\ k = StartedKernel(scenario.base, scenario.stopped)
  /\ pc = [t \in Task |-> "run"]
  /\ loc = [t \in Task |-> NoCall]

-----------------------------------------------------------------------------
(* The running task's step: the kernel becomes s, the task goes to p with  *)
(* the locals l; at "run" it is back in the application's code.            *)
Goto(s, p, l) ==
  /\ k' = IF p = "run" THEN Forget(s, k.cur) ELSE s
  /\ pc' = [pc EXCEPT ![k.cur] = p]
  /\ loc' = [loc EXCEPT ![k.cur] = IF p = "run" THEN NoCall ELSE l]
  /\ UNCHANGED scenario

At(p)  == pc[k.cur] = p
Here   == loc[k.cur]
Calls(op) == At("run") /\ op \in scenario.does[k.cur]

SuspendAll(s) == [s EXCEPT !.susp = @ + 1]

\* xTaskResumeAll, and portYIELD after it when the caller has blocked
\* itself and xTaskResumeAll did not switch.
ResumeScheduler ==
  /\ At("resume")
  /\ Goto(ResumeAll(k),
          IF Here.block /\ ~AlreadyYielded(k) THEN "yield" ELSE Here.next, Here)

Yield == At("yield") /\ Goto(SwitchContext(k), Here.next, Here)

-----------------------------------------------------------------------------
(* vTaskDelay *)

StartDelay ==
  /\ Calls("delay")
  /\ \E n \in scenario.delays :
       IF n = 0 THEN Goto(SwitchContext(k), "run", NoCall)
       ELSE Goto(SuspendAll(k), "delay",
                 [NoCall EXCEPT !.op = "delay", !.wait = n, !.block = TRUE])

Delay ==
  /\ At("delay")
  /\ Goto(AddCurrentTaskToDelayedList(k, Here.wait, FALSE), "resume", Here)

-----------------------------------------------------------------------------
(* Notifications: ulTaskNotifyTake and xTaskNotifyGive *)

NotifyTake ==
  /\ Calls("take")
  /\ \E n \in scenario.waits[k.cur] :
       LET t       == k.cur
           waiting == [k EXCEPT !.nstate[t] = "waiting"]
       IN  Goto(CASE k.nval[t] # 0 -> k
                  [] k.nval[t] = 0 /\ n = 0 -> waiting
                  [] OTHER ->
                       SwitchContext(AddCurrentTaskToDelayedList(waiting, n, TRUE)),
                "taken", [NoCall EXCEPT !.op = "take", !.wait = n])

NotifyTaken ==
  /\ At("taken")
  /\ Goto([k EXCEPT !.nval[k.cur] = 0, !.nstate[k.cur] = "none"], "run", Here)

Notified(s, t) == [s EXCEPT !.nstate[t] = "received", !.nval[t] = @ + 1]

NotifyGive ==
  /\ Calls("give")
  /\ \E t \in Task \ {Idle, k.cur} :
       LET woken == ResetNextTaskUnblockTime(
                      AddToReadyList(RemoveStateItem(Notified(k, t), t), t))
       IN  /\ k.nval[t] < NotifyBound
           /\ "take" \in scenario.does[t]
           /\ Goto(IF k.nstate[t] = "waiting"
                     THEN YieldIf(k.prio[t] > k.prio[k.cur], woken)
                     ELSE Notified(k, t),
                   "run", NoCall)

-----------------------------------------------------------------------------
(* vTaskSuspend, vTaskResume, vTaskPrioritySet, xTaskAbortDelay.  Only a   *)
(* task the scenario lets others act on is their target.                   *)

Targets == {t \in Task : "target" \in scenario.does[t]}

TaskSuspend ==
  /\ Calls("suspend")
  /\ \E t \in Targets :
       LET out == RemoveEventItem(ResetReadyPriority(
                    RemoveStateItem(k, t), k.prio[t]), t)
       IN  Goto([out EXCEPT !.suspended = @ \cup {t},
                            !.nstate[t] = IF @ = "waiting" THEN "none" ELSE @],
                "suspended",
                [NoCall EXCEPT !.op = "suspend", !.block = (t = k.cur)])

TaskSuspended ==
  /\ At("suspended")
  /\ Goto(ResetNextTaskUnblockTime(k), IF Here.block THEN "yield" ELSE "run", Here)

\* prvTaskIsTaskSuspended
IsTaskSuspended(s, t) == t \in s.suspended /\ ~InEventList(s, t)

Resumed(s, t) == AddToReadyList(RemoveStateItem(s, t), t)

TaskResume ==
  /\ Calls("unsuspend")
  /\ \E t \in Targets \ {k.cur} :
       Goto(IF IsTaskSuspended(k, t)
              THEN YieldIf(k.prio[t] >= k.prio[k.cur], Resumed(k, t))
              ELSE k,
            "run", NoCall)

TaskPrioritySet ==
  /\ Calls("reprioritise")
  /\ \E t \in Targets, p \in scenario.prios :
       /\ p # k.base[t]
       /\ Goto(YieldIf(PrioritySetYields(k, t, p), PrioritySet(k, t, p)),
               "run", NoCall)

StartAbortDelay ==
  /\ Calls("abort")
  /\ \E t \in Targets \ {k.cur} :
       Goto(SuspendAll(k), "abort", [NoCall EXCEPT !.op = "abort", !.obj = t])

\* eTaskGetState(t) = eBlocked
IsBlocked(s, t) ==
  /\ t # s.cur
  /\ \/ t \in ToSet(s.delayed) \cup ToSet(s.overflow)
     \/ t \in s.suspended /\ (InEventList(s, t) \/ s.nstate[t] = "waiting")

AbortDelay ==
  /\ At("abort")
  /\ IF IsBlocked(k, Here.obj)
       THEN Goto(RemoveStateItem(k, Here.obj), "aborted", Here)
       ELSE Goto(k, "resume", Here)

AbortedDelay ==
  /\ At("aborted")
  /\ LET t    == Here.obj
         out  == IF InEventList(k, t)
                   THEN [RemoveEventItem(k, t) EXCEPT !.aborted = @ \cup {t}]
                   ELSE k
     IN  Goto([AddToReadyList(out, t) EXCEPT
                 !.yield = @ \/ k.prio[t] > k.prio[k.cur]], "resume", Here)

-----------------------------------------------------------------------------
(* The idle task and the sleep without ticks.  The sleep is the port's: it *)
(* disables interrupts, sleeps as long as the radio and the wake-up        *)
(* sources let it and adds what has passed to the tick count.              *)

ExpectedIdleTime(s) ==
  IF s.prio[s.cur] > 0 \/ Len(s.ready[0]) > 2 \/ s.top \ {0} # {} THEN 0
  ELSE (s.next - s.tick) % TickMod

IdleTask ==
  /\ k.cur = Idle /\ Calls("sleep")
  /\ ExpectedIdleTime(k) >= SleepThreshold
  /\ Goto(SuspendAll(k), "idle", NoCall)

IdleSuspended ==
  /\ At("idle")
  /\ LET n == ExpectedIdleTime(k)
     IN  IF n >= SleepThreshold
           THEN Goto(k, "sleep", [NoCall EXCEPT !.op = "sleep", !.wait = n])
           ELSE Goto(k, "resume", [NoCall EXCEPT !.op = "sleep"])

StepTick(s, n) == [s EXCEPT !.tick = (@ + n) % TickMod]

SuppressTicksAndSleep ==
  /\ At("sleep")
  /\ \E n \in 0 .. Here.wait :
       /\ SleepsIntoWrap \/ k.delayed = <<>> \/ k.tick + n # MaxDelay
       /\ Goto(StepTick(k, n), "resume", Here)

-----------------------------------------------------------------------------
(* Interrupt handlers. *)

Handler(s) == k' = s /\ UNCHANGED <<scenario, pc, loc>>

\* mtime_handler
Tick ==
  /\ k.susp > 0 => k.pended < PendBound
  /\ Handler(YieldIf(TickSwitches(k), IncrementTick(k)))

NotifyGiveFromISR ==
  /\ "give" \in scenario.isr
  /\ \E t \in Task \ {Idle} :
       LET waits == k.nstate[t] = "waiting"
           now   == IF k.susp = 0
                      THEN AddToReadyList(RemoveStateItem(Notified(k, t), t), t)
                      ELSE [Notified(k, t) EXCEPT !.events[Pending] = Append(@, t)]
       IN  /\ k.nval[t] < NotifyBound
           /\ "take" \in scenario.does[t]
           /\ Handler(IF waits THEN [now EXCEPT !.yield = @ \/ k.prio[t] > k.prio[k.cur]]
                      ELSE Notified(k, t))

TaskResumeFromISR ==
  /\ "unsuspend" \in scenario.isr
  /\ \E t \in Targets :
       /\ IsTaskSuspended(k, t)
       /\ Handler(IF k.susp = 0
                    THEN [Resumed(k, t) EXCEPT
                            !.yield = @ \/ k.prio[t] >= k.prio[k.cur]]
                    ELSE [k EXCEPT !.events[Pending] = Append(@, t)])

-----------------------------------------------------------------------------
TaskStep ==
  \/ ResumeScheduler \/ Yield
  \/ StartDelay \/ Delay
  \/ NotifyTake \/ NotifyTaken \/ NotifyGive
  \/ TaskSuspend \/ TaskSuspended \/ TaskResume \/ TaskPrioritySet
  \/ StartAbortDelay \/ AbortDelay \/ AbortedDelay
  \/ IdleTask \/ IdleSuspended \/ SuppressTicksAndSleep

HandlerStep == Tick \/ NotifyGiveFromISR \/ TaskResumeFromISR

=============================================================================
