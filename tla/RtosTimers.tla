----------------------------- MODULE RtosTimers ----------------------------
(***************************************************************************)
(* The software timers of FreeRTOS (3rd-party/freertos-V5/timers.c): a     *)
(* task, the daemon, keeps the active timers in two lists, one for this    *)
(* round of the tick count and one for the next, and takes commands from a *)
(* queue.                                                                  *)
(*                                                                         *)
(* What Rtos shows of the queue and the delay is taken for granted here: a *)
(* daemon that waits is woken by a command and by its time.  It may then   *)
(* be late, because of interrupts and of the callbacks it runs itself.     *)
(***************************************************************************)
EXTENDS Integers, Sequences, FiniteSets, SequencesExt

CONSTANTS
  Timer,        \* the timers
  AutoReload,   \* those that start again
  Deletable,    \* bound: those that tasks may delete
  Periods,      \* periods in ticks
  TickMod,      \* 2 to the width of TickType_t
  QueueLength,  \* configTIMER_QUEUE_LENGTH
  Room,         \* bound: places of the queue that tasks leave free
  SendLag,      \* bound: ticks from reading the time to sending a command
  Lag           \* bound: ticks the daemon takes until it waits again

None == "none"   \* no timer, no command

ASSUME TimersAssumption ==
  /\ AutoReload \subseteq Timer /\ Deletable \subseteq Timer
  /\ None \notin Timer /\ TickMod \in Nat /\ TickMod > 2
  /\ Periods \subseteq 1 .. TickMod - 1
  /\ QueueLength \in Nat /\ Room \in Nat /\ SendLag \in Nat /\ Lag \in Nat

Time == 0 .. TickMod - 1

VARIABLES
  tick,     \* the tick count
  last,     \* xLastTime of prvSampleTimeNow
  current,  \* pxCurrentTimerList
  overflow, \* pxOverflowTimerList
  value,    \* the expiry time of each timer (its list item)
  active,   \* the timers with tmrSTATUS_IS_ACTIVE
  freed,    \* the timers whose memory the daemon has freed
  period,   \* xTimerPeriodInTicks
  queue,    \* the commands
  pc,       \* where the daemon is
  now,      \* its xTimeNow while it switches lists or executes a command
  cmd,      \* the command it executes
  sleep,    \* the ticks it still waits, -1 for no limit
  late,     \* the ticks since it had something to do
  fired,    \* the timer whose callback the last step called, and its left
  left      \* the ticks to the expiry a timer owes, without wrap (down to
            \* -TickMod)

vars == <<tick, last, current, overflow, value, active, freed, period, queue,
          pc, now, cmd, sleep, late, fired, left>>
lists == <<current, overflow, value>>

Nothing   == [timer |-> None, left |-> 0]
NoCommand == [id |-> None, timer |-> None, time |-> 0]

Init ==
  /\ tick = 0 /\ last = 0 /\ now = 0
  /\ current = <<>> /\ overflow = <<>>
  /\ value = [t \in Timer |-> 0] /\ left = [t \in Timer |-> 0]
  /\ active = {} /\ freed = {}
  /\ period \in [Timer -> Periods]
  /\ queue = <<>> /\ pc = "next" /\ cmd = NoCommand
  /\ sleep = -1 /\ late = 0 /\ fired = Nothing

-----------------------------------------------------------------------------
(* Lists in the order of the expiry times. *)

Insert(l, t, v) ==
  LET i == SelectInSeq(l, LAMBDA u : u # t /\ value[u] > v)
  IN  InsertAt(l, IF i = 0 THEN Len(l) + 1 ELSE i, t)

\* A mutant: a timer whose time has come again goes to the next round.
MutExpiredAlready(t, next, time, from) == FALSE

\* prvInsertTimerInActiveList: is the timer to be processed at once, and if
\* not, does it belong to the next round?
ExpiredAlready(t, next, time, from) ==
  \/ next <= time /\ (time - from) % TickMod >= period[t]
  \/ next > time /\ time < from /\ next >= from

\* A mutant: a time that has come round belongs to this round.
MutInsertTimerInActiveList(t, next, time, from) ==
  LET kept == ~ExpiredAlready(t, next, time, from)
      cur  == RemoveFirst(current, t)
  IN  /\ value' = [value EXCEPT ![t] = next]
      /\ current'  = IF kept THEN Insert(cur, t, next) ELSE cur
      /\ overflow' = IF FALSE THEN Insert(overflow, t, next) ELSE overflow

InsertTimerInActiveList(t, next, time, from) ==
  LET kept == ~ExpiredAlready(t, next, time, from)
      cur  == RemoveFirst(current, t)
  IN  /\ value' = [value EXCEPT ![t] = next]
      /\ current'  = IF kept /\ next > time  THEN Insert(cur, t, next) ELSE cur
      /\ overflow' = IF kept /\ next <= time THEN Insert(overflow, t, next) ELSE overflow

\* xTimerGenericCommand by the daemon itself: it does not wait for room.
Commanded(c) == IF Len(queue) < QueueLength THEN Append(queue, c) ELSE queue

\* A mutant: it only reloads when nothing else is to do.
MutReload(t, time) ==
  IF queue = <<>> THEN Commanded([id |-> "reload", timer |-> t, time |-> time]) ELSE queue

Reload(t, time) == Commanded([id |-> "reload", timer |-> t, time |-> time])

Fire(t, owed) ==
  /\ fired' = [timer |-> t, left |-> owed]
  /\ left' = [left EXCEPT ![t] = IF t \in AutoReload THEN owed + period[t] ELSE 0]

Goto(p) ==
  pc' = p /\ late' = (IF p = "blocked" THEN 0 ELSE late) /\ UNCHANGED tick

-----------------------------------------------------------------------------
(* Time and the tasks. *)

Listed(t) == t \in ToSet(current) \cup ToSet(overflow)
Counting  == {t \in active : t \in AutoReload \/ Listed(t)}
Busy      == pc # "blocked" \/ sleep = 0 \/ queue # <<>>

Tick ==
  /\ Busy => late < Lag
  /\ tick' = (tick + 1) % TickMod
  /\ late' = IF Busy THEN late + 1 ELSE 0
  /\ sleep' = IF sleep > 0 THEN sleep - 1 ELSE sleep
  /\ left' = [t \in Timer |->
               IF t \in Counting /\ left[t] > -TickMod THEN left[t] - 1 ELSE left[t]]
  /\ fired' = Nothing
  /\ UNCHANGED <<last, lists, active, freed, period, queue, pc, now, cmd>>

Command(id, t, time) ==
  queue' = Append(queue, [id |-> id, timer |-> t, time |-> time])

Pending(t) == {queue[i].id : i \in {j \in 1 .. Len(queue) : queue[j].timer = t}}

\* Nobody uses a handle that was given to xTimerDelete.
Deleted(t) ==
  \/ t \in freed \/ "delete" \in Pending(t)
  \/ cmd.id = "delete" /\ cmd.timer = t

\* xTimerPendFunctionCall
SendCall ==
  /\ Len(queue) + Room < QueueLength
  /\ Command("call", None, 0)
  /\ fired' = Nothing
  /\ UNCHANGED <<tick, last, lists, active, freed, period, pc, now, cmd, sleep,
                 late, left>>

\* A task, an interrupt or a callback sends a command: xTimerStart reads the
\* time first and may be held up before it sends.
Send ==
  /\ Len(queue) + Room < QueueLength
  /\ \E t \in Timer :
       /\ ~Deleted(t)
       /\ \/ \E d \in 0 .. SendLag : Command("start", t, (tick - d) % TickMod)
          \/ \E id \in {"stop", "change"} : Command(id, t, 0)
          \/ t \in Deletable /\ Command("delete", t, 0)
  /\ fired' = Nothing
  /\ UNCHANGED <<tick, last, lists, active, freed, period, pc, now, cmd, sleep,
                 late, left>>

-----------------------------------------------------------------------------
(* The daemon: prvTimerTask. *)

\* prvSampleTimeNow: the tick count has begun a new round.
Wrapped == tick < last

Due == current # <<>> /\ value[Head(current)] <= tick

\* prvProcessTimerOrBlockTask: the lists are switched first
NextWrapped ==
  /\ pc = "next" /\ Wrapped
  /\ now' = tick /\ cmd' = NoCommand /\ fired' = Nothing
  /\ Goto("switch")
  /\ UNCHANGED <<last, lists, active, freed, period, queue, sleep, left>>

\* prvProcessExpiredTimer
NextExpired ==
  /\ pc = "next" /\ ~Wrapped /\ Due
  /\ last' = tick
  /\ LET t    == Head(current)
         then == value[t]
         next == (then + period[t]) % TickMod
     IN  /\ Fire(t, left[t])
         /\ IF t \in AutoReload
              THEN /\ InsertTimerInActiveList(t, next, tick, then)
                   /\ queue' = IF ExpiredAlready(t, next, tick, then)
                                 THEN Reload(t, then) ELSE queue
                   /\ UNCHANGED active
              ELSE /\ current' = Tail(current) /\ value' = [value EXCEPT ![t] = 0]
                   /\ active' = active \ {t}
                   /\ UNCHANGED <<overflow, queue>>
  /\ Goto("commands")
  /\ UNCHANGED <<freed, period, now, cmd, sleep>>

\* A mutant: the wait for the next round is taken for a wait without limit.
MutTicksToWait == IF current = <<>> THEN -1 ELSE value[Head(current)] - tick

\* How long it waits: no limit when nothing is active, up to the next round
\* when only the next round has timers (a delay of nothing takes a tick).
TicksToWait ==
  IF current = <<>> /\ overflow = <<>> THEN -1
  ELSE LET next == IF current = <<>> THEN 0 ELSE value[Head(current)]
           n    == (next - tick) % TickMod
       IN  IF n = 0 THEN 1 ELSE n

\* vQueueWaitForMessageRestricted and the yield
NextBlocks ==
  /\ pc = "next" /\ ~Wrapped /\ ~Due
  /\ last' = tick /\ fired' = Nothing
  /\ IF queue = <<>> THEN Goto("blocked") /\ sleep' = TicksToWait
                     ELSE Goto("commands") /\ UNCHANGED sleep
  /\ UNCHANGED <<lists, active, freed, period, queue, now, cmd, left>>

Wake ==
  /\ pc = "blocked" /\ (sleep = 0 \/ queue # <<>>)
  /\ sleep' = -1 /\ fired' = Nothing
  /\ Goto("commands")
  /\ UNCHANGED <<last, lists, active, freed, period, queue, now, cmd, left>>

\* prvSwitchTimerLists: one timer left over from the round that has ended
SwitchExpired ==
  /\ pc = "switch" /\ current # <<>>
  /\ LET t    == Head(current)
         then == value[t]
         next == (then + period[t]) % TickMod
         more == t \in AutoReload /\ next > then
     IN  /\ Fire(t, left[t])
         /\ current' = IF more THEN Insert(Tail(current), t, next) ELSE Tail(current)
         /\ value' = [value EXCEPT ![t] = IF more THEN next ELSE 0]
         /\ queue' = IF t \in AutoReload /\ ~more THEN Reload(t, then) ELSE queue
  /\ Goto("switch")
  /\ UNCHANGED <<last, overflow, active, freed, period, now, cmd, sleep>>

SwitchLists ==
  /\ pc = "switch" /\ current = <<>>
  /\ current' = overflow /\ overflow' = <<>>
  /\ last' = now /\ fired' = Nothing
  /\ IF cmd = NoCommand THEN Goto("commands") /\ now' = 0
                        ELSE Goto("execute") /\ UNCHANGED now
  /\ UNCHANGED <<value, active, freed, period, queue, cmd, sleep, left>>

\* prvProcessReceivedCommands
NoMoreCommands ==
  /\ pc = "commands" /\ queue = <<>>
  /\ fired' = Nothing
  /\ Goto("next")
  /\ UNCHANGED <<last, lists, active, freed, period, queue, now, cmd, sleep, left>>

\* The daemon calls the function; the timers are left alone.
PendedCall ==
  /\ pc = "commands" /\ queue # <<>> /\ Head(queue).id = "call"
  /\ queue' = Tail(queue) /\ fired' = Nothing
  /\ Goto("commands")
  /\ UNCHANGED <<last, lists, active, freed, period, now, cmd, sleep, left>>

TakeCommand ==
  /\ pc = "commands" /\ queue # <<>> /\ Head(queue).id # "call"
  /\ cmd' = Head(queue) /\ queue' = Tail(queue)
  /\ current'  = RemoveFirst(current, cmd'.timer)
  /\ overflow' = RemoveFirst(overflow, cmd'.timer)
  /\ value' = [value EXCEPT ![cmd'.timer] = 0]
  /\ now' = tick /\ fired' = Nothing
  /\ IF Wrapped THEN Goto("switch") /\ UNCHANGED last
                ELSE Goto("execute") /\ last' = tick
  /\ UNCHANGED <<active, freed, period, sleep, left>>

Start ==
  /\ pc = "execute" /\ cmd.id \in {"start", "reload"}
  /\ LET t    == cmd.timer
         next == (cmd.time + period[t]) % TickMod
         owed == period[t] - ((tick - cmd.time) % TickMod)
     IN  /\ active' = active \cup {t}
         /\ InsertTimerInActiveList(t, next, now, cmd.time)
         /\ IF ExpiredAlready(t, next, now, cmd.time)
              THEN /\ Fire(t, owed)
                   /\ queue' = IF t \in AutoReload THEN Reload(t, next) ELSE queue
              ELSE /\ fired' = Nothing
                   /\ left' = [left EXCEPT ![t] = owed]
                   /\ UNCHANGED queue
  /\ Goto("commands") /\ cmd' = NoCommand /\ now' = 0
  /\ UNCHANGED <<last, freed, period, sleep>>

Stop ==
  /\ pc = "execute" /\ cmd.id = "stop"
  /\ active' = active \ {cmd.timer}
  /\ Goto("commands") /\ cmd' = NoCommand /\ now' = 0 /\ fired' = Nothing
  /\ UNCHANGED <<last, lists, freed, period, queue, sleep>>
  /\ left' = [left EXCEPT ![cmd.timer] = 0]

\* vPortFree of a timer that is in no list any more
Delete ==
  /\ pc = "execute" /\ cmd.id = "delete"
  /\ active' = active \ {cmd.timer} /\ freed' = freed \cup {cmd.timer}
  /\ Goto("commands") /\ cmd' = NoCommand /\ now' = 0 /\ fired' = Nothing
  /\ UNCHANGED <<last, lists, period, queue, sleep>>
  /\ left' = [left EXCEPT ![cmd.timer] = 0]

ChangePeriod ==
  /\ pc = "execute" /\ cmd.id = "change"
  /\ \E n \in Periods :
       LET t == cmd.timer
       IN  /\ period' = [period EXCEPT ![t] = n]
           /\ active' = active \cup {t}
           /\ value' = [value EXCEPT ![t] = (now + n) % TickMod]
           /\ current'  = IF value'[t] > now THEN Insert(current, t, value'[t]) ELSE current
           /\ overflow' = IF value'[t] <= now THEN Insert(overflow, t, value'[t]) ELSE overflow
           /\ left' = [left EXCEPT ![t] = n - ((tick - now) % TickMod)]
  /\ Goto("commands") /\ cmd' = NoCommand /\ now' = 0 /\ fired' = Nothing
  /\ UNCHANGED <<last, freed, queue, sleep>>

-----------------------------------------------------------------------------
Daemon ==
  \/ NextWrapped \/ NextExpired \/ NextBlocks \/ Wake
  \/ SwitchExpired \/ SwitchLists
  \/ NoMoreCommands \/ PendedCall \/ TakeCommand
  \/ Start \/ Stop \/ Delete \/ ChangePeriod

Next == Tick \/ Send \/ SendCall \/ Daemon

Spec == Init /\ [][Next]_vars

\* Time passes, and the daemon has the highest priority.
FairSpec == Spec /\ WF_vars(Tick) /\ WF_vars(Daemon)

-----------------------------------------------------------------------------
(* The type invariant. *)
TypeOK ==
  /\ tick \in Time /\ last \in Time /\ now \in Time
  /\ value \in [Timer -> Time] /\ period \in [Timer -> Periods]
  /\ active \subseteq Timer /\ freed \subseteq Deletable /\ Len(queue) <= QueueLength
  /\ sleep \in -1 .. TickMod /\ late \in 0 .. Lag

\* A callback is never called before its time, whatever round the tick count
\* is in and however late the command came (prvInsertTimerInActiveList,
\* prvProcessExpiredTimer, prvSwitchTimerLists).
NeverEarly == fired.left <= 0

\* While the daemon waits, no timer it has listed comes due before it wakes
\* (prvProcessTimerOrBlockTask).
WakesInTime ==
  pc = "blocked" /\ queue = <<>> /\ sleep # 0 =>
    \A t \in Timer : Listed(t) => sleep > 0 /\ sleep <= left[t]

InOrder(l) == \A i, j \in 1 .. Len(l) : i < j => l[i] # l[j] /\ value[l[i]] <= value[l[j]]

\* Everything is typed, both lists are in the order of the expiry times, no
\* timer is listed twice, and a timer that runs and starts again is in one of
\* the lists, or a command for it is in the queue or in the daemon's hands: it
\* does not die (prvInsertTimerInActiveList, prvSwitchTimerLists).  Of a timer
\* that was freed nothing is left in the lists or the queue (vPortFree in
\* prvProcessReceivedCommands).
NotForgotten ==
  /\ TypeOK
  /\ InOrder(current) /\ InOrder(overflow)
  /\ ToSet(current) \cap ToSet(overflow) = {}
  /\ \A t \in active \cap AutoReload :
       \/ Listed(t)
       \/ cmd.timer = t
       \/ Pending(t) # {}
  /\ \A t \in freed : ~Listed(t) /\ cmd.timer # t /\ Pending(t) = {}

\* A timer that runs and starts again is served, however late the daemon is,
\* unless somebody commands it, as long as commands do not keep the daemon
\* from ever waiting.
ServedForEver ==
  []<>(pc = "blocked") =>
    \A t \in AutoReload :
      t \in active ~> \/ fired.timer = t
                      \/ \E i \in 1 .. Len(queue) : queue[i].timer = t
                      \/ cmd.timer = t
=============================================================================
