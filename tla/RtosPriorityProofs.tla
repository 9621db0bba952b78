------------------------ MODULE RtosPriorityProofs ------------------------
(***************************************************************************)
(* The highest priority runs, for any number of tasks, queues and mutexes  *)
(* and every way in which interrupts, time-outs and inheritance follow one *)
(* another, in the systems that lock plainly (Plain): no mutex has more    *)
(* than two users, no task uses more than one mutex, and nobody sets the   *)
(* priority of a task that uses one.                                       *)
(*                                                                         *)
(* InFront, on top of Punctual and Orderly of RtosProofs, is the inductive *)
(* invariant.  Ranked: no ready task is ahead of the running one unless a  *)
(* switch is pending or the running one goes on to its yield.  Locking: an *)
(* inherited priority has a lender, a holder is not behind those that wait.*)
(***************************************************************************)
EXTENDS RtosProofs
-----------------------------------------------------------------------------
(* Who is in front.                                                         *)

\* The event lists of the queues.
WaitLists == EventList \ {Pending}

\* The tasks that are not ready; with those in hand (H) these are all.
Away(s) == ToSet(s.delayed) \cup ToSet(s.overflow) \cup s.suspended

\* The tasks that wait for a notification.
Awaiting(s) == {t \in Task : s.nstate[t] = "waiting"}

\* Who is in the event list of a queue is not ready, and is there once.
Listed(s, H) ==
  /\ "nstate" \in DOMAIN s /\ DOMAIN s.nstate = Task
  /\ \A l \in WaitLists : /\ Once(s.events[l]) /\ ToSet(s.events[l]) \subseteq Away(s) \cup H
                          /\ \A m \in WaitLists \ {l} :
                               ToSet(s.events[l]) \cap ToSet(s.events[m]) = {}

\* No ready task has a higher priority than the running one, or a switch is
\* pending.
Led(s, H) == s.yield \/ \A t \in Task \ (Away(s) \cup H) : s.prio[t] <= s.prio[s.cur]

\* From s to a tasks are woken only, and with the one that then runs a goes
\* on as s did.
Wakes(a, s, H) ==
  /\ Listed(a, H) /\ Away(a) \subseteq Away(s) /\ Awaiting(a) \subseteq Awaiting(s)
  /\ \A l \in WaitLists : ToSet(a.events[l]) \subseteq ToSet(s.events[l])
  /\ a.prio = s.prio /\ a.base = s.base

Ranks(a, s, H) ==
  /\ Wakes(a, s, H) /\ (Led(s, H) => Led(a, H))
  /\ a.cur = s.cur \/ a.cur \notin Away(a) \cup H

\* Nothing but t has left a list of s: it is ready in a.
Woken(a, s, t) ==
  /\ Away(a) = Away(s) \ {t} /\ ToSet(a.delayed) = ToSet(s.delayed) \ {t}
  /\ ToSet(a.overflow) = ToSet(s.overflow) \ {t} /\ a.suspended = s.suspended \ {t}
  /\ a.cur = s.cur /\ a.yield = s.yield

Unlisted(s, t) == \A l \in WaitLists : t \notin ToSet(s.events[l])

Lines == {"delayed", "overflow", "suspended", "events", "prio", "base", "nstate"}

LEMMA WakesTwice ==
  ASSUME NEW s, NEW a, NEW b, NEW H, Wakes(a, s, H), Wakes(b, a, H)
  PROVE  Wakes(b, s, H)
<1>1. \A l \in WaitLists : ToSet(b.events[l]) \subseteq ToSet(s.events[l])
  BY DEF Wakes
<1> QED BY <1>1 DEF Wakes

LEMMA RanksTwice ==
  ASSUME NEW s, NEW a, NEW b, NEW H, Ranks(a, s, H), Ranks(b, a, H)
  PROVE  Ranks(b, s, H)
<1>1. Wakes(b, s, H) /\ (Led(s, H) => Led(b, H))
  BY WakesTwice DEF Ranks
<1>2. Away(b) \subseteq Away(a)
  BY DEF Ranks, Wakes
<1>3. b.cur = s.cur \/ b.cur \notin Away(b) \cup H
  BY <1>2 DEF Ranks
<1> QED BY <1>1, <1>3 DEF Ranks

\* Nobody has moved.
LEMMA SameWakes ==
  ASSUME NEW s, NEW a, NEW H, Listed(s, H), Same(a, s, Lines)
  PROVE  Wakes(a, s, H) /\ Away(a) = Away(s)
<1>1. /\ a.delayed = s.delayed /\ a.overflow = s.overflow /\ a.suspended = s.suspended
      /\ a.events = s.events /\ a.prio = s.prio /\ a.base = s.base
      /\ a.nstate = s.nstate /\ "nstate" \in DOMAIN a
  BY DEF Same, Lines
<1>2. Away(a) = Away(s) /\ Awaiting(a) = Awaiting(s)
  BY <1>1 DEF Away, Awaiting
<1>3. Listed(a, H)
  BY <1>1, <1>2 DEF Listed
<1> QED BY <1>1, <1>2, <1>3 DEF Wakes

LEMMA SameRanks ==
  ASSUME NEW s, NEW a, NEW H, Listed(s, H), Same(a, s, Lines), a.cur = s.cur,
         a.yield = s.yield \/ a.yield
  PROVE  Ranks(a, s, H)
<1>1. Wakes(a, s, H) /\ Away(a) = Away(s)
  BY SameWakes
<1>2. a.prio = s.prio
  BY DEF Same, Lines
<1>3. Led(s, H) => Led(a, H)
  BY <1>1, <1>2 DEF Led
<1> QED BY <1>1, <1>3 DEF Ranks

LEMMA InLines ==
  ASSUME NEW s, NEW H, InPlace(s, H), Listed(s, H)
  PROVE  Lines \subseteq DOMAIN s /\ Where \subseteq DOMAIN s /\ Else \subseteq DOMAIN s
  BY Fields DEF Lines, Where, Else, Listed

LEMMA StaysThere == ASSUME NEW s, NEW H, Listed(s, H), Lines \subseteq DOMAIN s PROVE Ranks(s, s, H)
  BY SameRanks DEF Same

\* The ready tasks are those that are nowhere else.
LEMMA AtHome ==
  ASSUME NEW s, NEW H, InPlace(s, H)
  PROVE  /\ \A t \in Task : IsReady(s, t) <=> t \notin Away(s) \cup H
         /\ Away(s) \cap H = {} /\ Away(s) \subseteq Task
<1>1. Lists(s) /\ Homes(s, H)
  BY DEF InPlace, Tidy
<1>2. \A t \in Task : IsReady(s, t) <=> t \notin Away(s) \cup H
  BY <1>1 DEF Homes, NoHome, OneHome, Away
<1>3. ToSet(s.delayed) \subseteq Task /\ ToSet(s.overflow) \subseteq Task
  BY <1>1, ListMembers DEF Lists
<1>4. Away(s) \subseteq Task
  BY <1>1, <1>3 DEF Away, Lists
<1>5. Away(s) \cap H = {}
  BY <1>1, <1>4 DEF Homes, NoHome, Away
<1> QED BY <1>2, <1>4, <1>5

\* The bit of a ready task's priority is set, and a bit that is set is the
\* priority of a ready task.
LEMMA BitsAreRanks ==
  ASSUME NEW s, NEW H, InPlace(s, H)
  PROVE  /\ \A t \in Task : IsReady(s, t) => s.prio[t] \in s.top
         /\ \A p \in s.top : \E t \in Task : IsReady(s, t) /\ s.prio[t] = p
<1>1. Lists(s) /\ Bits(s, {})
  BY DEF InPlace, Tidy
<1>2. \A p \in Prio : s.ready[p] = <<End>> <=> ToSet(s.ready[p]) \cap Task = {}
  BY <1>1, EmptyCircle DEF Lists
<1>3. \A t \in Task : s.prio[t] \in Prio
  BY <1>1 DEF Lists
<1>4. \A t \in Task : IsReady(s, t) => s.prio[t] \in s.top
  BY <1>1, <1>2, <1>3 DEF Bits, IsReady
<1>5. ASSUME NEW p \in s.top PROVE \E t \in Task : IsReady(s, t) /\ s.prio[t] = p
  <2>1. p \in Prio /\ s.ready[p] # <<End>>
    BY <1>1, <1>5 DEF Bits, Lists
  <2>2. PICK t \in Task : t \in ToSet(s.ready[p])
    BY <1>2, <2>1
  <2>3. s.prio[t] = p
    BY <1>1, <2>1, <2>2 DEF Lists
  <2> QED BY <2>2, <2>3 DEF IsReady
<1> QED BY <1>4, <1>5

-----------------------------------------------------------------------------
(* What the functions of the kernel do to the ranks.                        *)

\* taskSELECT_HIGHEST_PRIORITY_TASK
LEMMA SelectsHighest ==
  ASSUME NEW s, NEW H, InPlace(s, H), Listed(s, H)
  PROVE  LET a == SelectHighestPriorityTask(s)
         IN  Wakes(a, s, H) /\ Led(a, H) /\ a.cur \notin Away(a) \cup H
<1>1. PICK p : p = Max(s.top)
  OBVIOUS
<1>2. p \in s.top /\ p \in Prio /\ \A x \in s.top : p >= x
  <2>1. s.top \in SUBSET Prio /\ Idle \in Task /\ IsReady(s, Idle)
    BY KernelAssumption DEF InPlace, Tidy, Lists
  <2>2. s.top # {}
    BY <2>1, BitsAreRanks
  <2>3. Max(s.top) \in s.top /\ \A x \in s.top : Max(s.top) >= x
    BY <2>1, <2>2, HighestExists
  <2> QED BY <1>1, <2>1, <2>3
<1>3. PICK l : l = s.ready[p]
  OBVIOUS
<1>4. Circle(l) /\ l # <<End>>
  BY <1>2, <1>3 DEF InPlace, Tidy, Lists, Bits
<1>5. PICK m : m = Advance(l)
  OBVIOUS
<1>6. ToSet(m) = ToSet(l) /\ Last(m) \in Task /\ Circle(m)
  BY <1>4, <1>5, AdvanceSelects
<1>7. PICK a : a = [s EXCEPT !.ready[p] = m, !.cur = Last(m)]
  OBVIOUS
<1>8. a = SelectHighestPriorityTask(s)
  BY <1>1, <1>3, <1>5, <1>7 DEF SelectHighestPriorityTask
<1>9. Same(a, s, Lines) /\ a.cur = Last(m) /\ a.prio = s.prio
  BY <1>7, InLines DEF Same, Lines, Where, Else
<1>10. Wakes(a, s, H) /\ Away(a) = Away(s)
  BY <1>9, SameWakes
<1>11. Last(m) \in ToSet(m)
  <2>1. m \in Seq(Task \cup {End}) /\ Len(m) \in Nat /\ Len(m) # 0
    BY <1>6, EmptyCircle DEF Circle
  <2>2. Len(m) \in 1 .. Len(m) /\ Last(m) = m[Len(m)]
    BY <2>1 DEF Last
  <2> QED BY <2>1, <2>2, ListMembers
<1>12. a.cur \in Task /\ a.cur \in ToSet(s.ready[p])
  BY <1>3, <1>6, <1>9, <1>11
<1>13. s.prio[a.cur] = p /\ IsReady(s, a.cur)
  BY <1>2, <1>12 DEF InPlace, Tidy, Lists, IsReady
<1>14. a.cur \notin Away(a) \cup H
  BY <1>10, <1>12, <1>13, AtHome
<1>15. Led(a, H)
  <2>1. ASSUME NEW t \in Task \ (Away(a) \cup H) PROVE a.prio[t] <= a.prio[a.cur]
    <3>1. s.prio[t] \in s.top
      BY <1>10, AtHome, BitsAreRanks
    <3>2. s.top \subseteq Int
      BY DEF InPlace, Tidy, Lists, Prio
    <3> QED BY <1>2, <1>9, <1>13, <3>1, <3>2 DEF Prio
  <2> QED BY <2>1 DEF Led
<1> QED BY <1>8, <1>10, <1>14, <1>15

\* vTaskSwitchContext
LEMMA ContextRanks ==
  ASSUME NEW s, NEW H, InPlace(s, H), Listed(s, H)
  PROVE  LET a == SwitchContext(s)
         IN  /\ Wakes(a, s, H) /\ Led(a, H) /\ (a.cur = s.cur \/ a.cur \notin Away(a) \cup H)
             /\ s.susp = 0 => a.cur \notin Away(a) \cup H
<1>1. CASE s.susp > 0
  <2>1. PICK a : a = [s EXCEPT !.yield = TRUE]
    OBVIOUS
  <2>2. Same(a, s, Lines) /\ a.cur = s.cur /\ a.yield
    BY <2>1, InLines DEF Same, Lines, Where, Else
  <2>3. Wakes(a, s, H)
    BY <2>2, SameWakes
  <2>4. Led(a, H)
    BY <2>2 DEF Led
  <2> QED BY <1>1, <2>1, <2>2, <2>3, <2>4 DEF SwitchContext
<1>2. CASE ~(s.susp > 0)
  <2>1. PICK b : b = [s EXCEPT !.yield = FALSE]
    OBVIOUS
  <2>2. Same(b, s, Lines)
    BY <2>1, InLines DEF Same, Lines, Where, Else
  <2>3. Wakes(b, s, H)
    BY <2>2, SameWakes
  <2>4. InPlace(b, H)
    BY <2>1, YieldIsOnward DEF Onward
  <2>5. PICK a : a = SelectHighestPriorityTask(b)
    OBVIOUS
  <2>6. Wakes(a, b, H) /\ Led(a, H) /\ a.cur \notin Away(a) \cup H
    BY <2>3, <2>4, <2>5, SelectsHighest DEF Wakes
  <2>7. Wakes(a, s, H)
    BY <2>3, <2>6, WakesTwice
  <2> QED BY <1>2, <2>1, <2>5, <2>6, <2>7 DEF SwitchContext
<1> QED BY <1>1, <1>2

LEMMA YieldRanks ==
  ASSUME NEW s, NEW H, InPlace(s, H), Listed(s, H), NEW cond
  PROVE  LET a == YieldIf(cond, s)
         IN  /\ Ranks(a, s, H) /\ (cond \/ Led(s, H) => Led(a, H))
             /\ cond /\ s.susp = 0 => a.cur \notin Away(a) \cup H
<1>1. PICK a : a = SwitchContext(s)
  OBVIOUS
<1>2. /\ Wakes(a, s, H) /\ Led(a, H) /\ (a.cur = s.cur \/ a.cur \notin Away(a) \cup H)
      /\ s.susp = 0 => a.cur \notin Away(a) \cup H
  BY <1>1, ContextRanks
<1>3. Ranks(a, s, H)
  BY <1>2 DEF Ranks
<1>4. Ranks(s, s, H)
  BY StaysThere, InLines
<1> QED BY <1>1, <1>2, <1>3, <1>4 DEF YieldIf

\* What the removal of a state item, of an event item, and the return to a
\* ready list change.
LEMMA StateItemGone ==
  ASSUME NEW s, NEW H, InPlace(s, H), Lines \subseteq DOMAIN s, NEW t
  PROVE  LET a == RemoveStateItem(s, t)
         IN  /\ Same(a, s, {"events", "prio", "base", "nstate", "cur", "yield", "susp"})
             /\ Away(a) = Away(s) \ {t} /\ "ready" \in DOMAIN a /\ Lines \subseteq DOMAIN a
             /\ ToSet(a.delayed) = ToSet(s.delayed) \ {t}
             /\ ToSet(a.overflow) = ToSet(s.overflow) \ {t}
             /\ a.suspended = s.suspended \ {t}
<1>1. PICK a : a = RemoveStateItem(s, t)
  OBVIOUS
<1>2. /\ Same(a, s, {"events", "prio", "base", "nstate", "cur", "yield", "susp"})
      /\ "ready" \in DOMAIN a /\ Lines \subseteq DOMAIN a
      /\ a.delayed = RemoveFirst(s.delayed, t) /\ a.overflow = RemoveFirst(s.overflow, t)
      /\ a.suspended = s.suspended \ {t}
  BY <1>1, Fields DEF RemoveStateItem, Same, Lines, Where, Else
<1>3. /\ s.delayed \in Seq(Task) /\ Once(s.delayed)
      /\ s.overflow \in Seq(Task) /\ Once(s.overflow)
  BY DEF InPlace, Tidy, Lists
<1>4. /\ ToSet(a.delayed) = ToSet(s.delayed) \ {t}
      /\ ToSet(a.overflow) = ToSet(s.overflow) \ {t}
  BY <1>2, <1>3, TakenOut
<1>5. Away(a) = Away(s) \ {t}
  BY <1>2, <1>4 DEF Away
<1> QED BY <1>1, <1>2, <1>4, <1>5

LEMMA EventItemGone ==
  ASSUME NEW s, NEW H, InPlace(s, H), Listed(s, H), NEW t
  PROVE  LET a == RemoveEventItem(s, t)
         IN  /\ Wakes(a, s, H) /\ Away(a) = Away(s) /\ a.cur = s.cur /\ a.yield = s.yield
             /\ a.delayed = s.delayed /\ a.overflow = s.overflow
             /\ a.suspended = s.suspended
             /\ Unlisted(a, t)
<1>1. PICK a : a = RemoveEventItem(s, t)
  OBVIOUS
<1>2. /\ Same(a, s, (Lines \ {"events"}) \cup {"cur", "yield"})
      /\ a.events = [l \in EventList |-> RemoveFirst(s.events[l], t)]
  BY <1>1, InLines DEF RemoveEventItem, Same, Lines, Where, Else
<1>3. /\ a.delayed = s.delayed /\ a.overflow = s.overflow /\ a.suspended = s.suspended
      /\ a.prio = s.prio /\ a.base = s.base /\ a.nstate = s.nstate /\ "nstate" \in DOMAIN a
      /\ a.cur = s.cur /\ a.yield = s.yield
  BY <1>2 DEF Same, Lines
<1>4. Away(a) = Away(s) /\ Awaiting(a) = Awaiting(s)
  BY <1>3 DEF Away, Awaiting
<1>5. ASSUME NEW l \in WaitLists
      PROVE  Once(a.events[l]) /\ ToSet(a.events[l]) = ToSet(s.events[l]) \ {t}
  <2>1. s.events[l] \in Seq(Others) /\ Once(s.events[l]) /\ l \in EventList
    BY <1>5 DEF InPlace, Fit, Listed, WaitLists
  <2>2. PICK e \in Seq(Others) : e = s.events[l]
    BY <2>1
  <2>3. Once(RemoveFirst(e, t)) /\ ToSet(RemoveFirst(e, t)) = ToSet(e) \ {t}
    BY <2>1, <2>2, TakenOut
  <2> QED BY <1>2, <2>1, <2>2, <2>3
<1>6. Listed(a, H)
  BY <1>3, <1>4, <1>5 DEF Listed
<1>7. Wakes(a, s, H)
  BY <1>3, <1>4, <1>5, <1>6 DEF Wakes
<1> QED BY <1>1, <1>3, <1>4, <1>5, <1>7 DEF Unlisted

LEMMA ReadyListEntered ==
  ASSUME NEW s, Lines \cup {"ready", "top", "cur", "yield"} \subseteq DOMAIN s, NEW t
  PROVE  LET a == AddToReadyList(s, t)
         IN  Same(a, s, Lines \cup {"cur", "yield"}) /\ Away(a) = Away(s)
<1>1. PICK a : a = AddToReadyList(s, t)
  OBVIOUS
<1>2. Same(a, s, Lines \cup {"cur", "yield"})
  BY <1>1 DEF AddToReadyList, Same, Lines
<1>3. a.delayed = s.delayed /\ a.overflow = s.overflow /\ a.suspended = s.suspended
  BY <1>2 DEF Same, Lines
<1> QED BY <1>1, <1>2, <1>3 DEF Away

\* A task that is in no event list of a queue becomes ready.
LEMMA ReadiedWakes ==
  ASSUME NEW s, NEW H, InPlace(s, H), Listed(s, H), NEW t,
         Unlisted(s, t),
         NEW a, a = AddToReadyList(RemoveStateItem(s, t), t)
  PROVE  Wakes(a, s, H) /\ Woken(a, s, t) /\ Wakes(a, s, H \ {t})
<1>1. PICK b : b = RemoveStateItem(s, t)
  OBVIOUS
<1>2. /\ Same(b, s, {"events", "prio", "base", "nstate", "cur", "yield", "susp"})
      /\ Away(b) = Away(s) \ {t} /\ Lines \subseteq DOMAIN b
      /\ ToSet(b.delayed) = ToSet(s.delayed) \ {t}
      /\ ToSet(b.overflow) = ToSet(s.overflow) \ {t}
      /\ b.suspended = s.suspended \ {t}
  BY <1>1, InLines, StateItemGone
<1>3. {"ready", "top"} \subseteq DOMAIN b
  BY <1>1, InLines DEF RemoveStateItem, Where
<1>4. Lines \cup {"ready", "top", "cur", "yield"} \subseteq DOMAIN b
  BY <1>2, <1>3 DEF Same
<1>5. a = AddToReadyList(b, t)
  BY <1>1
<1>6. Same(a, b, Lines \cup {"cur", "yield"}) /\ Away(a) = Away(b)
  BY <1>4, <1>5, ReadyListEntered
<1>7. /\ a.events = s.events /\ a.prio = s.prio /\ a.base = s.base /\ a.nstate = s.nstate
      /\ a.cur = s.cur /\ a.yield = s.yield /\ "nstate" \in DOMAIN a
      /\ a.delayed = b.delayed /\ a.overflow = b.overflow /\ a.suspended = b.suspended
  BY <1>2, <1>6 DEF Same, Lines
<1>8. Away(a) = Away(s) \ {t} /\ Awaiting(a) = Awaiting(s)
  BY <1>2, <1>6, <1>7 DEF Awaiting
<1>9. Listed(a, H) /\ Listed(a, H \ {t})
  BY <1>7, <1>8 DEF Listed, Unlisted
<1>10. Wakes(a, s, H) /\ Wakes(a, s, H \ {t})
  BY <1>7, <1>8, <1>9 DEF Wakes
<1> QED BY <1>2, <1>7, <1>8, <1>10 DEF Woken

LEMMA UnblockWakes ==
  ASSUME NEW s, NEW H, InPlace(s, H), Listed(s, H), NEW t
  PROVE  LET a == Unblock(s, t)
         IN  Wakes(a, s, H) /\ Woken(a, s, t)
<1>1. PICK b : b = RemoveEventItem(s, t)
  OBVIOUS
<1>2. /\ Wakes(b, s, H) /\ Away(b) = Away(s) /\ b.cur = s.cur /\ b.yield = s.yield
      /\ b.delayed = s.delayed /\ b.overflow = s.overflow /\ b.suspended = s.suspended
      /\ Unlisted(b, t)
  BY <1>1, EventItemGone
<1>3. InPlace(b, H) /\ Listed(b, H)
  BY <1>1, <1>2, EventItemIsOnward DEF Onward, Wakes
<1>4. PICK a : a = AddToReadyList(RemoveStateItem(b, t), t)
  OBVIOUS
<1>5. Wakes(a, b, H) /\ Woken(a, b, t)
  BY <1>2, <1>3, <1>4, ReadiedWakes
<1>6. RemoveStateItem(RemoveEventItem(s, t), t) = RemoveEventItem(RemoveStateItem(s, t), t)
  BY Fields DEF RemoveStateItem, RemoveEventItem, Where, Else
<1>7. a = Unblock(s, t)
  BY <1>1, <1>4, <1>6 DEF Unblock
<1>8. Wakes(a, s, H)
  BY <1>2, <1>5, WakesTwice
<1> QED BY <1>2, <1>5, <1>7, <1>8 DEF Woken

LEMMA TailOnce ==
  ASSUME NEW T, NEW l \in Seq(T), Once(l), l # <<>>
  PROVE  Once(Tail(l)) /\ ToSet(Tail(l)) = ToSet(l) \ {Head(l)}
<1>1. /\ Len(l) \in Nat /\ Len(l) # 0 /\ Head(l) = l[1] /\ Tail(l) \in Seq(T)
      /\ Len(Tail(l)) = Len(l) - 1 /\ \A i \in 1 .. Len(l) - 1 : Tail(l)[i] = l[i + 1]
  BY HeadTailProperties, LenProperties
<1>2. PICK n \in Nat : Len(l) = n + 1
  <2>1. PICK h \in Nat : h = Len(l)
    BY <1>1
  <2>2. h # 0
    BY <1>1, <2>1
  <2>3. h - 1 \in Nat /\ h = (h - 1) + 1
    BY <2>2
  <2> QED BY <2>1, <2>3
<1>3. PICK m \in Seq(T) : m = Tail(l)
  BY <1>1
<1>4. Len(m) = n /\ Len(l) = n + 1 /\ \A i \in 1 .. n : m[i] = l[i + 1]
  BY <1>1, <1>2, <1>3
<1>5. Once(m)
  BY <1>4 DEF Once
<1>6. ASSUME NEW x \in ToSet(m) PROVE x \in ToSet(l) /\ x # Head(l)
  <2>1. PICK i \in 1 .. n : m[i] = x
    BY <1>4, ListMembers
  <2>2. i + 1 \in 1 .. Len(l) /\ l[i + 1] = x /\ 1 \in 1 .. Len(l) /\ 1 < i + 1
    BY <1>4, <2>1
  <2> QED BY <1>1, <2>2, ListMembers DEF Once
<1>7. ASSUME NEW x \in ToSet(l), x # Head(l) PROVE x \in ToSet(m)
  <2>1. PICK i \in 1 .. Len(l) : l[i] = x
    BY ListMembers
  <2>2. i # 1
    BY <1>1, <1>7, <2>1
  <2>3. i - 1 \in 1 .. n /\ m[i - 1] = x
    BY <1>4, <2>1, <2>2
  <2> QED BY <1>4, <2>3, ListMembers
<1> QED BY <1>3, <1>5, <1>6, <1>7

\* Nobody is in front of a task that is not in front of the running one.
LEMMA LedOn ==
  ASSUME NEW s, NEW a, NEW H, InPlace(s, H), Led(s, H), a.prio = s.prio, a.cur = s.cur,
         s.yield => a.yield,
         \A t \in Task \ (Away(a) \cup H) :
           t \in Away(s) => a.yield \/ s.prio[t] <= s.prio[s.cur]
  PROVE  Led(a, H)
  BY DEF Led

\* xTaskRemoveFromEventList
LEMMA RemovalRanks ==
  ASSUME NEW s, NEW H, InPlace(s, H), Listed(s, H), H = {} \/ s.susp = 1, NEW l \in WaitLists,
         s.events[l] # <<>>
  PROVE  LET a == RemoveFromEventList(s, l)
         IN  Ranks(a, s, H) /\ a.cur = s.cur
<1>1. l \in EventList /\ l # Pending
  BY DEF WaitLists
<1>2. PICK t \in Others : t = Head(s.events[l])
  BY <1>1, FirstWaiter
<1>3. PICK e \in Seq(Others) : e = Tail(s.events[l])
  BY <1>1, FirstWaiter
<1>4. /\ Once(e) /\ ToSet(e) = ToSet(s.events[l]) \ {t} /\ t \in ToSet(s.events[l])
  <2>1. PICK m \in Seq(Others) : m = s.events[l]
    BY <1>1 DEF InPlace, Fit
  <2>2. Once(m) /\ m # <<>>
    BY <2>1 DEF Listed
  <2>3. Once(Tail(m)) /\ ToSet(Tail(m)) = ToSet(m) \ {Head(m)}
    BY <2>2, TailOnce
  <2>4. Len(m) \in Nat /\ Len(m) # 0 /\ Head(m) = m[1]
    BY <2>2, LenProperties, HeadTailProperties
  <2>5. Head(m) \in ToSet(m)
    BY <2>4, ListMembers
  <2> QED BY <1>2, <1>3, <2>1, <2>3, <2>5
<1>5. PICK a : a = [s EXCEPT !.events[l] = e]
  OBVIOUS
<1>6. InPlace(a, H) /\ a.susp = s.susp
  BY <1>1, <1>5, EventsAreOnward DEF Onward
<1>7. /\ Same(a, s, (Lines \ {"events"}) \cup {"cur", "yield"}) /\ Lines \subseteq DOMAIN a
      /\ a.events = [s.events EXCEPT ![l] = e]
  BY <1>5, InLines DEF Same, Lines, Where, Else
<1>8. /\ a.delayed = s.delayed /\ a.overflow = s.overflow /\ a.suspended = s.suspended
      /\ a.prio = s.prio /\ a.base = s.base /\ a.nstate = s.nstate /\ "nstate" \in DOMAIN a
      /\ a.cur = s.cur /\ a.yield = s.yield
  BY <1>7 DEF Same, Lines
<1>9. a.events[l] = e /\ \A m \in WaitLists : m # l => a.events[m] = s.events[m]
  <2>1. DOMAIN s.events = EventList
    BY DEF InPlace, Fit
  <2> QED BY <1>1, <1>7, <2>1 DEF WaitLists
<1>10. Away(a) = Away(s) /\ Awaiting(a) = Awaiting(s)
  BY <1>8 DEF Away, Awaiting
<1>11. \A m \in WaitLists : /\ Once(a.events[m]) /\ t \notin ToSet(a.events[m])
                            /\ ToSet(a.events[m]) \subseteq ToSet(s.events[m])
  BY <1>4, <1>9 DEF Listed
<1>12. Listed(a, H) /\ Unlisted(a, t) /\ Wakes(a, s, H)
  <2>1. ASSUME NEW m \in WaitLists, NEW x \in WaitLists \ {m}
        PROVE  ToSet(a.events[m]) \cap ToSet(a.events[x]) = {}
    BY <1>11 DEF Listed
  <2>2. \A m \in WaitLists : ToSet(a.events[m]) \subseteq Away(a) \cup H
    BY <1>10, <1>11 DEF Listed
  <2>3. Listed(a, H)
    BY <1>8, <1>11, <2>1, <2>2 DEF Listed
  <2> QED BY <1>8, <1>10, <1>11, <2>3 DEF Unlisted, Wakes
<1>13. PICK b : b = [a EXCEPT !.events[Pending] = Append(@, t)]
  OBVIOUS
<1>14. Wakes(b, a, H) /\ Away(b) = Away(a) /\ b.cur = a.cur /\ b.yield = a.yield
  <2>1. /\ Same(b, a, (Lines \ {"events"}) \cup {"cur", "yield"}) /\ Lines \subseteq DOMAIN b
        /\ b.events = [a.events EXCEPT ![Pending] = Append(@, t)]
    BY <1>7, <1>13 DEF Same, Lines
  <2>2. /\ b.delayed = a.delayed /\ b.overflow = a.overflow /\ b.suspended = a.suspended
        /\ b.prio = a.prio /\ b.base = a.base /\ b.nstate = a.nstate /\ "nstate" \in DOMAIN b
        /\ b.cur = a.cur /\ b.yield = a.yield
    BY <2>1 DEF Same, Lines
  <2>3. \A m \in WaitLists : b.events[m] = a.events[m]
    BY <1>6, <2>1 DEF WaitLists, InPlace, Fit
  <2>4. Away(b) = Away(a) /\ Awaiting(b) = Awaiting(a)
    BY <2>2 DEF Away, Awaiting
  <2>5. Listed(b, H)
    BY <1>12, <2>2, <2>3, <2>4 DEF Listed
  <2> QED BY <2>2, <2>3, <2>4, <2>5 DEF Wakes
<1>15. PICK c : c = AddToReadyList(RemoveStateItem(a, t), t)
  OBVIOUS
<1>16. Wakes(c, a, H) /\ Woken(c, a, t)
  BY <1>6, <1>12, <1>15, ReadiedWakes
<1>17. PICK d : d = ResetNextTaskUnblockTime(c)
  OBVIOUS
<1>18. s.susp = 0 => Wakes(d, a, H) /\ Away(d) = Away(a) \ {t} /\ d.cur = a.cur /\ d.yield = a.yield
  <2> SUFFICES ASSUME s.susp = 0
               PROVE  Wakes(d, a, H) /\ Away(d) = Away(a) \ {t} /\ d.cur = a.cur /\ d.yield = a.yield
    OBVIOUS
  <2>0. H = {}
    OBVIOUS
  <2>1. InPlace(c, {}) /\ H = {}
    BY <1>6, <1>15, <2>0, ReadiedIsOnward DEF Onward
  <2>2. Same(d, c, Lines \cup {"cur", "yield"})
    BY <1>16, <1>17, <2>1, InLines
      DEF ResetNextTaskUnblockTime, Same, Lines, Where, Else, Wakes
  <2>3. Same(d, c, Lines) /\ d.cur = c.cur /\ d.yield = c.yield
    BY <2>2 DEF Same
  <2>4. Wakes(d, c, H) /\ Away(d) = Away(c)
    BY <1>16, <2>3, SameWakes DEF Wakes
  <2> QED BY <1>16, <2>3, <2>4, WakesTwice DEF Woken
<1>19. PICK r : r = IF s.susp = 0 THEN d ELSE b
  OBVIOUS
<1>20. /\ Wakes(r, s, H) /\ Away(s) \ {t} \subseteq Away(r) /\ Away(r) \subseteq Away(s)
       /\ r.cur = s.cur /\ r.yield = s.yield
  BY <1>8, <1>10, <1>12, <1>14, <1>18, <1>19, WakesTwice
<1>21. PICK z : z = [r EXCEPT !.yield = @ \/ WakesHigher(s, l)]
  OBVIOUS
<1>22. z = RemoveFromEventList(s, l)
  BY <1>2, <1>3, <1>5, <1>13, <1>15, <1>17, <1>19, <1>21 DEF RemoveFromEventList
<1>23. InPlace(r, H)
  <2>1. InPlace(b, H)
    BY <1>6, <1>13, PendingIsOnward DEF Onward
  <2>2. ASSUME s.susp = 0 PROVE InPlace(d, H)
    <3>1. H = {}
      BY <2>2
    <3>2. InPlace(c, {})
      BY <1>6, <1>15, <3>1, ReadiedIsOnward DEF Onward
    <3> QED BY <1>17, <3>1, <3>2, ResetIsOnward DEF Onward
  <2> QED BY <1>19, <2>1, <2>2
<1>24. /\ Same(z, r, Lines) /\ z.cur = r.cur /\ z.yield = (r.yield \/ WakesHigher(s, l))
  BY <1>20, <1>21, <1>23, InLines DEF Same, Lines, Where, Else, Wakes
<1>25. Wakes(z, s, H) /\ Away(z) = Away(r)
  BY <1>20, <1>24, SameWakes, WakesTwice DEF Wakes
<1>26. Led(s, H) => Led(z, H)
  <2>1. z.yield \/ s.prio[t] <= s.prio[s.cur]
    <3>1. s.prio[t] \in Int /\ s.prio[s.cur] \in Int
      BY DEF InPlace, Tidy, Lists, Fit, Others, Prio
    <3>2. s.prio[t] > s.prio[s.cur] => z.yield
      BY <1>2, <1>24, Zenon DEF WakesHigher
    <3> QED BY <3>1, <3>2
  <2>2. \A u \in Task \ (Away(z) \cup H) : u \in Away(s) => u = t
    BY <1>20, <1>25
  <2>3. s.yield => z.yield
    BY <1>20, <1>24
  <2>4. z.prio = s.prio /\ z.cur = s.cur
    BY <1>20, <1>24, <1>25 DEF Wakes
  <2> QED BY <2>1, <2>2, <2>3, <2>4, LedOn
<1> QED BY <1>20, <1>22, <1>24, <1>25, <1>26 DEF Ranks

\* The wakes of the queues.
LEMMA WakesRank ==
  ASSUME NEW s, NEW H, InPlace(s, H), Listed(s, H), H = {} \/ s.susp = 1, NEW l \in WaitLists
  PROVE  /\ Ranks(WakeOne(s, l), s, H) /\ WakeOne(s, l).cur = s.cur
         /\ Ranks(WakeAndYield(s, l), s, H)
         /\ s.events[l] # <<>> /\ WakesHigher(s, l) => Led(WakeAndYield(s, l), H)
<1>1. Ranks(s, s, H)
  BY StaysThere, InLines
<1>2. CASE s.events[l] = <<>>
  BY <1>1, <1>2 DEF WakeOne, WakeAndYield
<1>3. CASE s.events[l] # <<>>
  <2>1. l \in EventList
    BY DEF WaitLists
  <2>2. PICK r : r = RemoveFromEventList(s, l) /\ Onward(r, s, H)
    BY <1>3, <2>1, RemovalIsOnward
  <2>3. Ranks(r, s, H) /\ r.cur = s.cur
    BY <1>3, <2>2, RemovalRanks
  <2>4. InPlace(r, H) /\ Listed(r, H)
    BY <2>2, <2>3 DEF Onward, Ranks, Wakes
  <2>5. PICK y : y = WakesHigher(s, l)
    OBVIOUS
  <2>6. PICK z : z = YieldIf(y, r) /\ Ranks(z, r, H) /\ (y => Led(z, H))
    BY <2>4, YieldRanks
  <2>7. Ranks(z, s, H)
    BY <2>3, <2>6, RanksTwice
  <2>8. WakeOne(s, l) = r /\ WakeAndYield(s, l) = z
    BY <1>3, <2>2, <2>5, <2>6 DEF WakeOne, WakeAndYield
  <2> QED BY <2>3, <2>5, <2>6, <2>7, <2>8
<1> QED BY <1>2, <1>3

LEMMA WakeCountedRanks ==
  ASSUME NEW s, NEW H, InPlace(s, H), Listed(s, H), H = {} \/ s.susp = 1, NEW l \in WaitLists,
         NEW count
  PROVE  Ranks(WakeCounted(s, l, count), s, H) /\ WakeCounted(s, l, count).cur = s.cur
<1>1. CASE count \notin Nat
  BY <1>1, StaysThere, InLines DEF WakeCounted
<1>2. CASE count \in Nat
  <2>1. PICK g : /\ WakeCounted(s, l, count) = g[count] /\ g[0] = s
                 /\ \A i \in 1 .. count : g[i] = WakeOne(g[i - 1], l)
    BY <1>2, WakesRun
  <2> DEFINE P == {i \in 0 .. count : /\ Onward(g[i], s, H) /\ Ranks(g[i], s, H)
                                      /\ g[i].cur = s.cur}
  <2>2. 0 \in P
    BY <1>2, <2>1, HereAlready, StaysThere, InLines
  <2>3. ASSUME NEW i \in 1 .. count, i - 1 \in P PROVE i \in P
    <3>1. PICK a : a = g[i - 1] /\ Onward(a, s, H) /\ Ranks(a, s, H) /\ a.cur = s.cur
      BY <2>3
    <3>2. InPlace(a, H) /\ Listed(a, H) /\ (H = {} \/ a.susp = 1) /\ l \in EventList
      BY <3>1 DEF Onward, Ranks, Wakes, WaitLists
    <3>3. PICK b : b = WakeOne(a, l) /\ Onward(b, a, H)
      BY <3>2, WakesAreOnward
    <3>4. Ranks(b, a, H) /\ b.cur = a.cur
      BY <3>2, <3>3, WakesRank
    <3>5. Onward(b, s, H) /\ Ranks(b, s, H) /\ b.cur = s.cur
      BY <3>1, <3>3, <3>4, OnwardTwice, RanksTwice
    <3>6. b = g[i] /\ i \in 0 .. count
      BY <1>2, <2>1, <3>1, <3>3
    <3> QED BY <3>5, <3>6
  <2> HIDE DEF P
  <2>4. count \in P
    BY <1>2, <2>2, <2>3, LastTurn
  <2> QED BY <2>1, <2>4 DEF P
<1> QED BY <1>1, <1>2

-----------------------------------------------------------------------------
(* The tick.                                                                *)

\* Who wakes comes out of the delayed list.
Roused(a, s) ==
  /\ Wakes(a, s, {}) /\ a.cur = s.cur /\ a.yield = s.yield
  /\ ToSet(a.overflow) = ToSet(s.overflow) /\ a.suspended = s.suspended

LEMMA RousedTwice ==
  ASSUME NEW s, NEW a, NEW b, Roused(a, s), Roused(b, a)
  PROVE  Roused(b, s)
  BY WakesTwice DEF Roused

LEMMA StaysRoused ==
  ASSUME NEW s, NEW a, Listed(s, {}), Same(a, s, Lines), a.cur = s.cur, a.yield = s.yield
  PROVE  Roused(a, s)
<1>1. a.overflow = s.overflow /\ a.suspended = s.suspended
  BY DEF Same, Lines
<1> QED BY <1>1, SameWakes DEF Roused

LEMMA ResetStays ==
  ASSUME NEW s, NEW H, InPlace(s, H), Listed(s, H)
  PROVE  LET a == ResetNextTaskUnblockTime(s)
         IN  /\ Same(a, s, Lines) /\ a.cur = s.cur /\ a.yield = s.yield
             /\ Ranks(a, s, H)
<1>1. PICK a : a = ResetNextTaskUnblockTime(s)
  OBVIOUS
<1>2. Same(a, s, Lines) /\ a.cur = s.cur /\ a.yield = s.yield
  BY <1>1, InLines DEF ResetNextTaskUnblockTime, Same, Lines, Where, Else
<1> QED BY <1>1, <1>2, SameRanks

LEMMA FirstRoused ==
  ASSUME NEW s, InPlace(s, {}), Listed(s, {})
  PROVE  Roused(UnblockFirst(s), s)
<1>1. CASE ~Due(s)
  <2>1. Roused(s, s)
    BY StaysRoused, InLines DEF Same
  <2> QED BY <1>1, <2>1 DEF UnblockFirst
<1>2. CASE Due(s)
  <2>1. PICK t \in Others : t = Head(s.delayed)
    BY <1>2, SleepersAreOthers DEF Due
  <2>2. t \in ToSet(s.delayed)
    <3>1. s.delayed \in Seq(Task) /\ s.delayed # <<>>
      BY <1>2 DEF Due, InPlace, Tidy, Lists
    <3>2. Len(s.delayed) \in Nat /\ Len(s.delayed) # 0 /\ t = s.delayed[1]
      BY <2>1, <3>1
    <3>3. 1 \in 1 .. Len(s.delayed)
      BY <3>2
    <3> QED BY <3>1, <3>2, <3>3, ListMembers
  <2>3. t \notin ToSet(s.overflow) /\ t \notin s.suspended
    BY <2>2 DEF InPlace, Tidy, Homes, OneHome, Others
  <2>4. PICK a : a = Unblock(s, t) /\ Wakes(a, s, {}) /\ Woken(a, s, t)
    BY UnblockWakes
  <2>5. Roused(a, s)
    BY <2>3, <2>4 DEF Woken, Roused
  <2> QED BY <1>2, <2>1, <2>4, <2>5 DEF UnblockFirst
<1> QED BY <1>1, <1>2

LEMMA DueRoused ==
  ASSUME NEW s, InPlace(s, {}), Listed(s, {})
  PROVE  Roused(UnblockDue(s), s)
<1>0. Roused(s, s)
  BY StaysRoused, InLines DEF Same
<1>1. CASE ~(s.tick >= s.next)
  BY <1>0, <1>1 DEF UnblockDue
<1>2. CASE s.tick >= s.next
  <2>1. PICK n \in Nat : n = Len(s.delayed)
    BY LenProperties DEF InPlace, Tidy, Lists
  <2>2. PICK g : /\ AfterDue(n, s) = g[n] /\ g[0] = s
                 /\ \A i \in 1 .. n : g[i] = UnblockFirst(g[i - 1])
    BY DueRuns
  <2> DEFINE P == {i \in 0 .. n : Onward(g[i], s, {}) /\ Roused(g[i], s)}
  <2>3. 0 \in P
    BY <1>0, <2>2, HereAlready
  <2>4. ASSUME NEW i \in 1 .. n, i - 1 \in P PROVE i \in P
    <3>1. PICK a : a = g[i - 1] /\ Onward(a, s, {}) /\ InPlace(a, {}) /\ Roused(a, s)
      BY <2>4 DEF Onward
    <3>2. Listed(a, {})
      BY <3>1 DEF Roused, Wakes
    <3>3. PICK b : b = UnblockFirst(a)
      OBVIOUS
    <3>4. Onward(b, a, {})
      BY <3>1, <3>3, SleepersAreOthers, UnblockIsOnward, HereAlready DEF UnblockFirst, Due
    <3>5. Roused(b, a)
      BY <3>1, <3>2, <3>3, FirstRoused
    <3>6. Onward(b, s, {}) /\ Roused(b, s)
      BY <3>1, <3>4, <3>5, OnwardTwice, RousedTwice
    <3>7. b = g[i] /\ i \in 0 .. n
      BY <2>2, <3>1, <3>3
    <3> QED BY <3>6, <3>7
  <2> HIDE DEF P
  <2>5. n \in P
    BY <2>3, <2>4, LastTurn
  <2>6. PICK r : r = g[n] /\ Onward(r, s, {}) /\ Roused(r, s)
    BY <2>5 DEF P
  <2>7. PICK z : z = ResetNextTaskUnblockTime(r)
    OBVIOUS
  <2>8. Listed(r, {}) /\ InPlace(r, {})
    BY <2>6 DEF Roused, Wakes, Onward
  <2>9. Same(z, r, Lines) /\ z.cur = r.cur /\ z.yield = r.yield
    BY <2>7, <2>8, ResetStays
  <2>10. Roused(z, s)
    BY <2>6, <2>8, <2>9, StaysRoused, RousedTwice
  <2>11. UnblockDue(s) = z
    BY <1>2, <2>1, <2>2, <2>6, <2>7 DEF UnblockDue, AfterDue
  <2> QED BY <2>10, <2>11
<1> QED BY <1>1, <1>2

\* The switch of the delayed lists moves nobody else.
LEMMA AdvancedStays ==
  ASSUME NEW s, NEW H, InPlace(s, H), Listed(s, H)
  PROVE  LET a == Advanced(s)
         IN  /\ Same(a, s, Lines \ {"delayed", "overflow"})
             /\ Away(a) = Away(s) /\ Wakes(a, s, H) /\ a.cur = s.cur /\ a.yield = s.yield
<1>1. PICK b : b = [s EXCEPT !.tick = (@ + 1) % TickMod]
  OBVIOUS
<1>2. Same(b, s, Lines \cup {"cur", "yield"})
  BY <1>1, InLines DEF Same, Lines, Where, Else
<1>3. PICK c : c = [b EXCEPT !.delayed = b.overflow, !.overflow = b.delayed, !.passed = b.timing]
  OBVIOUS
<1>4. PICK d : d = ResetNextTaskUnblockTime(c)
  OBVIOUS
<1>5. /\ Same(d, b, (Lines \cup {"cur", "yield"}) \ {"delayed", "overflow"})
      /\ d.delayed = b.overflow /\ d.overflow = b.delayed
  <2>1. /\ Same(c, b, (Lines \cup {"cur", "yield"}) \ {"delayed", "overflow"})
        /\ c.delayed = b.overflow /\ c.overflow = b.delayed /\ Lines \subseteq DOMAIN c
    BY <1>2, <1>3 DEF Same, Lines
  <2>2. Same(d, c, Lines \cup {"cur", "yield"})
    BY <1>4, <2>1 DEF ResetNextTaskUnblockTime, Same, Lines
  <2> QED BY <2>1, <2>2 DEF Same, Lines
<1>6. PICK a : a = Advanced(s) /\ a \in {b, d}
  BY <1>1, <1>3, <1>4 DEF Advanced, SwitchDelayedLists
<1>7. /\ a.suspended = s.suspended
      /\ a.events = s.events /\ a.prio = s.prio /\ a.base = s.base
      /\ a.nstate = s.nstate /\ "nstate" \in DOMAIN a /\ a.cur = s.cur /\ a.yield = s.yield
      /\ \/ a.delayed = s.delayed /\ a.overflow = s.overflow
         \/ a.delayed = s.overflow /\ a.overflow = s.delayed
  BY <1>2, <1>5, <1>6 DEF Same, Lines
<1>8. Away(a) = Away(s) /\ Awaiting(a) = Awaiting(s)
  BY <1>7 DEF Away, Awaiting
<1>9. Listed(a, H)
  BY <1>7, <1>8 DEF Listed
<1>10. Same(a, s, Lines \ {"delayed", "overflow"})
  BY <1>2, <1>5, <1>6 DEF Same, Lines
<1> QED BY <1>6, <1>7, <1>8, <1>9, <1>10 DEF Wakes

\* xTaskIncrementTick: where it asks for no switch, it woke nobody who is in
\* front of the running task.
LEMMA TickRanks ==
  ASSUME NEW s, NEW H, InPlace(s, H), Listed(s, H), s.susp \in {0, 1}, H = {} \/ s.susp = 1
  PROVE  LET a == IncrementTick(s)
         IN  /\ Wakes(a, s, H) /\ a.cur = s.cur /\ a.yield = s.yield
             /\ ~TickSwitches(s) /\ Led(s, H) => Led(a, H)
<1>1. CASE s.susp = 1
  <2>0. s.susp > 0
    BY <1>1
  <2>1. PICK a : a = [s EXCEPT !.pended = @ + 1] /\ a = IncrementTick(s)
    BY <2>0 DEF IncrementTick
  <2>2. Same(a, s, Lines) /\ a.cur = s.cur /\ a.yield = s.yield
    BY <2>1, InLines DEF Same, Lines, Where, Else
  <2>3. Ranks(a, s, H)
    BY <2>2, SameRanks
  <2> QED BY <2>1, <2>2, <2>3 DEF Ranks
<1>2. CASE s.susp = 0
  <2>1. H = {}
    BY <1>2
  <2>2. PICK b : b = Advanced(s)
    OBVIOUS
  <2>3. /\ Away(b) = Away(s) /\ Wakes(b, s, H) /\ b.cur = s.cur /\ b.yield = s.yield
        /\ b.prio = s.prio
    BY <2>2, AdvancedStays DEF Wakes
  <2>4. InPlace(b, {}) /\ Listed(b, {})
    BY <2>1, <2>2, <2>3, AdvancedIsOnward DEF Onward, Wakes
  <2>5. PICK a : a = UnblockDue(b) /\ Roused(a, b)
    BY <2>4, DueRoused
  <2>6. a = IncrementTick(s)
    BY <1>2, <2>2, <2>5 DEF IncrementTick
  <2>7. Wakes(a, s, H) /\ a.cur = s.cur /\ a.yield = s.yield
    BY <2>1, <2>3, <2>5, WakesTwice DEF Roused
  <2>8. ASSUME ~TickSwitches(s), Led(s, H) PROVE Led(a, H)
    <3>1. \A t \in ToSet(b.delayed) \ ToSet(a.delayed) : ~(s.prio[t] >= s.prio[s.cur])
      BY <1>2, <2>2, <2>6, <2>8 DEF TickSwitches
    <3>2. \A t \in Task \ (Away(a) \cup H) : t \in Away(s) => t \in ToSet(b.delayed) \ ToSet(a.delayed)
      BY <2>3, <2>5 DEF Away, Roused
    <3>3. \A t \in Task : s.prio[t] \in Int /\ s.cur \in Task
      BY DEF InPlace, Tidy, Lists, Fit, Prio
    <3>4. \A t \in Task \ (Away(a) \cup H) : t \in Away(s) => s.prio[t] <= s.prio[s.cur]
      <4>1. ASSUME NEW t \in Task \ (Away(a) \cup H), t \in Away(s)
            PROVE  s.prio[t] <= s.prio[s.cur]
        <5>1. ~(s.prio[t] >= s.prio[s.cur])
          BY <3>1, <3>2, <4>1
        <5>2. s.prio[t] \in Int /\ s.prio[s.cur] \in Int
          BY <3>3
        <5> QED BY <5>1, <5>2
      <4> QED BY <4>1
    <3> QED BY <2>7, <2>8, <3>4, LedOn DEF Wakes
  <2> QED BY <2>6, <2>7, <2>8
<1> QED BY <1>1, <1>2

\* A task is woken, and a switch asked for where it is not behind.
LEMMA PendingSwitchRanks ==
  ASSUME NEW s, NEW a, NEW z, NEW H, InPlace(a, H), Wakes(a, s, H), a.cur = s.cur,
         s.yield => a.yield, NEW y \in BOOLEAN, z = [a EXCEPT !.yield = @ \/ y],
         ~y /\ Led(s, H) => Led(a, H)
  PROVE  Ranks(z, s, H) /\ z.cur = s.cur
<1>1. Listed(a, H)
  BY DEF Wakes
<1>2. Same(z, a, Lines) /\ z.cur = a.cur /\ z.yield = (a.yield \/ y)
  BY <1>1, InLines DEF Same, Lines, Where, Else
<1>3. Wakes(z, a, H) /\ Away(z) = Away(a)
  BY <1>1, <1>2, SameWakes
<1>4. Wakes(z, s, H)
  BY <1>3, WakesTwice
<1>5. z.prio = a.prio
  BY <1>2 DEF Same, Lines
<1>6. Led(s, H) => Led(z, H)
  BY <1>2, <1>3, <1>5 DEF Led
<1> QED BY <1>2, <1>4, <1>6 DEF Ranks

LEMMA PendedTickRanks ==
  ASSUME NEW s, InPlace(s, {}), Listed(s, {}), s.susp = 0
  PROVE  Ranks(PendedTick(s), s, {}) /\ PendedTick(s).cur = s.cur
<1>1. PICK a : a = IncrementTick(s)
  OBVIOUS
<1>2. InPlace(a, {})
  BY <1>1, IncrementTickIsOnward DEF Onward
<1>3. /\ Wakes(a, s, {}) /\ a.cur = s.cur /\ a.yield = s.yield
      /\ ~TickSwitches(s) /\ Led(s, {}) => Led(a, {})
  BY <1>1, TickRanks
<1>4. PICK y \in BOOLEAN : y = TickSwitches(s)
  <2>1. (\E t \in ToSet(Advanced(s).delayed) \ ToSet(IncrementTick(s).delayed) :
           s.prio[t] >= s.prio[s.cur]) \in BOOLEAN
    OBVIOUS
  <2>2. (Len(IncrementTick(s).ready[s.prio[s.cur]]) > 2) \in BOOLEAN
    OBVIOUS
  <2>3. s.yield \in BOOLEAN
    BY DEF InPlace, Fit
  <2> QED BY <2>1, <2>2, <2>3, Zenon DEF TickSwitches
<1>5. PICK z : z = [a EXCEPT !.yield = @ \/ y]
  OBVIOUS
<1>6. Ranks(z, s, {}) /\ z.cur = s.cur
  BY <1>2, <1>3, <1>4, <1>5, PendingSwitchRanks
<1>7. z = PendedTick(s)
  BY <1>1, <1>4, <1>5 DEF PendedTick
<1> QED BY <1>6, <1>7

LEMMA CatchUpRanks ==
  ASSUME NEW s, InPlace(s, {}), Listed(s, {}), s.susp = 0
  PROVE  Ranks(CatchUp(s), s, {}) /\ CatchUp(s).cur = s.cur
<1>1. PICK n \in Nat : n = s.pended
  BY TasksAssumption DEF InPlace, Fit
<1>2. PICK g : /\ AfterTicks(n, s) = g[n] /\ g[0] = s
               /\ \A i \in 1 .. n : g[i] = PendedTick(g[i - 1])
  BY TicksRun
<1> DEFINE P == {i \in 0 .. n : Onward(g[i], s, {}) /\ Ranks(g[i], s, {}) /\ g[i].cur = s.cur}
<1>3. 0 \in P
  BY <1>2, HereAlready, StaysThere, InLines
<1>4. ASSUME NEW i \in 1 .. n, i - 1 \in P PROVE i \in P
  <2>1. PICK a : /\ a = g[i - 1] /\ Onward(a, s, {}) /\ InPlace(a, {}) /\ a.susp = 0
                 /\ Ranks(a, s, {}) /\ a.cur = s.cur
    BY <1>4 DEF Onward
  <2>2. Listed(a, {})
    BY <2>1 DEF Ranks, Wakes
  <2>3. PICK b : b = PendedTick(a)
    OBVIOUS
  <2>4. Onward(b, a, {})
    <3>1. PICK c : c = IncrementTick(a) /\ Onward(c, a, {}) /\ InPlace(c, {})
      BY <2>1, IncrementTickIsOnward DEF Onward
    <3>2. PICK y \in BOOLEAN : y = TickSwitches(a)
      <4>1. (\E t \in ToSet(Advanced(a).delayed) \ ToSet(IncrementTick(a).delayed) :
               a.prio[t] >= a.prio[a.cur]) \in BOOLEAN
        OBVIOUS
      <4>2. (Len(IncrementTick(a).ready[a.prio[a.cur]]) > 2) \in BOOLEAN
        OBVIOUS
      <4>3. a.yield \in BOOLEAN
        BY <2>1 DEF InPlace, Fit
      <4> QED BY <4>1, <4>2, <4>3, Zenon DEF TickSwitches
    <3>3. Onward([c EXCEPT !.yield = @ \/ y], c, {})
      BY <3>1, YieldIsOnward
    <3>4. b = [c EXCEPT !.yield = @ \/ y]
      BY <2>3, <3>1, <3>2 DEF PendedTick
    <3> QED BY <3>1, <3>3, <3>4, OnwardTwice
  <2>5. Ranks(b, a, {}) /\ b.cur = a.cur
    BY <2>1, <2>2, <2>3, PendedTickRanks
  <2>6. Onward(b, s, {}) /\ Ranks(b, s, {}) /\ b.cur = s.cur
    BY <2>1, <2>4, <2>5, OnwardTwice, RanksTwice
  <2>7. b = g[i] /\ i \in 0 .. n
    BY <1>2, <2>1, <2>3
  <2> QED BY <2>6, <2>7
<1> HIDE DEF P
<1>5. n \in P
  BY <1>3, <1>4, LastTurn
<1>6. PICK r : r = g[n] /\ Ranks(r, s, {}) /\ r.cur = s.cur /\ InPlace(r, {})
  BY <1>5 DEF P, Onward
<1>7. PICK z : z = CatchUp(s) /\ z = [r EXCEPT !.pended = 0]
  BY <1>1, <1>2, <1>6 DEF CatchUp, AfterTicks
<1>8. Listed(r, {})
  BY <1>6 DEF Ranks, Wakes
<1>9. Same(z, r, Lines) /\ z.cur = r.cur /\ z.yield = r.yield
  BY <1>6, <1>7, <1>8, InLines DEF Same, Lines, Where, Else
<1>10. Ranks(z, r, {})
  BY <1>8, <1>9, SameRanks
<1> QED BY <1>6, <1>7, <1>9, <1>10, RanksTwice

LEMMA PendedRanks ==
  ASSUME NEW s, InPlace(s, {}), Listed(s, {})
  PROVE  Ranks(UnblockPended(s), s, {}) /\ UnblockPended(s).cur = s.cur
<1>1. CASE s.events[Pending] = <<>>
  BY <1>1, StaysThere, InLines DEF UnblockPended
<1>2. CASE s.events[Pending] # <<>>
  <2>1. PICK t \in Others : t = Head(s.events[Pending])
    BY <1>2, PendingIsList, FirstWaiter
  <2>2. PICK b : b = Unblock(s, t) /\ Onward(b, s, {})
    BY UnblockIsOnward
  <2>3. Wakes(b, s, {}) /\ Woken(b, s, t)
    BY <2>2, UnblockWakes
  <2>4. PICK y \in BOOLEAN : y = (s.prio[t] >= s.prio[s.cur])
    <3>1. (s.prio[t] >= s.prio[s.cur]) \in BOOLEAN
      OBVIOUS
    <3> QED BY <3>1, Zenon
  <2>5. UnblockPended(s) = [b EXCEPT !.yield = @ \/ y]
    BY <1>2, <2>1, <2>2, <2>4 DEF UnblockPended
  <2>6. ASSUME ~y, Led(s, {}) PROVE Led(b, {})
    <3>1. s.prio[t] \in Int /\ s.prio[s.cur] \in Int
      BY DEF InPlace, Tidy, Lists, Fit, Others, Prio
    <3>2. s.prio[t] <= s.prio[s.cur]
      <4>1. ~(s.prio[t] >= s.prio[s.cur])
        BY <2>4, <2>6, Zenon
      <4> QED BY <3>1, <4>1
    <3>3. \A u \in Task \ (Away(b) \cup {}) : u \in Away(s) => u = t
      BY <2>3 DEF Woken
    <3> QED BY <2>3, <2>6, <3>2, <3>3, LedOn DEF Wakes, Woken
  <2>7. PICK z : z = [b EXCEPT !.yield = @ \/ y]
    OBVIOUS
  <2>8. Ranks(z, s, {}) /\ z.cur = s.cur
    BY <2>2, <2>3, <2>6, <2>7, PendingSwitchRanks DEF Onward, Woken
  <2> QED BY <2>5, <2>7, <2>8
<1> QED BY <1>1, <1>2

LEMMA PendedToReadyRanks ==
  ASSUME NEW s, InPlace(s, {}), Listed(s, {})
  PROVE  Ranks(PendedToReady(s), s, {}) /\ PendedToReady(s).cur = s.cur
<1>1. CASE s.events[Pending] = <<>>
  BY <1>1, StaysThere, InLines DEF PendedToReady
<1>2. CASE s.events[Pending] # <<>>
  <2>1. PICK n \in Nat : n = Cardinality(Task)
    BY KernelAssumption, FS_CardinalityType
  <2>2. PICK g : /\ AfterPended(n, s) = g[n] /\ g[0] = s
                 /\ \A i \in 1 .. n : g[i] = UnblockPended(g[i - 1])
    BY PendedRuns
  <2> DEFINE P == {i \in 0 .. n : /\ Onward(g[i], s, {}) /\ Ranks(g[i], s, {})
                                  /\ g[i].cur = s.cur}
  <2>3. 0 \in P
    BY <2>2, HereAlready, StaysThere, InLines
  <2>4. ASSUME NEW i \in 1 .. n, i - 1 \in P PROVE i \in P
    <3>1. PICK a : /\ a = g[i - 1] /\ Onward(a, s, {}) /\ InPlace(a, {})
                   /\ Ranks(a, s, {}) /\ a.cur = s.cur
      BY <2>4 DEF Onward
    <3>2. Listed(a, {})
      BY <3>1 DEF Ranks, Wakes
    <3>3. PICK b : b = UnblockPended(a)
      OBVIOUS
    <3>4. Onward(b, a, {})
      <4>1. CASE a.events[Pending] = <<>>
        BY <3>1, <3>3, <4>1, HereAlready DEF UnblockPended
      <4>2. CASE a.events[Pending] # <<>>
        <5>1. PICK t \in Others : t = Head(a.events[Pending])
          BY <3>1, <4>2, PendingIsList, FirstWaiter
        <5>2. PICK c : c = Unblock(a, t) /\ Onward(c, a, {})
          BY <3>1, UnblockIsOnward
        <5>3. PICK y \in BOOLEAN : y = (a.prio[t] >= a.prio[a.cur])
          <6>1. (a.prio[t] >= a.prio[a.cur]) \in BOOLEAN
            OBVIOUS
          <6> QED BY <6>1, Zenon
        <5>4. Onward([c EXCEPT !.yield = @ \/ y], c, {})
          BY <5>2, YieldIsOnward DEF Onward
        <5>5. b = [c EXCEPT !.yield = @ \/ y]
          BY <3>3, <4>2, <5>1, <5>2, <5>3 DEF UnblockPended
        <5> QED BY <5>2, <5>4, <5>5, OnwardTwice
      <4> QED BY <4>1, <4>2
    <3>5. Ranks(b, a, {}) /\ b.cur = a.cur
      BY <3>1, <3>2, <3>3, PendedRanks
    <3>6. Onward(b, s, {}) /\ Ranks(b, s, {}) /\ b.cur = s.cur
      BY <3>1, <3>4, <3>5, OnwardTwice, RanksTwice
    <3>7. b = g[i] /\ i \in 0 .. n
      BY <2>2, <3>1, <3>3
    <3> QED BY <3>6, <3>7
  <2> HIDE DEF P
  <2>5. n \in P
    BY <2>3, <2>4, LastTurn
  <2>6. PICK r : r = g[n] /\ InPlace(r, {}) /\ Ranks(r, s, {}) /\ r.cur = s.cur
    BY <2>5 DEF P, Onward
  <2>7. PICK z : z = ResetNextTaskUnblockTime(r)
    OBVIOUS
  <2>8. Ranks(z, r, {}) /\ z.cur = r.cur
    BY <2>6, <2>7, ResetStays DEF Ranks, Wakes
  <2>9. PendedToReady(s) = z
    BY <1>2, <2>1, <2>2, <2>6, <2>7 DEF PendedToReady, AfterPended
  <2> QED BY <2>6, <2>8, <2>9, RanksTwice
<1> QED BY <1>1, <1>2

\* xTaskResumeAll: it switches, or leaves the caller at it.
LEMMA ResumeAllRanks ==
  ASSUME NEW s, InPlace(s, {}), Listed(s, {}), s.susp = 1
  PROVE  LET a == ResumeAll(s)
         IN  /\ Ranks(a, s, {}) /\ InPlace(a, {})
             /\ IF AlreadyYielded(s) THEN a.cur \notin Away(a) ELSE a.cur = s.cur
<1>1. PICK a : a = [s EXCEPT !.susp = @ - 1]
  OBVIOUS
<1>2. /\ Same(a, s, Where) /\ Else \subseteq DOMAIN a
      /\ a.events = s.events /\ a.base = s.base /\ a.item = s.item
      /\ a.yield = s.yield /\ a.pended = s.pended /\ a.cur = s.cur
      /\ a.held = s.held /\ a.susp = 0
  BY <1>1, Fields DEF Same, Where, Else
<1>3. Tidy(a, {}, {}) /\ Fit(a)
  <2>1. Tidy(a, {}, {})
    BY <1>2, OtherFields DEF InPlace
  <2>2. Fit(a)
    BY <1>2, Zenon DEF InPlace, Fit
  <2> QED BY <2>1, <2>2
<1>4. Same(a, s, Lines)
  BY <1>1, InLines DEF Same, Lines, Where, Else
<1>5. InPlace(a, {}) /\ Ranks(a, s, {}) /\ Listed(a, {})
  BY <1>2, <1>3, <1>4, SameRanks DEF InPlace, Ranks, Wakes
<1>6. PICK b : b = PendedToReady(a) /\ Onward(b, a, {})
  BY <1>5, PendedToReadyIsOnward
<1>7. Ranks(b, a, {}) /\ b.cur = a.cur
  BY <1>5, <1>6, PendedToReadyRanks
<1>8. InPlace(b, {}) /\ Listed(b, {}) /\ b.susp = 0
  BY <1>2, <1>6, <1>7 DEF Onward, Ranks, Wakes
<1>9. PICK c : c = CatchUp(b) /\ Onward(c, b, {})
  BY <1>8, CatchUpIsOnward
<1>10. Ranks(c, b, {}) /\ c.cur = b.cur
  BY <1>8, <1>9, CatchUpRanks
<1>11. InPlace(c, {}) /\ Listed(c, {}) /\ c.susp = 0
  BY <1>8, <1>9, <1>10 DEF Onward, Ranks, Wakes
<1>12. Ranks(c, s, {}) /\ c.cur = s.cur
  BY <1>2, <1>5, <1>7, <1>10, RanksTwice
<1>13. PICK y : y = AlreadyYielded(s)
  OBVIOUS
<1>14. PICK z : z = YieldIf(y, c)
  OBVIOUS
<1>15. Ranks(z, c, {}) /\ (y => z.cur \notin Away(z) \cup {}) /\ InPlace(z, {})
  BY <1>11, <1>14, YieldRanks, SwitchIsOnward DEF Onward
<1>16. ~y => z.cur = c.cur
  BY <1>14 DEF YieldIf
<1>17. z = ResumeAll(s)
  BY <1>1, <1>2, <1>6, <1>9, <1>13, <1>14 DEF ResumeAll, ResumedAll
<1>18. Ranks(z, s, {})
  BY <1>12, <1>15, RanksTwice
<1> QED BY <1>12, <1>13, <1>15, <1>16, <1>17, <1>18

-----------------------------------------------------------------------------
(* The running task goes to sleep.                                          *)

LEMMA SomebodyFewer ==
  ASSUME NEW s, NEW a, NEW G, NEW H, Led(s, G), Away(s) \cup G \subseteq Away(a) \cup H,
         a.prio = s.prio, a.cur = s.cur, a.yield = s.yield
  PROVE  Led(a, H)
  BY DEF Led

\* prvAddCurrentTaskToDelayedList
LEMMA AddCurrentAway ==
  ASSUME NEW s, InPlace(s, {}), Lines \subseteq DOMAIN s, s.cur \in Others,
         NEW ticks, NEW indefinitely
  PROVE  LET a == AddCurrentTaskToDelayedList(s, ticks, indefinitely)
         IN  /\ Same(a, s, {"events", "prio", "base", "nstate", "cur", "yield"})
             /\ Away(a) = Away(s) \cup {s.cur} /\ Lines \subseteq DOMAIN a
<1>1. PICK t \in Others : t = s.cur
  OBVIOUS
<1>2. PICK p : p = s.prio[t]
  OBVIOUS
<1>3. PICK b : b = [s EXCEPT !.aborted = @ \ {t}]
  OBVIOUS
<1>4. /\ Same(b, s, Lines \cup {"cur", "yield"}) /\ Lines \subseteq DOMAIN b
      /\ Same(b, s, Where \cup Else)
  BY <1>3, Fields DEF Same, Where, Else, Lines
<1>5. InPlace(b, {}) /\ Away(b) = Away(s)
  <2>1. b.delayed = s.delayed /\ b.overflow = s.overflow /\ b.suspended = s.suspended
    BY <1>4 DEF Same, Where
  <2> QED BY <1>4, <2>1, SameIsOnward DEF Onward, Away
<1>6. PICK c : c = RemoveStateItem(b, t)
  OBVIOUS
<1>7. /\ Same(c, b, {"events", "prio", "base", "nstate", "cur", "yield", "susp"})
      /\ Away(c) = Away(b) \ {t} /\ Lines \subseteq DOMAIN c
      /\ ToSet(c.delayed) = ToSet(b.delayed) \ {t}
      /\ ToSet(c.overflow) = ToSet(b.overflow) \ {t}
      /\ c.suspended = b.suspended \ {t}
  BY <1>4, <1>5, <1>6, StateItemGone
<1>8. c.delayed \in Seq(Task) /\ c.overflow \in Seq(Task)
  <2>1. Tidy(b, {}, {}) /\ Else \subseteq DOMAIN b
    BY <1>5, Fields DEF InPlace
  <2>2. Tidy(c, {} \cup {t}, {} \cup {b.prio[t]})
    BY <1>6, <2>1, TaskLeaves
  <2> QED BY <2>2 DEF Tidy, Lists
<1>9. PICK out : out = ResetReadyPriority(c, p)
  OBVIOUS
<1>10. Same(out, c, Lines \cup {"cur", "yield"})
  BY <1>7, <1>9 DEF ResetReadyPriority, Same, Lines
<1>11. Lines \cup {"cur", "yield"} \subseteq DOMAIN out
  BY <1>10 DEF Same
<1> DEFINE wake  == (s.tick + ticks) % TickMod
           timed == [out EXCEPT !.wake[t] = wake]
           later == {u \in Task : timed.wake[u] > wake}
           gone  == [out EXCEPT !.suspended = @ \cup {t}]
           over  == [timed EXCEPT !.overflow = InsertBefore(@, t, later)]
           soon  == [timed EXCEPT !.delayed = InsertBefore(@, t, later),
                                  !.next = IF wake < @ THEN wake ELSE @]
           F     == {"events", "prio", "base", "nstate", "cur", "yield"}
<1>12. AddCurrentTaskToDelayedList(s, ticks, indefinitely)
        = IF ticks = MaxDelay /\ indefinitely THEN gone ELSE IF wake < s.tick THEN over ELSE soon
  <2> DEFINE A == ticks = MaxDelay /\ indefinitely
             B == wake < s.tick
  <2>1. AddCurrentTaskToDelayedList(s, ticks, indefinitely)
          = CASE A -> gone [] ~A /\ B -> over [] OTHER -> soon
    BY <1>1, <1>2, <1>3, <1>6, <1>9 DEF AddCurrentTaskToDelayedList
  <2> HIDE DEF gone, over, soon, A, B
  <2> QED BY <2>1 DEF A, B
<1>13. ASSUME NEW a \in {gone, over, soon}
       PROVE  Same(a, s, F) /\ Away(a) = Away(s) \cup {t} /\ Lines \subseteq DOMAIN a
  <2>0. /\ Same(timed, out, Lines \cup {"cur", "yield"})
        /\ timed.overflow = out.overflow /\ timed.delayed = out.delayed
        /\ timed.suspended = out.suspended /\ Lines \subseteq DOMAIN timed
    BY <1>11 DEF Same, Lines
  <2>1. /\ Same(a, out, F) /\ Lines \subseteq DOMAIN a
        /\ \/ /\ a.delayed = InsertBefore(out.delayed, t, later)
              /\ a.overflow = out.overflow /\ a.suspended = out.suspended
           \/ /\ a.overflow = InsertBefore(out.overflow, t, later)
              /\ a.delayed = out.delayed /\ a.suspended = out.suspended
           \/ /\ a.suspended = out.suspended \cup {t}
              /\ a.delayed = out.delayed /\ a.overflow = out.overflow
    <3>1. CASE a = gone
      BY <1>11, <3>1 DEF Same, Lines
    <3>2. CASE a = over
      <4> HIDE DEF timed, later
      <4> QED BY <2>0, <3>2 DEF Same, Lines
    <3>3. CASE a = soon
      <4> HIDE DEF timed, later, wake
      <4> QED BY <2>0, <3>3 DEF Same, Lines
    <3> QED BY <3>1, <3>2, <3>3
  <2> HIDE DEF gone, over, soon, later, timed, wake
  <2>2. out.delayed = c.delayed /\ out.overflow = c.overflow /\ out.suspended = c.suspended
    BY <1>10 DEF Same, Lines
  <2>3. /\ ToSet(InsertBefore(out.delayed, t, later)) = ToSet(out.delayed) \cup {t}
        /\ ToSet(InsertBefore(out.overflow, t, later)) = ToSet(out.overflow) \cup {t}
    <3>1. t \in Task
      BY DEF Others
    <3>2. PICK d \in Seq(Task) : d = out.delayed
      BY <1>8, <2>2
    <3>3. PICK o \in Seq(Task) : o = out.overflow
      BY <1>8, <2>2
    <3>4. ToSet(InsertBefore(d, t, later)) = ToSet(d) \cup {t}
      BY <3>1, InsertedBefore
    <3>5. ToSet(InsertBefore(o, t, later)) = ToSet(o) \cup {t}
      BY <3>1, InsertedBefore
    <3> QED BY <3>2, <3>3, <3>4, <3>5
  <2>4. Away(a) = Away(out) \cup {t} /\ Away(out) = Away(c)
    BY <2>1, <2>2, <2>3 DEF Away
  <2>5. Same(a, s, F)
    BY <1>4, <1>7, <1>10, <2>1 DEF Same, Lines
  <2> QED BY <1>5, <1>7, <2>1, <2>4, <2>5
<1> HIDE DEF gone, over, soon, wake
<1>14. AddCurrentTaskToDelayedList(s, ticks, indefinitely) \in {gone, over, soon}
  BY <1>12
<1> QED BY <1>1, <1>13, <1>14 DEF F

\* The running task leaves, its waiters and its lists stay.
Leaves(a, s) ==
  /\ Listed(a, {}) /\ Away(a) = Away(s) \cup {s.cur} /\ Awaiting(a) = Awaiting(s)
  /\ a.prio = s.prio /\ a.base = s.base /\ a.cur = s.cur /\ a.yield = s.yield
  /\ Led(s, {}) => Led(a, {})

LEMMA AddCurrentLeaves ==
  ASSUME NEW s, InPlace(s, {}), Listed(s, {s.cur}), Lines \subseteq DOMAIN s, s.cur \in Others,
         NEW ticks, NEW indefinitely
  PROVE  LET a == AddCurrentTaskToDelayedList(s, ticks, indefinitely)
         IN  Leaves(a, s) /\ a.events = s.events
<1>1. PICK a : a = AddCurrentTaskToDelayedList(s, ticks, indefinitely)
  OBVIOUS
<1>2. /\ Same(a, s, {"events", "prio", "base", "nstate", "cur", "yield"})
      /\ Away(a) = Away(s) \cup {s.cur} /\ Lines \subseteq DOMAIN a
  BY <1>1, AddCurrentAway
<1>3. /\ a.events = s.events /\ a.prio = s.prio /\ a.base = s.base /\ a.nstate = s.nstate
      /\ a.cur = s.cur /\ a.yield = s.yield /\ "nstate" \in DOMAIN a
  BY <1>2 DEF Same
<1>4. Listed(a, {})
  BY <1>2, <1>3 DEF Listed
<1>5. Led(s, {}) => Led(a, {})
  BY <1>2, <1>3, SomebodyFewer
<1> QED BY <1>1, <1>2, <1>3, <1>4, <1>5 DEF Leaves, Awaiting

\* vTaskPlaceOnEventList
LEMMA PlaceLeaves ==
  ASSUME NEW s, InPlace(s, {}), Listed(s, {}), s.cur \in Others, s.cur \notin Away(s),
         NEW l \in WaitLists, NEW ticks
  PROVE  LET a == PlaceOnEventList(s, l, ticks)
         IN  /\ Leaves(a, s)
             /\ \A m \in WaitLists : ToSet(a.events[m]) = IF m = l THEN ToSet(s.events[m]) \cup {s.cur}
                                                          ELSE ToSet(s.events[m])
<1>0. l \in EventList
  BY DEF WaitLists
<1>1. PICK later : later = {u \in Task : s.item[u] < s.item[s.cur]}
  OBVIOUS
<1>2. PICK e \in Seq(Others) : e = s.events[l]
  BY <1>0 DEF InPlace, Fit
<1>3. \A m \in WaitLists : s.cur \notin ToSet(s.events[m])
  BY DEF Listed
<1>4. PICK f \in Seq(Others) : /\ f = InsertBefore(s.events[l], s.cur, later)
                               /\ Once(f) /\ ToSet(f) = ToSet(s.events[l]) \cup {s.cur}
  <2>1. Once(e) /\ s.cur \notin ToSet(e)
    BY <1>2, <1>3 DEF Listed
  <2>2. /\ InsertBefore(e, s.cur, later) \in Seq(Others) /\ Once(InsertBefore(e, s.cur, later))
        /\ ToSet(InsertBefore(e, s.cur, later)) = ToSet(e) \cup {s.cur}
    BY <2>1, InsertedBefore
  <2> QED BY <1>2, <2>2
<1>5. PICK b : b = [s EXCEPT !.events[l] = f] /\ Onward(b, s, {})
  BY <1>0, <1>4, EventsAreOnward
<1>6. /\ Same(b, s, (Lines \ {"events"}) \cup {"cur", "yield"}) /\ Lines \subseteq DOMAIN b
      /\ b.events = [s.events EXCEPT ![l] = f]
  BY <1>5, InLines DEF Same, Lines, Where, Else
<1>7. /\ b.delayed = s.delayed /\ b.overflow = s.overflow /\ b.suspended = s.suspended
      /\ b.prio = s.prio /\ b.base = s.base /\ b.nstate = s.nstate /\ "nstate" \in DOMAIN b
      /\ b.cur = s.cur /\ b.yield = s.yield
  BY <1>6 DEF Same, Lines
<1>8. b.events[l] = f /\ \A m \in WaitLists : m # l => b.events[m] = s.events[m]
  <2>1. DOMAIN s.events = EventList
    BY DEF InPlace, Fit
  <2> QED BY <1>0, <1>6, <2>1 DEF WaitLists
<1>9. Away(b) = Away(s) /\ Awaiting(b) = Awaiting(s)
  BY <1>7 DEF Away, Awaiting
<1>10. Listed(b, {s.cur})
  <2>1. \A m \in WaitLists : /\ Once(b.events[m])
                             /\ ToSet(b.events[m]) \subseteq Away(b) \cup {s.cur}
    BY <1>4, <1>8, <1>9 DEF Listed
  <2>2. ASSUME NEW m \in WaitLists, NEW x \in WaitLists \ {m}
        PROVE  ToSet(b.events[m]) \cap ToSet(b.events[x]) = {}
    <3>1. ToSet(s.events[m]) \cap ToSet(s.events[x]) = {}
      BY DEF Listed
    <3> QED BY <1>3, <1>4, <1>8, <3>1
  <2> QED BY <1>7, <2>1, <2>2 DEF Listed
<1>11. PICK z : z = AddCurrentTaskToDelayedList(b, ticks, TRUE)
  OBVIOUS
<1>12. InPlace(b, {}) /\ b.cur \in Others
  BY <1>5, <1>7 DEF Onward
<1>13. Leaves(z, b) /\ z.events = b.events
  <2>1. Listed(b, {b.cur})
    BY <1>7, <1>10
  <2>2. Leaves(AddCurrentTaskToDelayedList(b, ticks, TRUE), b)
        /\ AddCurrentTaskToDelayedList(b, ticks, TRUE).events = b.events
    BY <1>6, <1>12, <2>1, AddCurrentLeaves, Zenon
  <2> QED BY <1>11, <2>2
<1>14. Led(s, {}) => Led(b, {})
  BY <1>7, <1>9, SomebodyFewer
<1>15. Leaves(z, s)
  BY <1>7, <1>9, <1>13, <1>14 DEF Leaves
<1>16. \A m \in WaitLists : ToSet(z.events[m]) = IF m = l THEN ToSet(s.events[m]) \cup {s.cur}
                                                 ELSE ToSet(s.events[m])
  BY <1>4, <1>8, <1>13
<1>17. PlaceOnEventList(s, l, ticks) = z
  BY <1>1, <1>4, <1>5, <1>11 DEF PlaceOnEventList
<1> QED BY <1>15, <1>16, <1>17

-----------------------------------------------------------------------------
(* Priorities change.                                                       *)

\* The priority of t becomes x, nobody moves.
Reranks(a, s, t, x) ==
  /\ Listed(a, {}) /\ Away(a) = Away(s) /\ Awaiting(a) = Awaiting(s)
  /\ a.events = s.events /\ a.cur = s.cur /\ a.yield = s.yield
  /\ a.prio = [s.prio EXCEPT ![t] = x]

LEMMA MovedStays ==
  ASSUME NEW s, Lines \cup {"ready", "top", "cur", "yield"} \subseteq DOMAIN s, NEW t, NEW p,
         NEW c, NEW a, a = MoveToPriority(s, t, p, c)
  PROVE  /\ Same(a, s, (Lines \ {"prio"}) \cup {"cur", "yield"})
         /\ a.prio = [s.prio EXCEPT ![t] = p]
<1> DEFINE F == (Lines \ {"prio"}) \cup {"cur", "yield"}
           G == Lines \cup {"ready", "top", "cur", "yield"}
<1>1. PICK new : new = [s EXCEPT !.prio[t] = p]
  OBVIOUS
<1>2. Same(new, s, F) /\ new.prio = [s.prio EXCEPT ![t] = p] /\ G \subseteq DOMAIN new
  BY <1>1 DEF Same, Lines
<1>3. PICK out : out = [new EXCEPT !.ready[s.prio[t]] = RemoveFirst(@, t)]
  OBVIOUS
<1>4. Same(out, s, F) /\ out.prio = new.prio /\ G \subseteq DOMAIN out
  BY <1>2, <1>3 DEF Same, Lines
<1>5. PICK bits : bits = IF out.ready[s.prio[t]] = <<End>>
                           THEN [out EXCEPT !.top = @ \ {c}] ELSE out
  OBVIOUS
<1>6. Same(bits, s, F) /\ bits.prio = new.prio /\ G \subseteq DOMAIN bits
  BY <1>4, <1>5 DEF Same, Lines
<1>7. Same(AddToReadyList(bits, t), s, F) /\ AddToReadyList(bits, t).prio = new.prio
  BY <1>6 DEF AddToReadyList, Same, Lines
<1>8. MoveToPriority(s, t, p, c) = IF InReadyList(s, t, s.prio[t])
                                     THEN AddToReadyList(bits, t) ELSE new
  BY <1>1, <1>3, <1>5 DEF MoveToPriority
<1> QED BY <1>2, <1>7, <1>8

LEMMA MovedReranks ==
  ASSUME NEW s, NEW b, NEW t, NEW p, NEW c, InPlace(s, {}), Listed(s, {}),
         Same(b, s, (Lines \ {"base"}) \cup {"ready", "top", "cur", "yield"}),
         "base" \in DOMAIN b
  PROVE  LET a == MoveToPriority(b, t, p, c) IN Reranks(a, s, t, p) /\ a.base = b.base
<1>1. PICK a : a = MoveToPriority(b, t, p, c)
  OBVIOUS
<1>2. Lines \cup {"ready", "top", "cur", "yield"} \subseteq DOMAIN b
  BY DEF Same, Lines
<1>3. /\ Same(a, b, (Lines \ {"prio"}) \cup {"cur", "yield"})
      /\ a.prio = [b.prio EXCEPT ![t] = p]
  BY <1>1, <1>2, MovedStays
<1>4. /\ a.delayed = s.delayed /\ a.overflow = s.overflow /\ a.suspended = s.suspended
      /\ a.events = s.events /\ a.nstate = s.nstate /\ "nstate" \in DOMAIN a
      /\ a.cur = s.cur /\ a.yield = s.yield /\ a.base = b.base
      /\ a.prio = [s.prio EXCEPT ![t] = p]
  BY <1>3 DEF Same, Lines
<1>5. Away(a) = Away(s) /\ Awaiting(a) = Awaiting(s)
  BY <1>4 DEF Away, Awaiting
<1>6. Listed(a, {})
  BY <1>4, <1>5 DEF Listed
<1> QED BY <1>1, <1>4, <1>5, <1>6 DEF Reranks

LEMMA StaysReranked ==
  ASSUME NEW s, NEW a, InPlace(s, {}), Listed(s, {}), Same(a, s, Lines), a.cur = s.cur,
         a.yield = s.yield, NEW t \in Task
  PROVE  Reranks(a, s, t, s.prio[t]) /\ a.base = s.base
<1>1. Wakes(a, s, {}) /\ Away(a) = Away(s)
  BY SameWakes
<1>2. a.events = s.events /\ a.prio = s.prio /\ a.nstate = s.nstate /\ a.base = s.base
  BY DEF Same, Lines
<1>3. s.prio = [s.prio EXCEPT ![t] = s.prio[t]]
  BY DEF InPlace, Tidy, Lists
<1> QED BY <1>1, <1>2, <1>3 DEF Reranks, Wakes, Awaiting

\* The holder of a mutex comes up to the running task.
LEMMA InheritReranks ==
  ASSUME NEW s, InPlace(s, {}), Listed(s, {}), NEW t \in Task
  PROVE  LET a == PriorityInherit(s, t)
         IN  /\ Reranks(a, s, t, IF s.prio[t] < s.prio[s.cur] THEN s.prio[s.cur] ELSE s.prio[t])
             /\ a.base = s.base
<1>1. CASE s.prio[t] < s.prio[s.cur]
  <2>1. PICK p : p = s.prio[s.cur]
    OBVIOUS
  <2>2. PICK b : b = [s EXCEPT !.item[t] = p]
    OBVIOUS
  <2>3. /\ Same(b, s, (Lines \ {"base"}) \cup {"ready", "top", "cur", "yield"})
        /\ "base" \in DOMAIN b /\ b.base = s.base
    BY <2>2, InLines DEF Same, Lines, Where, Else
  <2>4. PriorityInherit(s, t) = MoveToPriority(b, t, p, s.prio[t])
    BY <1>1, <2>1, <2>2 DEF PriorityInherit
  <2> QED BY <1>1, <2>1, <2>3, <2>4, MovedReranks
<1>2. CASE ~(s.prio[t] < s.prio[s.cur])
  <2>1. Reranks(s, s, t, s.prio[t])
    BY StaysReranked, InLines DEF Same
  <2> QED BY <1>2, <2>1 DEF PriorityInherit
<1> QED BY <1>1, <1>2

\* xTaskPriorityDisinherit
LEMMA DisinheritReranks ==
  ASSUME NEW s, InPlace(s, {}), Listed(s, {}), NEW t \in Task
  PROVE  LET a == PriorityDisinherit(s, t)
         IN  /\ Reranks(a, s, t, IF Disinherits(s, t) THEN s.base[t] ELSE s.prio[t])
             /\ a.base = s.base
<1>1. PICK less : less = [s EXCEPT !.held[t] = @ - 1]
  OBVIOUS
<1>2. /\ Same(less, s, Lines \cup {"ready", "top", "cur", "yield"})
      /\ Where \subseteq DOMAIN less /\ Else \subseteq DOMAIN less
  BY <1>1, InLines DEF Same, Lines, Where, Else
<1>3. CASE Disinherits(s, t)
  <2>1. PICK b : b = [less EXCEPT !.item[t] = s.base[t]]
    OBVIOUS
  <2>2. /\ Same(b, s, (Lines \ {"base"}) \cup {"ready", "top", "cur", "yield"})
        /\ "base" \in DOMAIN b /\ b.base = s.base
    BY <1>2, <2>1 DEF Same, Lines, Where, Else
  <2>3. PriorityDisinherit(s, t) = MoveToPriority(b, t, s.base[t], s.prio[t])
    BY <1>1, <1>3, <2>1 DEF PriorityDisinherit
  <2> QED BY <1>3, <2>2, <2>3, MovedReranks
<1>4. CASE ~Disinherits(s, t)
  <2>1. Same(less, s, Lines) /\ less.cur = s.cur /\ less.yield = s.yield
    BY <1>2 DEF Same
  <2>2. Reranks(less, s, t, s.prio[t]) /\ less.base = s.base
    BY <2>1, StaysReranked
  <2> QED BY <1>1, <1>4, <2>2 DEF PriorityDisinherit
<1> QED BY <1>3, <1>4

\* xTaskPriorityDisinheritAfterTimeout
LEMMA LateReranks ==
  ASSUME NEW s, InPlace(s, {}), Listed(s, {}), NEW t \in Task, NEW highest,
         ~(s.base[t] < highest)
  PROVE  LET a == PriorityDisinheritAfterTimeout(s, t, highest)
         IN  /\ Reranks(a, s, t, IF s.prio[t] # s.base[t] /\ s.held[t] = 1 THEN s.base[t]
                                 ELSE s.prio[t])
             /\ a.base = s.base
<1>1. PICK p : p = s.base[t]
  OBVIOUS
<1>2. CASE s.prio[t] # p /\ s.held[t] = 1
  <2>1. PICK b : b = [s EXCEPT !.item[t] = p]
    OBVIOUS
  <2>2. /\ Same(b, s, (Lines \ {"base"}) \cup {"ready", "top", "cur", "yield"})
        /\ "base" \in DOMAIN b /\ b.base = s.base
    BY <2>1, InLines DEF Same, Lines, Where, Else
  <2>3. PriorityDisinheritAfterTimeout(s, t, highest) = MoveToPriority(b, t, p, p)
    BY <1>1, <1>2, <2>1 DEF PriorityDisinheritAfterTimeout
  <2> QED BY <1>1, <1>2, <2>2, <2>3, MovedReranks
<1>3. CASE ~(s.prio[t] # p /\ s.held[t] = 1)
  <2>1. Reranks(s, s, t, s.prio[t])
    BY StaysReranked, InLines DEF Same
  <2>2. PriorityDisinheritAfterTimeout(s, t, highest) = s
    BY <1>1, <1>3 DEF PriorityDisinheritAfterTimeout
  <2> QED BY <1>1, <1>3, <2>1, <2>2
<1> QED BY <1>2, <1>3

\* vTaskPrioritySet
LEMMA SetReranks ==
  ASSUME NEW s, InPlace(s, {}), Listed(s, {}), NEW t \in Task, NEW p
  PROVE  LET a == PrioritySet(s, t, p)
         IN  /\ Reranks(a, s, t, IF s.base[t] = s.prio[t] THEN p ELSE s.prio[t])
             /\ a.base = [s.base EXCEPT ![t] = p]
<1>1. CASE s.base[t] = p
  <2>1. Reranks(s, s, t, s.prio[t]) /\ s.base = [s.base EXCEPT ![t] = p]
    <3>1. s.base \in [Task -> Prio]
      BY DEF InPlace, Fit
    <3>2. s.base = [s.base EXCEPT ![t] = p]
      BY <1>1, <3>1
    <3> QED BY <3>2, StaysReranked, InLines DEF Same
  <2> QED BY <1>1, <2>1 DEF PrioritySet
<1>2. CASE s.base[t] # p
  <2>1. PICK new : new = IF s.base[t] = s.prio[t] THEN p ELSE s.prio[t]
    OBVIOUS
  <2>2. PICK b : b = [s EXCEPT !.base[t] = p, !.item[t] = p]
    OBVIOUS
  <2>3. /\ Same(b, s, (Lines \ {"base"}) \cup {"ready", "top", "cur", "yield"})
        /\ "base" \in DOMAIN b /\ b.base = [s.base EXCEPT ![t] = p]
    BY <2>2, InLines DEF Same, Lines, Where, Else
  <2>4. PrioritySet(s, t, p) = MoveToPriority(b, t, new, s.prio[t])
    BY <1>2, <2>1, <2>2 DEF PrioritySet
  <2> QED BY <2>1, <2>3, <2>4, MovedReranks
<1> QED BY <1>1, <1>2

\* A task that comes no further than the running one, or a running one that
\* falls no further back, is no matter.
LEMMA RerankedLed ==
  ASSUME NEW s, NEW a, NEW t \in Task, NEW x, InPlace(s, {}), Reranks(a, s, t, x), Led(s, {}),
         x \in Int,
         IF t = s.cur THEN x >= s.prio[t] ELSE x <= s.prio[t] \/ x <= s.prio[s.cur]
  PROVE  Led(a, {})
<1>1. CASE s.yield
  BY <1>1 DEF Led, Reranks
<1>2. CASE ~s.yield
  <2>1. s.prio \in [Task -> Int] /\ s.cur \in Task
    BY DEF InPlace, Tidy, Lists, Fit, Prio
  <2>2. /\ a.prio[t] = x /\ \A u \in Task : u # t => a.prio[u] = s.prio[u]
        /\ a.cur = s.cur /\ Away(a) = Away(s)
    BY <2>1 DEF Reranks
  <2>3. \A u \in Task \ Away(s) : s.prio[u] <= s.prio[s.cur]
    BY <1>2 DEF Led
  <2>4. ASSUME NEW u \in Task \ Away(a) PROVE a.prio[u] <= a.prio[a.cur]
    <3>1. s.prio[u] <= s.prio[s.cur] /\ s.prio[u] \in Int /\ s.prio[s.cur] \in Int /\ s.prio[t] \in Int
      BY <2>1, <2>2, <2>3
    <3>2. CASE t = s.cur
      <4>1. x >= s.prio[s.cur] /\ a.prio[a.cur] = x
        BY <2>2, <3>2
      <4>2. a.prio[u] = x \/ a.prio[u] = s.prio[u]
        BY <2>2
      <4> QED BY <3>1, <4>1, <4>2
    <3>3. CASE t # s.cur /\ u # t
      BY <2>1, <2>2, <3>1, <3>3
    <3>4. CASE t # s.cur /\ u = t
      <4>1. a.prio[u] = x /\ a.prio[a.cur] = s.prio[s.cur]
        BY <2>1, <2>2, <3>4
      <4>2. x <= s.prio[u] \/ x <= s.prio[s.cur]
        BY <3>4
      <4> QED BY <3>1, <4>1, <4>2
    <3> QED BY <3>2, <3>3, <3>4
  <2> QED BY <2>4 DEF Led
<1> QED BY <1>1, <1>2

-----------------------------------------------------------------------------
(* Where the tasks are while they are in front or behind.                   *)

\* The task goes on to its yield.
Leaving(p, l) ==
  p = "yield" \/ (l.block /\ p \in {"suspended", "unlockTx", "unlockRx", "resume"})

SoundRank(t, p, l) ==
  /\ p \in {"abort", "aborted"} => l.obj # t
  /\ p \in {"delay", "abort", "aborted", "sleep"} => ~QueueCall(l)
  /\ p = "delay" => l.block
  /\ QueueCall(l) /\ (p \in {"look", "inherit", "place"} \/ Leaving(p, l)) => l.next = "try"
  /\ p \in {"inherit", "disinherit"} \/ l.inherited => l.op = "lock"
  /\ l.next \in {"run", "try", "late"}

\* The running task is ready unless it goes on to its yield, who is in the
\* event list of a queue is in a call that waits there, and who waits for a
\* notification is in ulTaskNotifyTake.
Ranked ==
  /\ Listed(k, InHand) /\ Led(k, InHand)
  /\ k.cur \in Away(k) \cup InHand => Leaving(pc[k.cur], loc[k.cur])
  /\ \A l \in WaitLists : \A t \in ToSet(k.events[l]) : QueueCall(loc[t]) /\ l = WaitList(loc[t])
  /\ \A t \in Task : SoundRank(t, pc[t], loc[t])
  /\ \A t \in Awaiting(k) : pc[t] = "taken" /\ loc[t].op = "take"

\* A mutex is held by one of its users.  A priority that is no task's own is
\* that of another user of a mutex the task holds.
Lent(pr, ba, r, own) ==
  /\ \A m \in Mutex : r[m].holder # Nobody => m \in own[r[m].holder]
  /\ \A t \in Task : pr[t] # ba[t] =>
       /\ ba[t] < pr[t]
       /\ \E m \in Mutex, w \in Task : /\ w # t /\ r[m].holder = t /\ m \in own[w]
                                       /\ pr[t] = ba[w]

\* Who waits for a mutex waits for a holder that is not behind.
Waited(pr, ba, ev, r) ==
  \A m \in Mutex : \A w \in ToSet(ev[ToReceive(m)]) :
    r[m].holder # Nobody /\ pr[r[m].holder] >= ba[w]

\* Who wants a mutex is a user of it that does not hold it.
Wants(t, p, l, r, pr, own) ==
  l.op = "lock" => /\ l.obj \in own[t] /\ r[l.obj].holder # t
                   /\ p = "place" => r[l.obj].n = 0 /\ pr[r[l.obj].holder] >= pr[t]

Locking ==
  /\ Lent(k.prio, k.base, q, scenario.locks)
  /\ Waited(k.prio, k.base, k.events, q)
  /\ \A t \in Task : Wants(t, pc[t], loc[t], q, k.prio, scenario.locks)

\* The systems that lock plainly: a mutex has two users and a task one mutex,
\* and no user of a mutex is reprioritised.
Plain ==
  /\ ~Contended
  /\ \A t \in Task : \A m, n \in scenario.locks[t] : m = n
  /\ \A t, u \in Task : "target" \in scenario.does[t] /\ "reprioritise" \in scenario.does[u] =>
       scenario.locks[t] = {}

InFront == Ranked /\ Locking /\ Plain

LEMMA PrimedRanks ==
  ASSUME Listed(k', InHand'), Led(k', InHand') PROVE Listed(k, InHand)' /\ Led(k, InHand)'
  BY DEF Listed, Led, Away, WaitLists, EventList, Pending, ToSend, ToReceive, Once, InHand

LEMMA PrimedAway ==
  /\ Away(k)' = Away(k') /\ Awaiting(k)' = Awaiting(k')
  /\ \A t \in Task : SoundRank(t, pc'[t], loc'[t]) => SoundRank(t, pc[t], loc[t])'
  BY DEF Away, Awaiting, SoundRank, Leaving, QueueCall

LEMMA PlainStays == ASSUME Plain, scenario' = scenario PROVE Plain'
  BY DEF Plain, Contended

\* Nobody in hand, nobody in no list.
LEMMA RankedHere ==
  ASSUME Punctual, Orderly, Ranked, pc[k.cur] # "aborted"
  PROVE  /\ InHand = {} /\ InPlace(k, {}) /\ Listed(k, {}) /\ Led(k, {})
         /\ k.cur \in Away(k) => Leaving(pc[k.cur], Here)
         /\ k.cur \notin Away(k) \/ ~QueueCall(Here) => Unlisted(k, k.cur)
         /\ SoundRank(k.cur, pc[k.cur], Here) /\ k.cur \in Task
<1>1. InHand = {} /\ InPlace(k, {}) /\ k.cur \in Task
  BY NobodyAborted, HereIsOrderly
<1>2. Listed(k, {}) /\ Led(k, {}) /\ (k.cur \in Away(k) => Leaving(pc[k.cur], Here))
  BY <1>1 DEF Ranked, Here
<1>3. k.cur \notin Away(k) => Unlisted(k, k.cur)
  BY <1>2 DEF Listed, Unlisted
<1>4. ~QueueCall(Here) => Unlisted(k, k.cur)
  BY DEF Ranked, Unlisted, Here
<1> QED BY <1>1, <1>2, <1>3, <1>4 DEF Ranked, Here

LEMMA GotoIsRanked ==
  ASSUME Punctual, Orderly, Ranked, NEW s, NEW p, NEW l, Goto(s, p, l),
         NEW H, H = (IF p = "aborted" THEN {l.obj} ELSE {}),
         InPlace(s, H), Listed(s, H), Led(s, H),
         s.cur = k.cur \/ s.cur \notin Away(s) \cup H,
         k.cur \in Away(s) \cup H => s.cur # k.cur \/ (p # "run" /\ Leaving(p, l)),
         \A m \in WaitLists : \A t \in ToSet(s.events[m]) :
           IF t = k.cur THEN p # "run" /\ QueueCall(l) /\ m = WaitList(l)
                        ELSE t \in ToSet(k.events[m]),
         \A t \in Awaiting(s) : IF t = k.cur THEN p = "taken" /\ l.op = "take"
                                             ELSE t \in Awaiting(k),
         p = "run" \/ SoundRank(k.cur, p, l)
  PROVE  Ranked'
<1>1. /\ k' = (IF p = "run" THEN Forget(s, k.cur) ELSE s)
      /\ pc' = [pc EXCEPT ![k.cur] = p]
      /\ loc' = [loc EXCEPT ![k.cur] = IF p = "run" THEN NoCall ELSE l]
  BY DEF Goto
<1>2. PICK c \in Task : c = k.cur
  BY DEF Orderly, InPlace, Fit
<1>3. SoundRank(c, "run", NoCall)
  BY DEF SoundRank, NoCall, QueueCall, Leaving
<1>4. PICK m : /\ m = (IF p = "run" THEN NoCall ELSE l) /\ SoundRank(c, p, m)
               /\ p # "run" => m = l
  BY <1>2, <1>3
<1>5. /\ pc'[c] = p /\ loc'[c] = m
      /\ \A t \in Task : t # c => pc'[t] = pc[t] /\ loc'[t] = loc[t]
  BY <1>1, <1>2, <1>4 DEF Orderly, SoundPlaces
<1>6. \A t \in Task : t # c => pc[t] # "aborted"
  BY <1>2 DEF Punctual, Suspension, Inside
<1>7. InHand' = H
  <2>1. {t \in Task : pc'[t] = "aborted"} = IF p = "aborted" THEN {c} ELSE {}
    BY <1>5, <1>6
  <2>2. p = "aborted" => loc'[c] = l
    BY <1>4, <1>5
  <2>3. InHand' = {loc'[t].obj : t \in {u \in Task : pc'[u] = "aborted"}}
    BY DEF InHand
  <2> QED BY <2>1, <2>2, <2>3
<1>8. Same(k', s, Lines) /\ k'.cur = s.cur /\ k'.yield = s.yield
  <2>1. Lines \subseteq DOMAIN s
    BY InLines
  <2> QED BY <1>1, <2>1 DEF Forget, Same, Lines
<1>9. Ranks(k', s, H) /\ Away(k') = Away(s) /\ Awaiting(k') = Awaiting(s)
  <2>1. Ranks(k', s, H) /\ Away(k') = Away(s)
    BY <1>8, SameRanks, SameWakes
  <2>2. k'.nstate = s.nstate
    BY <1>8 DEF Same, Lines
  <2> QED BY <2>1, <2>2 DEF Awaiting
<1>10. Listed(k', H) /\ Led(k', H) /\ k'.events = s.events
  BY <1>8, <1>9 DEF Ranks, Wakes, Same, Lines
<1>11. Listed(k, InHand)' /\ Led(k, InHand)'
  BY <1>7, <1>10, PrimedRanks
<1>12. k'.cur \in Away(k') \cup InHand' => Leaving(pc'[k'.cur], loc'[k'.cur])
  BY <1>2, <1>4, <1>5, <1>7, <1>8, <1>9
<1>13. ASSUME NEW x \in WaitLists, NEW t \in ToSet(k'.events[x])
       PROVE  QueueCall(loc'[t]) /\ x = WaitList(loc'[t])
  <2>1. CASE t = c
    BY <1>2, <1>4, <1>5, <1>10, <1>13, <2>1
  <2>2. CASE t # c
    <3>1. t \in ToSet(k.events[x]) /\ t \in ToSet(s.events[x])
      BY <1>2, <1>10, <1>13, <2>2
    <3>2. t \in Task
      <4>1. PICK e \in Seq(Others) : e = s.events[x]
        BY <1>13 DEF WaitLists, InPlace, Fit
      <4> QED BY <3>1, <4>1, ListMembers DEF Others
    <3> QED BY <1>5, <2>2, <3>1, <3>2 DEF Ranked
  <2> QED BY <2>1, <2>2
<1>14. ASSUME NEW t \in Task PROVE SoundRank(t, pc'[t], loc'[t])
  BY <1>2, <1>4, <1>5 DEF Ranked
<1>15. ASSUME NEW t \in Awaiting(k') PROVE pc'[t] = "taken" /\ loc'[t].op = "take"
  <2>1. t \in Task
    BY DEF Awaiting
  <2>2. t \in Awaiting(s)
    BY <1>9
  <2>3. CASE t = c
    BY <1>2, <1>4, <1>5, <2>2, <2>3
  <2>4. CASE t # c
    BY <1>2, <1>5, <2>1, <2>2, <2>4 DEF Ranked
  <2> QED BY <2>3, <2>4
<1> QED BY <1>11, <1>12, <1>13, <1>14, <1>15, PrimedAway
    DEF Ranked, WaitLists, EventList, Pending, ToSend, ToReceive, QueueCall, WaitList, Leaving

LEMMA HandlerIsRanked ==
  ASSUME Orderly, Ranked, NEW s, Handler(s), InPlace(s, InHand), Ranks(s, k, InHand)
  PROVE  Ranked'
<1>1. k' = s /\ pc' = pc /\ loc' = loc
  BY DEF Handler
<1>2. InHand' = InHand
  BY <1>1 DEF InHand
<1>3. Listed(s, InHand) /\ Led(s, InHand)
  BY DEF Ranked, Ranks, Wakes
<1>4. Listed(k, InHand)' /\ Led(k, InHand)'
  BY <1>1, <1>2, <1>3, PrimedRanks
<1>5. k'.cur \in Away(k') \cup InHand' => Leaving(pc'[k'.cur], loc'[k'.cur])
  <2>1. Away(s) \subseteq Away(k) /\ (s.cur = k.cur \/ s.cur \notin Away(s) \cup InHand)
    BY DEF Ranks, Wakes
  <2> QED BY <1>1, <1>2, <2>1 DEF Ranked
<1>6. \A x \in WaitLists : \A t \in ToSet(k'.events[x]) :
        QueueCall(loc'[t]) /\ x = WaitList(loc'[t])
  BY <1>1 DEF Ranked, Ranks, Wakes
<1>7. \A t \in Task : SoundRank(t, pc'[t], loc'[t])
  BY <1>1 DEF Ranked
<1>8. \A t \in Awaiting(k') : pc'[t] = "taken" /\ loc'[t].op = "take"
  BY <1>1 DEF Ranked, Ranks, Wakes
<1> QED BY <1>4, <1>5, <1>6, <1>7, <1>8, PrimedAway
    DEF Ranked, WaitLists, EventList, Pending, ToSend, ToReceive, QueueCall, WaitList, Leaving

-----------------------------------------------------------------------------
(* Who holds what while nothing is locked or given back.                    *)

LEMMA PrimedLocking ==
  ASSUME Lent(k'.prio, k'.base, q', scenario'.locks),
         Waited(k'.prio, k'.base, k'.events, q'),
         \A t \in Task : Wants(t, pc'[t], loc'[t], q', k'.prio, scenario'.locks)
  PROVE  Locking'
  BY DEF Locking, Lent, Waited, Wants, ToReceive, Nobody

LEMMA WaitListsExist ==
  ASSUME NEW qu \in Queue PROVE ToSend(qu) \in WaitLists /\ ToReceive(qu) \in WaitLists
  BY DEF WaitLists, EventList, ToSend, ToReceive, Pending

\* The users of the mutexes.
LEMMA UsersLock ==
  ASSUME Punctual
  PROVE  \A t \in Task : scenario.locks[t] \subseteq Mutex /\ scenario.locks[t] \subseteq Queue
  BY ScenarioAssumption, QueueAssumption DEF Punctual

LEMMA LockingStays ==
  ASSUME Punctual, Locking, NEW c \in Task, scenario' = scenario,
         k'.prio = k.prio, k'.base = k.base,
         \A m \in WaitLists : ToSet(k'.events[m]) \subseteq ToSet(k.events[m]),
         \A m \in Mutex : q'[m].holder = q[m].holder /\ q'[m].n = q[m].n,
         \A t \in Task : t # c => pc'[t] = pc[t] /\ loc'[t] = loc[t],
         Wants(c, pc'[c], loc'[c], q, k.prio, scenario.locks)
  PROVE  Locking'
<1>1. Lent(k'.prio, k'.base, q', scenario'.locks)
  <2>1. ASSUME NEW t \in Task, k.prio[t] # k.base[t]
        PROVE  /\ k.base[t] < k.prio[t]
               /\ \E m \in Mutex, w \in Task : /\ w # t /\ q'[m].holder = t
                                               /\ m \in scenario.locks[w]
                                               /\ k.prio[t] = k.base[w]
    <3>1. PICK m \in Mutex, w \in Task : /\ w # t /\ q[m].holder = t
                                         /\ m \in scenario.locks[w]
                                         /\ k.prio[t] = k.base[w]
      BY <2>1 DEF Locking, Lent
    <3> QED BY <2>1, <3>1 DEF Locking, Lent
  <2>2. \A m \in Mutex : q'[m].holder # Nobody => m \in scenario.locks[q'[m].holder]
    BY DEF Locking, Lent
  <2> QED BY <2>1, <2>2 DEF Lent
<1>2. Waited(k'.prio, k'.base, k'.events, q')
  <2>1. \A m \in Mutex : ToReceive(m) \in WaitLists
    BY QueueAssumption, WaitListsExist
  <2> QED BY <2>1 DEF Locking, Waited
<1>3. ASSUME NEW t \in Task PROVE Wants(t, pc'[t], loc'[t], q', k'.prio, scenario'.locks)
  <2>1. Wants(t, pc'[t], loc'[t], q, k.prio, scenario.locks)
    BY DEF Locking
  <2>2. scenario.locks[t] \subseteq Mutex
    BY UsersLock
  <2> QED BY <2>1, <2>2 DEF Wants
<1> QED BY <1>1, <1>2, <1>3, PrimedLocking

KeepsMutexes == \A m \in Mutex : q'[m].holder = q[m].holder /\ q'[m].n = q[m].n

\* What Goto leaves of the kernel.
LEMMA GotoStays ==
  ASSUME Punctual, Orderly, NEW s, NEW p, NEW l, Goto(s, p, l), Lines \subseteq DOMAIN s
  PROVE  /\ k'.prio = s.prio /\ k'.base = s.base /\ k'.events = s.events
         /\ scenario' = scenario
         /\ pc'[k.cur] = p /\ loc'[k.cur] = IF p = "run" THEN NoCall ELSE l
         /\ \A t \in Task : t # k.cur => pc'[t] = pc[t] /\ loc'[t] = loc[t]
<1>1. k.cur \in Task /\ DOMAIN pc = Task /\ DOMAIN loc = Task
  BY DEF Orderly, InPlace, Fit, SoundPlaces
<1> QED BY <1>1 DEF Goto, Forget, Lines

LEMMA StepIsInFront ==
  ASSUME Punctual, Orderly, InFront, NEW s, NEW p, NEW l, Goto(s, p, l),
         pc[k.cur] \notin {"aborted", "taken"}, p # "aborted", KeepsMutexes,
         InPlace(s, {}), Ranks(s, k, {}),
         k.cur \in Away(s) => s.cur # k.cur \/ (p # "run" /\ Leaving(p, l)),
         \/ k.cur \notin Away(k) \/ ~QueueCall(Here)
         \/ p # "run" /\ QueueCall(l) /\ WaitList(l) = WaitList(Here),
         \/ p = "run"
         \/ SoundRank(k.cur, p, l) /\ Wants(k.cur, p, l, q, k.prio, scenario.locks)
  PROVE  InFront'
<1>1. Ranked /\ Locking /\ Plain
  BY DEF InFront
<1>2. /\ InHand = {} /\ InPlace(k, {}) /\ Listed(k, {}) /\ Led(k, {}) /\ k.cur \in Task
      /\ k.cur \notin Away(k) \/ ~QueueCall(Here) => Unlisted(k, k.cur)
  BY <1>1, RankedHere
<1>3. /\ Listed(s, {}) /\ Led(s, {}) /\ Away(s) \subseteq Away(k) /\ Awaiting(s) \subseteq Awaiting(k)
      /\ \A m \in WaitLists : ToSet(s.events[m]) \subseteq ToSet(k.events[m])
      /\ s.prio = k.prio /\ s.base = k.base
      /\ s.cur = k.cur \/ s.cur \notin Away(s)
  BY <1>2 DEF Ranks, Wakes
<1>4. ASSUME NEW m \in WaitLists, NEW t \in ToSet(s.events[m])
      PROVE  IF t = k.cur THEN p # "run" /\ QueueCall(l) /\ m = WaitList(l)
                          ELSE t \in ToSet(k.events[m])
  <2>1. t \in ToSet(k.events[m])
    BY <1>3
  <2>2. ASSUME t = k.cur PROVE p # "run" /\ QueueCall(l) /\ m = WaitList(l)
    <3>1. ~Unlisted(k, k.cur)
      BY <2>1, <2>2 DEF Unlisted
    <3>2. p # "run" /\ QueueCall(l) /\ WaitList(l) = WaitList(Here)
      BY <1>2, <3>1
    <3>3. m = WaitList(Here)
      BY <1>1, <2>1, <2>2 DEF Ranked, Here
    <3> QED BY <3>2, <3>3
  <2> QED BY <2>1, <2>2
<1>5. \A t \in Awaiting(s) : IF t = k.cur THEN p = "taken" /\ l.op = "take" ELSE t \in Awaiting(k)
  BY <1>1, <1>3 DEF Ranked
<1>6. Ranked'
  <2>1. PICK H : H = {} /\ H = IF p = "aborted" THEN {l.obj} ELSE {}
    OBVIOUS
  <2>2. /\ InPlace(s, H) /\ Listed(s, H) /\ Led(s, H)
        /\ s.cur = k.cur \/ s.cur \notin Away(s) \cup H
        /\ k.cur \in Away(s) \cup H => s.cur # k.cur \/ (p # "run" /\ Leaving(p, l))
    BY <1>3, <2>1
  <2>3. p = "run" \/ SoundRank(k.cur, p, l)
    OBVIOUS
  <2> QED BY <1>1, <1>4, <1>5, <2>1, <2>2, <2>3, GotoIsRanked
<1>7. Lines \subseteq DOMAIN s
  BY <1>3, InLines
<1>8. /\ k'.prio = k.prio /\ k'.base = k.base /\ k'.events = s.events /\ scenario' = scenario
      /\ pc'[k.cur] = p /\ loc'[k.cur] = IF p = "run" THEN NoCall ELSE l
      /\ \A t \in Task : t # k.cur => pc'[t] = pc[t] /\ loc'[t] = loc[t]
  BY <1>3, <1>7, GotoStays
<1>9. Wants(k.cur, "run", NoCall, q, k.prio, scenario.locks)
  BY DEF Wants, NoCall
<1>10. Locking'
  BY <1>1, <1>2, <1>3, <1>8, <1>9, LockingStays DEF KeepsMutexes
<1> QED BY <1>1, <1>6, <1>8, <1>10, PlainStays DEF InFront

\* The running task is awake.
LEMMA AwakeIsInFront ==
  ASSUME Punctual, Orderly, InFront, NEW s, NEW p, NEW l, Goto(s, p, l),
         ~Leaving(pc[k.cur], Here),
         pc[k.cur] \notin {"aborted", "taken"}, p # "aborted", KeepsMutexes,
         InPlace(s, {}), Ranks(s, k, {}),
         \/ p = "run"
         \/ SoundRank(k.cur, p, l) /\ Wants(k.cur, p, l, q, k.prio, scenario.locks)
  PROVE  InFront'
<1>1. k.cur \notin Away(k)
  BY RankedHere DEF InFront
<1>2. Away(s) \subseteq Away(k)
  BY DEF Ranks, Wakes
<1> QED BY <1>1, <1>2, StepIsInFront

LEMMA HandlerIsInFront ==
  ASSUME Punctual, Orderly, InFront, NEW s, Handler(s), InPlace(s, InHand), Ranks(s, k, InHand),
         KeepsMutexes
  PROVE  InFront'
<1>1. k' = s /\ pc' = pc /\ loc' = loc /\ scenario' = scenario /\ k.cur \in Task
  BY HereIsOrderly DEF Handler
<1>2. /\ s.prio = k.prio /\ s.base = k.base
      /\ \A m \in WaitLists : ToSet(s.events[m]) \subseteq ToSet(k.events[m])
  BY DEF Ranks, Wakes
<1>3. Ranked'
  BY HandlerIsRanked DEF InFront
<1>4. Wants(k.cur, pc[k.cur], loc[k.cur], q, k.prio, scenario.locks)
  BY <1>1 DEF InFront, Locking
<1>5. Locking'
  BY <1>1, <1>2, <1>4, LockingStays DEF KeepsMutexes, InFront
<1> QED BY <1>1, <1>3, <1>5, PlainStays DEF InFront

-----------------------------------------------------------------------------
(* The steps without a queue.                                               *)

\* The task goes on with the locals it has.
LEMMA GoesOn ==
  ASSUME Ranked, Locking, k.cur \in Task, NEW p,
         p \notin {"abort", "aborted", "delay", "sleep", "inherit", "disinherit", "place", "look"},
         QueueCall(Here) /\ Leaving(p, Here) => Here.next = "try"
  PROVE  SoundRank(k.cur, p, Here) /\ Wants(k.cur, p, Here, q, k.prio, scenario.locks)
<1>1. SoundRank(k.cur, pc[k.cur], Here)
  BY DEF Ranked, Here
<1>2. SoundRank(k.cur, p, Here)
  BY <1>1 DEF SoundRank
<1>3. Wants(k.cur, pc[k.cur], Here, q, k.prio, scenario.locks)
  BY DEF Locking, Here
<1> QED BY <1>2, <1>3 DEF Wants

LEMMA MutexesStay == ASSUME q' = q PROVE KeepsMutexes
<1>1. ASSUME NEW m \in Mutex PROVE q'[m].holder = q[m].holder /\ q'[m].n = q[m].n
  OBVIOUS
<1> QED BY <1>1 DEF KeepsMutexes

LEMMA SuspendRanks ==
  ASSUME NEW s, NEW H, InPlace(s, H), Listed(s, H)
  PROVE  Ranks(SuspendAll(s), s, H) /\ SuspendAll(s).cur = s.cur
<1>1. PICK a : a = SuspendAll(s)
  OBVIOUS
<1>2. Same(a, s, Lines) /\ a.cur = s.cur /\ a.yield = s.yield
  BY <1>1, InLines DEF SuspendAll, Same, Lines, Where, Else
<1> QED BY <1>1, <1>2, SameRanks

LEMMA NotifiedRanks ==
  ASSUME NEW s, NEW H, InPlace(s, H), Listed(s, H), NEW t \in Task
  PROVE  LET a == Notified(s, t)
         IN  /\ Ranks(a, s, H) /\ Away(a) = Away(s) /\ a.events = s.events
             /\ a.cur = s.cur /\ a.yield = s.yield
<1>1. PICK a : a = Notified(s, t)
  OBVIOUS
<1>2. /\ a.delayed = s.delayed /\ a.overflow = s.overflow /\ a.suspended = s.suspended
      /\ a.events = s.events /\ a.prio = s.prio /\ a.base = s.base
      /\ a.cur = s.cur /\ a.yield = s.yield
      /\ a.nstate = [s.nstate EXCEPT ![t] = "received"] /\ "nstate" \in DOMAIN a
  BY <1>1, InLines DEF Notified, Lines, Where, Else
<1>3. DOMAIN s.nstate = Task
  BY DEF Listed
<1>4. Away(a) = Away(s) /\ Awaiting(a) \subseteq Awaiting(s)
  BY <1>2, <1>3 DEF Away, Awaiting
<1>5. Listed(a, H)
  BY <1>2, <1>3, <1>4 DEF Listed
<1>6. Wakes(a, s, H)
  BY <1>2, <1>4, <1>5 DEF Wakes
<1>7. Led(s, H) => Led(a, H)
  BY <1>2, <1>4 DEF Led
<1> QED BY <1>1, <1>2, <1>4, <1>6, <1>7 DEF Ranks

LEMMA PendingRanks ==
  ASSUME NEW s, NEW H, InPlace(s, H), Listed(s, H), NEW t
  PROVE  LET a == [s EXCEPT !.events[Pending] = Append(@, t)]
         IN  /\ Ranks(a, s, H) /\ Away(a) = Away(s) /\ a.cur = s.cur /\ a.yield = s.yield
<1>1. PICK a : a = [s EXCEPT !.events[Pending] = Append(@, t)]
  OBVIOUS
<1>2. /\ a.delayed = s.delayed /\ a.overflow = s.overflow /\ a.suspended = s.suspended
      /\ a.prio = s.prio /\ a.base = s.base /\ a.nstate = s.nstate /\ "nstate" \in DOMAIN a
      /\ a.cur = s.cur /\ a.yield = s.yield
      /\ a.events = [s.events EXCEPT ![Pending] = Append(@, t)]
  BY <1>1, InLines DEF Lines, Where, Else
<1>3. \A m \in WaitLists : a.events[m] = s.events[m]
  BY <1>2 DEF WaitLists, InPlace, Fit
<1>4. Away(a) = Away(s) /\ Awaiting(a) = Awaiting(s)
  BY <1>2 DEF Away, Awaiting
<1>5. Listed(a, H)
  BY <1>2, <1>3, <1>4 DEF Listed
<1>6. Wakes(a, s, H)
  BY <1>2, <1>3, <1>4, <1>5 DEF Wakes
<1>7. Led(s, H) => Led(a, H)
  BY <1>2, <1>4 DEF Led
<1> QED BY <1>1, <1>2, <1>4, <1>6, <1>7 DEF Ranks

\* A task is woken, and a switch made where it is not behind.
LEMMA SwitchRanks ==
  ASSUME NEW s, NEW a, NEW H, InPlace(a, H), Wakes(a, s, H), a.cur = s.cur, NEW cond,
         ~cond /\ Led(s, H) => Led(a, H)
  PROVE  Ranks(YieldIf(cond, a), s, H) /\ InPlace(YieldIf(cond, a), H)
<1>1. PICK c : c = cond
  OBVIOUS
<1>2. Listed(a, H)
  BY DEF Wakes
<1>3. PICK z : z = YieldIf(c, a) /\ Ranks(z, a, H) /\ (c \/ Led(a, H) => Led(z, H)) /\ InPlace(z, H)
  BY <1>2, YieldRanks, SwitchIsOnward DEF Onward
<1>4. Wakes(z, s, H)
  BY <1>3, WakesTwice DEF Ranks
<1> QED BY <1>1, <1>3, <1>4 DEF Ranks

\* A woken task that is not in front of the running one is no matter.
LEMMA WokenLed ==
  ASSUME NEW s, NEW a, NEW H, NEW t, InPlace(s, H), Wakes(a, s, H), Away(a) = Away(s) \ {t},
         a.cur = s.cur, a.yield = s.yield, s.prio[t] <= s.prio[s.cur], Led(s, H)
  PROVE  Led(a, H)
  BY LedOn DEF Wakes

LEMMA RanksAreInt ==
  ASSUME NEW s, NEW H, InPlace(s, H), NEW t \in Task
  PROVE  s.prio[t] \in Int /\ s.prio[s.cur] \in Int /\ s.cur \in Task
  BY DEF InPlace, Tidy, Lists, Fit, Prio

\* A step that also takes tasks out of the ready lists.
LEMMA GotoIsInFront ==
  ASSUME Punctual, Orderly, InFront, NEW s, NEW p, NEW l, Goto(s, p, l), KeepsMutexes,
         NEW H, H = (IF p = "aborted" THEN {l.obj} ELSE {}),
         InPlace(s, H), Listed(s, H), Led(s, H), Lines \subseteq DOMAIN s,
         s.prio = k.prio, s.base = k.base,
         s.cur = k.cur \/ s.cur \notin Away(s) \cup H,
         k.cur \in Away(s) \cup H => s.cur # k.cur \/ (p # "run" /\ Leaving(p, l)),
         \A m \in WaitLists : /\ ToSet(s.events[m]) \subseteq ToSet(k.events[m])
                              /\ k.cur \notin ToSet(s.events[m]),
         \A t \in Awaiting(s) : IF t = k.cur THEN p = "taken" /\ l.op = "take"
                                             ELSE t \in Awaiting(k),
         \/ p = "run"
         \/ SoundRank(k.cur, p, l) /\ Wants(k.cur, p, l, q, k.prio, scenario.locks)
  PROVE  InFront'
<1>1. Ranked /\ Locking /\ Plain /\ k.cur \in Task
  BY HereIsOrderly DEF InFront
<1>2. \A m \in WaitLists : \A t \in ToSet(s.events[m]) : t # k.cur /\ t \in ToSet(k.events[m])
  OBVIOUS
<1>3. Ranked'
  <2>1. \A m \in WaitLists : \A t \in ToSet(s.events[m]) :
          IF t = k.cur THEN p # "run" /\ QueueCall(l) /\ m = WaitList(l)
                       ELSE t \in ToSet(k.events[m])
    BY <1>2
  <2>2. p = "run" \/ SoundRank(k.cur, p, l)
    OBVIOUS
  <2> QED BY <1>1, <2>1, <2>2, GotoIsRanked
<1>4. /\ k'.prio = k.prio /\ k'.base = k.base /\ k'.events = s.events /\ scenario' = scenario
      /\ pc'[k.cur] = p /\ loc'[k.cur] = IF p = "run" THEN NoCall ELSE l
      /\ \A t \in Task : t # k.cur => pc'[t] = pc[t] /\ loc'[t] = loc[t]
  BY GotoStays
<1>5. Wants(k.cur, "run", NoCall, q, k.prio, scenario.locks)
  BY DEF Wants, NoCall
<1>6. Locking'
  BY <1>1, <1>4, <1>5, LockingStays DEF KeepsMutexes
<1> QED BY <1>1, <1>3, <1>4, <1>6, PlainStays DEF InFront

\* Where a call begins the task is ready.
LEMMA CallersAreAwake ==
  ASSUME Punctual, Orderly, InFront, pc[k.cur] \in {"run", "delay", "abort", "idle", "sleep", "taken"}
  PROVE  /\ InPlace(k, {}) /\ Listed(k, {}) /\ Led(k, {}) /\ k.cur \in Task
         /\ Lines \subseteq DOMAIN k /\ Ranks(k, k, {})
         /\ ~Leaving(pc[k.cur], Here) /\ k.cur \notin Away(k) /\ Unlisted(k, k.cur)
         /\ Ranked /\ Locking /\ SoundRank(k.cur, pc[k.cur], Here)
         /\ pc[k.cur] # "taken" => k.cur \notin Awaiting(k)
<1>1. Ranked /\ Locking /\ ~Leaving(pc[k.cur], Here)
  BY DEF InFront, Leaving
<1>2. /\ InPlace(k, {}) /\ Listed(k, {}) /\ Led(k, {}) /\ k.cur \in Task
      /\ k.cur \notin Away(k) /\ Unlisted(k, k.cur) /\ SoundRank(k.cur, pc[k.cur], Here)
  BY <1>1, RankedHere
<1>3. Lines \subseteq DOMAIN k /\ Ranks(k, k, {})
  BY <1>2, InLines, StaysThere
<1>4. pc[k.cur] # "taken" => k.cur \notin Awaiting(k)
  BY <1>1 DEF Ranked
<1> QED BY <1>1, <1>2, <1>3, <1>4

LEMMA ResumingIsInFront ==
  ASSUME Punctual, Orderly, InFront, ResumeScheduler, q' = q PROVE InFront'
<1>1. PICK s : s = ResumeAll(k)
  OBVIOUS
<1>2. PICK p : p = IF Here.block /\ ~AlreadyYielded(k) THEN "yield" ELSE Here.next
  OBVIOUS
<1>3. Goto(s, p, Here) /\ pc[k.cur] = "resume"
  BY <1>1, <1>2 DEF ResumeScheduler, At
<1>4. Ranked /\ Locking /\ k.susp = 1
  BY <1>3, HereIsOrderly DEF Punctual, Suspension, Inside, InFront
<1>5. /\ InPlace(k, {}) /\ Listed(k, {}) /\ (k.cur \in Away(k) => Leaving(pc[k.cur], Here))
      /\ SoundRank(k.cur, pc[k.cur], Here) /\ k.cur \in Task
  BY <1>3, <1>4, RankedHere
<1>6. /\ Ranks(s, k, {}) /\ InPlace(s, {})
      /\ IF AlreadyYielded(k) THEN s.cur \notin Away(s) ELSE s.cur = k.cur
  BY <1>1, <1>4, <1>5, ResumeAllRanks
<1>7. Away(s) \subseteq Away(k)
  BY <1>6 DEF Ranks, Wakes
<1>8. k.cur \in Away(k) => Here.block /\ (QueueCall(Here) => Here.next = "try")
  BY <1>3, <1>5 DEF Leaving, SoundRank
<1>9. p \in {"yield", "run", "try", "late"} /\ (p = "yield" => Here.block \/ Here.next = "yield")
  BY <1>2, <1>5 DEF SoundRank
<1>10. QueueCall(Here) /\ Leaving(p, Here) => Here.next = "try"
  BY <1>3, <1>5, <1>9 DEF SoundRank, Leaving
<1>11. SoundRank(k.cur, p, Here) /\ Wants(k.cur, p, Here, q, k.prio, scenario.locks)
  BY <1>4, <1>5, <1>9, <1>10, GoesOn
<1>12. k.cur \in Away(s) => s.cur # k.cur \/ (p # "run" /\ Leaving(p, Here))
  <2>1. ASSUME k.cur \in Away(s), s.cur = k.cur PROVE p = "yield"
    BY <1>2, <1>6, <1>7, <1>8, <2>1
  <2> QED BY <2>1 DEF Leaving
<1>13. \/ k.cur \notin Away(k) \/ ~QueueCall(Here)
       \/ p # "run" /\ QueueCall(Here) /\ WaitList(Here) = WaitList(Here)
  BY <1>2, <1>8
<1>14. KeepsMutexes
  BY MutexesStay
<1> QED BY <1>3, <1>6, <1>9, <1>11, <1>12, <1>13, <1>14, StepIsInFront

LEMMA YieldingIsInFront ==
  ASSUME Punctual, Orderly, InFront, Yield, q' = q PROVE InFront'
<1>1. PICK s : s = SwitchContext(k)
  OBVIOUS
<1>2. PICK p : p = Here.next
  OBVIOUS
<1>3. Goto(s, p, Here) /\ pc[k.cur] = "yield"
  BY <1>1, <1>2 DEF Yield, At
<1>4. Ranked /\ Locking /\ k.susp = 0
  BY <1>3, HereIsOrderly DEF Punctual, Suspension, Inside, InFront
<1>5. /\ InPlace(k, {}) /\ Listed(k, {})
      /\ SoundRank(k.cur, pc[k.cur], Here) /\ k.cur \in Task
  BY <1>3, <1>4, RankedHere
<1>6. Ranks(s, k, {}) /\ InPlace(s, {}) /\ s.cur \notin Away(s)
  <2>1. InPlace(s, {})
    BY <1>1, <1>5, SwitchIsOnward DEF Onward
  <2> QED BY <1>1, <1>4, <1>5, <2>1, ContextRanks DEF Ranks
<1>7. p \in {"run", "try", "late"} /\ (QueueCall(Here) => p = "try")
  BY <1>2, <1>3, <1>5 DEF SoundRank, Leaving
<1>8. SoundRank(k.cur, p, Here) /\ Wants(k.cur, p, Here, q, k.prio, scenario.locks)
  BY <1>2, <1>4, <1>5, <1>7, GoesOn
<1>9. KeepsMutexes
  BY MutexesStay
<1> QED BY <1>3, <1>6, <1>7, <1>8, <1>9, StepIsInFront

\* The locals of a call that is no queue's.
LEMMA PlainCallRanks ==
  ASSUME NEW t, NEW p, NEW l, l.op \notin {"lock", "send", "receive", "peek"}, l.next = "run",
         ~l.inherited, p \notin {"inherit", "disinherit"},
         p \in {"abort", "aborted"} => l.obj # t, p = "delay" => l.block,
         NEW r, NEW pr, NEW own
  PROVE  SoundRank(t, p, l) /\ Wants(t, p, l, r, pr, own) /\ ~QueueCall(l)
  BY DEF SoundRank, Wants, QueueCall

LEMMA StartDelayIsInFront ==
  ASSUME Punctual, Orderly, InFront, StartDelay, q' = q PROVE InFront'
<1>1. PICK n \in scenario.delays :
        IF n = 0 THEN Goto(SwitchContext(k), "run", NoCall)
        ELSE Goto(SuspendAll(k), "delay",
                  [NoCall EXCEPT !.op = "delay", !.wait = n, !.block = TRUE])
  BY DEF StartDelay
<1>2. pc[k.cur] = "run"
  BY DEF StartDelay, Calls, At
<1>3. /\ InPlace(k, {}) /\ Listed(k, {}) /\ Led(k, {}) /\ ~Leaving(pc[k.cur], Here)
      /\ k.cur \in Task
  BY <1>2, CallersAreAwake
<1>4. KeepsMutexes
  BY MutexesStay
<1>5. CASE n = 0
  <2>1. PICK s : s = SwitchContext(k) /\ InPlace(s, {}) /\ Ranks(s, k, {})
    BY <1>3, SwitchIsOnward, ContextRanks DEF Onward, Ranks
  <2>2. Goto(s, "run", NoCall)
    BY <1>1, <1>5, <2>1
  <2> QED BY <1>2, <1>3, <1>4, <2>1, <2>2, AwakeIsInFront
<1>6. CASE n # 0
  <2>1. PICK l : l = [NoCall EXCEPT !.op = "delay", !.wait = n, !.block = TRUE]
    OBVIOUS
  <2>2. l.op = "delay" /\ l.next = "run" /\ ~l.inherited /\ l.block
    BY <2>1 DEF NoCall
  <2>3. PICK s : s = SuspendAll(k) /\ InPlace(s, {}) /\ Ranks(s, k, {})
    BY <1>3, SuspendIsInPlace, SuspendRanks
  <2>4. Goto(s, "delay", l)
    BY <1>1, <1>6, <2>1, <2>3
  <2>5. SoundRank(k.cur, "delay", l) /\ Wants(k.cur, "delay", l, q, k.prio, scenario.locks)
    BY <2>2, PlainCallRanks
  <2> QED BY <1>2, <1>3, <1>4, <2>3, <2>4, <2>5, AwakeIsInFront
<1> QED BY <1>5, <1>6

LEMMA DelayIsInFront ==
  ASSUME Punctual, Orderly, InFront, Delay, q' = q PROVE InFront'
<1>1. pc[k.cur] = "delay" /\ k.cur \in Others
  BY HereIsOrderly DEF Delay, At
<1>2. /\ InPlace(k, {}) /\ Listed(k, {}) /\ Led(k, {}) /\ Unlisted(k, k.cur) /\ k.cur \in Task
      /\ k.cur \notin Awaiting(k) /\ Lines \subseteq DOMAIN k /\ Ranked /\ Locking
      /\ SoundRank(k.cur, "delay", Here)
  BY <1>1, CallersAreAwake
<1>3. Listed(k, {k.cur})
  BY <1>2 DEF Listed
<1>4. PICK s : /\ s = AddCurrentTaskToDelayedList(k, Here.wait, FALSE) /\ InPlace(s, {})
               /\ Leaves(s, k) /\ s.events = k.events /\ Lines \subseteq DOMAIN s
  <2>1. PICK s : s = AddCurrentTaskToDelayedList(k, Here.wait, FALSE)
    OBVIOUS
  <2>2. InPlace(s, {})
    BY <1>1, <1>2, <2>1, AddCurrentIsOnward DEF Onward
  <2>3. Leaves(s, k) /\ s.events = k.events
    BY <1>1, <1>2, <1>3, <2>1, AddCurrentLeaves
  <2>4. Lines \subseteq DOMAIN s
    BY <2>2, <2>3, InLines DEF Leaves
  <2> QED BY <2>1, <2>2, <2>3, <2>4
<1>5. Goto(s, "resume", Here)
  BY <1>4 DEF Delay
<1>6. Leaving("resume", Here) /\ ~QueueCall(Here)
  BY <1>2 DEF Leaving, SoundRank
<1>7. SoundRank(k.cur, "resume", Here) /\ Wants(k.cur, "resume", Here, q, k.prio, scenario.locks)
  BY <1>2, <1>6, GoesOn
<1>8. /\ Listed(s, {}) /\ Led(s, {}) /\ s.prio = k.prio /\ s.base = k.base /\ s.cur = k.cur
      /\ Awaiting(s) = Awaiting(k)
  BY <1>2, <1>4 DEF Leaves
<1>9. \A m \in WaitLists : /\ ToSet(s.events[m]) \subseteq ToSet(k.events[m])
                           /\ k.cur \notin ToSet(s.events[m])
  BY <1>2, <1>4 DEF Unlisted
<1>10. KeepsMutexes
  BY MutexesStay
<1>11. PICK H : H = {} /\ H = IF "resume" = "aborted" THEN {Here.obj} ELSE {}
  OBVIOUS
<1> QED BY <1>2, <1>4, <1>5, <1>6, <1>7, <1>8, <1>9, <1>10, <1>11, GotoIsInFront

LEMMA NotifyTakeIsInFront ==
  ASSUME Punctual, Orderly, InFront, NotifyTake, q' = q PROVE InFront'
<1>1. PICK n \in scenario.waits[k.cur] :
        LET t       == k.cur
            waiting == [k EXCEPT !.nstate[t] = "waiting"]
        IN  Goto(CASE k.nval[t] # 0 -> k
                   [] k.nval[t] = 0 /\ n = 0 -> waiting
                   [] OTHER ->
                        SwitchContext(AddCurrentTaskToDelayedList(waiting, n, TRUE)),
                 "taken", [NoCall EXCEPT !.op = "take", !.wait = n])
  BY DEF NotifyTake
<1>2. k.cur \in Others /\ pc[k.cur] = "run" /\ k.susp = 0
  <2>1. k.cur \in Others /\ pc[k.cur] = "run"
    BY CallersAreOthers DEF NotifyTake
  <2> QED BY <2>1 DEF Punctual, Suspension, Inside, Others
<1>3. /\ InPlace(k, {}) /\ Listed(k, {}) /\ Led(k, {}) /\ Unlisted(k, k.cur) /\ k.cur \in Task
      /\ k.cur \notin Away(k) /\ Lines \subseteq DOMAIN k
  BY <1>2, CallersAreAwake
<1>4. PICK l : l = [NoCall EXCEPT !.op = "take", !.wait = n]
  OBVIOUS
<1>5. l.op = "take" /\ l.next = "run" /\ ~l.inherited
  BY <1>4 DEF NoCall
<1>6. PICK a : /\ a = [k EXCEPT !.nstate[k.cur] = "waiting"] /\ Same(a, k, Where \cup Else)
               /\ a.nstate = [k.nstate EXCEPT ![k.cur] = "waiting"] /\ "nstate" \in DOMAIN a
  <2>1. PICK a : a = [k EXCEPT !.nstate[k.cur] = "waiting"]
    OBVIOUS
  <2>2. Same(a, k, Where \cup Else)
    BY <1>3, <2>1, Fields DEF Same, Where, Else
  <2>3. "nstate" \in DOMAIN k
    BY <1>3 DEF Lines
  <2> QED BY <2>1, <2>2, <2>3
<1>7. Onward(a, k, {}) /\ InPlace(a, {}) /\ a.cur = k.cur
  BY <1>3, <1>6, SameIsOnward DEF Same, Else, Onward
<1>8. /\ Away(a) = Away(k) /\ a.events = k.events /\ a.prio = k.prio /\ a.base = k.base
      /\ a.yield = k.yield
  BY <1>6 DEF Same, Where, Else, Away
<1>9. DOMAIN a.nstate = Task /\ Awaiting(a) = Awaiting(k) \cup {k.cur}
  BY <1>3, <1>6 DEF Listed, Awaiting
<1>10. Listed(a, {}) /\ Led(a, {}) /\ Lines \subseteq DOMAIN a /\ Listed(a, {a.cur})
  <2>1. Listed(a, {}) /\ Led(a, {})
    BY <1>3, <1>6, <1>7, <1>8, <1>9 DEF Listed, Led
  <2>2. Lines \subseteq DOMAIN a
    BY <1>7, <2>1, InLines
  <2> QED BY <2>1, <2>2 DEF Listed
<1>11. PICK b : /\ b = AddCurrentTaskToDelayedList(a, n, TRUE) /\ Onward(b, a, {})
                /\ Leaves(b, a) /\ b.events = a.events
  BY <1>2, <1>7, <1>10, AddCurrentIsOnward, AddCurrentLeaves
<1>12. InPlace(b, {}) /\ Listed(b, {}) /\ b.susp = 0
  BY <1>2, <1>7, <1>11 DEF Onward, Leaves
<1>13. PICK c : /\ c = SwitchContext(b) /\ InPlace(c, {}) /\ Wakes(c, b, {}) /\ Led(c, {})
                /\ c.cur \notin Away(c)
  BY <1>12, SwitchIsOnward, ContextRanks DEF Onward
<1>14. PICK s : s = (CASE k.nval[k.cur] # 0 -> k
                      [] k.nval[k.cur] = 0 /\ n = 0 -> a
                      [] OTHER -> SwitchContext(AddCurrentTaskToDelayedList(a, n, TRUE)))
  OBVIOUS
<1>15. s \in {k, a, c}
  BY <1>11, <1>13, <1>14
<1>16. Goto(s, "taken", l)
  BY <1>1, <1>4, <1>6, <1>14
<1>17. /\ Listed(c, {}) /\ c.prio = k.prio /\ c.base = k.base /\ Awaiting(c) \subseteq Awaiting(a)
       /\ \A m \in WaitLists : ToSet(c.events[m]) \subseteq ToSet(k.events[m])
  BY <1>8, <1>11, <1>13 DEF Wakes, Leaves
<1>18. InPlace(s, {}) /\ Listed(s, {}) /\ Led(s, {}) /\ s.prio = k.prio /\ s.base = k.base
  BY <1>3, <1>7, <1>8, <1>10, <1>13, <1>15, <1>17
<1>19. s.cur \notin Away(s)
  BY <1>3, <1>7, <1>8, <1>13, <1>15
<1>20. Awaiting(s) \subseteq Awaiting(k) \cup {k.cur}
  BY <1>9, <1>15, <1>17
<1>21. \A m \in WaitLists : /\ ToSet(s.events[m]) \subseteq ToSet(k.events[m])
                            /\ k.cur \notin ToSet(s.events[m])
  BY <1>3, <1>8, <1>15, <1>17 DEF Unlisted
<1>22. SoundRank(k.cur, "taken", l) /\ Wants(k.cur, "taken", l, q, k.prio, scenario.locks)
  BY <1>5, PlainCallRanks
<1>23. KeepsMutexes /\ Lines \subseteq DOMAIN s
  BY <1>18, InLines, MutexesStay
<1>24. PICK H : H = {} /\ H = IF "taken" = "aborted" THEN {l.obj} ELSE {}
  OBVIOUS
<1> QED BY <1>5, <1>16, <1>18, <1>19, <1>20, <1>21, <1>22, <1>23, <1>24, GotoIsInFront

LEMMA NotifyTakenIsInFront ==
  ASSUME Punctual, Orderly, InFront, NotifyTaken, q' = q PROVE InFront'
<1>1. pc[k.cur] = "taken"
  BY DEF NotifyTaken, At
<1>2. /\ InPlace(k, {}) /\ Listed(k, {}) /\ Led(k, {}) /\ Unlisted(k, k.cur) /\ k.cur \in Task
      /\ k.cur \notin Away(k) /\ Lines \subseteq DOMAIN k
  BY <1>1, CallersAreAwake
<1>3. PICK s : /\ s = [k EXCEPT !.nval[k.cur] = 0, !.nstate[k.cur] = "none"]
               /\ Same(s, k, Where \cup Else)
               /\ s.nstate = [k.nstate EXCEPT ![k.cur] = "none"] /\ "nstate" \in DOMAIN s
  <2>1. PICK s : s = [k EXCEPT !.nval[k.cur] = 0, !.nstate[k.cur] = "none"]
    OBVIOUS
  <2>2. Same(s, k, Where \cup Else)
    BY <1>2, <2>1, Fields DEF Same, Where, Else
  <2>3. "nstate" \in DOMAIN k
    BY <1>2 DEF Lines
  <2>4. s.nstate = [k.nstate EXCEPT ![k.cur] = "none"] /\ "nstate" \in DOMAIN s
    BY <2>1, <2>3
  <2> QED BY <2>1, <2>2, <2>4
<1>4. Goto(s, "run", Here)
  BY <1>3 DEF NotifyTaken
<1>5. InPlace(s, {})
  BY <1>2, <1>3, SameIsOnward DEF Onward
<1>6. /\ Away(s) = Away(k) /\ s.events = k.events /\ s.prio = k.prio /\ s.base = k.base
      /\ s.yield = k.yield /\ s.cur = k.cur
  BY <1>3 DEF Same, Where, Else, Away
<1>7. DOMAIN s.nstate = Task /\ Awaiting(s) \subseteq Awaiting(k) \ {k.cur}
  BY <1>2, <1>3 DEF Listed, Awaiting
<1>8. Listed(s, {}) /\ Led(s, {}) /\ Lines \subseteq DOMAIN s
  <2>1. Listed(s, {}) /\ Led(s, {})
    BY <1>2, <1>3, <1>6, <1>7 DEF Listed, Led
  <2> QED BY <1>5, <2>1, InLines
<1>9. \A m \in WaitLists : /\ ToSet(s.events[m]) \subseteq ToSet(k.events[m])
                           /\ k.cur \notin ToSet(s.events[m])
  BY <1>2, <1>6 DEF Unlisted
<1>10. KeepsMutexes
  BY MutexesStay
<1>11. PICK H : H = {} /\ H = IF "run" = "aborted" THEN {Here.obj} ELSE {}
  OBVIOUS
<1>12. k.cur \notin Away(s) \cup H
  BY <1>2, <1>6, <1>11
<1> QED BY <1>4, <1>5, <1>6, <1>7, <1>8, <1>9, <1>10, <1>11, <1>12, GotoIsInFront

\* A task that waits for a notification is in no event list of a queue.
LEMMA AwaitingUnlisted ==
  ASSUME Ranked, NEW t \in Task, k.nstate[t] = "waiting" PROVE Unlisted(k, t)
<1>1. loc[t].op = "take"
  BY DEF Ranked, Awaiting
<1>2. ~QueueCall(loc[t])
  BY <1>1 DEF QueueCall
<1> QED BY <1>2 DEF Ranked, Unlisted

LEMMA NotifyGiveIsInFront ==
  ASSUME Punctual, Orderly, InFront, NotifyGive, q' = q PROVE InFront'
<1>1. PICK t \in Others :
        Goto(IF k.nstate[t] = "waiting"
               THEN YieldIf(k.prio[t] > k.prio[k.cur],
                      ResetNextTaskUnblockTime(
                        AddToReadyList(RemoveStateItem(Notified(k, t), t), t)))
               ELSE Notified(k, t),
             "run", NoCall)
  BY DEF NotifyGive, Others
<1>2. pc[k.cur] = "run" /\ t \in Task
  BY DEF NotifyGive, Calls, At, Others
<1>3. /\ InPlace(k, {}) /\ Listed(k, {}) /\ Led(k, {}) /\ ~Leaving(pc[k.cur], Here)
      /\ k.cur \in Task /\ Ranked
  BY <1>2, CallersAreAwake
<1>4. PICK a : /\ a = Notified(k, t) /\ InPlace(a, {}) /\ Ranks(a, k, {}) /\ Away(a) = Away(k)
               /\ a.events = k.events /\ a.cur = k.cur /\ a.yield = k.yield
  BY <1>2, <1>3, NotifiedIsOnward, NotifiedRanks DEF Onward
<1>5. Listed(a, {}) /\ a.prio = k.prio /\ Led(a, {}) /\ Wakes(a, k, {})
  BY <1>3, <1>4 DEF Ranks, Wakes
<1>6. CASE k.nstate[t] = "waiting"
  <2>1. Unlisted(a, t)
    BY <1>2, <1>3, <1>4, <1>6, AwaitingUnlisted DEF Unlisted
  <2>2. PICK b : b = AddToReadyList(RemoveStateItem(a, t), t) /\ InPlace(b, {})
                 /\ Wakes(b, a, {}) /\ Woken(b, a, t)
    BY <1>1, <1>4, <1>5, <2>1, ReadiedIsOnward, ReadiedWakes DEF Onward
  <2>3. Listed(b, {}) /\ b.prio = k.prio /\ b.cur = k.cur
    BY <1>4, <1>5, <2>2 DEF Wakes, Woken
  <2>4. PICK c : c = ResetNextTaskUnblockTime(b) /\ InPlace(c, {}) /\ Ranks(c, b, {})
                 /\ c.cur = b.cur
    BY <2>2, <2>3, ResetIsOnward, ResetStays DEF Onward
  <2>5. Wakes(c, k, {})
    BY <1>5, <2>2, <2>4, WakesTwice DEF Ranks
  <2>6. PICK y \in BOOLEAN : y = (k.prio[t] > k.prio[k.cur])
    <3>1. (k.prio[t] > k.prio[k.cur]) \in BOOLEAN
      OBVIOUS
    <3> QED BY <3>1, Zenon
  <2>7. ~y /\ Led(k, {}) => Led(c, {})
    <3>0. k.prio[t] \in Int /\ k.prio[k.cur] \in Int
      BY <1>2, <1>3, RanksAreInt
    <3>1. ASSUME ~y PROVE k.prio[t] <= k.prio[k.cur]
      <4>1. ~(k.prio[t] > k.prio[k.cur])
        BY <2>6, <3>1, Zenon
      <4> QED BY <3>0, <4>1
    <3>2. ~y => Led(b, {})
      BY <1>4, <1>5, <2>2, <3>1, WokenLed DEF Woken
    <3> QED BY <2>4, <3>2 DEF Ranks
  <2>8. PICK s : s = YieldIf(y, c) /\ Ranks(s, k, {}) /\ InPlace(s, {})
    BY <2>3, <2>4, <2>5, <2>7, SwitchRanks
  <2>9. Goto(s, "run", NoCall)
    BY <1>1, <1>4, <1>6, <2>2, <2>4, <2>6, <2>8
  <2> QED BY <1>2, <1>3, <2>8, <2>9, MutexesStay, AwakeIsInFront
<1>7. CASE k.nstate[t] # "waiting"
  <2>1. Goto(a, "run", NoCall)
    BY <1>1, <1>4, <1>7
  <2> QED BY <1>2, <1>3, <1>4, <2>1, MutexesStay, AwakeIsInFront
<1> QED BY <1>6, <1>7

\* Who is no longer to be waited for: the task t leaves every list and is put
\* with the suspended ones.
LEMMA TaskSuspendIsInFront ==
  ASSUME Punctual, Orderly, InFront, TaskSuspend, q' = q PROVE InFront'
<1>1. PICK t \in Targets :
        LET out == RemoveEventItem(ResetReadyPriority(
                     RemoveStateItem(k, t), k.prio[t]), t)
        IN  Goto([out EXCEPT !.suspended = @ \cup {t},
                             !.nstate[t] = IF @ = "waiting" THEN "none" ELSE @],
                 "suspended",
                 [NoCall EXCEPT !.op = "suspend", !.block = (t = k.cur)])
  BY DEF TaskSuspend
<1>2. t \in Others /\ k.cur \in Others /\ pc[k.cur] = "run" /\ t \in Task
  BY CallersAreOthers DEF TaskSuspend, Others
<1>3. /\ InPlace(k, {}) /\ Listed(k, {}) /\ Led(k, {}) /\ Unlisted(k, k.cur) /\ k.cur \in Task
      /\ k.cur \notin Away(k) /\ k.cur \notin Awaiting(k) /\ Lines \subseteq DOMAIN k
  BY <1>2, CallersAreAwake
<1>4. PICK x \in Prio : x = k.prio[t]
  BY <1>2, <1>3 DEF InPlace, Tidy, Lists
<1>5. PICK a : /\ a = RemoveStateItem(k, t) /\ Same(a, k, Else \cup {"prio", "top"})
               /\ Tidy(a, {t}, {x})
  <2>1. Tidy(k, {}, {}) /\ Else \subseteq DOMAIN k
    BY <1>3 DEF InPlace, Fit
  <2>2. /\ Same(RemoveStateItem(k, t), k, Else \cup {"prio", "top"})
        /\ Tidy(RemoveStateItem(k, t), {} \cup {t}, {} \cup {k.prio[t]})
    BY <1>2, <1>3, <2>1, TaskLeaves
  <2>3. {} \cup {t} = {t} /\ {} \cup {k.prio[t]} = {x}
    BY <1>4
  <2> QED BY <2>2, <2>3
<1>6. PICK b : b = ResetReadyPriority(a, x) /\ Same(b, k, Else) /\ Tidy(b, {t}, {})
  <2>1. Else \subseteq DOMAIN a /\ Same(a, k, Else)
    BY <1>5 DEF Same
  <2>2. /\ Same(ResetReadyPriority(a, x), a, Else \cup {"prio"})
        /\ Tidy(ResetReadyPriority(a, x), {t}, {x} \ {x})
    BY <1>5, <2>1, BitIsReset
  <2>3. {x} \ {x} = {}
    OBVIOUS
  <2>4. Same(ResetReadyPriority(a, x), a, Else)
    BY <2>2, FieldsSame
  <2> QED BY <2>1, <2>2, <2>3, <2>4, SameTwice
<1>7. InPlace(b, {t})
  BY <1>3, <1>6, MoveIsOnward DEF Onward
<1>8. /\ Away(b) = Away(k) \ {t} /\ Lines \subseteq DOMAIN b
      /\ Same(b, k, {"events", "prio", "base", "nstate", "cur", "yield"})
  <2>1. /\ Same(a, k, {"events", "prio", "base", "nstate", "cur", "yield", "susp"})
        /\ Away(a) = Away(k) \ {t} /\ Lines \subseteq DOMAIN a
    BY <1>3, <1>5, StateItemGone
  <2>2. Same(b, a, Lines \cup {"cur", "yield"})
    <3>1. {"cur", "yield"} \subseteq DOMAIN a
      BY <2>1 DEF Same
    <3> QED BY <1>6, <2>1, <3>1 DEF ResetReadyPriority, Same, Lines
  <2> QED BY <2>1, <2>2 DEF Same, Lines, Away
<1>9. Listed(b, {t})
  BY <1>3, <1>8 DEF Listed, Same
<1>10. PICK c : c = RemoveEventItem(b, t)
  OBVIOUS
<1>11. InPlace(c, {t})
  BY <1>7, <1>10, EventItemIsOnward DEF Onward
<1>12. /\ Wakes(c, b, {t}) /\ Away(c) = Away(b) /\ c.cur = b.cur /\ c.yield = b.yield
       /\ c.delayed = b.delayed /\ c.overflow = b.overflow /\ c.suspended = b.suspended
       /\ Unlisted(c, t)
  BY <1>7, <1>9, <1>10, EventItemGone
<1>13. PICK d : d = [c EXCEPT !.suspended = @ \cup {t},
                              !.nstate[t] = IF @ = "waiting" THEN "none" ELSE @]
  OBVIOUS
<1>14. /\ Same(d, c, {"ready", "top", "prio"}) /\ Same(d, c, Else) /\ Where \subseteq DOMAIN d
       /\ d.suspended = c.suspended \cup {t} /\ d.delayed = c.delayed
       /\ d.overflow = c.overflow
  BY <1>11, <1>13, Fields DEF InPlace, Fit, Tidy, Lists, Same, Where, Else
<1>15. InPlace(d, {})
  <2>1. Tidy(c, {t}, {}) /\ t \in {t} /\ {t} \ {t} = {}
    BY <1>11 DEF InPlace
  <2>2. Tidy(d, {t} \ {t}, {})
    BY <1>2, <1>14, <2>1, TaskSleeps
  <2>3. Tidy(d, {}, {})
    BY <2>1, <2>2
  <2> QED BY <1>11, <1>14, <2>3, MoveIsOnward DEF Onward
<1>16. /\ Away(d) = Away(k) \cup {t} /\ d.events = c.events /\ d.prio = k.prio
       /\ d.base = k.base /\ d.cur = k.cur /\ d.yield = k.yield
  BY <1>8, <1>12, <1>14 DEF Away, Same, Else, Wakes
<1>17. "nstate" \in DOMAIN d /\ DOMAIN d.nstate = Task /\ Awaiting(d) \subseteq Awaiting(k)
  <2>1. "nstate" \in DOMAIN c /\ DOMAIN c.nstate = Task /\ Awaiting(c) \subseteq Awaiting(b)
    BY <1>12 DEF Wakes, Listed
  <2>2. b.nstate = k.nstate
    BY <1>8 DEF Same
  <2>3. d.nstate = [c.nstate EXCEPT ![t] = IF @ = "waiting" THEN "none" ELSE @]
        /\ "nstate" \in DOMAIN d
    BY <1>13, <2>1
  <2> QED BY <2>1, <2>2, <2>3 DEF Awaiting
<1>18. Listed(d, {})
  <2>1. \A l \in WaitLists : ToSet(c.events[l]) \subseteq Away(c) \cup {t}
    BY <1>12 DEF Wakes, Listed
  <2>2. \A l \in WaitLists : ToSet(d.events[l]) \subseteq Away(d) \cup {}
    BY <1>8, <1>12, <1>16, <2>1
  <2> QED BY <1>12, <1>16, <1>17, <2>2 DEF Listed, Wakes
<1>19. Led(d, {})
  <2>1. Away(k) \cup {} \subseteq Away(d) \cup {}
    BY <1>16
  <2> QED BY <1>3, <1>16, <2>1, SomebodyFewer
<1>20. PICK l : l = [NoCall EXCEPT !.op = "suspend", !.block = (t = k.cur)]
  OBVIOUS
<1>21. l.op = "suspend" /\ l.next = "run" /\ ~l.inherited /\ l.block = (t = k.cur)
  BY <1>20 DEF NoCall
<1>22. Goto(d, "suspended", l)
  BY <1>1, <1>4, <1>5, <1>6, <1>10, <1>13, <1>20
<1>23. SoundRank(k.cur, "suspended", l)
       /\ Wants(k.cur, "suspended", l, q, k.prio, scenario.locks)
  BY <1>21, PlainCallRanks
<1>24. k.cur \in Away(d) => Leaving("suspended", l)
  BY <1>3, <1>16, <1>21 DEF Leaving
<1>25. \A m \in WaitLists : /\ ToSet(d.events[m]) \subseteq ToSet(k.events[m])
                            /\ k.cur \notin ToSet(d.events[m])
  <2>1. b.events = k.events
    BY <1>8 DEF Same
  <2>2. \A m \in WaitLists : ToSet(c.events[m]) \subseteq ToSet(b.events[m])
    BY <1>12 DEF Wakes
  <2> QED BY <1>3, <1>16, <2>1, <2>2 DEF Unlisted
<1>26. \A u \in Awaiting(d) : u # k.cur /\ u \in Awaiting(k)
  BY <1>3, <1>17
<1>27. KeepsMutexes /\ Lines \subseteq DOMAIN d
  BY <1>15, <1>18, InLines, MutexesStay
<1>28. PICK H : H = {} /\ H = IF "suspended" = "aborted" THEN {l.obj} ELSE {}
  OBVIOUS
<1> QED BY <1>15, <1>16, <1>18, <1>19, <1>22, <1>23, <1>24, <1>25, <1>26, <1>27, <1>28,
           GotoIsInFront

LEMMA TaskSuspendedIsInFront ==
  ASSUME Punctual, Orderly, InFront, TaskSuspended, q' = q PROVE InFront'
<1>1. pc[k.cur] = "suspended" /\ Ranked /\ Locking
  BY DEF TaskSuspended, At, InFront
<1>2. /\ InPlace(k, {}) /\ Listed(k, {}) /\ (k.cur \in Away(k) => Leaving(pc[k.cur], Here))
      /\ SoundRank(k.cur, pc[k.cur], Here) /\ k.cur \in Task
  BY <1>1, RankedHere
<1>3. PICK s : s = ResetNextTaskUnblockTime(k)
  OBVIOUS
<1>4. InPlace(s, {}) /\ Ranks(s, k, {}) /\ s.cur = k.cur
  BY <1>2, <1>3, ResetIsOnward, ResetStays DEF Onward
<1>5. PICK p : p = (IF Here.block THEN "yield" ELSE "run") /\ Goto(s, p, Here)
  BY <1>3 DEF TaskSuspended
<1>6. k.cur \in Away(k) => Here.block /\ (QueueCall(Here) => Here.next = "try")
  BY <1>1, <1>2 DEF Leaving, SoundRank
<1>7. Away(s) \subseteq Away(k)
  BY <1>4 DEF Ranks, Wakes
<1>8. QueueCall(Here) /\ Leaving(p, Here) => Here.next = "try"
  BY <1>1, <1>2, <1>5 DEF SoundRank, Leaving
<1>9. SoundRank(k.cur, p, Here) /\ Wants(k.cur, p, Here, q, k.prio, scenario.locks)
  BY <1>1, <1>2, <1>5, <1>8, GoesOn
<1>10. k.cur \in Away(s) => s.cur # k.cur \/ (p # "run" /\ Leaving(p, Here))
  BY <1>5, <1>6, <1>7 DEF Leaving
<1>11. \/ k.cur \notin Away(k) \/ ~QueueCall(Here)
       \/ p # "run" /\ QueueCall(Here) /\ WaitList(Here) = WaitList(Here)
  BY <1>5, <1>6
<1>12. p # "aborted" /\ pc[k.cur] \notin {"aborted", "taken"} /\ KeepsMutexes
  BY <1>1, <1>5, MutexesStay
<1> QED BY <1>4, <1>5, <1>9, <1>10, <1>11, <1>12, StepIsInFront

LEMMA TaskResumeIsInFront ==
  ASSUME Punctual, Orderly, InFront, TaskResume, q' = q PROVE InFront'
<1>1. PICK t \in Others :
        Goto(IF IsTaskSuspended(k, t)
               THEN YieldIf(k.prio[t] >= k.prio[k.cur], Resumed(k, t))
               ELSE k,
             "run", NoCall)
  BY CallersAreOthers DEF TaskResume
<1>2. pc[k.cur] = "run" /\ t \in Task
  BY DEF TaskResume, Calls, At, Others
<1>3. /\ InPlace(k, {}) /\ Listed(k, {}) /\ Led(k, {}) /\ ~Leaving(pc[k.cur], Here)
      /\ k.cur \in Task /\ Ranks(k, k, {})
  BY <1>2, CallersAreAwake
<1>4. CASE IsTaskSuspended(k, t)
  <2>1. Unlisted(k, t)
    BY <1>4 DEF IsTaskSuspended, InEventList, Unlisted, WaitLists
  <2>2. PICK a : a = Resumed(k, t)
    OBVIOUS
  <2>3. InPlace(a, {})
    BY <1>3, <2>2, ReadiedIsOnward DEF Resumed, Onward
  <2>4. Wakes(a, k, {}) /\ Woken(a, k, t)
    BY <1>3, <2>1, <2>2, ReadiedWakes DEF Resumed
  <2>5. PICK y \in BOOLEAN : y = (k.prio[t] >= k.prio[k.cur])
    <3>1. (k.prio[t] >= k.prio[k.cur]) \in BOOLEAN
      OBVIOUS
    <3> QED BY <3>1, Zenon
  <2>6. ~y /\ Led(k, {}) => Led(a, {})
    <3>0. k.prio[t] \in Int /\ k.prio[k.cur] \in Int
      BY <1>2, <1>3, RanksAreInt
    <3>1. ASSUME ~y PROVE k.prio[t] <= k.prio[k.cur]
      <4>1. ~(k.prio[t] >= k.prio[k.cur])
        BY <2>5, <3>1, Zenon
      <4> QED BY <3>0, <4>1
    <3> QED BY <1>3, <2>4, <3>1, WokenLed DEF Woken
  <2>7. PICK s : s = YieldIf(y, a) /\ Ranks(s, k, {}) /\ InPlace(s, {})
    BY <2>3, <2>4, <2>6, SwitchRanks DEF Woken
  <2>8. Goto(s, "run", NoCall)
    BY <1>1, <1>4, <2>2, <2>5, <2>7
  <2> QED BY <1>2, <1>3, <2>7, <2>8, MutexesStay, AwakeIsInFront
<1>5. CASE ~IsTaskSuspended(k, t)
  <2>1. Goto(k, "run", NoCall)
    BY <1>1, <1>5
  <2> QED BY <1>2, <1>3, <2>1, MutexesStay, AwakeIsInFront
<1> QED BY <1>4, <1>5

LEMMA StartAbortDelayIsInFront ==
  ASSUME Punctual, Orderly, InFront, StartAbortDelay, q' = q PROVE InFront'
<1>1. PICK t \in Task :
        t # k.cur /\ Goto(SuspendAll(k), "abort", [NoCall EXCEPT !.op = "abort", !.obj = t])
  BY DEF StartAbortDelay, Targets
<1>2. pc[k.cur] = "run"
  BY DEF StartAbortDelay, Calls, At
<1>3. InPlace(k, {}) /\ Listed(k, {}) /\ ~Leaving(pc[k.cur], Here)
  BY <1>2, CallersAreAwake
<1>4. PICK l : l = [NoCall EXCEPT !.op = "abort", !.obj = t]
  OBVIOUS
<1>5. l.op = "abort" /\ l.next = "run" /\ ~l.inherited /\ l.obj # k.cur
  BY <1>1, <1>4 DEF NoCall
<1>6. PICK s : s = SuspendAll(k) /\ InPlace(s, {}) /\ Ranks(s, k, {})
  BY <1>3, SuspendIsInPlace, SuspendRanks
<1>7. Goto(s, "abort", l)
  BY <1>1, <1>4, <1>6
<1>8. SoundRank(k.cur, "abort", l) /\ Wants(k.cur, "abort", l, q, k.prio, scenario.locks)
  BY <1>5, PlainCallRanks
<1> QED BY <1>2, <1>3, <1>6, <1>7, <1>8, MutexesStay, AwakeIsInFront

\* The task whose wait is given up is taken out of its list.
LEMMA AbortDelayIsInFront ==
  ASSUME Punctual, Orderly, InFront, AbortDelay, q' = q PROVE InFront'
<1>1. pc[k.cur] = "abort" /\ k.cur \in Others
  BY HereIsOrderly DEF AbortDelay, At
<1>2. /\ InPlace(k, {}) /\ Listed(k, {}) /\ Led(k, {}) /\ Unlisted(k, k.cur) /\ k.cur \in Task
      /\ k.cur \notin Away(k) /\ k.cur \notin Awaiting(k) /\ Lines \subseteq DOMAIN k
      /\ Ranked /\ Locking /\ SoundRank(k.cur, "abort", Here) /\ Ranks(k, k, {})
      /\ ~Leaving(pc[k.cur], Here)
  BY <1>1, CallersAreAwake
<1>3. PICK t \in Others : t = Here.obj
  BY <1>1, HereIsOrderly DEF SoundPlace
<1>4. t \in Task /\ t # k.cur /\ ~QueueCall(Here)
  BY <1>2, <1>3 DEF SoundRank, Others
<1>5. CASE IsBlocked(k, t)
  <2>1. PICK s : s = RemoveStateItem(k, t)
    OBVIOUS
  <2>2. t \notin {}
    OBVIOUS
  <2>3. ~IsReady(k, t)
    BY <1>2, <1>4, <1>5, <2>2 DEF IsBlocked, InPlace, Tidy, Homes, OneHome
  <2>4. Tidy(k, {}, {}) /\ Else \subseteq DOMAIN k
    BY <1>2 DEF InPlace, Fit
  <2>5. Same(s, k, Else \cup {"prio", "top"}) /\ Tidy(s, {} \cup {t}, {})
    BY <1>4, <2>1, <2>3, <2>4, TaskLeaves
  <2>6. Same(s, k, Else) /\ Tidy(s, {t}, {})
    BY <2>5, FieldsSame
  <2>7. InPlace(s, {t})
    BY <1>2, <2>6, MoveIsOnward DEF Onward
  <2>8. /\ Same(s, k, {"events", "prio", "base", "nstate", "cur", "yield", "susp"})
        /\ Away(s) = Away(k) \ {t} /\ Lines \subseteq DOMAIN s
    BY <1>2, <2>1, StateItemGone
  <2>9. Listed(s, {t}) /\ Awaiting(s) = Awaiting(k)
    BY <1>2, <2>8 DEF Listed, Same, Awaiting
  <2>10. s.prio = k.prio /\ s.base = k.base /\ s.cur = k.cur /\ s.yield = k.yield
         /\ s.events = k.events
    BY <2>8 DEF Same
  <2>11. Led(s, {t})
    <3>1. Away(k) \cup {} \subseteq Away(s) \cup {t}
      BY <2>8
    <3> QED BY <1>2, <2>10, <3>1, SomebodyFewer
  <2>12. Goto(s, "aborted", Here)
    BY <1>3, <1>5, <2>1 DEF AbortDelay
  <2>13. SoundRank(k.cur, "aborted", Here)
         /\ Wants(k.cur, "aborted", Here, q, k.prio, scenario.locks)
    BY <1>2, <1>4 DEF SoundRank, Locking, Wants, Here, Leaving
  <2>14. PICK H : H = {t} /\ H = IF "aborted" = "aborted" THEN {Here.obj} ELSE {}
    BY <1>3
  <2>15. k.cur \notin Away(s) \cup H
    BY <1>2, <1>4, <2>8, <2>14
  <2>16. \A m \in WaitLists : /\ ToSet(s.events[m]) \subseteq ToSet(k.events[m])
                              /\ k.cur \notin ToSet(s.events[m])
    BY <1>2, <2>10 DEF Unlisted
  <2>17. KeepsMutexes /\ \A u \in Awaiting(s) : u # k.cur /\ u \in Awaiting(k)
    BY <1>2, <2>9, MutexesStay
  <2> QED BY <2>7, <2>8, <2>9, <2>10, <2>11, <2>12, <2>13, <2>14, <2>15, <2>16, <2>17,
             GotoIsInFront
<1>6. CASE ~IsBlocked(k, t)
  <2>1. Goto(k, "resume", Here)
    BY <1>3, <1>6 DEF AbortDelay
  <2>2. SoundRank(k.cur, "resume", Here) /\ Wants(k.cur, "resume", Here, q, k.prio, scenario.locks)
    BY <1>2, <1>4, GoesOn
  <2> QED BY <1>1, <1>2, <2>1, <2>2, MutexesStay, AwakeIsInFront
<1> QED BY <1>5, <1>6

LEMMA AbortedDelayIsInFront ==
  ASSUME Punctual, Orderly, InFront, AbortedDelay, q' = q PROVE InFront'
<1>1. pc[k.cur] = "aborted" /\ k.cur \in Others
  BY HereIsOrderly DEF AbortedDelay, At
<1>2. PICK t \in Others : t = Here.obj
  BY <1>1, HereIsOrderly DEF SoundPlace
<1>3. InPlace(k, {t}) /\ InHand = {t} /\ t \in Task /\ k.cur \in Task
  BY <1>1, <1>2, HereIsOrderly, NobodyAborted DEF Others
<1>4. /\ Listed(k, {t}) /\ Led(k, {t}) /\ k.cur \notin Away(k) \cup {t}
      /\ SoundRank(k.cur, "aborted", Here) /\ k.cur \notin Awaiting(k) /\ Ranked /\ Locking
  BY <1>1, <1>3 DEF InFront, Ranked, Leaving, Here
<1>5. Lines \subseteq DOMAIN k
  BY <1>3, <1>4, InLines
<1>6. PICK a : a = RemoveEventItem(k, t)
  OBVIOUS
<1>7. InPlace(a, {t})
  BY <1>3, <1>6, EventItemIsOnward DEF Onward
<1>8. /\ Wakes(a, k, {t}) /\ Away(a) = Away(k) /\ a.cur = k.cur /\ a.yield = k.yield
      /\ Unlisted(a, t)
  BY <1>3, <1>4, <1>6, EventItemGone
<1>9. PICK b : b = [a EXCEPT !.aborted = @ \cup {t}] /\ Same(b, a, Where \cup Else)
  BY <1>7, Fields DEF Same, Where, Else
<1>10. InPlace(b, {t})
  BY <1>7, <1>9, SameIsOnward DEF Onward
<1>11. /\ Wakes(b, k, {t}) /\ Away(b) = Away(k) /\ b.cur = k.cur /\ b.yield = k.yield
       /\ Unlisted(b, t)
  <2>1. /\ b.nstate = a.nstate /\ "nstate" \in DOMAIN b
    BY <1>8, <1>9 DEF Wakes, Listed
  <2>2. Same(b, a, Lines) /\ b.cur = a.cur /\ b.yield = a.yield /\ Listed(a, {t})
    BY <1>8, <1>9, <2>1 DEF Same, Lines, Where, Else, Wakes
  <2>3. Wakes(b, a, {t}) /\ Away(b) = Away(a)
    BY <2>2, SameWakes
  <2>4. b.events = a.events
    BY <2>2 DEF Same, Lines
  <2> QED BY <1>8, <2>2, <2>3, <2>4, WakesTwice DEF Unlisted
<1>12. PICK c : c = (IF InEventList(k, t) THEN b ELSE k)
  OBVIOUS
<1>13. /\ InPlace(c, {t}) /\ Wakes(c, k, {t}) /\ Away(c) = Away(k) /\ c.cur = k.cur
       /\ c.yield = k.yield /\ Unlisted(c, t)
  <2>1. Wakes(k, k, {t})
    BY <1>4, <1>5, StaysThere DEF Ranks
  <2>2. ~InEventList(k, t) => Unlisted(k, t)
    BY DEF InEventList, Unlisted, WaitLists
  <2> QED BY <1>3, <1>10, <1>11, <1>12, <2>1, <2>2
<1>14. PICK d : d = AddToReadyList(c, t)
  OBVIOUS
<1>15. InPlace(d, {})
  <2>1. Tidy(c, {t}, {}) /\ Else \subseteq DOMAIN c /\ t \in Task /\ t \in {t}
    BY <1>3, <1>13 DEF InPlace, Fit
  <2>2. Same(d, c, Else \cup {"prio"}) /\ Tidy(d, {t} \ {t}, {} \ {c.prio[t]})
    BY <1>14, <2>1, TaskComes
  <2>3. {t} \ {t} = {} /\ {} \ {c.prio[t]} = {}
    OBVIOUS
  <2>4. Same(d, c, Else) /\ Tidy(d, {}, {})
    BY <2>2, <2>3, FieldsSame
  <2> QED BY <1>13, <2>4, MoveIsOnward DEF Onward
<1>16. Same(d, c, Lines \cup {"cur", "yield"}) /\ Away(d) = Away(k) /\ Lines \subseteq DOMAIN d
  <2>1. Listed(c, {t})
    BY <1>13 DEF Wakes
  <2>2. Lines \cup {"ready", "top", "cur", "yield"} \subseteq DOMAIN c
    BY <1>13, <2>1, InLines DEF Where, Else
  <2>3. Same(d, c, Lines \cup {"cur", "yield"}) /\ Away(d) = Away(c)
    BY <1>14, <2>2, ReadyListEntered
  <2> QED BY <1>13, <2>2, <2>3 DEF Same
<1>17. PICK y \in BOOLEAN : y = (k.prio[t] > k.prio[k.cur])
  <2>1. (k.prio[t] > k.prio[k.cur]) \in BOOLEAN
    OBVIOUS
  <2> QED BY <2>1, Zenon
<1>18. PICK s : s = [d EXCEPT !.yield = @ \/ y]
  OBVIOUS
<1>19. InPlace(s, {})
  BY <1>15, <1>17, <1>18, YieldIsOnward DEF Onward
<1>20. /\ Same(s, d, Lines) /\ s.cur = k.cur /\ Lines \subseteq DOMAIN s
       /\ s.yield = (k.yield \/ y)
  <2>1. Same(s, d, Lines) /\ s.cur = d.cur /\ Lines \subseteq DOMAIN s
    BY <1>16, <1>18 DEF Same, Lines
  <2>2. "yield" \in DOMAIN d /\ d.yield = k.yield /\ d.cur = k.cur
    BY <1>13, <1>15, <1>16 DEF Same, InPlace, Fit, Else
  <2> QED BY <1>18, <2>1, <2>2
<1>21. /\ s.events = c.events /\ s.prio = k.prio /\ s.base = k.base /\ s.nstate = c.nstate
       /\ Away(s) = Away(k)
  <2>1. /\ s.events = c.events /\ s.prio = c.prio /\ s.base = c.base /\ s.nstate = c.nstate
    BY <1>16, <1>20 DEF Same, Lines
  <2>2. Away(s) = Away(d)
    BY <1>20 DEF Same, Lines, Away
  <2> QED BY <1>13, <1>16, <2>1, <2>2 DEF Wakes
<1>22. Listed(s, {})
  <2>1. Listed(c, {t}) /\ Unlisted(c, t)
    BY <1>13 DEF Wakes
  <2>2. \A l \in WaitLists : ToSet(s.events[l]) \subseteq Away(s) \cup {}
    BY <1>13, <1>21, <2>1 DEF Listed, Unlisted
  <2>3. "nstate" \in DOMAIN s
    BY <1>20 DEF Lines
  <2> QED BY <1>21, <2>1, <2>2, <2>3 DEF Listed
<1>23. Led(s, {})
  <2>1. SUFFICES ASSUME ~s.yield, NEW u \in Task \ (Away(s) \cup {}) PROVE s.prio[u] <= s.prio[s.cur]
    BY DEF Led
  <2>2. ~k.yield /\ ~y
    BY <1>20, <2>1
  <2>3. CASE u = t
    <3>1. k.prio[t] \in Int /\ k.prio[k.cur] \in Int
      BY <1>3, RanksAreInt
    <3>2. ~(k.prio[t] > k.prio[k.cur])
      BY <1>17, <2>2, Zenon
    <3>3. k.prio[t] <= k.prio[k.cur]
      BY <3>1, <3>2
    <3> QED BY <1>20, <1>21, <2>3, <3>3
  <2>4. CASE u # t
    BY <1>4, <1>20, <1>21, <2>1, <2>2, <2>4 DEF Led
  <2> QED BY <2>3, <2>4
<1>24. Goto(s, "resume", Here)
  BY <1>2, <1>6, <1>9, <1>12, <1>14, <1>17, <1>18 DEF AbortedDelay
<1>25. ~QueueCall(Here) /\ SoundRank(k.cur, "resume", Here)
       /\ Wants(k.cur, "resume", Here, q, k.prio, scenario.locks)
  <2>1. ~QueueCall(Here)
    BY <1>4 DEF SoundRank
  <2> QED BY <1>3, <1>4, <2>1, GoesOn
<1>26. \A m \in WaitLists : /\ ToSet(s.events[m]) \subseteq ToSet(k.events[m])
                            /\ k.cur \notin ToSet(s.events[m])
  BY <1>4, <1>13, <1>21 DEF Wakes, Listed
<1>27. \A u \in Awaiting(s) : u # k.cur /\ u \in Awaiting(k)
  <2>1. Awaiting(s) = Awaiting(c) /\ Awaiting(c) \subseteq Awaiting(k)
    BY <1>13, <1>21 DEF Awaiting, Wakes
  <2> QED BY <1>4, <2>1
<1>28. KeepsMutexes
  BY MutexesStay
<1>29. PICK H : H = {} /\ H = IF "resume" = "aborted" THEN {Here.obj} ELSE {}
  OBVIOUS
<1>30. k.cur \notin Away(s) \cup H
  BY <1>4, <1>21, <1>29
<1> QED BY <1>19, <1>20, <1>21, <1>22, <1>23, <1>24, <1>25, <1>26, <1>27, <1>28, <1>29, <1>30,
           GotoIsInFront

\* Who waits for a mutex is a user of it.
LEMMA WaitersLock ==
  ASSUME Ranked, Locking, Orderly, InPlace(k, InHand), NEW m \in Mutex,
         NEW w \in ToSet(k.events[ToReceive(m)])
  PROVE  /\ w \in Task /\ loc[w].op = "lock" /\ loc[w].obj = m
         /\ m \in scenario.locks[w] /\ q[m].holder # w
<1>1. m \in Queue /\ ToReceive(m) \in WaitLists /\ ToReceive(m) \in EventList
  BY QueueAssumption, WaitListsExist, EventListsExist
<1>2. PICK e \in Seq(Others) : e = k.events[ToReceive(m)]
  BY <1>1 DEF InPlace, Fit
<1>3. w \in Task
  BY <1>2, ListMembers DEF Others
<1>4. QueueCall(loc[w]) /\ ToReceive(m) = WaitList(loc[w])
  BY <1>1 DEF Ranked
<1>5. loc[w].obj = m /\ loc[w].op # "send"
  BY <1>4 DEF WaitList, ToReceive, ToSend
<1>6. loc[w].op = "lock"
  BY <1>4, <1>5 DEF QueueCall
<1> QED BY <1>3, <1>5, <1>6 DEF Locking, Wants

\* Who may be reprioritised locks no mutex, so it has its own priority.
LEMMA TaskPrioritySetIsInFront ==
  ASSUME Punctual, Orderly, InFront, TaskPrioritySet, q' = q PROVE InFront'
<1>1. PICK t \in Targets, p \in scenario.prios :
        /\ p # k.base[t]
        /\ Goto(YieldIf(PrioritySetYields(k, t, p), PrioritySet(k, t, p)), "run", NoCall)
  BY DEF TaskPrioritySet
<1>2. t \in Task /\ p \in Prio
  BY CallersAreOthers, ScenarioAssumption DEF Punctual, Others
<1>3. pc[k.cur] = "run" /\ k.susp = 0
  <2>1. pc[k.cur] = "run" /\ k.cur \in Others
    BY CallersAreOthers DEF TaskPrioritySet
  <2> QED BY <2>1 DEF Punctual, Suspension, Inside, Others
<1>4. /\ InPlace(k, {}) /\ Listed(k, {}) /\ Led(k, {}) /\ Unlisted(k, k.cur) /\ k.cur \in Task
      /\ k.cur \notin Away(k) /\ k.cur \notin Awaiting(k) /\ Ranked /\ Locking
  BY <1>3, CallersAreAwake
<1>5. scenario.locks[t] = {}
  BY <1>2, <1>4 DEF InFront, Plain, Targets, TaskPrioritySet, Calls
<1>6. \A m \in Mutex : q[m].holder # t
  BY <1>2, <1>4, <1>5, NobodyAssumption DEF Locking, Lent
<1>7. k.prio[t] = k.base[t]
  BY <1>2, <1>4, <1>6 DEF Locking, Lent
<1>8. PICK a : a = PrioritySet(k, t, p)
  OBVIOUS
<1>9. InPlace(a, {})
  BY <1>2, <1>4, <1>8, SetIsOnward DEF Onward
<1>10. Reranks(a, k, t, p) /\ a.base = [k.base EXCEPT ![t] = p]
  BY <1>2, <1>4, <1>7, <1>8, SetReranks
<1>11. PICK y : y = PrioritySetYields(k, t, p)
  OBVIOUS
<1>12. y \/ Led(a, {})
  <2>1. /\ k.prio[t] \in Int /\ k.prio[k.cur] \in Int /\ k.base[t] \in Int /\ p \in Int
    <3>1. k.prio[t] \in Int /\ k.prio[k.cur] \in Int
      BY <1>2, <1>4, RanksAreInt
    <3> QED BY <1>2, <1>7, <3>1, KernelAssumption DEF Prio
  <2>2. ASSUME ~y PROVE IF t = k.cur THEN p >= k.prio[t] ELSE p <= k.prio[t] \/ p <= k.prio[k.cur]
    <3>1. ~(IF p > k.base[t] THEN t # k.cur /\ p >= k.prio[k.cur] ELSE p < k.base[t] /\ t = k.cur)
      BY <1>11, <2>2 DEF PrioritySetYields
    <3> QED BY <1>1, <1>7, <2>1, <3>1
  <2> QED BY <1>2, <1>4, <1>10, <2>1, <2>2, RerankedLed
<1>13. PICK s : s = YieldIf(y, a)
  OBVIOUS
<1>14. /\ InPlace(s, {}) /\ Ranks(s, a, {}) /\ Led(s, {})
  <2>1. Listed(a, {})
    BY <1>10 DEF Reranks
  <2>2. InPlace(s, {})
    BY <1>9, <1>13, SwitchIsOnward DEF Onward
  <2> QED BY <1>9, <1>12, <1>13, <2>1, <2>2, YieldRanks
<1>15. Goto(s, "run", NoCall)
  BY <1>1, <1>8, <1>11, <1>13
<1>16. /\ Listed(s, {}) /\ Away(s) \subseteq Away(k) /\ Awaiting(s) \subseteq Awaiting(k)
       /\ \A m \in WaitLists : ToSet(s.events[m]) \subseteq ToSet(k.events[m])
       /\ s.prio = [k.prio EXCEPT ![t] = p] /\ s.base = [k.base EXCEPT ![t] = p]
       /\ s.cur = k.cur \/ s.cur \notin Away(s)
  BY <1>10, <1>14 DEF Ranks, Wakes, Reranks
<1>17. Lines \subseteq DOMAIN s
  BY <1>14, <1>16, InLines
<1>18. Ranked'
  <2>1. PICK H : H = {} /\ H = IF "run" = "aborted" THEN {NoCall.obj} ELSE {}
    OBVIOUS
  <2>2. /\ InPlace(s, H) /\ Listed(s, H) /\ Led(s, H)
        /\ s.cur = k.cur \/ s.cur \notin Away(s) \cup H
        /\ k.cur \notin Away(s) \cup H
    BY <1>4, <1>14, <1>16, <2>1
  <2>3. \A m \in WaitLists : \A u \in ToSet(s.events[m]) : u # k.cur /\ u \in ToSet(k.events[m])
    BY <1>4, <1>16 DEF Unlisted
  <2>4. \A u \in Awaiting(s) : u # k.cur /\ u \in Awaiting(k)
    BY <1>4, <1>16
  <2> QED BY <1>4, <1>15, <2>1, <2>2, <2>3, <2>4, GotoIsRanked
<1>19. /\ k'.prio = s.prio /\ k'.base = s.base /\ k'.events = s.events /\ scenario' = scenario
       /\ pc'[k.cur] = "run" /\ loc'[k.cur] = NoCall
       /\ \A u \in Task : u # k.cur => pc'[u] = pc[u] /\ loc'[u] = loc[u]
  BY <1>15, <1>17, GotoStays
<1>20. \A u \in Task : /\ u # t => s.prio[u] = k.prio[u] /\ s.base[u] = k.base[u]
                       /\ u = t => s.prio[u] = p /\ s.base[u] = p
  <2>1. k.prio \in [Task -> Prio] /\ k.base \in [Task -> Prio]
    BY <1>4 DEF InPlace, Tidy, Lists, Fit
  <2> QED BY <1>2, <1>16, <2>1
<1>21. Lent(k'.prio, k'.base, q', scenario'.locks)
  <2>1. ASSUME NEW u \in Task, s.prio[u] # s.base[u]
        PROVE  /\ s.base[u] < s.prio[u]
               /\ \E m \in Mutex, w \in Task : /\ w # u /\ q[m].holder = u
                                               /\ m \in scenario.locks[w] /\ s.prio[u] = s.base[w]
    <3>1. u # t /\ k.prio[u] # k.base[u] /\ s.prio[u] = k.prio[u] /\ s.base[u] = k.base[u]
      BY <1>20, <2>1
    <3>2. PICK m \in Mutex, w \in Task : /\ w # u /\ q[m].holder = u
                                         /\ m \in scenario.locks[w] /\ k.prio[u] = k.base[w]
      BY <1>4, <3>1 DEF Locking, Lent
    <3>3. w # t /\ k.base[u] < k.prio[u]
      BY <1>4, <1>5, <3>1, <3>2 DEF Locking, Lent
    <3> QED BY <1>20, <3>1, <3>2, <3>3
  <2> QED BY <1>4, <1>19, <2>1 DEF Locking, Lent
<1>22. Waited(k'.prio, k'.base, k'.events, q')
  <2>1. ASSUME NEW m \in Mutex, NEW w \in ToSet(s.events[ToReceive(m)])
        PROVE  q[m].holder # Nobody /\ s.prio[q[m].holder] >= s.base[w]
    <3>1. w \in ToSet(k.events[ToReceive(m)])
      BY <1>16, QueueAssumption, WaitListsExist
    <3>2. q[m].holder # Nobody /\ k.prio[q[m].holder] >= k.base[w]
      BY <1>4, <3>1 DEF Locking, Waited
    <3>3. w \in Task /\ m \in scenario.locks[w]
      BY <1>4, <3>1, HereIsOrderly, WaitersLock
    <3>4. q[m].holder \in Task
      BY <3>2 DEF Orderly, Owned
    <3> QED BY <1>5, <1>6, <1>20, <3>2, <3>3, <3>4
  <2> QED BY <1>19, <2>1 DEF Waited
<1>23. ASSUME NEW u \in Task PROVE Wants(u, pc'[u], loc'[u], q', k'.prio, scenario'.locks)
  <2>1. CASE u = k.cur
    BY <1>19, <2>1 DEF Wants, NoCall
  <2>2. CASE u # k.cur
    <3>1. pc[u] # "place"
      BY <1>3 DEF Punctual, Suspension, Inside
    <3>2. Wants(u, pc[u], loc[u], q, k.prio, scenario.locks)
      BY <1>4 DEF Locking
    <3> QED BY <1>19, <2>2, <3>1, <3>2 DEF Wants
  <2> QED BY <2>1, <2>2
<1>24. Locking'
  BY <1>21, <1>22, <1>23, PrimedLocking
<1> QED BY <1>18, <1>19, <1>24, PlainStays DEF InFront

LEMMA IdleIsInFront ==
  ASSUME Punctual, Orderly, InFront, IdleTask \/ IdleSuspended \/ SuppressTicksAndSleep, q' = q
  PROVE  InFront'
<1>1. pc[k.cur] \in {"run", "idle", "sleep"}
  BY DEF IdleTask, IdleSuspended, SuppressTicksAndSleep, Calls, At
<1>2. /\ InPlace(k, {}) /\ Listed(k, {}) /\ ~Leaving(pc[k.cur], Here) /\ k.cur \in Task
      /\ Lines \subseteq DOMAIN k /\ Ranks(k, k, {}) /\ Ranked /\ Locking
      /\ SoundRank(k.cur, pc[k.cur], Here)
  BY <1>1, CallersAreAwake
<1>3. KeepsMutexes
  BY MutexesStay
<1>4. CASE IdleTask
  <2>1. Goto(SuspendAll(k), "idle", NoCall)
    BY <1>4 DEF IdleTask
  <2>2. PICK s : s = SuspendAll(k) /\ InPlace(s, {}) /\ Ranks(s, k, {})
    BY <1>2, SuspendIsInPlace, SuspendRanks
  <2>3. PICK l : l = NoCall
    OBVIOUS
  <2>6. l.op = "none" /\ l.next = "run" /\ ~l.inherited
    BY <2>3 DEF NoCall
  <2>4. SoundRank(k.cur, "idle", l) /\ Wants(k.cur, "idle", l, q, k.prio, scenario.locks)
    BY <2>6, PlainCallRanks
  <2>5. Goto(s, "idle", l)
    BY <2>1, <2>2, <2>3
  <2> QED BY <1>1, <1>2, <1>3, <2>2, <2>4, <2>5, AwakeIsInFront
<1>5. CASE IdleSuspended
  <2>1. PICK n : n = ExpectedIdleTime(k)
    OBVIOUS
  <2>2. PICK l : l = [NoCall EXCEPT !.op = "sleep", !.wait = n]
    OBVIOUS
  <2>3. PICK m : m = [NoCall EXCEPT !.op = "sleep"]
    OBVIOUS
  <2>4. Goto(k, "sleep", l) \/ Goto(k, "resume", m)
    BY <1>5, <2>1, <2>2, <2>3 DEF IdleSuspended
  <2>5. /\ l.op = "sleep" /\ l.next = "run" /\ ~l.inherited
        /\ m.op = "sleep" /\ m.next = "run" /\ ~m.inherited
    BY <2>2, <2>3 DEF NoCall
  <2>6. /\ SoundRank(k.cur, "sleep", l) /\ Wants(k.cur, "sleep", l, q, k.prio, scenario.locks)
        /\ SoundRank(k.cur, "resume", m) /\ Wants(k.cur, "resume", m, q, k.prio, scenario.locks)
    BY <2>5, PlainCallRanks
  <2> QED BY <1>1, <1>2, <1>3, <2>4, <2>6, AwakeIsInFront
<1>6. CASE SuppressTicksAndSleep
  <2>1. PICK n : Goto(StepTick(k, n), "resume", Here) /\ pc[k.cur] = "sleep"
    BY <1>6 DEF SuppressTicksAndSleep, At
  <2>2. PICK s : s = StepTick(k, n)
    OBVIOUS
  <2>3. Same(s, k, Where \cup Else)
    BY <1>2, <2>2, Fields DEF StepTick, Same, Where, Else
  <2>4. s.nstate = k.nstate /\ "nstate" \in DOMAIN s
    BY <1>2, <2>2 DEF StepTick, Lines
  <2>5. Same(s, k, Lines) /\ s.cur = k.cur /\ s.yield = k.yield
    BY <2>3, <2>4 DEF Same, Lines, Where, Else
  <2>6. InPlace(s, {}) /\ Ranks(s, k, {})
    BY <1>2, <2>3, <2>5, SameIsOnward, SameRanks DEF Onward
  <2>7. ~QueueCall(Here)
    BY <1>2, <2>1 DEF SoundRank
  <2>8. SoundRank(k.cur, "resume", Here) /\ Wants(k.cur, "resume", Here, q, k.prio, scenario.locks)
    BY <1>2, <2>7, GoesOn
  <2>9. Goto(s, "resume", Here)
    BY <2>1, <2>2
  <2> QED BY <1>1, <1>2, <1>3, <2>6, <2>8, <2>9, AwakeIsInFront
<1> QED BY <1>4, <1>5, <1>6

-----------------------------------------------------------------------------
(* The interrupts, and who comes to the front with them.                    *)

\* What a handler starts from.
LEMMA HandlersStart ==
  ASSUME Punctual, Orderly, InFront
  PROVE  /\ InPlace(k, InHand) /\ k.susp \in {0, 1} /\ (InHand = {} \/ k.susp = 1)
         /\ Listed(k, InHand) /\ Ranked /\ Locking /\ Lines \subseteq DOMAIN k
         /\ k.susp = 0 => InHand = {}
<1>1. InPlace(k, InHand) /\ k.susp \in {0, 1} /\ (InHand = {} \/ k.susp = 1) /\ Ranked /\ Locking
  BY HereIsOrderly, NobodyAborted DEF Punctual, Suspension, InFront
<1>2. Listed(k, InHand)
  BY <1>1 DEF Ranked
<1>3. Lines \subseteq DOMAIN k
  BY <1>1, <1>2, InLines
<1> QED BY <1>1, <1>2, <1>3

LEMMA TickIsInFront ==
  ASSUME Punctual, Orderly, InFront, Tick, q' = q PROVE InFront'
<1>1. /\ InPlace(k, InHand) /\ k.susp \in {0, 1} /\ (InHand = {} \/ k.susp = 1)
      /\ Listed(k, InHand)
  BY HandlersStart
<1>2. PICK a : a = IncrementTick(k)
  OBVIOUS
<1>3. InPlace(a, InHand)
  BY <1>1, <1>2, IncrementTickIsOnward DEF Tick, Onward
<1>4. /\ Wakes(a, k, InHand) /\ a.cur = k.cur
      /\ ~TickSwitches(k) /\ Led(k, InHand) => Led(a, InHand)
  BY <1>1, <1>2, TickRanks
<1>5. PICK s : s = YieldIf(TickSwitches(k), a)
  OBVIOUS
<1>6. Ranks(s, k, InHand) /\ InPlace(s, InHand)
  BY <1>3, <1>4, <1>5, SwitchRanks
<1>7. Handler(s)
  BY <1>2, <1>5 DEF Tick
<1> QED BY <1>6, <1>7, MutexesStay, HandlerIsInFront

LEMMA NotifyFromISRIsInFront ==
  ASSUME Punctual, Orderly, InFront, NotifyGiveFromISR, q' = q PROVE InFront'
<1>1. PICK t \in Others :
        LET now == IF k.susp = 0
                     THEN AddToReadyList(RemoveStateItem(Notified(k, t), t), t)
                     ELSE [Notified(k, t) EXCEPT !.events[Pending] = Append(@, t)]
        IN  Handler(IF k.nstate[t] = "waiting"
                      THEN [now EXCEPT !.yield = @ \/ k.prio[t] > k.prio[k.cur]]
                      ELSE Notified(k, t))
  BY DEF NotifyGiveFromISR, Others
<1>2. /\ InPlace(k, InHand) /\ k.susp \in {0, 1} /\ Listed(k, InHand) /\ Ranked /\ t \in Task
      /\ k.susp = 0 => InHand = {}
  BY HandlersStart DEF Others
<1>3. PICK a : a = Notified(k, t)
  OBVIOUS
<1>4. InPlace(a, InHand)
  BY <1>2, <1>3, NotifiedIsOnward DEF Onward
<1>5. /\ Ranks(a, k, InHand) /\ Away(a) = Away(k) /\ a.events = k.events
      /\ a.cur = k.cur /\ a.yield = k.yield
  BY <1>2, <1>3, NotifiedRanks
<1>6. Listed(a, InHand) /\ a.prio = k.prio /\ Wakes(a, k, InHand)
  BY <1>5 DEF Ranks, Wakes
<1>7. CASE k.nstate[t] # "waiting"
  <2>1. Handler(a)
    BY <1>1, <1>3, <1>7
  <2> QED BY <1>4, <1>5, <2>1, MutexesStay, HandlerIsInFront
<1>8. CASE k.nstate[t] = "waiting"
  <2>1. PICK y \in BOOLEAN : y = (k.prio[t] > k.prio[k.cur])
    <3>1. (k.prio[t] > k.prio[k.cur]) \in BOOLEAN
      OBVIOUS
    <3> QED BY <3>1, Zenon
  <2>2. ~y => k.prio[t] <= k.prio[k.cur]
    <3>1. k.prio[t] \in Int /\ k.prio[k.cur] \in Int
      BY <1>2, RanksAreInt
    <3>2. ASSUME ~y PROVE k.prio[t] <= k.prio[k.cur]
      <4>1. ~(k.prio[t] > k.prio[k.cur])
        BY <2>1, <3>2, Zenon
      <4> QED BY <3>1, <4>1
    <3> QED BY <3>2
  <2>3. CASE k.susp = 0
    <3>1. Unlisted(a, t)
      BY <1>2, <1>5, <1>8, AwaitingUnlisted DEF Unlisted
    <3>2. PICK b : b = AddToReadyList(RemoveStateItem(a, t), t)
      OBVIOUS
    <3>3. InPlace(b, InHand)
      BY <1>2, <1>4, <2>3, <3>2, ReadiedIsOnward DEF Onward
    <3>4. Wakes(b, a, InHand) /\ Woken(b, a, t)
      BY <1>4, <1>6, <3>1, <3>2, ReadiedWakes
    <3>5. Wakes(b, k, InHand) /\ b.cur = k.cur /\ b.yield = k.yield
      BY <1>5, <1>6, <3>4, WakesTwice DEF Woken
    <3>6. ~y /\ Led(k, InHand) => Led(b, InHand)
      BY <1>4, <1>5, <1>6, <2>2, <3>4, WokenLed DEF Woken, Ranks
    <3>7. PICK s : s = [b EXCEPT !.yield = @ \/ y]
      OBVIOUS
    <3>8. Ranks(s, k, InHand) /\ InPlace(s, InHand)
      BY <3>3, <3>5, <3>6, <3>7, PendingSwitchRanks, YieldIsOnward DEF Onward
    <3>9. Handler(s)
      BY <1>1, <1>3, <1>8, <2>1, <2>3, <3>2, <3>7
    <3> QED BY <3>8, <3>9, MutexesStay, HandlerIsInFront
  <2>4. CASE k.susp # 0
    <3>1. PICK b : b = [a EXCEPT !.events[Pending] = Append(@, t)]
      OBVIOUS
    <3>2. InPlace(b, InHand)
      BY <1>4, <3>1, PendingIsOnward DEF Onward
    <3>3. Ranks(b, a, InHand) /\ b.cur = a.cur /\ b.yield = a.yield
      BY <1>4, <1>6, <3>1, PendingRanks
    <3>4. Ranks(b, k, InHand) /\ b.cur = k.cur /\ b.yield = k.yield
      BY <1>5, <3>3, RanksTwice
    <3>5. PICK s : s = [b EXCEPT !.yield = @ \/ y]
      OBVIOUS
    <3>8. Wakes(b, k, InHand) /\ (~y /\ Led(k, InHand) => Led(b, InHand)) /\ (k.yield => b.yield)
      BY <3>4 DEF Ranks
    <3>6. Ranks(s, k, InHand) /\ InPlace(s, InHand)
      BY <3>2, <3>4, <3>5, <3>8, PendingSwitchRanks, YieldIsOnward DEF Onward
    <3>7. Handler(s)
      BY <1>1, <1>3, <1>8, <2>1, <2>4, <3>1, <3>5
    <3> QED BY <3>6, <3>7, MutexesStay, HandlerIsInFront
  <2> QED BY <2>3, <2>4
<1> QED BY <1>7, <1>8

LEMMA ResumeFromISRIsInFront ==
  ASSUME Punctual, Orderly, InFront, TaskResumeFromISR, q' = q PROVE InFront'
<1>1. PICK t \in Others :
        /\ IsTaskSuspended(k, t)
        /\ Handler(IF k.susp = 0
                     THEN [Resumed(k, t) EXCEPT !.yield = @ \/ k.prio[t] >= k.prio[k.cur]]
                     ELSE [k EXCEPT !.events[Pending] = Append(@, t)])
  BY CallersAreOthers DEF TaskResumeFromISR
<1>2. /\ InPlace(k, InHand) /\ k.susp \in {0, 1} /\ Listed(k, InHand) /\ t \in Task
      /\ k.susp = 0 => InHand = {}
  BY HandlersStart DEF Others
<1>3. CASE k.susp = 0
  <2>1. Unlisted(k, t)
    BY <1>1 DEF IsTaskSuspended, InEventList, Unlisted, WaitLists
  <2>2. PICK b : b = Resumed(k, t)
    OBVIOUS
  <2>3. InPlace(b, InHand)
    BY <1>2, <1>3, <2>2, ReadiedIsOnward DEF Onward, Resumed
  <2>4. Wakes(b, k, InHand) /\ Woken(b, k, t)
    BY <1>2, <2>1, <2>2, ReadiedWakes DEF Resumed
  <2>5. PICK y \in BOOLEAN : y = (k.prio[t] >= k.prio[k.cur])
    <3>1. (k.prio[t] >= k.prio[k.cur]) \in BOOLEAN
      OBVIOUS
    <3> QED BY <3>1, Zenon
  <2>6. ~y => k.prio[t] <= k.prio[k.cur]
    <3>1. k.prio[t] \in Int /\ k.prio[k.cur] \in Int
      BY <1>2, RanksAreInt
    <3>2. ASSUME ~y PROVE k.prio[t] <= k.prio[k.cur]
      <4>1. ~(k.prio[t] >= k.prio[k.cur])
        BY <2>5, <3>2, Zenon
      <4> QED BY <3>1, <4>1
    <3> QED BY <3>2
  <2>7. ~y /\ Led(k, InHand) => Led(b, InHand)
    BY <1>2, <2>4, <2>6, WokenLed DEF Woken
  <2>8. PICK s : s = [b EXCEPT !.yield = @ \/ y]
    OBVIOUS
  <2>9. Ranks(s, k, InHand) /\ InPlace(s, InHand)
    BY <2>3, <2>4, <2>7, <2>8, PendingSwitchRanks, YieldIsOnward DEF Onward, Woken
  <2>10. Handler(s)
    BY <1>1, <1>3, <2>2, <2>5, <2>8
  <2> QED BY <2>9, <2>10, MutexesStay, HandlerIsInFront
<1>4. CASE k.susp # 0
  <2>1. PICK b : b = [k EXCEPT !.events[Pending] = Append(@, t)]
    OBVIOUS
  <2>2. InPlace(b, InHand)
    BY <1>2, <2>1, PendingIsOnward DEF Onward
  <2>3. Ranks(b, k, InHand)
    BY <1>2, <2>1, PendingRanks
  <2>4. Handler(b)
    BY <1>1, <1>4, <2>1
  <2> QED BY <2>2, <2>3, <2>4, MutexesStay, HandlerIsInFront
<1> QED BY <1>3, <1>4

LEMMA QueueHandlersAreInFront ==
  ASSUME Punctual, Orderly, InFront, SendFromISR \/ ReceiveFromISR PROVE InFront'
<1>0. PICK qu \in Queue \ Mutex :
        \E l \in {ToSend(qu), ToReceive(qu)} : \E r :
          HandlerCall(WakeOne(k, l), qu, r) \/ HandlerCall(k, qu, r)
  <2>1. scenario.queues \subseteq Queue
    BY ScenarioAssumption DEF Punctual
  <2>2. CASE SendFromISR
    <3>1. PICK qu \in Queue \ Mutex :
            \E r : HandlerCall(WakeOne(k, ToReceive(qu)), qu, r) \/ HandlerCall(k, qu, r)
      BY <2>1, <2>2 DEF SendFromISR
    <3> QED BY <3>1
  <2>3. CASE ReceiveFromISR
    <3>1. PICK qu \in Queue \ Mutex :
            \E r : HandlerCall(WakeOne(k, ToSend(qu)), qu, r) \/ HandlerCall(k, qu, r)
      BY <2>1, <2>3 DEF ReceiveFromISR
    <3> QED BY <3>1
  <2> QED BY <2>2, <2>3
<1>1. PICK l, r : /\ l \in {ToSend(qu), ToReceive(qu)}
                  /\ HandlerCall(WakeOne(k, l), qu, r) \/ HandlerCall(k, qu, r)
  BY <1>0
<1>2. /\ InPlace(k, InHand) /\ (InHand = {} \/ k.susp = 1) /\ Listed(k, InHand)
      /\ Lines \subseteq DOMAIN k
  BY HandlersStart
<1>3. l \in WaitLists /\ l \in EventList
  BY <1>1, WaitListsExist DEF WaitLists
<1>4. PICK a : a = WakeOne(k, l)
  OBVIOUS
<1>5. Ranks(a, k, InHand) /\ InPlace(a, InHand)
  BY <1>2, <1>3, <1>4, WakesRank, WakesAreOnward DEF Onward
<1>6. Ranks(k, k, InHand)
  BY <1>2, StaysThere
<1>7. PICK s \in {a, k} : HandlerCall(s, qu, r)
  BY <1>1, <1>4
<1>8. Handler(s) /\ q' = [q EXCEPT ![qu] = r]
  BY <1>7 DEF HandlerCall
<1>9. KeepsMutexes
  BY <1>8, QueueAssumption DEF KeepsMutexes, Orderly, Counted
<1> QED BY <1>2, <1>5, <1>6, <1>7, <1>8, <1>9, HandlerIsInFront

-----------------------------------------------------------------------------
(* The mutexes of a system that locks plainly.                              *)

\* The running task is awake, and a priority may have changed.
LEMMA AwakeIsRanked ==
  ASSUME Punctual, Orderly, Ranked, NEW s, NEW p, NEW l, Goto(s, p, l),
         ~Leaving(pc[k.cur], Here),
         pc[k.cur] \notin {"aborted", "taken"}, p # "aborted",
         InPlace(s, {}), Listed(s, {}), Led(s, {}),
         Away(s) \subseteq Away(k), Awaiting(s) \subseteq Awaiting(k),
         \A m \in WaitLists : ToSet(s.events[m]) \subseteq ToSet(k.events[m]),
         s.cur = k.cur \/ s.cur \notin Away(s),
         p = "run" \/ SoundRank(k.cur, p, l)
  PROVE  /\ Ranked' /\ k'.prio = s.prio /\ k'.base = s.base /\ k'.events = s.events
         /\ scenario' = scenario
         /\ pc'[k.cur] = p /\ loc'[k.cur] = IF p = "run" THEN NoCall ELSE l
         /\ \A t \in Task : t # k.cur => pc'[t] = pc[t] /\ loc'[t] = loc[t]
<1>1. k.cur \notin Away(k) /\ Unlisted(k, k.cur) /\ k.cur \in Task
  BY RankedHere
<1>2. k.cur \notin Awaiting(k)
  BY <1>1 DEF Ranked
<1>3. PICK H : H = {} /\ H = IF p = "aborted" THEN {l.obj} ELSE {}
  OBVIOUS
<1>4. /\ InPlace(s, H) /\ Listed(s, H) /\ Led(s, H)
      /\ s.cur = k.cur \/ s.cur \notin Away(s) \cup H
      /\ k.cur \notin Away(s) \cup H
  BY <1>1, <1>3
<1>5. \A m \in WaitLists : \A u \in ToSet(s.events[m]) : u # k.cur /\ u \in ToSet(k.events[m])
  BY <1>1 DEF Unlisted
<1>6. \A u \in Awaiting(s) : u # k.cur /\ u \in Awaiting(k)
  BY <1>2
<1>7. Ranked'
  BY <1>3, <1>4, <1>5, <1>6, GotoIsRanked
<1>8. Lines \subseteq DOMAIN s
  BY InLines
<1> QED BY <1>7, <1>8, GotoStays

LEMMA TwoUsers ==
  ASSUME Plain, NEW m \in Mutex, NEW a \in Task, NEW b \in Task, NEW c \in Task,
         m \in scenario.locks[a], m \in scenario.locks[b], m \in scenario.locks[c],
         a # b, a # c
  PROVE  b = c
<1>1. SUFFICES ASSUME b # c PROVE FALSE
  OBVIOUS
<1>2. PICK S : S = {t \in Task : m \in scenario.locks[t]}
  OBVIOUS
<1>3. IsFiniteSet(S) /\ Cardinality(S) \in Nat
  BY <1>2, KernelAssumption, FS_Subset, FS_CardinalityType
<1>4. ~(Cardinality(S) > 2)
  BY <1>2 DEF Plain, Contended
<1>5. PICK A : A = {a} /\ IsFiniteSet(A) /\ Cardinality(A) = 1
  BY FS_Singleton
<1>6. PICK B : B = A \cup {b} /\ IsFiniteSet(B) /\ Cardinality(B) = 2
  <2>1. b \notin A
    BY <1>5
  <2>2. IsFiniteSet(A \cup {b}) /\ Cardinality(A \cup {b}) = Cardinality(A) + 1
    BY <1>5, <2>1, FS_AddElement
  <2> QED BY <1>5, <2>2
<1>7. PICK T : T = B \cup {c} /\ Cardinality(T) = 3
  <2>1. c \notin B
    BY <1>1, <1>5, <1>6
  <2>2. Cardinality(B \cup {c}) = Cardinality(B) + 1
    BY <1>6, <2>1, FS_AddElement
  <2> QED BY <1>6, <2>2
<1>8. T \in SUBSET S
  BY <1>2, <1>5, <1>6, <1>7
<1>9. Cardinality(T) <= Cardinality(S)
  BY <1>3, <1>8, FS_Subset
<1> QED BY <1>3, <1>4, <1>7, <1>9

\* A task holds no second mutex, and none while it wants one.
LEMMA HoldsOne ==
  ASSUME Orderly, Locking, Plain, NEW t \in Task, NEW m \in scenario.locks[t], m \in Mutex
  PROVE  /\ q[m].holder = t => k.held[t] = 1
         /\ \A n \in Mutex : n # m => q[n].holder # t
         /\ q[m].holder # t => k.prio[t] = k.base[t]
<1>1. \A n \in Mutex : n # m => q[n].holder # t
  BY NobodyAssumption DEF Locking, Lent, Plain
<1>2. ASSUME q[m].holder = t PROVE k.held[t] = 1
  <2>1. HeldBy(q, t) = {m}
    BY <1>1, <1>2 DEF HeldBy
  <2>2. Cardinality(HeldBy(q, t)) = 1
    BY <2>1, FS_Singleton
  <2> QED BY <2>2 DEF Orderly, Owned
<1>3. q[m].holder # t => k.prio[t] = k.base[t]
  BY <1>1 DEF Locking, Lent
<1> QED BY <1>1, <1>2, <1>3

\* Who wakes the first waiter leaves the others.
LEMMA WakesFirst ==
  ASSUME NEW s, NEW H, InPlace(s, H), Listed(s, H), H = {} \/ s.susp = 1, NEW l \in WaitLists,
         s.events[l] # <<>>
  PROVE  /\ Head(s.events[l]) \in Others /\ Head(s.events[l]) \in ToSet(s.events[l])
         /\ ToSet(WakeAndYield(s, l).events[l]) \subseteq ToSet(s.events[l]) \ {Head(s.events[l])}
<1>1. l \in EventList /\ l # Pending
  BY DEF WaitLists
<1>2. PICK t \in Others : t = Head(s.events[l])
  BY <1>1, FirstWaiter
<1>3. PICK e \in Seq(Others) : e = Tail(s.events[l])
  BY <1>1, FirstWaiter
<1>4. ToSet(e) = ToSet(s.events[l]) \ {t} /\ t \in ToSet(s.events[l])
  <2>1. s.events[l] \in Seq(Others)
    BY <1>1 DEF InPlace, Fit
  <2>2. PICK d \in Seq(Others) : d = s.events[l] /\ Once(d) /\ d # <<>>
    BY <2>1 DEF Listed
  <2>3. ToSet(e) = ToSet(d) \ {t}
    BY <1>2, <1>3, <2>2, TailOnce
  <2>4. Len(d) \in Nat /\ Len(d) # 0 /\ t = d[1]
    BY <1>2, <2>2, LenProperties, HeadTailProperties
  <2>5. 1 \in 1 .. Len(d)
    BY <2>4
  <2> QED BY <2>2, <2>3, <2>4, <2>5, ListMembers
<1>5. PICK a : a = [s EXCEPT !.events[l] = e]
  OBVIOUS
<1>6. InPlace(a, H) /\ a.susp = s.susp /\ a.events = [s.events EXCEPT ![l] = e]
  BY <1>1, <1>5, EventsAreOnward, InLines DEF Onward, Else
<1>7. a.events[l] = e /\ "events" \in DOMAIN a
  <2>1. l \in DOMAIN s.events /\ "events" \in DOMAIN s
    BY <1>1 DEF InPlace, Fit, Else
  <2> QED BY <1>5, <1>6, <2>1
<1>8. PICK b : b = [a EXCEPT !.events[Pending] = Append(@, t)]
  OBVIOUS
<1>9. b.events[l] = e /\ "events" \in DOMAIN b
  BY <1>1, <1>7, <1>8
<1>10. PICK c : c = RemoveStateItem(a, t)
  OBVIOUS
<1>11. c.events = a.events /\ "events" \in DOMAIN c
  BY <1>7, <1>10 DEF RemoveStateItem
<1>12. PICK d : d = ResetNextTaskUnblockTime(AddToReadyList(c, t))
  OBVIOUS
<1>13. d.events = a.events /\ "events" \in DOMAIN d
  BY <1>11, <1>12 DEF ResetNextTaskUnblockTime, AddToReadyList
<1>14. PICK r : r = IF s.susp = 0 THEN d ELSE b
  OBVIOUS
<1>15. PICK z : z = [r EXCEPT !.yield = @ \/ WakesHigher(s, l)]
  OBVIOUS
<1>16. z = RemoveFromEventList(s, l)
  BY <1>2, <1>3, <1>5, <1>6, <1>8, <1>10, <1>12, <1>14, <1>15 DEF RemoveFromEventList
<1>17. z.events[l] = e
  BY <1>7, <1>9, <1>13, <1>14, <1>15
<1>18. InPlace(z, H) /\ Listed(z, H)
  BY <1>1, <1>16, RemovalIsOnward, RemovalRanks DEF Onward, Ranks, Wakes
<1>19. PICK y : y = YieldIf(WakesHigher(s, l), z)
  OBVIOUS
<1>20. ToSet(y.events[l]) \subseteq ToSet(e)
  BY <1>17, <1>18, <1>19, YieldRanks DEF Ranks, Wakes
<1>21. y = WakeAndYield(s, l)
  BY <1>16, <1>19 DEF WakeAndYield
<1> QED BY <1>2, <1>4, <1>20, <1>21

-----------------------------------------------------------------------------
(* The calls on the queues.                                                 *)

\* A call on a queue that no mutex is comes back.
LEMMA DoneIsInFront ==
  ASSUME Punctual, Orderly, InFront, pc[k.cur] \in {"run", "try"}, NEW qu \in Queue \ Mutex,
         NEW r, NEW s, NEW l, InPlace(s, {}), Ranks(s, k, {}), Call(s, qu, r, "run", l)
  PROVE  InFront'
<1>1. Goto(s, "run", l) /\ q' = [q EXCEPT ![qu] = r]
  BY DEF Call
<1>2. KeepsMutexes
  BY <1>1, QueueAssumption DEF KeepsMutexes, Orderly, Counted
<1>3. ~Leaving(pc[k.cur], Here)
  BY DEF Leaving
<1> QED BY <1>1, <1>2, <1>3, AwakeIsInFront

LEMMA BlocksIsInFront ==
  ASSUME Punctual, Orderly, InFront, pc[k.cur] \in {"run", "try"}, NEW qu \in Queue,
         NEW l, DOMAIN NoCall \subseteq DOMAIN l, SoundRank(k.cur, "suspend", l),
         Wants(k.cur, "suspend", l, q, k.prio, scenario.locks), NEW wait, Blocks(qu, wait, l)
  PROVE  InFront'
<1>1. PICK m : m = [l EXCEPT !.set = TRUE]
  OBVIOUS
<1>2. m.op = l.op /\ m.obj = l.obj /\ m.block = l.block /\ m.next = l.next
      /\ m.inherited = l.inherited
  BY <1>1 DEF NoCall
<1>3. SoundRank(k.cur, "suspend", m) /\ Wants(k.cur, "suspend", m, q, k.prio, scenario.locks)
  BY <1>2 DEF SoundRank, Wants, QueueCall, Leaving
<1>4. /\ InPlace(k, {}) /\ Listed(k, {}) /\ ~Leaving(pc[k.cur], Here)
      /\ Lines \subseteq DOMAIN k /\ Ranks(k, k, {})
  <2>1. InPlace(k, {}) /\ Listed(k, {})
    BY RankedHere DEF InFront
  <2> QED BY <2>1, InLines, StaysThere DEF Leaving
<1>5. PICK a : a = InternalSetTimeOutState(k, k.cur)
  OBVIOUS
<1>6. InPlace(a, {}) /\ Ranks(a, k, {})
  <2>1. Same(a, k, Lines) /\ a.cur = k.cur /\ a.yield = k.yield
    BY <1>4, <1>5, InLines DEF InternalSetTimeOutState, Same, Lines, Where, Else
  <2> QED BY <1>4, <1>5, <2>1, TimeOutIsOnward, SameRanks DEF Onward
<1>7. PICK s : s = IF l.set \/ wait = MaxDelay THEN k ELSE a
  OBVIOUS
<1>8. InPlace(s, {}) /\ Ranks(s, k, {})
  BY <1>4, <1>6, <1>7
<1>9. Call(k, qu, q[qu], "run", l) \/ Call(s, qu, q[qu], "suspend", m)
  BY <1>1, <1>5, <1>7 DEF Blocks
<1>10. (Goto(k, "run", l) \/ Goto(s, "suspend", m)) /\ KeepsMutexes
  <2>1. (Goto(k, "run", l) \/ Goto(s, "suspend", m)) /\ q' = [q EXCEPT ![qu] = q[qu]]
    BY <1>9 DEF Call
  <2>2. \A x \in Mutex : q'[x] = q[x]
    BY <2>1, QueueAssumption DEF Orderly, Counted
  <2> QED BY <2>1, <2>2 DEF KeepsMutexes
<1> QED BY <1>3, <1>4, <1>8, <1>10, AwakeIsInFront

LEMMA TriesAreInFront ==
  ASSUME Punctual, Orderly, InFront, pc[k.cur] \in {"run", "try"}, NEW qu \in Queue \ Mutex,
         NEW l, DOMAIN NoCall \subseteq DOMAIN l, SoundRank(k.cur, "suspend", l),
         Wants(k.cur, "suspend", l, q, k.prio, scenario.locks),
         TrySend(qu, l) \/ TryReceive(qu, l) \/ TryPeek(qu, l)
  PROVE  InFront'
<1>1. /\ InPlace(k, {}) /\ Listed(k, {}) /\ qu \in Queue /\ qu \notin Mutex
      /\ ToSend(qu) \in WaitLists /\ ToReceive(qu) \in WaitLists
      /\ ToSend(qu) \in EventList /\ ToReceive(qu) \in EventList
  BY RankedHere, EventListsExist, WaitListsExist DEF InFront
<1>2. PICK a : a = WakeAndYield(k, ToReceive(qu)) /\ InPlace(a, {}) /\ Ranks(a, k, {})
  BY <1>1, WakesAreOnward, WakesRank DEF Onward
<1>3. PICK b : b = WakeAndYield(k, ToSend(qu)) /\ InPlace(b, {}) /\ Ranks(b, k, {})
  BY <1>1, WakesAreOnward, WakesRank DEF Onward
<1>4. CASE TrySend(qu, l)
  <2>1. PICK r : r = CopyDataToQueue(q[qu], qu, l.item, l.where)
    OBVIOUS
  <2>2. Call(a, qu, r, "run", l) \/ Blocks(qu, l.wait, l)
    BY <1>1, <1>2, <1>4, <2>1, Zenon DEF TrySend
  <2> QED BY <1>1, <1>2, <2>2, DoneIsInFront, BlocksIsInFront
<1>5. CASE TryReceive(qu, l)
  <2>1. PICK r : r = CopyDataFromQueue(q[qu], qu)
    OBVIOUS
  <2>2. Call(b, qu, r, "run", l) \/ Blocks(qu, l.wait, l)
    BY <1>3, <1>5, <2>1, Zenon DEF TryReceive
  <2> QED BY <1>1, <1>3, <2>2, DoneIsInFront, BlocksIsInFront
<1>6. CASE TryPeek(qu, l)
  <2>1. PICK r : r = q[qu]
    OBVIOUS
  <2>2. Call(a, qu, r, "run", l) \/ Blocks(qu, l.wait, l)
    BY <1>2, <1>6, <2>1, Zenon DEF TryPeek
  <2> QED BY <1>1, <1>2, <2>2, DoneIsInFront, BlocksIsInFront
<1> QED BY <1>4, <1>5, <1>6

\* A mutex is taken: nobody waits for one that is free.
LEMMA TryLockIsInFront ==
  ASSUME Punctual, Orderly, InFront, pc[k.cur] \in {"run", "try"}, NEW qu \in Mutex,
         NEW l, DOMAIN NoCall \subseteq DOMAIN l, l.op = "lock", l.obj = qu,
         SoundRank(k.cur, "suspend", l),
         Wants(k.cur, "suspend", l, q, k.prio, scenario.locks), TryLock(qu, l)
  PROVE  InFront'
<1>1. /\ InPlace(k, {}) /\ Listed(k, {}) /\ Led(k, {}) /\ qu \in Queue /\ k.cur \in Task
      /\ ToSend(qu) \in WaitLists /\ ToSend(qu) \in EventList
      /\ Owned(k.held, q) /\ Counted(q) /\ Ranked /\ Locking /\ Plain
  BY RankedHere, EventListsExist, WaitListsExist, QueueAssumption DEF InFront, Orderly
<1>2. CASE q[qu].n > 0
  <2>1. q[qu].holder = Nobody /\ qu \in scenario.locks[k.cur]
    BY <1>1, <1>2 DEF Owned, Wants
  <2>2. PICK r : r = [q[qu] EXCEPT !.n = @ - 1, !.holder = k.cur]
    OBVIOUS
  <2>3. PICK g : g = [k.held EXCEPT ![k.cur] = @ + 1]
    OBVIOUS
  <2>4. PICK a : a = [k EXCEPT !.held = g]
    OBVIOUS
  <2>5. InPlace(a, {}) /\ Ranks(a, k, {})
    <3>1. InPlace(a, {})
      BY <1>1, <2>4, HeldIsInPlace
    <3>2. Same(a, k, Lines) /\ a.cur = k.cur /\ a.yield = k.yield
      BY <1>1, <2>4, InLines DEF Same, Lines, Where, Else
    <3> QED BY <1>1, <3>1, <3>2, SameRanks
  <2>6. PICK s : s = WakeAndYield(a, ToSend(qu))
    OBVIOUS
  <2>7. InPlace(s, {}) /\ Ranks(s, k, {})
    <3>1. Listed(a, {})
      BY <2>5 DEF Ranks, Wakes
    <3>2. Ranks(s, a, {}) /\ InPlace(s, {})
      BY <1>1, <2>5, <2>6, <3>1, WakesRank, WakesAreOnward DEF Onward
    <3> QED BY <2>5, <3>2, RanksTwice
  <2>8. a = [k EXCEPT !.held[k.cur] = @ + 1]
    BY <2>3, <2>4
  <2>9. Call(s, qu, r, "run", l)
    BY <1>2, <2>2, <2>6, <2>8, Zenon DEF TryLock
  <2>10. Goto(s, "run", l) /\ q' = [q EXCEPT ![qu] = r]
    BY <2>9, Zenon DEF Call
  <2>11. /\ Listed(s, {}) /\ Led(s, {}) /\ Away(s) \subseteq Away(k)
         /\ Awaiting(s) \subseteq Awaiting(k)
         /\ \A m \in WaitLists : ToSet(s.events[m]) \subseteq ToSet(k.events[m])
         /\ s.cur = k.cur \/ s.cur \notin Away(s)
         /\ s.prio = k.prio /\ s.base = k.base
    BY <1>1, <2>7 DEF Ranks, Wakes
  <2>12. ~Leaving(pc[k.cur], Here)
    BY DEF Leaving
  <2>13. /\ Ranked' /\ k'.prio = k.prio /\ k'.base = k.base /\ k'.events = s.events
         /\ scenario' = scenario /\ pc'[k.cur] = "run" /\ loc'[k.cur] = NoCall
         /\ \A t \in Task : t # k.cur => pc'[t] = pc[t] /\ loc'[t] = loc[t]
    BY <1>1, <2>7, <2>10, <2>11, <2>12, AwakeIsRanked
  <2>14. /\ q'[qu].holder = k.cur
         /\ \A m \in Mutex : m # qu => q'[m] = q[m]
    <3>1. r.holder = k.cur
      BY <1>1, <2>2 DEF Counted
    <3> QED BY <1>1, <2>10, <3>1, QueueAssumption DEF Counted
  <2>15. Lent(k'.prio, k'.base, q', scenario'.locks)
    <3>1. ASSUME NEW t \in Task, k.prio[t] # k.base[t]
          PROVE  /\ k.base[t] < k.prio[t]
                 /\ \E m \in Mutex, w \in Task : /\ w # t /\ q'[m].holder = t
                                                 /\ m \in scenario.locks[w]
                                                 /\ k.prio[t] = k.base[w]
      <4>1. PICK m \in Mutex, w \in Task : /\ w # t /\ q[m].holder = t
                                           /\ m \in scenario.locks[w]
                                           /\ k.prio[t] = k.base[w]
        BY <1>1, <3>1 DEF Locking, Lent
      <4>2. m # qu
        BY <2>1, <4>1, NobodyAssumption
      <4> QED BY <1>1, <2>14, <3>1, <4>1, <4>2 DEF Locking, Lent
    <3>2. \A m \in Mutex : q'[m].holder # Nobody => m \in scenario.locks[q'[m].holder]
      BY <1>1, <2>1, <2>14 DEF Locking, Lent
    <3> QED BY <2>13, <3>1, <3>2 DEF Lent
  <2>16. Waited(k'.prio, k'.base, k'.events, q')
    <3>1. ASSUME NEW m \in Mutex, NEW w \in ToSet(s.events[ToReceive(m)])
          PROVE  q'[m].holder # Nobody /\ k.prio[q'[m].holder] >= k.base[w]
      <4>1. w \in ToSet(k.events[ToReceive(m)])
        BY <2>11, QueueAssumption, WaitListsExist
      <4>2. q[m].holder # Nobody /\ k.prio[q[m].holder] >= k.base[w]
        BY <1>1, <4>1 DEF Locking, Waited
      <4> QED BY <2>1, <2>14, <4>2
    <3> QED BY <2>13, <3>1 DEF Waited
  <2>17. ASSUME NEW u \in Task PROVE Wants(u, pc'[u], loc'[u], q', k'.prio, scenario'.locks)
    <3>1. CASE u = k.cur
      BY <2>13, <3>1 DEF Wants, NoCall
    <3>2. CASE u # k.cur
      <4>1. pc[u] # "place"
        BY <3>2 DEF Punctual, Suspension, Inside
      <4>2. Wants(u, pc[u], loc[u], q, k.prio, scenario.locks)
        BY <1>1 DEF Locking
      <4>3. scenario.locks[u] \subseteq Mutex
        BY UsersLock
      <4> QED BY <2>13, <2>14, <3>2, <4>1, <4>2, <4>3 DEF Wants
    <3> QED BY <3>1, <3>2
  <2>18. Locking'
    BY <2>15, <2>16, <2>17, PrimedLocking
  <2> QED BY <1>1, <2>13, <2>18, PlainStays DEF InFront
<1>3. CASE ~(q[qu].n > 0)
  <2>1. Blocks(qu, l.wait, l)
    BY <1>3, Zenon DEF TryLock
  <2> QED BY <1>1, <2>1, BlocksIsInFront
<1> QED BY <1>2, <1>3

\* A mutex is given back.  Its only other user, if it waits, is woken; when
\* the holder has run with its priority the holder steps back behind it.
LEMMA UnlockIsInFront ==
  ASSUME Punctual, Orderly, InFront, StartUnlock PROVE InFront'
<1>1. PICK qu \in scenario.locks[k.cur] :
        /\ q[qu].holder = k.cur
        /\ TrySend(qu, [NoCall EXCEPT !.op = "send", !.obj = qu])
  BY DEF StartUnlock
<1>2. pc[k.cur] = "run"
  BY CallersAreOthers DEF StartUnlock
<1>3. /\ InPlace(k, {}) /\ Listed(k, {}) /\ Led(k, {}) /\ k.cur \in Task
      /\ ~Leaving(pc[k.cur], Here) /\ Ranked /\ Locking /\ Plain /\ InPlace(k, InHand)
  BY <1>2, CallersAreAwake, HereIsOrderly DEF InFront
<1>4. qu \in Mutex /\ qu \in Queue
  BY <1>3, UsersLock
<1>5. PICK e \in WaitLists : e = ToReceive(qu) /\ e \in EventList
  BY <1>4, EventListsExist, WaitListsExist
<1>6. Owned(k.held, q) /\ Counted(q)
  BY DEF Orderly
<1>7. q[qu].n = 0 /\ Length[qu] = 1
  BY <1>1, <1>3, <1>4, <1>6, QueueAssumption, NobodyAssumption DEF Owned
<1>8. k.held[k.cur] = 1 /\ \A n \in Mutex : n # qu => q[n].holder # k.cur
  BY <1>1, <1>3, <1>4, HoldsOne
<1>9. PICK x : x = k.base[k.cur] /\ x \in Int /\ k.prio[k.cur] \in Int
  BY <1>3, KernelAssumption DEF InPlace, Fit, Tidy, Lists, Prio
<1>10. PICK less : less = PriorityDisinherit(k, k.cur) /\ InPlace(less, {})
  BY <1>3, DisinheritIsInPlace
<1>11. Reranks(less, k, k.cur, x) /\ less.base = k.base
  <2>1. x = IF Disinherits(k, k.cur) THEN k.base[k.cur] ELSE k.prio[k.cur]
    BY <1>8, <1>9 DEF Disinherits
  <2> QED BY <1>3, <1>10, <2>1, DisinheritReranks
<1>12. /\ Listed(less, {}) /\ less.events = k.events /\ less.cur = k.cur
       /\ Away(less) = Away(k) /\ Awaiting(less) = Awaiting(k)
       /\ less.prio[k.cur] = x /\ \A t \in Task : t # k.cur => less.prio[t] = k.prio[t]
  <2>1. k.prio \in [Task -> Prio]
    BY <1>3 DEF InPlace, Tidy, Lists
  <2> QED BY <1>3, <1>11, <2>1 DEF Reranks
<1>13. k.prio[k.cur] = x => Led(less, {})
  <2>1. ASSUME k.prio[k.cur] = x PROVE Led(less, {})
    <3>1. PICK c \in Task : c = k.cur
      BY <1>3
    <3>2. Reranks(less, k, c, x)
      BY <1>11, <3>1
    <3>3. x >= k.prio[c] /\ c = k.cur /\ x \in Int
      BY <1>9, <2>1, <3>1
    <3>4. InPlace(k, {}) /\ Led(k, {})
      BY <1>3
    <3> QED BY <3>2, <3>3, <3>4, RerankedLed
  <2> QED BY <2>1
<1>14. ASSUME NEW w \in ToSet(k.events[e])
       PROVE  /\ w \in Task /\ qu \in scenario.locks[w] /\ w # k.cur
              /\ k.prio[w] = k.base[w] /\ k.prio[k.cur] >= k.base[w]
  <2>1. w \in Task /\ qu \in scenario.locks[w] /\ w # k.cur
    BY <1>1, <1>3, <1>4, <1>5, <1>14, WaitersLock
  <2>2. k.prio[w] = k.base[w]
    BY <1>1, <1>3, <1>4, <2>1, HoldsOne
  <2> QED BY <1>1, <1>3, <1>4, <1>5, <2>1, <2>2 DEF Locking, Waited
<1>15. ASSUME NEW w \in ToSet(k.events[e]), NEW v \in ToSet(k.events[e]) PROVE v = w
  BY <1>3, <1>4, <1>14, TwoUsers
<1>16. PICK s : s = GiveBack(k, qu) /\ InPlace(s, {})
  BY <1>3, <1>4, GiveBackIsInPlace
<1>17. Ranks(s, less, {}) /\ Led(s, {}) /\ ToSet(s.events[e]) = {}
  <2>1. CASE k.events[e] = <<>>
    <3>1. s = YieldIf(Disinherits(k, k.cur), less)
      BY <1>5, <1>10, <1>16, <2>1, Zenon DEF GiveBack
    <3>2. PICK y : y = Disinherits(k, k.cur)
      OBVIOUS
    <3>3. y \/ Led(less, {})
      BY <1>8, <1>9, <1>13, <3>2 DEF Disinherits
    <3>4. Ranks(s, less, {}) /\ Led(s, {})
      BY <1>10, <1>12, <3>1, <3>2, <3>3, YieldRanks
    <3>5. ToSet(k.events[e]) = {}
      <4>1. k.events[e] \in Seq(Others)
        BY <1>3, <1>5 DEF InPlace, Fit
      <4>2. PICK d \in Seq(Others) : d = k.events[e] /\ Len(d) = 0
        BY <2>1, <4>1
      <4>3. ASSUME NEW v \in ToSet(d) PROVE FALSE
        <5>1. PICK i \in 1 .. Len(d) : d[i] = v
          BY ListMembers
        <5> QED BY <4>2, <5>1
      <4> QED BY <4>2, <4>3
    <3>6. ToSet(s.events[e]) \subseteq ToSet(k.events[e])
      BY <1>12, <3>4 DEF Ranks, Wakes
    <3> QED BY <3>4, <3>5, <3>6
  <2>2. CASE k.events[e] # <<>>
    <3>1. s = WakeAndYield(less, e)
      BY <1>5, <1>10, <1>12, <1>16, <2>2, Zenon DEF GiveBack
    <3>2. PICK w : w = Head(k.events[e]) /\ w \in ToSet(k.events[e])
      BY <1>3, <2>2, WakesFirst
    <3>3. ToSet(s.events[e]) \subseteq ToSet(k.events[e]) \ {w}
      BY <1>10, <1>12, <2>2, <3>1, <3>2, WakesFirst
    <3>4. Ranks(s, less, {}) /\ (WakesHigher(less, e) => Led(s, {}))
      BY <1>10, <1>12, <2>2, <3>1, WakesRank
    <3>5. ToSet(s.events[e]) = {}
      BY <1>15, <3>2, <3>3
    <3>6. CASE k.prio[k.cur] = x
      BY <1>13, <3>4, <3>5, <3>6 DEF Ranks
    <3>7. CASE k.prio[k.cur] # x
      <4>1. PICK m \in Mutex, v \in Task : /\ v # k.cur /\ q[m].holder = k.cur
                                           /\ m \in scenario.locks[v]
                                           /\ k.prio[k.cur] = k.base[v]
        BY <1>3, <1>9, <3>7 DEF Locking, Lent
      <4>2. x < k.prio[k.cur]
        BY <1>3, <1>9, <3>7 DEF Locking, Lent
      <4>3. v = w
        BY <1>3, <1>4, <1>8, <1>14, <3>2, <4>1, TwoUsers
      <4>4. k.prio[w] = k.prio[k.cur] /\ w \in Task /\ w # k.cur
        BY <1>14, <3>2, <4>1, <4>3
      <4>5. less.prio[w] > less.prio[less.cur]
        BY <1>9, <1>12, <4>2, <4>4
      <4>6. WakesHigher(less, e)
        BY <1>12, <3>2, <4>5 DEF WakesHigher
      <4> QED BY <3>4, <3>5, <4>6
    <3> QED BY <3>6, <3>7
  <2> QED BY <2>1, <2>2
<1>18. /\ Listed(s, {}) /\ Away(s) \subseteq Away(k) /\ Awaiting(s) \subseteq Awaiting(k)
       /\ \A m \in WaitLists : ToSet(s.events[m]) \subseteq ToSet(k.events[m])
       /\ s.cur = k.cur \/ s.cur \notin Away(s)
       /\ s.prio = less.prio /\ s.base = k.base
  BY <1>11, <1>12, <1>17 DEF Ranks, Wakes
<1>19. PICK l : l = [NoCall EXCEPT !.op = "send", !.obj = qu]
  OBVIOUS
<1>20. PICK r : r = [q[qu] EXCEPT !.holder = Nobody, !.n = @ + 1]
  OBVIOUS
<1>21. r = CopyDataToQueue(q[qu], qu, l.item, l.where)
  BY <1>4, <1>20 DEF CopyDataToQueue
<1>22. Goto(s, "run", l) /\ q' = [q EXCEPT ![qu] = r]
  <2>1. q[qu].n < Length[qu]
    BY <1>7
  <2>2. Call(s, qu, r, "run", l)
    BY <1>1, <1>4, <1>16, <1>19, <1>21, <2>1, Zenon DEF TrySend
  <2> QED BY <2>2, Zenon DEF Call
<1>23. /\ Ranked' /\ k'.prio = s.prio /\ k'.base = k.base /\ k'.events = s.events
       /\ scenario' = scenario /\ pc'[k.cur] = "run" /\ loc'[k.cur] = NoCall
       /\ \A t \in Task : t # k.cur => pc'[t] = pc[t] /\ loc'[t] = loc[t]
  BY <1>2, <1>3, <1>16, <1>17, <1>18, <1>22, AwakeIsRanked
<1>24. q'[qu].holder = Nobody /\ \A m \in Mutex : m # qu => q'[m] = q[m]
  <2>1. r.holder = Nobody
    BY <1>4, <1>6, <1>20 DEF Counted
  <2> QED BY <1>4, <1>6, <1>22, <2>1, QueueAssumption DEF Counted
<1>25. Lent(k'.prio, k'.base, q', scenario'.locks)
  <2>1. ASSUME NEW t \in Task, s.prio[t] # k.base[t]
        PROVE  /\ k.base[t] < s.prio[t]
               /\ \E m \in Mutex, w \in Task : /\ w # t /\ q'[m].holder = t
                                               /\ m \in scenario.locks[w]
                                               /\ s.prio[t] = k.base[w]
    <3>1. t # k.cur /\ s.prio[t] = k.prio[t]
      BY <1>9, <1>12, <1>18, <2>1
    <3>2. PICK m \in Mutex, w \in Task : /\ w # t /\ q[m].holder = t
                                         /\ m \in scenario.locks[w]
                                         /\ k.prio[t] = k.base[w]
      BY <1>3, <2>1, <3>1 DEF Locking, Lent
    <3>3. m # qu
      BY <1>1, <3>1, <3>2
    <3> QED BY <1>3, <1>24, <2>1, <3>1, <3>2, <3>3 DEF Locking, Lent
  <2>2. \A m \in Mutex : q'[m].holder # Nobody => m \in scenario.locks[q'[m].holder]
    BY <1>3, <1>24 DEF Locking, Lent
  <2> QED BY <1>23, <2>1, <2>2 DEF Lent
<1>26. Waited(k'.prio, k'.base, k'.events, q')
  <2>1. ASSUME NEW m \in Mutex, NEW w \in ToSet(s.events[ToReceive(m)])
        PROVE  q'[m].holder # Nobody /\ s.prio[q'[m].holder] >= k.base[w]
    <3>1. m # qu
      BY <1>5, <1>17, <2>1
    <3>2. w \in ToSet(k.events[ToReceive(m)])
      BY <1>18, QueueAssumption, WaitListsExist
    <3>3. q[m].holder # Nobody /\ k.prio[q[m].holder] >= k.base[w]
      BY <1>3, <3>2 DEF Locking, Waited
    <3>4. q[m].holder \in Task /\ q[m].holder # k.cur
      BY <1>6, <1>8, <3>1, <3>3 DEF Owned
    <3> QED BY <1>12, <1>18, <1>24, <3>1, <3>3, <3>4
  <2> QED BY <1>23, <2>1 DEF Waited
<1>27. ASSUME NEW u \in Task PROVE Wants(u, pc'[u], loc'[u], q', k'.prio, scenario'.locks)
  <2>1. CASE u = k.cur
    BY <1>23, <2>1 DEF Wants, NoCall
  <2>2. CASE u # k.cur
    <3>1. pc[u] # "place"
      BY <2>2 DEF Punctual, Suspension, Inside
    <3>2. Wants(u, pc[u], loc[u], q, k.prio, scenario.locks)
      BY <1>3 DEF Locking
    <3>3. scenario.locks[u] \subseteq Mutex
      BY UsersLock
    <3> QED BY <1>23, <1>24, <2>2, <3>1, <3>2, <3>3, NobodyAssumption DEF Wants
  <2> QED BY <2>1, <2>2
<1>28. Locking'
  BY <1>25, <1>26, <1>27, PrimedLocking
<1> QED BY <1>3, <1>23, <1>28, PlainStays DEF InFront

\* A call that has just begun.
LEMMA NewCallRanks ==
  ASSUME NEW t, NEW l, l.next = "run", ~l.inherited
  PROVE  SoundRank(t, "suspend", l)
  BY DEF SoundRank, Leaving

LEMMA CallsAreInFront ==
  ASSUME Punctual, Orderly, InFront,
         StartSend \/ StartOverwrite \/ StartReceive \/ StartPeek \/ StartLock
         \/ StartUnlock \/ Reset
  PROVE  InFront'
<1>1. k.cur \in Others /\ pc[k.cur] = "run" /\ k.cur \in Task
  BY CallersAreOthers
  DEF StartSend, StartOverwrite, StartReceive, StartPeek, StartLock, StartUnlock, Reset, Others
<1>2. /\ scenario.queues \subseteq Queue /\ scenario.where \subseteq {"back", "front"}
      /\ scenario.locks[k.cur] \subseteq Mutex
  BY <1>1, ScenarioAssumption DEF Punctual, Others
<1>3. ASSUME NEW qu \in scenario.queues \ Mutex, NEW l, DOMAIN NoCall \subseteq DOMAIN l,
             l.op # "lock", l.next = "run", ~l.inherited,
             TrySend(qu, l) \/ TryReceive(qu, l) \/ TryPeek(qu, l)
      PROVE  InFront'
  <2>1. qu \in Queue \ Mutex
    BY <1>2
  <2>2. SoundRank(k.cur, "suspend", l) /\ Wants(k.cur, "suspend", l, q, k.prio, scenario.locks)
    BY <1>3, NewCallRanks DEF Wants
  <2> QED BY <1>1, <1>3, <2>1, <2>2, TriesAreInFront
<1>4. ASSUME StartSend PROVE InFront'
  <2>1. PICK qu, x, n, w :
          /\ qu \in scenario.queues \ Mutex /\ w \in scenario.where
          /\ TrySend(qu, [NoCall EXCEPT !.op = "send", !.obj = qu, !.item = x,
                                        !.where = w, !.wait = n])
    BY <1>4, Zenon DEF StartSend
  <2>2. PICK l : l = [NoCall EXCEPT !.op = "send", !.obj = qu, !.item = x,
                                    !.where = w, !.wait = n]
    OBVIOUS
  <2>3. DOMAIN NoCall \subseteq DOMAIN l /\ l.op = "send" /\ l.next = "run" /\ ~l.inherited
    BY <2>2 DEF NoCall
  <2> QED BY <1>3, <2>1, <2>2, <2>3
<1>5. ASSUME StartOverwrite PROVE InFront'
  <2>1. PICK qu \in scenario.queues \ Mutex, x \in scenario.items :
          TrySend(qu, [NoCall EXCEPT !.op = "send", !.obj = qu, !.item = x, !.where = "over"])
    BY <1>5, Zenon DEF StartOverwrite
  <2>2. PICK l : l = [NoCall EXCEPT !.op = "send", !.obj = qu, !.item = x, !.where = "over"]
    OBVIOUS
  <2>3. DOMAIN NoCall \subseteq DOMAIN l /\ l.op = "send" /\ l.next = "run" /\ ~l.inherited
    BY <2>2 DEF NoCall
  <2> QED BY <1>3, <2>1, <2>2, <2>3
<1>6. ASSUME StartReceive PROVE InFront'
  <2>1. PICK qu \in scenario.queues \ Mutex, n \in scenario.waits[k.cur] :
          TryReceive(qu, [NoCall EXCEPT !.op = "receive", !.obj = qu, !.wait = n])
    BY <1>6, Zenon DEF StartReceive
  <2>2. PICK l : l = [NoCall EXCEPT !.op = "receive", !.obj = qu, !.wait = n]
    OBVIOUS
  <2>3. DOMAIN NoCall \subseteq DOMAIN l /\ l.op = "receive" /\ l.next = "run" /\ ~l.inherited
    BY <2>2 DEF NoCall
  <2> QED BY <1>3, <2>1, <2>2, <2>3
<1>7. ASSUME StartPeek PROVE InFront'
  <2>1. PICK qu \in scenario.queues \ Mutex, n \in scenario.waits[k.cur] :
          TryPeek(qu, [NoCall EXCEPT !.op = "peek", !.obj = qu, !.wait = n])
    BY <1>7, Zenon DEF StartPeek
  <2>2. PICK l : l = [NoCall EXCEPT !.op = "peek", !.obj = qu, !.wait = n]
    OBVIOUS
  <2>3. DOMAIN NoCall \subseteq DOMAIN l /\ l.op = "peek" /\ l.next = "run" /\ ~l.inherited
    BY <2>2 DEF NoCall
  <2> QED BY <1>3, <2>1, <2>2, <2>3
<1>8. ASSUME StartLock PROVE InFront'
  <2>1. PICK qu \in scenario.locks[k.cur], n \in scenario.waits[k.cur] :
          /\ q[qu].holder # k.cur
          /\ TryLock(qu, [NoCall EXCEPT !.op = "lock", !.obj = qu, !.wait = n])
    BY <1>8, Zenon DEF StartLock
  <2>2. PICK l : l = [NoCall EXCEPT !.op = "lock", !.obj = qu, !.wait = n]
    OBVIOUS
  <2>3. /\ DOMAIN NoCall \subseteq DOMAIN l /\ l.op = "lock" /\ l.obj = qu /\ l.next = "run"
        /\ ~l.inherited
    BY <2>2 DEF NoCall
  <2>4. qu \in Mutex /\ TryLock(qu, l)
    BY <1>2, <2>1, <2>2
  <2>5. SoundRank(k.cur, "suspend", l) /\ Wants(k.cur, "suspend", l, q, k.prio, scenario.locks)
    BY <2>1, <2>3, NewCallRanks DEF Wants
  <2> QED BY <1>1, <2>3, <2>4, <2>5, TryLockIsInFront
<1>9. ASSUME Reset PROVE InFront'
  <2>1. PICK qu \in Queue \ Mutex :
          Call(WakeAndYield(k, ToSend(qu)), qu, NewQueue(qu), "run", NoCall)
    BY <1>2, <1>9, Zenon DEF Reset
  <2>2. InPlace(k, {}) /\ Listed(k, {}) /\ ToSend(qu) \in WaitLists /\ ToSend(qu) \in EventList
    BY <1>1, RankedHere, WaitListsExist, EventListsExist DEF InFront
  <2>3. PICK s : s = WakeAndYield(k, ToSend(qu)) /\ InPlace(s, {}) /\ Ranks(s, k, {})
    BY <2>2, WakesAreOnward, WakesRank DEF Onward
  <2> QED BY <1>1, <2>1, <2>3, DoneIsInFront
<1> QED BY <1>4, <1>5, <1>6, <1>7, <1>8, <1>9, UnlockIsInFront

LEMMA TryAgainIsInFront ==
  ASSUME Punctual, Orderly, InFront, TryAgain PROVE InFront'
<1>1. pc[k.cur] = "try" /\ pc[k.cur] \in Loop
  BY DEF TryAgain, At, Loop
<1>2. /\ k.cur \in Task /\ QueueCall(Here) /\ DOMAIN NoCall \subseteq DOMAIN Here
  BY <1>1, InTheLoop
<1>3. SoundRank(k.cur, "suspend", Here) /\ Wants(k.cur, "suspend", Here, q, k.prio, scenario.locks)
  <2>1. ~Leaving("suspend", Here)
    BY DEF Leaving
  <2> QED BY <1>2, <2>1, GoesOn DEF InFront
<1>4. CASE \/ Here.op = "send" /\ TrySend(Here.obj, Here)
           \/ Here.op = "receive" /\ TryReceive(Here.obj, Here)
           \/ Here.op = "peek" /\ TryPeek(Here.obj, Here)
  <2>1. Here.obj \in Queue \ Mutex
    BY <1>2, <1>4 DEF QueueCall
  <2> QED BY <1>1, <1>2, <1>3, <1>4, <2>1, TriesAreInFront
<1>5. CASE Here.op = "lock" /\ TryLock(Here.obj, Here)
  <2>1. Here.obj \in Mutex
    BY <1>2, <1>5 DEF QueueCall
  <2> QED BY <1>1, <1>2, <1>3, <1>5, <2>1, TryLockIsInFront
<1> QED BY <1>4, <1>5, Zenon DEF TryAgain

\* In the loop the task is awake until it has put itself on the event list.
LEMMA LoopIsAwake ==
  ASSUME Punctual, Orderly, InFront, pc[k.cur] \in Loop
  PROVE  /\ InPlace(k, {}) /\ Listed(k, {}) /\ Led(k, {}) /\ Lines \subseteq DOMAIN k
         /\ Ranks(k, k, {}) /\ k.cur \in Task /\ k.cur \in Others /\ QueueCall(Here)
         /\ DOMAIN NoCall \subseteq DOMAIN Here /\ Here.obj \in Queue
         /\ SoundRank(k.cur, pc[k.cur], Here) /\ Ranked /\ Locking /\ Plain
         /\ Wants(k.cur, pc[k.cur], Here, q, k.prio, scenario.locks)
         /\ pc[k.cur] \notin {"aborted", "taken"}
         /\ pc[k.cur] \notin {"unlockTx", "unlockRx"} =>
              ~Leaving(pc[k.cur], Here) /\ k.cur \notin Away(k)
<1>1. pc[k.cur] \notin {"aborted", "taken"} /\ Ranked /\ Locking /\ Plain
  BY DEF Loop, InFront
<1>2. /\ InPlace(k, {}) /\ Listed(k, {}) /\ Led(k, {}) /\ k.cur \in Task
      /\ SoundRank(k.cur, pc[k.cur], Here)
      /\ k.cur \in Away(k) => Leaving(pc[k.cur], Here)
  BY <1>1, RankedHere
<1>3. Lines \subseteq DOMAIN k /\ Ranks(k, k, {})
  BY <1>2, InLines, StaysThere
<1>4. pc[k.cur] \notin {"unlockTx", "unlockRx"} => ~Leaving(pc[k.cur], Here)
  BY DEF Leaving, Loop
<1>5. /\ k.cur \in Others /\ QueueCall(Here) /\ Here.obj \in Queue
      /\ DOMAIN NoCall \subseteq DOMAIN Here
  BY InTheLoop
<1>6. Wants(k.cur, pc[k.cur], Here, q, k.prio, scenario.locks)
  BY <1>1, <1>2 DEF Locking, Here
<1> QED BY <1>1, <1>2, <1>3, <1>4, <1>5, <1>6

\* The locks of a queue say nothing of a mutex.
LEMMA LocksMoveOn ==
  ASSUME Orderly, NEW qu \in Queue, NEW r, q' = [q EXCEPT ![qu] = r],
         r.holder = q[qu].holder, r.n = q[qu].n
  PROVE  KeepsMutexes
  BY QueueAssumption DEF KeepsMutexes, Orderly, Counted

LEMMA LockingIsInFront ==
  ASSUME Punctual, Orderly, InFront, Suspend \/ LockQueue \/ Look \/ Late
  PROVE  InFront'
<1>1. pc[k.cur] \in Loop /\ pc[k.cur] \in {"suspend", "lock", "look", "late"}
  BY DEF Suspend, LockQueue, Look, Late, At, Loop
<1>2. /\ InPlace(k, {}) /\ Listed(k, {}) /\ Ranks(k, k, {}) /\ k.cur \in Task
      /\ QueueCall(Here) /\ Here.obj \in Queue /\ Ranked /\ Locking
      /\ SoundRank(k.cur, pc[k.cur], Here) /\ ~Leaving(pc[k.cur], Here)
      /\ Wants(k.cur, pc[k.cur], Here, q, k.prio, scenario.locks)
      /\ pc[k.cur] \notin {"aborted", "taken"}
  BY <1>1, LoopIsAwake
<1>3. CASE Suspend
  <2>1. Goto(SuspendAll(k), "lock", Here) /\ q' = q
    BY <1>3 DEF Suspend
  <2>2. PICK s : s = SuspendAll(k) /\ InPlace(s, {}) /\ Ranks(s, k, {})
    BY <1>2, SuspendIsInPlace, SuspendRanks
  <2>3. SoundRank(k.cur, "lock", Here) /\ Wants(k.cur, "lock", Here, q, k.prio, scenario.locks)
    <3>1. ~Leaving("lock", Here)
      BY DEF Leaving
    <3> QED BY <1>2, <3>1, GoesOn
  <2> QED BY <1>2, <2>1, <2>2, <2>3, MutexesStay, AwakeIsInFront
<1>4. CASE LockQueue
  <2>1. PICK qu \in Queue : qu = Here.obj
    BY <1>2
  <2>2. PICK r : r = [q[qu] EXCEPT
                        !.rx = IF @ = Unlocked THEN LockedUnmodified ELSE @,
                        !.tx = IF @ = Unlocked THEN LockedUnmodified ELSE @]
    OBVIOUS
  <2>3. Call(k, qu, r, "check", Here)
    BY <1>4, <2>1, <2>2 DEF LockQueue
  <2>4. r.holder = q[qu].holder /\ r.n = q[qu].n
    BY <2>2 DEF Orderly, Counted
  <2>5. Goto(k, "check", Here) /\ KeepsMutexes
    BY <2>3, <2>4, LocksMoveOn DEF Call
  <2>6. SoundRank(k.cur, "check", Here) /\ Wants(k.cur, "check", Here, q, k.prio, scenario.locks)
    <3>1. ~Leaving("check", Here)
      BY DEF Leaving
    <3> QED BY <1>2, <3>1, GoesOn
  <2> QED BY <1>2, <2>5, <2>6, AwakeIsInFront
<1>5. CASE Look
  <2>1. PICK p \in {"unlockTx", "inherit", "place"} :
          /\ Goto(k, p, Here) /\ q' = q
          /\ p = "inherit" => Here.op = "lock"
          /\ p = "place" => ~(Here.obj \in Mutex /\ Here.op = "lock")
    BY <1>5 DEF Look
  <2>2. pc[k.cur] = "look" /\ Here.next = "try"
    BY <1>2, <1>5 DEF Look, At, SoundRank
  <2>3. SoundRank(k.cur, p, Here)
    BY <1>2, <2>1, <2>2 DEF SoundRank
  <2>4. Wants(k.cur, p, Here, q, k.prio, scenario.locks)
    BY <1>2, <2>1 DEF Wants, QueueCall
  <2>5. p # "aborted"
    OBVIOUS
  <2> QED BY <1>2, <2>1, <2>3, <2>4, <2>5, MutexesStay, AwakeIsInFront
<1>6. CASE Late
  <2>1. PICK p \in {"try", "disinherit", "run"} :
          /\ Goto(k, p, Here) /\ q' = q
          /\ p = "disinherit" => Here.inherited
    BY <1>6 DEF Late
  <2>2. SoundRank(k.cur, p, Here)
    BY <1>2, <2>1 DEF SoundRank, Leaving
  <2>3. Wants(k.cur, p, Here, q, k.prio, scenario.locks)
    BY <1>2, <2>1 DEF Wants
  <2>4. p # "aborted"
    OBVIOUS
  <2> QED BY <1>2, <2>1, <2>2, <2>3, <2>4, MutexesStay, AwakeIsInFront
<1> QED BY <1>3, <1>4, <1>5, <1>6

LEMMA TimesOutInFront ==
  ASSUME Punctual, Orderly, InFront, Check PROVE InFront'
<1> DEFINE late == TimedOut(k, k.cur, Here.wait)
           x    == TicksLeft(k, k.cur, Here.wait)
           nx   == CASE ~late -> "try"
                     [] late /\ Here.op = "send" -> "run"
                     [] OTHER -> "late"
           c    == CheckForTimeOut(k, k.cur, Here.wait)
<1>1. pc[k.cur] \in Loop /\ pc[k.cur] = "check"
  BY DEF Check, At, Loop
<1>2. /\ InPlace(k, {}) /\ Listed(k, {}) /\ Ranks(k, k, {}) /\ k.cur \in Task
      /\ DOMAIN NoCall \subseteq DOMAIN Here /\ Lines \subseteq DOMAIN k
      /\ SoundRank(k.cur, pc[k.cur], Here) /\ ~Leaving(pc[k.cur], Here)
      /\ Wants(k.cur, pc[k.cur], Here, q, k.prio, scenario.locks)
      /\ pc[k.cur] \notin {"aborted", "taken"}
  BY <1>1, LoopIsAwake
<1>3. PICK s : s = c
  OBVIOUS
<1>4. InPlace(s, {}) /\ Ranks(s, k, {})
  <2>1. PICK a : a = [k EXCEPT !.aborted = @ \ {k.cur}]
    OBVIOUS
  <2>2. PICK b : b = InternalSetTimeOutState(k, k.cur)
    OBVIOUS
  <2>3. s \in {a, b, k}
    BY <1>3, <2>1, <2>2 DEF CheckForTimeOut
  <2>4. Same(a, k, Lines) /\ a.cur = k.cur /\ a.yield = k.yield
    BY <1>2, <2>1, InLines DEF Same, Lines, Where, Else
  <2>5. Same(b, k, Lines) /\ b.cur = k.cur /\ b.yield = k.yield
    BY <1>2, <2>2, InLines DEF InternalSetTimeOutState, Same, Lines, Where, Else
  <2>6. Ranks(s, k, {})
    BY <1>2, <2>3, <2>4, <2>5, SameRanks
  <2>7. InPlace(s, {})
    BY <1>2, <1>3, CheckIsOnward DEF Onward
  <2> QED BY <2>6, <2>7
<1>5. /\ Goto(c, IF late THEN "unlockTx" ELSE "look",
              [Here EXCEPT !.wait = x, !.block = FALSE, !.next = nx])
      /\ q' = q
  BY DEF Check
<1>6. nx \in {"run", "try", "late"} /\ (~late => nx = "try")
  OBVIOUS
<1> HIDE DEF x, nx, c, late
<1>7. PICK l : l = [Here EXCEPT !.wait = x, !.block = FALSE, !.next = nx]
  OBVIOUS
<1>8. l.op = Here.op /\ l.obj = Here.obj /\ l.block = FALSE /\ l.next = nx
      /\ l.inherited = Here.inherited
  BY <1>2, <1>7 DEF NoCall
<1>9. PICK p \in {"unlockTx", "look"} : Goto(s, p, l) /\ (p = "look" => ~late)
  BY <1>3, <1>5, <1>7
<1>10. SoundRank(k.cur, p, l)
  BY <1>2, <1>6, <1>8, <1>9 DEF SoundRank, Leaving
<1>11. Wants(k.cur, p, l, q, k.prio, scenario.locks)
  BY <1>2, <1>8, <1>9 DEF Wants
<1>12. p # "aborted" /\ KeepsMutexes
  BY <1>5, MutexesStay
<1> QED BY <1>2, <1>4, <1>9, <1>10, <1>11, <1>12, AwakeIsInFront

LEMMA UnlockingIsInFront ==
  ASSUME Punctual, Orderly, InFront, UnlockTx \/ UnlockRx PROVE InFront'
<1>1. pc[k.cur] \in Loop /\ pc[k.cur] \in {"unlockTx", "unlockRx"}
  BY DEF UnlockTx, UnlockRx, At, Loop
<1>2. /\ InPlace(k, {}) /\ Listed(k, {}) /\ k.cur \in Task /\ Ranked /\ Locking
      /\ QueueCall(Here) /\ Here.obj \in Queue
      /\ SoundRank(k.cur, pc[k.cur], Here) /\ pc[k.cur] \notin {"aborted", "taken"}
  BY <1>1, LoopIsAwake
<1>3. k.cur \in Away(k) => Leaving(pc[k.cur], Here)
  BY <1>2, RankedHere
<1>4. PICK qu \in Queue : qu = Here.obj
  BY <1>2
<1>5. \A l \in {ToSend(qu), ToReceive(qu)} : l \in WaitLists /\ l \in EventList
  BY EventListsExist, WaitListsExist
<1>6. PICK l, n, r, p :
        /\ p \in {"unlockRx", "resume"} /\ l \in {ToSend(qu), ToReceive(qu)} /\ r.holder = q[qu].holder /\ r.n = q[qu].n
        /\ Call(WakeCounted(k, l, n), qu, r, p, Here)
  <2>1. CASE UnlockTx
    <3>1. PICK r : r = [q[qu] EXCEPT !.tx = Unlocked]
      OBVIOUS
    <3>2. r.holder = q[qu].holder /\ r.n = q[qu].n
      BY <3>1 DEF Orderly, Counted
    <3>3. Call(WakeCounted(k, ToReceive(qu), q[qu].tx), qu, r, "unlockRx", Here)
      BY <1>4, <2>1, <3>1, Zenon DEF UnlockTx
    <3> QED BY <3>2, <3>3
  <2>2. CASE UnlockRx
    <3>1. PICK r : r = [q[qu] EXCEPT !.rx = Unlocked]
      OBVIOUS
    <3>2. r.holder = q[qu].holder /\ r.n = q[qu].n
      BY <3>1 DEF Orderly, Counted
    <3>3. Call(WakeCounted(k, ToSend(qu), q[qu].rx), qu, r, "resume", Here)
      BY <1>4, <2>2, <3>1, Zenon DEF UnlockRx
    <3> QED BY <3>2, <3>3
  <2> QED BY <2>1, <2>2
<1>7. PICK s : s = WakeCounted(k, l, n)
  OBVIOUS
<1>8. InPlace(s, {}) /\ Ranks(s, k, {}) /\ Away(s) \subseteq Away(k)
  <2>1. Onward(s, k, {}) /\ Ranks(s, k, {})
    BY <1>2, <1>5, <1>6, <1>7, WakeCountedIsOnward, WakeCountedRanks
  <2> QED BY <2>1 DEF Onward, Ranks, Wakes
<1>9. Goto(s, p, Here) /\ KeepsMutexes /\ p # "aborted" /\ p # "run"
  <2>1. Goto(s, p, Here) /\ q' = [q EXCEPT ![qu] = r]
    BY <1>6, <1>7 DEF Call
  <2> QED BY <1>6, <2>1, LocksMoveOn
<1>10. Leaving(pc[k.cur], Here) <=> Leaving(p, Here)
  BY <1>1, <1>6 DEF Leaving
<1>11. k.cur \in Away(s) => Leaving(p, Here)
  BY <1>3, <1>8, <1>10
<1>12. SoundRank(k.cur, p, Here) /\ Wants(k.cur, p, Here, q, k.prio, scenario.locks)
  <2>1. QueueCall(Here) /\ Leaving(p, Here) => Here.next = "try"
    BY <1>2, <1>10 DEF SoundRank
  <2> QED BY <1>2, <1>6, <2>1, GoesOn
<1> QED BY <1>2, <1>8, <1>9, <1>11, <1>12, StepIsInFront

-----------------------------------------------------------------------------
(* A task inherits, and waits for a mutex.                                  *)

LEMMA InheritIsInFront ==
  ASSUME Punctual, Orderly, InFront, Inherit PROVE InFront'
<1>1. pc[k.cur] \in Loop /\ pc[k.cur] = "inherit"
  BY DEF Inherit, At, Loop
<1>2. /\ InPlace(k, {}) /\ Listed(k, {}) /\ Led(k, {}) /\ k.cur \in Task
      /\ QueueCall(Here) /\ DOMAIN NoCall \subseteq DOMAIN Here /\ Ranked /\ Locking /\ Plain
      /\ SoundRank(k.cur, pc[k.cur], Here) /\ ~Leaving(pc[k.cur], Here)
      /\ Wants(k.cur, pc[k.cur], Here, q, k.prio, scenario.locks)
  BY <1>1, LoopIsAwake
<1>3. Here.op = "lock" /\ Here.next = "try"
  BY <1>1, <1>2 DEF SoundRank
<1>4. PICK m \in Mutex : m = Here.obj
  BY <1>2, <1>3 DEF QueueCall
<1>5. q[m].n = 0 /\ q[m].holder \in Task
  BY <1>1, <1>2, <1>4 DEF Orderly, Inheriting, Owned, Here
<1>6. PICK h \in Task : h = q[m].holder
  BY <1>5
<1>7. /\ m \in scenario.locks[k.cur] /\ h # k.cur
      /\ k.prio[k.cur] = k.base[k.cur]
  <2>1. m \in scenario.locks[k.cur] /\ h # k.cur
    BY <1>2, <1>3, <1>4, <1>6 DEF Wants
  <2> QED BY <1>2, <1>6, <2>1, HoldsOne
<1>8. PICK s : s = PriorityInherit(k, h) /\ InPlace(s, {})
  BY <1>2, InheritIsOnward DEF Onward
<1>9. PICK p : p = k.prio[k.cur]
  OBVIOUS
<1>10. PICK o : o = k.prio[h]
  OBVIOUS
<1>11. p \in Int /\ o \in Int /\ k.base[h] \in Int /\ k.base[h] <= o
  <2>1. p \in Int /\ o \in Int
    BY <1>2, <1>9, <1>10, RanksAreInt
  <2>2. k.base[h] \in Int
    BY <1>2, KernelAssumption DEF InPlace, Fit, Prio
  <2>3. o = k.base[h] \/ k.base[h] < o
    BY <1>2, <1>10 DEF Locking, Lent
  <2> QED BY <2>1, <2>2, <2>3
<1>12. PICK x : x = IF o < p THEN p ELSE o
  OBVIOUS
<1>13. x \in Int /\ x >= p /\ x >= o /\ (x <= o \/ x <= p) /\ (x # o => x = p /\ k.base[h] < x)
  BY <1>11, <1>12
<1>14. Reranks(s, k, h, x) /\ s.base = k.base
  BY <1>2, <1>8, <1>9, <1>10, <1>12, InheritReranks
<1>15. /\ Listed(s, {}) /\ Led(s, {}) /\ Away(s) = Away(k) /\ Awaiting(s) = Awaiting(k)
       /\ s.events = k.events /\ s.cur = k.cur /\ s.base = k.base
       /\ s.prio[h] = x /\ \A t \in Task : t # h => s.prio[t] = k.prio[t]
  <2>1. k.prio \in [Task -> Prio]
    BY <1>2 DEF InPlace, Tidy, Lists
  <2>2. h # k.cur /\ (x <= k.prio[h] \/ x <= k.prio[k.cur])
    BY <1>7, <1>9, <1>10, <1>13
  <2>3. Led(s, {})
    BY <1>2, <1>13, <1>14, <2>2, RerankedLed
  <2> QED BY <1>14, <2>1, <2>3 DEF Reranks
<1>16. PICK l : l = [Here EXCEPT !.inherited = Inherits(k, h)]
  OBVIOUS
<1>17. l.op = "lock" /\ l.obj = m /\ l.next = "try" /\ l.block = Here.block
  BY <1>2, <1>3, <1>4, <1>16 DEF NoCall
<1>18. SoundRank(k.cur, "place", l)
  BY <1>17 DEF SoundRank
<1>19. Goto(s, "place", l) /\ q' = q
  BY <1>4, <1>6, <1>8, <1>16 DEF Inherit
<1>20. /\ Ranked' /\ k'.prio = s.prio /\ k'.base = s.base /\ k'.events = s.events
       /\ scenario' = scenario /\ pc'[k.cur] = "place" /\ loc'[k.cur] = l
       /\ \A t \in Task : t # k.cur => pc'[t] = pc[t] /\ loc'[t] = loc[t]
  BY <1>1, <1>2, <1>8, <1>15, <1>18, <1>19, AwakeIsRanked
<1>21. Lent(k'.prio, k'.base, q', scenario'.locks)
  <2>1. ASSUME NEW t \in Task, s.prio[t] # k.base[t]
        PROVE  /\ k.base[t] < s.prio[t]
               /\ \E n \in Mutex, w \in Task : /\ w # t /\ q[n].holder = t
                                               /\ n \in scenario.locks[w]
                                               /\ s.prio[t] = k.base[w]
    <3>1. CASE s.prio[t] = k.prio[t]
      BY <1>2, <2>1, <3>1 DEF Locking, Lent
    <3>2. CASE s.prio[t] # k.prio[t]
      <4>1. t = h /\ s.prio[t] = p /\ k.base[t] < s.prio[t]
        BY <1>10, <1>13, <1>15, <3>2
      <4>2. k.cur # t /\ q[m].holder = t /\ m \in scenario.locks[k.cur] /\ s.prio[t] = k.base[k.cur]
        BY <1>6, <1>7, <1>9, <4>1
      <4> QED BY <1>2, <4>1, <4>2
    <3> QED BY <3>1, <3>2
  <2> QED BY <1>2, <1>15, <1>19, <1>20, <2>1 DEF Locking, Lent
<1>22. Waited(k'.prio, k'.base, k'.events, q')
  <2>1. ASSUME NEW n \in Mutex, NEW w \in ToSet(k.events[ToReceive(n)])
        PROVE  q[n].holder # Nobody /\ s.prio[q[n].holder] >= k.base[w]
    <3>1. q[n].holder # Nobody /\ k.prio[q[n].holder] >= k.base[w]
      BY <1>2 DEF Locking, Waited
    <3>2. q[n].holder \in Task
      BY <3>1 DEF Orderly, Owned
    <3>3. k.base[w] \in Int
      <4>1. w \in Task
        BY <1>2, HereIsOrderly, WaitersLock
      <4> QED BY <1>2, <4>1, KernelAssumption DEF InPlace, Fit, Prio
    <3> QED BY <1>10, <1>11, <1>13, <1>15, <3>1, <3>2, <3>3
  <2> QED BY <1>15, <1>19, <1>20, <2>1 DEF Waited
<1>23. ASSUME NEW u \in Task PROVE Wants(u, pc'[u], loc'[u], q', k'.prio, scenario'.locks)
  <2>1. CASE u = k.cur
    BY <1>5, <1>6, <1>7, <1>9, <1>13, <1>15, <1>17, <1>19, <1>20, <2>1 DEF Wants
  <2>2. CASE u # k.cur
    <3>1. pc[u] # "place"
      BY <2>2 DEF Punctual, Suspension, Inside
    <3>2. Wants(u, pc[u], loc[u], q, k.prio, scenario.locks)
      BY <1>2 DEF Locking
    <3> QED BY <1>19, <1>20, <2>2, <3>1, <3>2 DEF Wants
  <2> QED BY <2>1, <2>2
<1>24. Locking'
  BY <1>21, <1>22, <1>23, PrimedLocking
<1> QED BY <1>2, <1>20, <1>24, PlainStays DEF InFront

LEMMA PlaceIsInFront ==
  ASSUME Punctual, Orderly, InFront, Place PROVE InFront'
<1>1. pc[k.cur] \in Loop /\ pc[k.cur] = "place"
  BY DEF Place, At, Loop
<1>2. /\ InPlace(k, {}) /\ Listed(k, {}) /\ Led(k, {}) /\ k.cur \in Task /\ k.cur \in Others
      /\ QueueCall(Here) /\ Here.obj \in Queue /\ DOMAIN NoCall \subseteq DOMAIN Here
      /\ Ranked /\ Locking /\ Plain
      /\ SoundRank(k.cur, pc[k.cur], Here) /\ ~Leaving(pc[k.cur], Here) /\ k.cur \notin Away(k)
      /\ Wants(k.cur, pc[k.cur], Here, q, k.prio, scenario.locks)
  BY <1>1, LoopIsAwake
<1>3. Unlisted(k, k.cur) /\ k.cur \notin Awaiting(k)
  BY <1>1, <1>2, RankedHere DEF Ranked
<1>4. PICK e \in WaitLists : e = WaitList(Here) /\ e \in EventList
  BY <1>2, EventListsExist, WaitListsExist DEF WaitList
<1>5. PICK s : s = PlaceOnEventList(k, e, Here.wait) /\ InPlace(s, {})
  BY <1>2, <1>4, PlaceIsOnward DEF Onward
<1>6. /\ Leaves(s, k)
      /\ \A m \in WaitLists : ToSet(s.events[m]) = IF m = e THEN ToSet(k.events[m]) \cup {k.cur}
                                                   ELSE ToSet(k.events[m])
  BY <1>2, <1>4, <1>5, PlaceLeaves
<1>7. /\ Listed(s, {}) /\ Led(s, {}) /\ Awaiting(s) = Awaiting(k)
      /\ s.prio = k.prio /\ s.base = k.base /\ s.cur = k.cur
  BY <1>2, <1>6 DEF Leaves
<1>8. PICK l : l = [Here EXCEPT !.block = TRUE]
  OBVIOUS
<1>9. l.op = Here.op /\ l.obj = Here.obj /\ l.next = Here.next /\ l.block = TRUE
      /\ l.inherited = Here.inherited
  BY <1>2, <1>8 DEF NoCall
<1>10. QueueCall(l) /\ WaitList(l) = e /\ l.next = "try" /\ Leaving("unlockTx", l)
  BY <1>1, <1>2, <1>4, <1>9 DEF QueueCall, WaitList, SoundRank, Leaving
<1>11. SoundRank(k.cur, "unlockTx", l)
  BY <1>2, <1>9, <1>10 DEF SoundRank
<1>12. Goto(s, "unlockTx", l) /\ q' = q
  BY <1>4, <1>5, <1>8 DEF Place
<1>13. Ranked'
  <2>1. PICK H : H = {} /\ H = IF "unlockTx" = "aborted" THEN {l.obj} ELSE {}
    OBVIOUS
  <2>2. InPlace(s, H) /\ Listed(s, H) /\ Led(s, H)
    BY <1>5, <1>7, <2>1
  <2>3. \A m \in WaitLists : \A t \in ToSet(s.events[m]) :
          IF t = k.cur THEN QueueCall(l) /\ m = WaitList(l) ELSE t \in ToSet(k.events[m])
    BY <1>3, <1>6, <1>10 DEF Unlisted
  <2>4. \A t \in Awaiting(s) : t # k.cur /\ t \in Awaiting(k)
    BY <1>3, <1>7
  <2> QED BY <1>2, <1>7, <1>10, <1>11, <1>12, <2>1, <2>2, <2>3, <2>4, GotoIsRanked
<1>14. Lines \subseteq DOMAIN s
  BY <1>5, <1>7, InLines
<1>15. /\ k'.prio = k.prio /\ k'.base = k.base /\ k'.events = s.events /\ scenario' = scenario
       /\ pc'[k.cur] = "unlockTx" /\ loc'[k.cur] = l
       /\ \A t \in Task : t # k.cur => pc'[t] = pc[t] /\ loc'[t] = loc[t]
  BY <1>7, <1>12, <1>14, GotoStays
<1>16. Lent(k'.prio, k'.base, q', scenario'.locks)
  BY <1>2, <1>12, <1>15 DEF Locking, Lent
<1>17. Waited(k'.prio, k'.base, k'.events, q')
  <2>1. ASSUME NEW m \in Mutex, NEW w \in ToSet(s.events[ToReceive(m)])
        PROVE  q[m].holder # Nobody /\ k.prio[q[m].holder] >= k.base[w]
    <3>1. ToReceive(m) \in WaitLists
      BY QueueAssumption, WaitListsExist
    <3>2. CASE w \in ToSet(k.events[ToReceive(m)])
      BY <1>2, <3>2 DEF Locking, Waited
    <3>3. CASE w \notin ToSet(k.events[ToReceive(m)])
      <4>1. w = k.cur /\ ToReceive(m) = WaitList(Here)
        BY <1>4, <1>6, <3>1, <3>3
      <4>2. Here.obj = m /\ Here.op # "send"
        BY <4>1 DEF WaitList, ToReceive, ToSend
      <4>3. Here.op = "lock"
        BY <1>2, <4>2 DEF QueueCall
      <4>4. /\ m \in scenario.locks[k.cur] /\ q[m].holder # k.cur /\ q[m].n = 0
            /\ k.prio[q[m].holder] >= k.prio[k.cur]
        BY <1>1, <1>2, <4>2, <4>3 DEF Wants
      <4>5. q[m].holder # Nobody
        BY <4>4, NobodyAssumption DEF Orderly, Owned
      <4>6. k.prio[k.cur] = k.base[k.cur]
        BY <1>2, <4>4, HoldsOne
      <4> QED BY <4>1, <4>4, <4>5, <4>6
    <3> QED BY <3>2, <3>3
  <2> QED BY <1>12, <1>15, <2>1 DEF Waited
<1>18. ASSUME NEW u \in Task PROVE Wants(u, pc'[u], loc'[u], q', k'.prio, scenario'.locks)
  <2>1. CASE u = k.cur
    BY <1>2, <1>9, <1>12, <1>15, <2>1 DEF Wants
  <2>2. CASE u # k.cur
    BY <1>2, <1>12, <1>15, <2>2 DEF Locking
  <2> QED BY <2>1, <2>2
<1>19. Locking'
  BY <1>16, <1>17, <1>18, PrimedLocking
<1> QED BY <1>2, <1>13, <1>15, <1>19, PlainStays DEF InFront

-----------------------------------------------------------------------------
(* A task has waited in vain for a mutex.                                   *)

\* Nobody else waits for the mutex then: its holder takes its own priority
\* back, if it had the caller's.
LEMMA WaitedInVain ==
  ASSUME Punctual, Orderly, InFront, At("disinherit"), NEW h \in Task, h = q[Here.obj].holder
  PROVE  /\ Here.obj \in Mutex /\ h # k.cur /\ HighestWaiting(k, Here.obj) = 0
         /\ k.held[h] = 1 /\ k.base[h] \in Prio /\ k.prio[h] \in Prio /\ k.base[h] <= k.prio[h]
         /\ k.prio[h] # k.base[h] => k.prio[h] = k.prio[k.cur]
         /\ \A n \in Mutex : n # Here.obj => q[n].holder # h
         /\ \A w : w \notin ToSet(k.events[ToReceive(Here.obj)])
<1>1. pc[k.cur] \in Loop /\ pc[k.cur] = "disinherit"
  BY DEF At, Loop
<1>2. /\ InPlace(k, {}) /\ Listed(k, {}) /\ k.cur \in Task /\ QueueCall(Here)
      /\ Ranked /\ Locking /\ Plain /\ SoundRank(k.cur, pc[k.cur], Here) /\ k.cur \notin Away(k)
      /\ Wants(k.cur, pc[k.cur], Here, q, k.prio, scenario.locks) /\ InPlace(k, InHand)
  BY <1>1, LoopIsAwake, HereIsOrderly
<1>3. Here.op = "lock"
  BY <1>1, <1>2 DEF SoundRank
<1>4. PICK m \in Mutex : m = Here.obj /\ q[m].holder = h
  BY <1>2, <1>3 DEF QueueCall
<1>5. m \in scenario.locks[k.cur] /\ h # k.cur /\ m \in scenario.locks[h]
  BY <1>2, <1>3, <1>4, NobodyAssumption DEF Wants, Locking, Lent
<1>6. k.held[h] = 1 /\ \A n \in Mutex : n # m => q[n].holder # h
  BY <1>2, <1>4, <1>5, HoldsOne
<1>7. k.prio[k.cur] = k.base[k.cur]
  BY <1>2, <1>4, <1>5, HoldsOne
<1>8. ToReceive(m) \in WaitLists /\ ToReceive(m) \in EventList
  BY QueueAssumption, EventListsExist, WaitListsExist
<1>9. ASSUME NEW w \in ToSet(k.events[ToReceive(m)]) PROVE FALSE
  <2>1. w \in Task /\ m \in scenario.locks[w] /\ w # h
    BY <1>2, <1>4, WaitersLock
  <2>2. w = k.cur
    BY <1>2, <1>5, <2>1, TwoUsers
  <2>3. Unlisted(k, k.cur)
    BY <1>1, <1>2, RankedHere
  <2> QED BY <1>8, <2>2, <2>3 DEF Unlisted
<1>10. HighestWaiting(k, m) = 0
  <2>1. PICK e \in Seq(Others) : e = k.events[ToReceive(m)]
    BY <1>2, <1>8 DEF InPlace, Fit
  <2>2. Len(e) \in Nat /\ \A i \in 1 .. Len(e) : e[i] \in ToSet(e)
    BY ListMembers
  <2>3. Len(e) = 0
    <3>1. ASSUME Len(e) # 0 PROVE FALSE
      <4>1. 1 \in 1 .. Len(e)
        BY <2>2, <3>1
      <4> QED BY <1>9, <2>1, <2>2, <4>1
    <3> QED BY <3>1
  <2>4. e = <<>>
    BY <2>3
  <2> QED BY <2>1, <2>4 DEF HighestWaiting
<1>11. k.base[h] \in Prio /\ k.prio[h] \in Prio
  BY <1>2 DEF InPlace, Fit, Tidy, Lists
<1>12. ASSUME k.prio[h] # k.base[h] PROVE k.base[h] < k.prio[h] /\ k.prio[h] = k.prio[k.cur]
  <2>1. PICK n \in Mutex, v \in Task : /\ v # h /\ q[n].holder = h /\ n \in scenario.locks[v]
                                       /\ k.prio[h] = k.base[v]
    BY <1>2, <1>12 DEF Locking, Lent
  <2>2. n = m
    BY <1>6, <2>1
  <2>3. v = k.cur
    BY <1>2, <1>5, <2>1, <2>2, TwoUsers
  <2> QED BY <1>2, <1>7, <1>12, <2>1, <2>3 DEF Locking, Lent
<1>13. k.base[h] <= k.prio[h]
  BY <1>11, <1>12, KernelAssumption DEF Prio
<1> QED BY <1>4, <1>5, <1>6, <1>9, <1>10, <1>11, <1>12, <1>13

\* The caller keeps the ready list of the priority the holder leaves from
\* being empty.
LEMMA FrontHasCompany ==
  ASSUME Punctual, Orderly, InFront PROVE HolderHasCompany
<1>1. PICK h : h = q[Here.obj].holder
  OBVIOUS
<1>2. PICK s : s = PriorityDisinheritAfterTimeout(k, h, HighestWaiting(k, Here.obj))
  OBVIOUS
<1>3. SUFFICES ASSUME At("disinherit"), h # Nobody, IsReady(k, h), s.prio[h] # k.prio[h]
               PROVE  s.ready[k.prio[h]] # <<End>>
  BY <1>1, <1>2 DEF HolderHasCompany
<1>4. pc[k.cur] \in Loop /\ pc[k.cur] = "disinherit"
  BY <1>3 DEF At, Loop
<1>5. /\ InPlace(k, {}) /\ Listed(k, {}) /\ k.cur \in Task /\ k.cur \notin Away(k)
      /\ Here.obj \in Queue
  BY <1>4, LoopIsAwake
<1>6. h \in Task
  BY <1>1, <1>3, <1>5 DEF Orderly, Owned
<1>7. /\ h # k.cur /\ HighestWaiting(k, Here.obj) = 0 /\ k.held[h] = 1
      /\ k.base[h] \in Prio /\ k.prio[h] \in Prio
      /\ k.prio[h] # k.base[h] => k.prio[h] = k.prio[k.cur]
  BY <1>1, <1>3, <1>6, WaitedInVain
<1>8. PICK p : p = k.base[h]
  OBVIOUS
<1>9. PICK o : o = k.prio[h]
  OBVIOUS
<1>10. p = IF k.base[h] < HighestWaiting(k, Here.obj) THEN HighestWaiting(k, Here.obj) ELSE k.base[h]
  BY <1>7, <1>8, KernelAssumption DEF Prio
<1>11. o # p /\ s = MoveToPriority([k EXCEPT !.item[h] = p], h, p, p)
  BY <1>2, <1>3, <1>8, <1>9, <1>10, Zenon DEF PriorityDisinheritAfterTimeout
<1>12. o = k.prio[k.cur]
  BY <1>7, <1>8, <1>9, <1>11
<1>13. PICK b : b = [k EXCEPT !.item[h] = p]
  OBVIOUS
<1>14. {"ready", "prio", "item", "top"} \subseteq DOMAIN k /\ k.prio \in [Task -> Prio]
       /\ DOMAIN k.ready = Prio /\ Circle(k.ready[o]) /\ o \in Prio /\ p \in Prio
  BY <1>5, <1>7, <1>8, <1>9 DEF InPlace, Fit, Tidy, Lists, Where, Else
<1>15. PICK r : r = RemoveFirst(k.ready[o], h)
  OBVIOUS
<1>16. b.prio = k.prio /\ b.ready = k.ready /\ {"ready", "prio", "top"} \subseteq DOMAIN b
       /\ b.prio[h] = o
  BY <1>9, <1>13, <1>14
<1>17. InReadyList(b, h, o)
  BY <1>3, <1>9, <1>16 DEF InReadyList, IsReady
<1>18. PICK R : R = [k.ready EXCEPT ![o] = r]
  OBVIOUS
<1>19. R[o] = r /\ DOMAIN R = Prio
  BY <1>14, <1>18
<1>20. s.ready = [R EXCEPT ![p] = InsertEnd(@, h)]
  <2>1. InReadyList(b, h, b.prio[h])
    BY <1>16, <1>17
  <2>2. s = MoveToPriority(b, h, p, p)
    BY <1>11, <1>13
  <2> QED BY <1>6, <1>14, <1>15, <1>16, <1>18, <2>1, <2>2 DEF MoveToPriority, AddToReadyList
<1>24. s.ready[o] = RemoveFirst(k.ready[o], h)
  BY <1>11, <1>14, <1>15, <1>19, <1>20
<1>25. k.cur \in ToSet(k.ready[o])
  <2>1. IsReady(k, k.cur)
    BY <1>5, AtHome
  <2> QED BY <1>12, <2>1 DEF IsReady
<1>26. k.cur \in ToSet(s.ready[o])
  <2>1. PICK m : m = k.ready[o] /\ m \in Seq(Task \cup {End}) /\ Once(m)
    BY <1>14 DEF Circle
  <2>2. ToSet(RemoveFirst(m, h)) = ToSet(m) \ {h}
    BY <2>1, TakenOut
  <2> QED BY <1>7, <1>24, <1>25, <2>1, <2>2
<1>27. ASSUME s.ready[o] = <<End>> PROVE FALSE
  <2>1. ToSet(<<End>>) = {End}
    BY DEF ToSet
  <2>2. k.cur = End
    BY <1>26, <1>27, <2>1
  <2> QED BY <1>5, <2>2, KernelAssumption
<1> QED BY <1>9, <1>27

LEMMA DisinheritIsInFront ==
  ASSUME Punctual, Orderly, InFront, Disinherit PROVE InFront'
<1>1. pc[k.cur] \in Loop /\ pc[k.cur] = "disinherit" /\ At("disinherit")
  BY DEF Disinherit, At, Loop
<1>2. /\ InPlace(k, {}) /\ Listed(k, {}) /\ Led(k, {}) /\ k.cur \in Task /\ Ranks(k, k, {})
      /\ Here.obj \in Queue /\ Ranked /\ Locking /\ Plain /\ ~Leaving(pc[k.cur], Here)
  BY <1>1, LoopIsAwake
<1>3. PICK h : h = q[Here.obj].holder
  OBVIOUS
<1>4. PICK z : z = HighestWaiting(k, Here.obj)
  OBVIOUS
<1>5. PICK a : a = PriorityDisinheritAfterTimeout(k, h, z)
  OBVIOUS
<1>6. Goto(IF h = Nobody THEN k ELSE a, "run", Here) /\ q' = q
  BY <1>3, <1>4, <1>5 DEF Disinherit
<1>7. CASE h = Nobody
  <2>1. Goto(k, "run", Here)
    BY <1>6, <1>7
  <2> QED BY <1>1, <1>2, <1>6, <2>1, MutexesStay, AwakeIsInFront
<1>8. CASE h # Nobody
  <2>1. h \in Task
    BY <1>2, <1>3, <1>8 DEF Orderly, Owned
  <2>2. /\ Here.obj \in Mutex /\ h # k.cur /\ z = 0 /\ k.held[h] = 1
        /\ k.base[h] \in Prio /\ k.prio[h] \in Prio /\ k.base[h] <= k.prio[h]
        /\ \A n \in Mutex : n # Here.obj => q[n].holder # h
        /\ \A w : w \notin ToSet(k.events[ToReceive(Here.obj)])
    BY <1>1, <1>3, <1>4, <2>1, WaitedInVain
  <2>3. PICK x : x = k.base[h]
    OBVIOUS
  <2>4. Reranks(a, k, h, x) /\ a.base = k.base
    <3>1. ~(k.base[h] < z)
      BY <2>2, KernelAssumption DEF Prio
    <3>2. x = IF k.prio[h] # k.base[h] /\ k.held[h] = 1 THEN k.base[h] ELSE k.prio[h]
      BY <2>2, <2>3
    <3> QED BY <1>2, <1>5, <2>1, <3>1, <3>2, LateReranks
  <2>5. /\ Listed(a, {}) /\ Led(a, {}) /\ Away(a) = Away(k) /\ Awaiting(a) = Awaiting(k)
        /\ a.events = k.events /\ a.cur = k.cur
        /\ a.prio[h] = x /\ \A t \in Task : t # h => a.prio[t] = k.prio[t]
    <3>1. k.prio \in [Task -> Prio]
      BY <1>2 DEF InPlace, Tidy, Lists
    <3>2. x \in Int /\ x <= k.prio[h]
      BY <2>2, <2>3, KernelAssumption DEF Prio
    <3>3. Led(a, {})
      BY <1>2, <2>1, <2>2, <2>4, <3>2, RerankedLed
    <3> QED BY <2>1, <2>4, <3>1, <3>3 DEF Reranks
  <2>6. InPlace(a, {})
    <3>1. HolderHasCompany
      BY FrontHasCompany
    <3>2. IsReady(k, h) /\ a.prio[h] # k.prio[h] => a.ready[k.prio[h]] # <<End>>
      BY <1>1, <1>3, <1>4, <1>5, <1>8, <3>1 DEF HolderHasCompany
    <3>3. z \in Prio
      BY <2>2, KernelAssumption DEF Prio
    <3> QED BY <1>2, <1>5, <2>1, <3>2, <3>3, DisinheritLateIsOnward DEF Onward
  <2>7. Goto(a, "run", Here)
    BY <1>6, <1>8
  <2>8. /\ Ranked' /\ k'.prio = a.prio /\ k'.base = k.base /\ k'.events = k.events
        /\ scenario' = scenario /\ pc'[k.cur] = "run" /\ loc'[k.cur] = NoCall
        /\ \A t \in Task : t # k.cur => pc'[t] = pc[t] /\ loc'[t] = loc[t]
    BY <1>1, <1>2, <2>4, <2>5, <2>6, <2>7, AwakeIsRanked
  <2>9. Lent(k'.prio, k'.base, q', scenario'.locks)
    <3>1. ASSUME NEW t \in Task, a.prio[t] # k.base[t]
          PROVE  /\ k.base[t] < a.prio[t]
                 /\ \E n \in Mutex, w \in Task : /\ w # t /\ q[n].holder = t
                                                 /\ n \in scenario.locks[w]
                                                 /\ a.prio[t] = k.base[w]
      <4>1. t # h
        BY <2>3, <2>5, <3>1
      <4> QED BY <1>2, <2>5, <3>1, <4>1 DEF Locking, Lent
    <3> QED BY <1>2, <1>6, <2>8, <3>1 DEF Locking, Lent
  <2>10. Waited(k'.prio, k'.base, k'.events, q')
    <3>1. ASSUME NEW n \in Mutex, NEW w \in ToSet(k.events[ToReceive(n)])
          PROVE  q[n].holder # Nobody /\ a.prio[q[n].holder] >= k.base[w]
      <4>1. q[n].holder # Nobody /\ k.prio[q[n].holder] >= k.base[w]
        BY <1>2 DEF Locking, Waited
      <4>2. q[n].holder \in Task
        BY <4>1 DEF Orderly, Owned
      <4>3. n # Here.obj
        BY <2>2
      <4> QED BY <2>2, <2>5, <4>1, <4>2, <4>3
    <3> QED BY <1>6, <2>8, <3>1 DEF Waited
  <2>11. ASSUME NEW u \in Task PROVE Wants(u, pc'[u], loc'[u], q', k'.prio, scenario'.locks)
    <3>1. CASE u = k.cur
      BY <2>8, <3>1 DEF Wants, NoCall
    <3>2. CASE u # k.cur
      <4>1. pc[u] # "place"
        BY <3>2 DEF Punctual, Suspension, Inside
      <4>2. Wants(u, pc[u], loc[u], q, k.prio, scenario.locks)
        BY <1>2 DEF Locking
      <4> QED BY <1>6, <2>8, <3>2, <4>1, <4>2 DEF Wants
    <3> QED BY <3>1, <3>2
  <2>12. Locking'
    BY <2>9, <2>10, <2>11, PrimedLocking
  <2> QED BY <1>2, <2>8, <2>12, PlainStays DEF InFront
<1> QED BY <1>7, <1>8

-----------------------------------------------------------------------------
(* The start, and every step.                                               *)

LEMMA NoCallIsSoundRank ==
  ASSUME NEW t \in Task
  PROVE  /\ SoundRank(t, "run", NoCall)
         /\ \A r, pr, own : Wants(t, "run", NoCall, r, pr, own)
<1>1. PICK l : l = NoCall
  OBVIOUS
<1>2. l.op = "none" /\ l.next = "run" /\ l.inherited = FALSE /\ l.block = FALSE
  BY <1>1 DEF NoCall
<1>3. ~QueueCall(l)
  BY <1>2 DEF QueueCall
<1>4. SoundRank(t, "run", l)
  BY <1>2, <1>3 DEF SoundRank, Leaving
<1>5. \A r, pr, own : Wants(t, "run", l, r, pr, own)
  BY <1>2 DEF Wants
<1> QED BY <1>1, <1>4, <1>5

\* The task that vTaskStartScheduler runs is one of the highest priority.
LEMMA StartsWithTheHighest ==
  ASSUME NEW base \in [Task -> Prio], NEW stopped \in SUBSET (Task \ {Idle})
  PROVE  LET s == StartedKernel(base, stopped)
         IN  Listed(s, {}) /\ Led(s, {}) /\ s.cur \in Task \ Away(s)
<1> DEFINE R(p) == {t \in Task \ stopped : base[t] = p}
           top  == {base[t] : t \in Task \ stopped}
<1>1. PICK s : s = StartedKernel(base, stopped)
  OBVIOUS
<1>2. /\ s.delayed = <<>> /\ s.overflow = <<>> /\ s.suspended = stopped /\ s.prio = base
      /\ s.events = [l \in EventList |-> <<>>] /\ s.nstate = [t \in Task |-> "none"]
      /\ s.cur = Last(SetToSeq(R(Max(top)))) /\ "nstate" \in DOMAIN s
  BY <1>1 DEF StartedKernel
<1>3. Once(<<>>) /\ ToSet(<<>>) = {}
  BY DEF Once, ToSet
<1>4. Away(s) = stopped
  BY <1>2, <1>3 DEF Away
<1>5. Listed(s, {})
  <2>1. \A l \in WaitLists : s.events[l] = <<>>
    BY <1>2 DEF WaitLists
  <2> QED BY <1>2, <1>3, <2>1 DEF Listed
<1>6. top \in SUBSET Prio /\ base[Idle] \in top /\ \A p \in top : R(p) # {}
  BY KernelAssumption
<1>7. \A t \in Task \ stopped : base[t] \in top
  OBVIOUS
<1> HIDE DEF top
<1>8. PICK p \in Prio : p = Max(top) /\ R(p) # {} /\ \A z \in top : p >= z
  BY <1>6, HighestExists
<1>9. PICK S : S = R(p) /\ S # {} /\ S \in SUBSET Task /\ s.cur = Last(SetToSeq(S))
  BY <1>2, <1>8
<1>10. \A t \in S : t \in Task \ stopped /\ base[t] = p
  BY <1>9
<1> HIDE DEF R
<1>11. PICK m \in Seq(Task) : m = SetToSeq(S) /\ ToSet(m) = S
  BY <1>9, SetIsListed
<1>12. s.cur \in S
  <2>1. \A i \in 1 .. Len(m) : m[i] \in ToSet(m)
    BY <1>11, ListMembers
  <2>2. Len(m) \in 1 .. Len(m)
    <3>1. m # <<>>
      BY <1>3, <1>9, <1>11
    <3> QED BY <3>1
  <2> QED BY <1>9, <1>11, <2>1, <2>2 DEF Last
<1>13. Led(s, {})
  <2>1. ASSUME NEW t \in Task \ stopped PROVE s.prio[t] <= s.prio[s.cur]
    BY <1>2, <1>7, <1>8, <1>10, <1>12, KernelAssumption DEF Prio
  <2> QED BY <1>4, <2>1 DEF Led
<1> QED BY <1>1, <1>4, <1>5, <1>10, <1>12, <1>13

LEMMA InitIsInFront == ASSUME Init, Plain PROVE InFront
<1>1. /\ scenario \in Scenarios /\ k = StartedKernel(scenario.base, scenario.stopped)
      /\ pc = [t \in Task |-> "run"] /\ loc = [t \in Task |-> NoCall]
      /\ q = [qu \in Queue |-> NewQueue(qu)]
  BY DEF Init, TasksInit, QueueInit
<1>2. /\ scenario.base \in [Task -> Prio] /\ scenario.stopped \in SUBSET (Task \ {Idle})
  BY <1>1, ScenarioAssumption
<1>3. Listed(k, {}) /\ Led(k, {}) /\ k.cur \in Task \ Away(k)
  BY <1>1, <1>2, StartsWithTheHighest
<1>4. InHand = {}
  BY <1>1 DEF InHand
<1>5. /\ k.events = [l \in EventList |-> <<>>] /\ k.prio = k.base
      /\ k.nstate = [t \in Task |-> "none"]
  BY <1>1 DEF StartedKernel
<1>6. \A l \in EventList : ToSet(k.events[l]) = {}
  <2>1. ToSet(<<>>) = {}
    BY DEF ToSet
  <2> QED BY <1>5, <2>1
<1>7. \A t \in Task : /\ SoundRank(t, pc[t], loc[t])
                      /\ Wants(t, pc[t], loc[t], q, k.prio, scenario.locks)
  BY <1>1, NoCallIsSoundRank
<1>8. Ranked
  <2>1. Awaiting(k) = {}
    BY <1>5 DEF Awaiting
  <2> QED BY <1>3, <1>4, <1>6, <1>7, <2>1 DEF Ranked, WaitLists
<1>9. Locking
  <2>1. \A m \in Mutex : q[m].holder = Nobody
    BY <1>1, QueueAssumption DEF NewQueue
  <2>2. \A m \in Mutex : ToReceive(m) \in EventList
    BY QueueAssumption DEF EventList
  <2> QED BY <1>5, <1>6, <1>7, <2>1, <2>2 DEF Locking, Lent, Waited
<1> QED BY <1>8, <1>9 DEF InFront

LEMMA NextIsInFront ==
  ASSUME Punctual, Orderly, InFront, [Next]_vars PROVE InFront'
<1>1. CASE TaskStep /\ UNCHANGED q
  BY <1>1, ResumingIsInFront, YieldingIsInFront, StartDelayIsInFront, DelayIsInFront,
     NotifyTakeIsInFront, NotifyTakenIsInFront, NotifyGiveIsInFront, TaskSuspendIsInFront,
     TaskSuspendedIsInFront, TaskResumeIsInFront, TaskPrioritySetIsInFront,
     StartAbortDelayIsInFront, AbortDelayIsInFront, AbortedDelayIsInFront, IdleIsInFront
  DEF TaskStep
<1>2. CASE HandlerStep /\ UNCHANGED q
  BY <1>2, TickIsInFront, NotifyFromISRIsInFront, ResumeFromISRIsInFront DEF HandlerStep
<1>3. CASE QueueStep
  BY <1>3, CallsAreInFront, TryAgainIsInFront, LockingIsInFront, TimesOutInFront,
     InheritIsInFront, PlaceIsInFront, UnlockingIsInFront, DisinheritIsInFront
  DEF QueueStep
<1>4. CASE QueueHandlerStep
  BY <1>4, QueueHandlersAreInFront DEF QueueHandlerStep
<1>5. CASE UNCHANGED vars
  <2>1. Handler(k) /\ q' = q
    BY <1>5 DEF vars, Handler
  <2>2. InPlace(k, InHand) /\ Ranks(k, k, InHand)
    BY HandlersStart, StaysThere
  <2> QED BY <2>1, <2>2, MutexesStay, HandlerIsInFront
<1> QED BY <1>1, <1>2, <1>3, <1>4, <1>5 DEF Next

-----------------------------------------------------------------------------
(* What it comes to.                                                        *)

LEMMA FrontRunsTheHighest ==
  ASSUME Punctual, Orderly, InFront PROVE HighestPriorityRuns
<1>1. SUFFICES ASSUME k.susp = 0, ~k.yield, ~At("yield"), ~At("suspended")
               PROVE  InReadyList(k, k.cur, k.prio[k.cur]) /\ k.prio[k.cur] = Max(k.top)
  BY Zenon DEF HighestPriorityRuns
<1>2. /\ InPlace(k, {}) /\ k.cur \in Task /\ InHand = {}
  BY <1>1, HereIsOrderly, HandlersStart
<1>3. ~Leaving(pc[k.cur], loc[k.cur])
  <2>1. pc[k.cur] \notin Inside
    BY <1>1, <1>2 DEF Punctual, Suspension
  <2> QED BY <1>1, <2>1 DEF Leaving, At, Inside
<1>4. k.cur \notin Away(k) /\ Led(k, {})
  BY <1>2, <1>3 DEF InFront, Ranked
<1>5. IsReady(k, k.cur) /\ \A t \in Task : IsReady(k, t) => k.prio[t] <= k.prio[k.cur]
  BY <1>1, <1>2, <1>4, AtHome DEF Led
<1>6. k.top \in SUBSET Prio /\ k.prio[k.cur] \in k.top
      /\ \A p \in k.top : p <= k.prio[k.cur]
  <2>1. /\ \A t \in Task : IsReady(k, t) => k.prio[t] \in k.top
        /\ \A p \in k.top : \E t \in Task : IsReady(k, t) /\ k.prio[t] = p
    BY <1>2, BitsAreRanks
  <2>2. k.top \in SUBSET Prio
    BY <1>2 DEF InPlace, Tidy, Lists
  <2> QED BY <1>2, <1>5, <2>1, <2>2
<1>7. PICK m \in k.top : m = Max(k.top) /\ \A z \in k.top : m >= z
  BY <1>6, HighestExists
<1>8. m = k.prio[k.cur]
  BY <1>6, <1>7, KernelAssumption DEF Prio
<1> QED BY <1>5, <1>7, <1>8 DEF IsReady, InReadyList

LEMMA FrontInherits ==
  ASSUME Orderly, InFront PROVE InheritsPriority
<1>1. ASSUME NEW t \in Task, k.held[t] = 0 PROVE k.prio[t] = k.base[t]
  <2>1. Cardinality(HeldBy(q, t)) = 0 /\ IsFiniteSet(HeldBy(q, t))
    <3>1. HeldBy(q, t) \subseteq Mutex
      BY DEF HeldBy
    <3> QED BY <1>1, <3>1, QueueAssumption, FS_Subset DEF Orderly, Owned
  <2>2. HeldBy(q, t) = {}
    BY <2>1, FS_EmptySet
  <2>3. \A m \in Mutex : q[m].holder # t
    BY <2>2 DEF HeldBy
  <2> QED BY <2>3 DEF InFront, Locking, Lent
<1>2. ASSUME NEW m \in Mutex, NEW t \in ToSet(k.events[ToReceive(m)])
      PROVE  k.prio[q[m].holder] >= k.base[t]
  BY DEF InFront, Locking, Waited
<1> QED BY <1>1, <1>2 DEF InheritsPriority

-----------------------------------------------------------------------------
Reign == IInv /\ Punctual /\ Orderly /\ InFront

LEMMA ReignComes ==
  ASSUME ~SleepsIntoWrap
  PROVE  Spec /\ Plain => []Reign
<1>1. Init /\ Plain => Reign
  BY InitIsSound, InitIsPunctual, InitIsOrderly, InitIsInFront DEF Reign
<1>2. Reign /\ [Next]_vars => Reign'
  <2>1. Reign => SelectsATask /\ HolderHasCompany
    BY OrderlyIsConsistent, FrontHasCompany DEF Reign
  <2> QED BY <2>1, NextIsSound, NextIsPunctual, NextIsOrderly, NextIsInFront DEF Reign
<1> QED BY <1>1, <1>2, PTL DEF Spec

\* While the scheduler may switch and no switch is pending, one of the ready
\* tasks of the highest priority runs, after every call, interrupt, time-out
\* and inheritance (vTaskSwitchContext, and every yield of tasks.c and
\* queue.c), in the systems that lock plainly.
THEOREM TheHighestRuns ==
  ASSUME ~SleepsIntoWrap
  PROVE  Spec /\ Plain => []HighestPriorityRuns
<1>1. Reign => HighestPriorityRuns
  BY FrontRunsTheHighest DEF Reign
<1> QED BY <1>1, ReignComes, PTL

\* In those systems no inherited priority outlives the mutex it was inherited
\* for, and a holder runs at no less than the priority of any task that waits
\* for the mutex (xTaskPriorityInherit, xTaskPriorityDisinherit,
\* vTaskPriorityDisinheritAfterTimeout).
THEOREM HoldersInherit ==
  ASSUME ~SleepsIntoWrap
  PROVE  Spec /\ Plain => []InheritsPriority
<1>1. Reign => InheritsPriority
  BY FrontInherits DEF Reign
<1> QED BY <1>1, ReignComes, PTL

\* The holder that loses an inherited priority to a wait that ran out always has company
\* in those systems, the task that waited, so the bit that
\* vTaskPriorityDisinheritAfterTimeout does not reset (tasks.c:4299) never
\* matters: the lists stay consistent.
THEOREM PlainListsAreConsistent ==
  ASSUME ~SleepsIntoWrap
  PROVE  Spec /\ Plain => []ListsConsistent
<1>1. Reign => ListsConsistent
  BY OrderlyIsConsistent DEF Reign
<1> QED BY <1>1, ReignComes, PTL
=============================================================================
