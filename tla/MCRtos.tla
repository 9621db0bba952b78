------------------------------- MODULE MCRtos -------------------------------
(* Small systems for TLC: each is a few tasks and what they call.          *)
EXTENDS Rtos

Nothing == [t \in Task |-> {}]

Quiet == [name |-> "quiet", queues |-> {}, items |-> {"x"},
          where |-> {"back"}, isr |-> {},
          base |-> [idle |-> 0, a |-> 1, b |-> 2, c |-> 3],
          stopped |-> {"c"}, does |-> Nothing, locks |-> Nothing,
          delays |-> {1}, prios |-> {1, 2},
          waits |-> [t \in Task |-> {0, 2, MaxDelay}]]

\* Two receivers at a queue an interrupt fills, one of them with a time-out.
Receivers ==
  [Quiet EXCEPT !.name = "receivers", !.queues = {"slot"}, !.isr = {"send"},
                !.does = [Nothing EXCEPT !["a"] = {"receive"}, !["b"] = {"receive"}],
                !.waits = [Nothing EXCEPT !["a"] = {MaxDelay}, !["b"] = {2}]]

\* Two senders at a queue an interrupt empties.
Senders ==
  [Receivers EXCEPT !.name = "senders", !.isr = {"receive"},
                    !.does = [Nothing EXCEPT !["a"] = {"send"}, !["b"] = {"send"}]]

\* Two receivers that never give up, at a queue an interrupt fills twice.
Burst ==
  [Receivers EXCEPT !.name = "burst", !.queues = {"data"},
                    !.waits = [Nothing EXCEPT !["a"] = {MaxDelay}, !["b"] = {MaxDelay}]]

\* A task looks at what an interrupt sends and another task receives.
Lookers ==
  [Receivers EXCEPT !.name = "lookers",
                    !.does = [Nothing EXCEPT !["a"] = {"receive"}, !["b"] = {"peek", "delay"}]]

\* A task empties the queue another one fills.
Emptied ==
  [Receivers EXCEPT !.name = "emptied", !.isr = {},
                    !.does = [Nothing EXCEPT !["a"] = {"send"}, !["b"] = {"reset", "delay"}]]

\* A task that sends to another.
Stream ==
  [Quiet EXCEPT !.name = "stream", !.queues = {"data"},
                !.does = [Nothing EXCEPT !["a"] = {"send"}, !["b"] = {"receive"}]]

\* A task puts items of two kinds at both ends of a queue, and over the only
\* one of another.
Order ==
  [Quiet EXCEPT !.name = "order", !.queues = {"data", "slot"}, !.items = {"x", "y"},
                !.where = {"back", "front"}, !.stopped = {"b", "c"},
                !.does = [Nothing EXCEPT !["a"] = {"send", "receive", "overwrite"}],
                !.waits = [Nothing EXCEPT !["a"] = {0}]]

\* A mutex three tasks share; the one of the highest priority does not wait
\* for it without limit.
Mutexes ==
  [Quiet EXCEPT !.name = "mutex", !.stopped = {},
                !.does = [Nothing EXCEPT !["a"] = {"lock"}, !["b"] = {"lock", "delay"},
                                         !["c"] = {"lock", "delay"}],
                !.locks = [t \in Task |-> IF t = Idle THEN {} ELSE {"m"}],
                !.waits = [Nothing EXCEPT !["a"] = {MaxDelay}, !["b"] = {MaxDelay}, !["c"] = {1}]]

\* A mutex two tasks share, with a third between their priorities.
Inversion ==
  [Mutexes EXCEPT !.name = "inversion",
                  !.does = [Nothing EXCEPT !["a"] = {"lock"}, !["b"] = {"delay"},
                                           !["c"] = {"lock", "delay"}],
                  !.locks = [Nothing EXCEPT !["a"] = {"m"}, !["c"] = {"m"}]]

\* A task holds two mutexes, each of which another task wants.
Nested ==
  [Quiet EXCEPT !.name = "nested", !.stopped = {},
                !.does = [Nothing EXCEPT !["a"] = {"lock"}, !["b"] = {"lock", "delay"},
                                         !["c"] = {"lock", "delay"}],
                !.locks = [Nothing EXCEPT !["a"] = {"m", "n"}, !["b"] = {"m"}, !["c"] = {"n"}],
                !.waits = [Nothing EXCEPT !["a"] = {0}, !["b"] = {MaxDelay}, !["c"] = {1}]]

\* The sample: an LED task that delays, a protocol task that waits for
\* notifications of the radio's interrupt.
Sample ==
  [Quiet EXCEPT !.name = "sample", !.isr = {"give"}, !.delays = {2},
                !.does = [Nothing EXCEPT !["a"] = {"delay"}, !["b"] = {"take"}, ![Idle] = {"sleep"}]]

\* A task and an interrupt suspend, resume and reprioritise another task, a
\* third has the same priority as the first.
Control ==
  [Quiet EXCEPT !.name = "control", !.isr = {"unsuspend"}, !.stopped = {},
                !.base = [idle |-> 0, a |-> 1, b |-> 1, c |-> 2],
                !.delays = {0, 2},
                !.does = [Nothing EXCEPT !["a"] = {"suspend", "unsuspend", "reprioritise"},
                                         !["b"] = {"delay", "target", "suspend"}, !["c"] = {"delay"}]]

\* A task notifies another and ends its waits, an interrupt notifies it too.
Notify ==
  [Quiet EXCEPT !.name = "notify", !.isr = {"give"},
                !.does = [Nothing EXCEPT !["a"] = {"give", "abort", "delay"},
                                         !["b"] = {"take", "target", "delay"}]]

\* A waiter of the mutex is given a higher priority while it waits.
Raised ==
  [Mutexes EXCEPT !.name = "raised", !.prios = {2, 3},
                  !.base = [idle |-> 0, a |-> 1, b |-> 2, c |-> 3],
                  !.does = [Nothing EXCEPT !["a"] = {"lock"}, !["b"] = {"lock", "delay", "target"},
                                           !["c"] = {"reprioritise", "delay"}],
                  !.waits = [Nothing EXCEPT !["a"] = {MaxDelay}, !["b"] = {2}],
                  !.delays = {1, 2}]

MCScenarios == {Receivers, Senders, Lookers, Emptied, Burst, Stream, Order, Mutexes, Inversion,
                Nested, Sample, Control, Notify}
RaisedScenarios == {Raised}

MCLength == [data |-> 2, slot |-> 1, m |-> 1, n |-> 1]
=============================================================================
