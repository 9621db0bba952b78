# Verification of the B91m BLE single connection SDK

TLA+ models, TLC configurations and machine-checked proofs for the application
code of the Telink B91/B92 BLE single connection SDK and for the real-time
kernel it ships with. All paths below are relative to
`b91m_ble_single_connection_sdk/`; file names without a directory in the
sections on the kernel are those of `3rd-party/freertos-V5`.

The BLE controller and host are a binary library; what the repository holds in
source is what runs around it: the sample applications, the shared helpers in
`vendor/common` and `common`, drivers, and FreeRTOS.

There are two ways to build a program. By default it is single threaded: an
endless `main_loop` calls `blt_sdk_main_loop` (which calls registered callbacks
back), the user interface and the power management in turn, and interrupts cut
in. What is hard in this code is therefore what those two levels share (rings,
flags, pointers), what survives a power loss (flash), what wraps (8-bit
pointers, the 32-bit system timer) and what must happen in spite of deep sleep.

With `FREERTOS_ENABLE` the sample is a few tasks under FreeRTOS
(`vendor/B91m_ble_sample/main.c`): an LED task that delays, a protocol task that
waits for notifications the radio's interrupt gives, the idle task that sleeps
without ticks, and the timer daemon. There the order of steps is the
scheduler's, and what is hard is what preemption makes of every call: a call
that waits is several steps, interrupts fall between any two of them, time-outs
race with what is waited for, priorities are lent and given back.

## 1. Inventory

| Component | State | Operations | Talks to | Hard | Correct when |
|---|---|---|---|---|---|
| Bonding table, `vendor/common/custom_pair.c` | a log of 8-byte records in a flash sector, the table of up to 4 bonds in RAM, the write index | boot scan, clean of the sector, add, search, delete, unpair, delete all | flash; the pairing code of the application | power loss between two flash operations; the end of the sector; flash bits only go from 1 to 0 | a reboot finds what the table held; no record is programmed twice; boot never halts |
| Software timers, `vendor/common/blt_soft_timer.c` | sorted table of timers, wake-up tick of the power manager | add, delete, process, callbacks | the main loop, callbacks that call add and delete, sleep | wrap-around of the timer word; the table changes under the loop; sleeping through a timer | sorted; no timer is missed; the wake-up is not too late |
| UART module, `vendor/B91m_module` | receive and transmit ring, `uart_send_flag`, two wake-up pins, suspend mask | UART interrupt, command execution, `spp_send_data`, `tx_to_uart_cb`, suspend enter and exit, restart | host MCU over UART and pins; the stack | interrupt against main loop; DMA writes to ring entries; sleep during transfers | commands executed and messages delivered once and in order; host awake for messages; no stall |
| Keys, `application/keyboard`, `app_ui.c` | debounce matrices, release count, key type, last reports | scan, debounce, report | GPIO matrix, GATT notifications, sleep | bounces, overlapping keys, sleep while scanning | held keys are reported, scanning does not stop too early |
| Sample application, `vendor/B91m_ble_sample` | connection flags, idle ticks, OTA flags, suspend mask | start-up, connect, terminate, OTA callbacks, `blt_pm_proc`, deep sleep | the stack (interrupt and callbacks), flash protection, keys | events served later than they happen; idle timers against updates; stuck flags | sleeps when idle, does not cut off an update, advertises for the full time |
| Flash protection, `vendor/common/flash_prot.c` | block protection in the flash status register | init, lock and unlock with retries, choice of block | the sample application, the OTA server | failing writes, power loss while unlocked | protected outside of an update, writable during one, storage sectors never locked |
| Debug log, `vendor/common/tlkapi_debug.c` | FIFO of slots with 8-bit pointers, UART busy flag | `tlkapi_send_str_data`, `my_printf`, handler, UART interrupt | everybody who logs, in both levels | interrupts between the steps of `my_printf`; a FIFO that is full | whole, in order, once |
| Scheduler, `tasks.c`, `list.c`, `portable/GCC/RISC-V` | ready, delayed, suspended and pending lists, the bitmap of priorities, tick count, suspension count | tick, context switch, delay, notify, suspend, resume, set priority, abort a delay, sleep without ticks | every task, every interrupt handler | interrupts while the scheduler is suspended; the wrap of the tick count; a priority that changes while its task waits | lists agree, the right task runs, nobody sleeps past its time |
| Queues and mutexes, `queue.c` | a ring per queue, lock counts, lists of waiters, the holder | send to either end, overwrite, receive, peek, reset, take, give, the calls of interrupts | the scheduler | a waiter is several steps; a locked queue only counts wake-ups; inheritance with time-outs | in order; no wake-up is lost; lent priorities are given back |
| Heap, `portable/MemMang/heap_4.c` | list of free blocks, sizes, bytes remaining | allocate, free | tasks | a free is two steps; joining of neighbours | blocks tile the heap, nobody is given what another has |
| Kernel timers, `timers.c` | two lists of timers, a queue of commands | start, stop, change of period, delete, pended calls, the daemon | queue, scheduler, tasks | a late daemon across the wrap of the tick count; reload through the queue | never early, never forgotten |
| LED patterns, `vendor/common/blt_led.c` | current pattern, its start tick and count | setup with priority, process | main loop, audio demo | late calls; 16-bit products | every pattern ends after its count |
| Battery check, `vendor/common/battery_check.c` | a flag in a retained analog register | measure, sleep below the threshold | start-up, main loop | hysteresis across deep sleep | no start between the two thresholds |
| IR send and learn, `vendor/B91m_feature/feature_ir` | sending state, last command, waveform buffer, learn buffer | send, release, PWM interrupt, timeout | keys, PWM DMA | timeout against interrupt, a lost interrupt | a command can always be sent again |
| Audio, `vendor/B91m_feature/feature_audio`, `application/audio` | microphone ring, packet ring | start, stop, encode, notify | DMA, GATT | rings that overflow | frames in order, whole frames dropped |
| Feature demonstrations, `vendor/B91m_feature/*` | as the sample | set-up of one stack feature each | the stack | as the sample | as the sample |
| Firmware checks, attribute tables, string helpers | none | straight-line code | | | |
| USB stack and USB log, `application/usbstd`, `application/app`, `common/usb_dbg` | control transfer state | endpoint interrupts | host computer | | |
| BLE stack, `stack/ble`, `proj_lib` | closed library, headers only | | | | |
| Drivers, boot code, algorithms, secure boot tools | registers, third-party, binaries | | | | |

`PROJECT.json` lists each of them with its files and whether it is modelled,
and every hazard at its line.

## 2. Modules and the code

| Module | Models |
|---|---|
| `BondStore` | abstract specification: a list of at most `MaxBonds` bonds that are remembered and forgotten, and of which a power failure may lose the youngest |
| `CustomPair` | `custom_pair.c`, one step per flash operation |
| `SoftTimer` | `blt_soft_timer.c`, one step per table entry of a pass, callbacks as steps |
| `UartModule` | `spp.c`, the UART interrupt and the suspend functions of `B91m_module/app.c`, the rings of `common/utility.c` |
| `Keyboard` | `keyboard.c` and `app_ui.c` |
| `FlashProt` | `flash_prot.c` and the choice of the block |
| `SampleApp` | `B91m_ble_sample/app.c`; EXTENDS `FlashProt`, calls it, and composes it with the stack, the keys and the update |
| `DebugLog` | `tlkapi_debug.c` |
| `RtosKernel` | the lists and functions of the scheduler, as operators from one kernel record to the next |
| `RtosTasks` | EXTENDS `RtosKernel`: the calls of tasks and interrupts that use no queue, the tick, the sleep of the idle task |
| `RtosQueue` | EXTENDS `RtosTasks`: queues and mutexes |
| `Rtos` | composes the three: tasks, interrupts, queues, mutexes; the properties and the fairness |
| `Allocator` | abstract specification: memory is given to one task, in one piece that is large enough, until it gives it back |
| `Heap4` | `heap_4.c` |
| `RtosTimers` | `timers.c` |
| `...Proofs` | the inductive invariant of the module of that name, its lemmas and its theorems (section 4); `MainLoopProofs` those of `Keyboard`, `SoftTimer` and `DebugLog`, `RtosPriorityProofs` goes on where `RtosProofs` ends |
| `MC...` | small instances of each |

### CustomPair

`flash` is the sector, a record per 8 bytes: `Blank` (erased), `Erased`
(invalidated by writing zeros to its mark) or a device. `tbl` is the RAM table
with the slot of every entry, `cfgIdx` is
`user_bond_slave_flash_cfg_idx / 8` (-1 stands for the -8 the code computes on
an empty log). `pc` tells which call is running; every flash write or sector
erase is a step, and `PowerLoss` can come between any two of them, which resets
everything but `flash`. A single flash operation is atomic. `AddCap`
bounds the index beyond the end of the sector: adds that fail there still
increment it, for ever.

### SoftTimer

`tbl` is the sorted table, times are words modulo `WordMod`. `LoopPass`,
`LoopCall`, `CbStop`, `CbAgain` and `LoopEnd` are the branches of the loop in
`blt_soft_timer_process`; between `LoopCall` and the return, callbacks may call
`Add` and `Delete` (`Reentrant`). `wake` is what the code hands to the power
manager.

### UartModule

The rings keep their entries in place, with 8-bit pointers (`PtrMod`). The
functions of the main loop are cut into steps at every place where the
interrupt makes a difference: `TxStart`, `TxPop`, `TxFlag` are
`tx_to_uart_cb`, `RxGet`, `RxExec`, `RxPop` are `rx_from_uart_cb`. The receive
DMA owns the entry at `dma` and what it writes is in the ring from the first
byte on. `pend` and `owed` are history variables for the properties.
`build` is how the firmware was built and never changes: the lengths of the
rings, power management, and whether the UART can be faster than the end of
`tx_to_uart_cb`.

### Keyboard

A scan is a step. `pressed` is the state of the contacts, `pre` and `last` the
two matrices of the debounce filter, `relCnt` and `retLast` the statics of
`kb_key_pressed`. `kbReport` and `coReport` are what the host knows.

### SampleApp and FlashProt

`pc` is the next call of `main` or `main_loop`. `Connect` and `Disconnect` are
the interrupt of the stack: they move the link and pend an event, and
`TaskConnect` or `TaskTerminate` is called later from `blt_sdk_main_loop`.
`ota...` is the OTA server of the stack, as far as its callbacks show it.
Ticks are the age of `advertise_begin_tick` and `latest_user_event_tick`, and
wrap. Every write of the flash status register is a step that may fail;
`WakeUp` and `PowerLoss` start the program again.

The build has the battery check, which the sample leaves off
(`BATT_CHECK_ENABLE`); without it every reading is as good as `"high"`, so
those behaviours are among the ones checked. A reading is below 2.0 V, above 2.2 V, or
between; any may come at any check. `lowBatt` is the flag `LOW_BATT_FLG`, and the history
variable `charge` says, from the readings alone, whether the battery has been found empty
and not yet charged again.

### DebugLog

A message is its number. A slot holds the number of the message whose bytes it
contains and the number of the message whose length it contains; a message
comes out whole if both agree when it is sent. `my_printf` is four steps,
`tlkapi_send_str_data` is one because it disables interrupts. `dbg_chn` and
`users` are chosen once: they are how the firmware was built.

### RtosKernel, RtosTasks, RtosQueue, Rtos

The kernel is one record, `k`. A ready list is a circle with its end marker in
it, turned so that `pxIndex` is last: which of several tasks of a priority is
next is part of the state, as in the code. `top` is the bitmap
`uxTopReadyPriority`, kept apart from the lists it should describe, because the
code sets and resets its bits on its own. An operator is a function of
`tasks.c`, of the same name without its prefix; what a function does with
interrupts disabled, or what no interrupt can tell apart, is one step.

Only the running task takes steps, and an interrupt may come between any two
of them. `pc` and `loc` are the place and the locals of the call each task is
in, so a task that was switched away goes on where it was. A send or a receive
that waits, for example, is: try; suspend the scheduler; lock the queue; look at
the time; look at the queue again; place the task on the list; unlock for the
senders; unlock for the receivers; resume the scheduler; and, when the time is
up, look once more. An interrupt that sends meanwhile finds the queue locked and
counts (`cTxLock`).

Who calls what is the application's, so the system has a constant set of
`Scenarios`, one of which is chosen in the initial state: which tasks there are
with which priorities, which queue they use, what they and the interrupts call.
The scenario `sample` is the sample's `main.c`.

### Heap4

Addresses count units of 16 bytes. `pvPortMalloc` is one step, because it works
with the scheduler suspended; `vPortFree` is two, because it clears the mark of
the block before it suspends the scheduler, and in between other tasks
allocate and free. `has` is what each task believes to own; the refinement
mapping gives `Allocator` exactly that.

### RtosTimers

A separate module with the queue and the delay taken for granted, as `Rtos`
shows them. The daemon is cut into the branches of `prvTimerTask`, time passes
between them, and a command carries the time at which it was sent. `freed` are the
timers that were deleted; a pended call only takes its place in the queue. `left` is a
history variable that tells, without wrap, when a timer owes its next call.

## 3. Runs

| Run | Configuration | Shows |
|---|---|---|
| `pair_safety` | `CustomPair.cfg` | 3 devices, 3 bonds, 10 records. Log and table agree after any sequence of calls, boots and power losses (`RescanFindsTable`); the `while(1)` of the boot scan is unreachable (`NeverHalts`); no record is programmed twice (`ProgramsOnlyBlank`); together they implement `BondStore` (`ImplementsBondStore`); calls end (`CallsEnd`) |
| `pair_overwrite` | `CustomPairOverwrite.cfg` | violation: at the end of the sector, an add to a full table deletes the oldest bond and stores nothing |
| `timer_safety` | `SoftTimer.cfg` | 3 timers, callbacks that add and delete, several wrap-arounds: the table is sorted and the wake-up not later than its first timer (`TableConsistent`), `NoTimerMissed`, `EveryTimerServed` |
| `uart` | `UartModule.cfg` | two builds at once. As shipped, without power management and with a UART that may be faster than the main loop: `ExecutesWhatWasSent`, `DeliversInOrder`, `HostAwakeForMessages`. With power management and a slower UART also `SleepsOnlyIdle` and `KeepsMoving` |
| `keys` | `Keyboard.cfg` | the 2 by 2 matrix, any keys at once, with bounces: `StopsReleased`, `HeldKeyReported` |
| `key_release` | `KeyboardRelease.cfg` | violation: with keys of both reports the release of the first one is never sent |
| `app_safety` | `SampleApp.cfg` | protected outside of an update, writable during one, storage never locked (`FlashGuarded`); after a low battery no start before it is charged (`WaitsForCharge`); `TerminateSparesOta`, `AdvertisesBeforeSleep`, `IdleSleeps` |
| `log` | `DebugLog.cfg` | both channels, `my_printf` or logging interrupts: `OutputInOrder` (whole, in order, once), `NotBusyIsOut`, `AllComesOut` |
| `rtos` | `Rtos.cfg` | thirteen systems of up to three tasks, the idle task and interrupts. The lists and the bitmap agree (`ListsConsistent`), the running task is one of the highest priority (`HighestPriorityRuns`), nobody sleeps past its time, with the tick count wrapping every four ticks (`NobodyOverslept`), priorities are lent and given back (`InheritsPriority`), nobody waits at a queue that could serve it (`NoLostWakeUp`), queues keep the order (`QueueIsFifo`), the foremost task comes back from its calls (`CallsReturn`) |
| `rtos_disinherit` | `RtosDisinherit.cfg` | violation: after a wait for a mutex that ran out, the scheduler may take the end marker of an empty list for a task |
| `heap` | `Heap4.cfg` | two tasks, 12 units: blocks tile the heap and free neighbours are joined (`HeapConsistent`), the count of free bytes is right (`RemainingIsListed`), and the heap implements `Allocator` |
| `rtos_timers` | `RtosTimers.cfg` | a periodic and a one-shot timer: `NeverEarly`, `WakesInTime`, `NotForgotten`, `ServedForEver`, with a daemon that is late and commands sent late, over the wrap of the tick count |

### Bounds, and why they are enough

* CustomPair: the code has 4 bonds and 512 records. Three bonds are enough for
  an oldest, a youngest and one between; with 10 records the sector fills up,
  is cleaned (beyond half) and reaches its end. The proofs cover all sizes.
* SoftTimer: three timers let one be deleted before, at and behind the loop
  index. `WordMod = 40` is about ten intervals: the word wraps all the time.
  `MaxGap` is how late `process` may be called; the margins keep the order of
  the code's constants (`TimerAssumption`).
* UartModule: as shipped 3 receive entries, 2 commands ahead and 1 transmit
  entry, with power management 2, 1 and 2; the pointers wrap after two rounds. That
  `ahead` is less than `rxNum` is a demand on the host: the ring does not protect
  itself (hazard at `app.c:272`).
* Keyboard: the matrix of the sample's board; `ReleaseCnt` is the code's 6.
* SampleApp: the ticks are a few per timeout, in the order the code needs
  (`TimeAssumption`: the update's timeout is shorter than the idle timeout of
  the connection). At most `MaxFail < Tries` writes of the status register
  fail in a row: with three failures `flash_unlock` gives up and nobody looks.
  The chip is the smallest one, where the block of the firmware is the whole
  flash.
* DebugLog: 4 slots, pointers that wrap at 8, 18 messages: every slot is used
  four times. `Quota = 2` messages wait when another one is logged; section 5
  says what happens beyond.
* Rtos: the tick count is a word of two bits, so that it wraps in every wait;
  waits are 0 or 2 ticks or without limit. Three tasks and the idle task let one
  hold a mutex, one wait for it, and one of a third priority come between.
  `PendBound = 1` tick and `LockBound = 2` sends fall into a suspension of the
  scheduler, `NotifyBound = 2` notifications wait. `SleepsIntoWrap = FALSE` keeps a
  sleep without ticks from ending exactly at the wrap (section 5).
* Heap4: 12 units with a header of one hold up to five blocks: free ones with used
  ones on either side, between, and none. Requests are of nothing, one byte, one more
  than a unit, and most of four units: a block is split, taken whole, or not
  found. The two tasks are interchangeable (symmetry; no liveness is
  checked). `HoldBound = 3` blocks per task.
* RtosTimers: six ticks per round, periods of 1 and 3 ticks; a daemon up to `Lag = 1`
  ticks late and commands up to `SendLag = 1` ticks old. The
  period plus both stays below a round, as it does with 32 bits; for a
  period near a whole round, nothing could tell early from late. `Room = 2`
  places of the queue stay free for the daemon's own reloads, and only the one-shot
  timer is `Deletable` (section 5).

### Fairness

The main loop runs for ever, and what hardware has been given it finishes.

* CustomPair: weak fairness of power-up and of the steps of a running call.
* SoftTimer: time, the pass, and `process` when it is due.
* UartModule: strong fairness of the two callbacks and of the pin, because the
  main loop comes round to them however busy the link is; weak fairness of
  interrupts, of the wake-up, and of the end of a command the host has begun.
* Keyboard: `proc_keyboard` is called in every round.
* SampleApp: every part of the main loop, time, and the end of a connection
  after a terminate packet (answer or supervision timeout).
* DebugLog: handler, UART, and the rest of a `my_printf`.
* Rtos: the tick comes, and a call that has begun goes on while its task runs.
  The second part has two conditions: weak fairness of the steps of the running
  task, and strong fairness of those of the foremost task, which interrupts may
  hold up but not for ever. No task has to make a call, and a task below the foremost
  one is promised nothing: others may keep it from running. The conditions are
  written out instead of `WF_` and `SF_`, because when a step is enabled is
  plain (the task is in a call).
* RtosTimers: the tick comes and the daemon, which has the highest priority, goes
  on.

`CHECK_DEADLOCK FALSE` is used for `DebugLog` only: it stops when everything
has been logged.

## 4. Proofs

TLAPS proves, for every value of the constants that satisfies the named
assumptions:

* `CustomPairProofs`: `TypeOK`, `NeverHalts`, `RescanFindsTable` and
  `ProgramsOnlyBlank`. None of them is inductive: that boot finds no more
  bonded records than the table holds depends on every step that came before.
  `IInv` says what does hold between any two flash operations: behind the
  frontier of the log everything is blank (`Frontier`), the table lists records
  in the order of the log (`Ordered`), every entry has its record (`Sound`),
  every bonded record has its entry as far as the scan or the rewrite has come
  (`Complete`), where the loops are (`Progress`), and there are at most
  `MaxBonds` bonded records (`FewRecords`, a cardinality). One lemma per action
  shows that it is preserved. `ProgramsOnlyBlank` follows for every step of a
  state with `IInv`.
  `StoreImplementsBondStore` is the refinement of the abstract `BondStore`: the
  bonds it sees are the bonded records of the log, oldest first. The lemma
  `IInvLogHoldsTable` (between two calls the n-th entry of the table is the n-th
  bonded record) turns each write into a step of `BondStore`: a programmed
  confirmation appends, a cleared one removes at an index, a power loss during
  the rewrite keeps a prefix, and everything else stutters.
* `MainLoopProofs`, for what the main loop polls. Keyboard: `TypeOK` and `StopsReleased`. The scans after the last key
  must empty two matrices, one scan each, so the inductive invariant adds
  `Countdown`: with `relCnt <= ReleaseCnt - 2` nothing is in `pre`, with
  `relCnt <= ReleaseCnt - 3` nothing is in `last`. This is where the assumption
  `ReleaseCnt >= 3` comes from.
  Software timers: `TableConsistent` and `NoTimerMissed`, for any number of timers,
  any width of the timer word, all margins and intervals that `TimerAssumption` and
  `IntervalAssumption` allow, and callbacks that add and delete. The lemmas
  `CompareIs`, `ExpiredIs` and `NotLate` say what the comparisons modulo the word tell of
  the signed distance `Ahead`, as long as the timers are `Near` the present. Sorting is
  two loops, written as recursive functions: `PassKeeps` and `SortKeeps` show by
  induction over the turns that the table comes out in order, and that nothing the
  invariant says of it is lost on the way (`Keeps`). The invariant `TimersInv` measures
  how late a timer may be by its place: a call serves at least the first timer that is due,
  a timer deleted by its callback makes the pass skip the next one, so the timer in
  place r is at most `Delay[r]` behind when a call is over, a `MaxGap` less
  for every place (`InTime`); in a pass one timer has been served and those
  behind it still stand one place too far back (`Served`). The hypothesis `Prompt` is
  that `MaxTimers` late calls of `process` fit between the two margins,
  `MaxTimers * MaxGap + MarginPre < MarginPost`: with the code's four timers and its margin of
  four seconds, just under a second between two calls. The code states no such bound; it
  depends on it.
  Debug log: `OutputInOrder` and `NotBusyIsOut`, under the hypothesis
  `NotOverrun`: not a build in which both `my_printf` and interrupts log (there
  the two pointers race, see section 5), no message that is cut, and a quota
  that leaves two slots of the ring. Message m lies in slot (m - 1) % `Num`, and
  each pointer is the number of messages logged or taken, modulo its width; the
  remainder lemmas (`PointerStep`, `PointerDistance`, `PointerSlot`) carry this
  through the wrap.
* `SampleAppProofs`: `FlashIsGuarded`, `EmptyBatteryWaits`, `UpdateIsSpared` and
  `SleepIsLate`. The invariant follows the flash-protection state through the
  retries of the unlock and the lock (`Protection`), says what a battery reading
  obliges the loop to (`Charge`), and dates the update and the advertising
  (`UpdateAge`, `AdvertisingAge`): the counters of the idle timers alone do not
  say since when nothing has happened. Assumed: `StorageAssumption` (what
  the program stores lies outside the part of the flash that is protected) and
  `PendingAssumption`.
* `UartModuleProofs`: type correctness, `HostAwakeForMessages`,
  `SleepsOnlyIdle`, `DeliversInOrder` and `ExecutesInOrder`, for rings of any size.
  `TxRing` and `RxRing` say which messages the slots between the two
  indices hold, `SendFlag` when the DMA is busy, `Undisturbed` and `Unharmed`
  that the slot in transfer is not the one written next, `Pins` how the wake
  pins follow the flags. `UartAssumption` states that an empty slot, a torn
  message and the event marker are three different values.
* `Heap4Proofs`: `HeapConsistent`, `RemainingIsListed` and the refinement of
  `Allocator`, for every size of the heap, every alignment and every number of tasks. The
  invariant: blocks do not overlap (`Apart`), every allocated block has one
  owner (`Owners`), the free list is in the order of the addresses and no two
  neighbours in it touch (`Lists`), and the count of free bytes is the sum over
  the list (`Counts`). The sum is a fold over a set; the lemmas on it are stated once
  and cited by each action.
* `RtosTimersProofs`: `NotForgotten`, `NeverEarly` and `WakesInTime`, for any
  number of timers, any width of the tick count, any periods and any lateness.
  `Basic` (types, both lists ordered and disjoint, the timer of the command in hand in
  neither) holds without a hypothesis. The list lemmas say what `Insert` and
  `RemoveFirst` do to the members and to the order; every step then moves at
  most one timer (`Moves`).
  `NoTimerDies` adds `Books`: a running periodic timer is listed, in hand or queued
  (`Kept`), the places left in the queue cover the timers that may still send their
  reload (`RoomToReload`, a cardinality), nothing is left of a freed timer and its
  deletion is its last command (`Gone`, `DeletionIsLast`). Its hypothesis `Headroom`
  is finitely many periodic timers, `Room` for one reload of each, and none of them in `Deletable`:
  section 5 says what happens otherwise.
  `NoTimerIsEarly` and `DaemonWakesInTime` add `Clock`: the expiry times
  in the current list belong to the round of `last`, those in the overflow list to the
  next (`Armed`: the ticks left are value minus tick, give or take one round), the
  daemon has looked at the time less than a round ago (`Recent`), and a start
  command is not older than `SendLag + late` (`QueueAges`, `CmdAge`). The lemma
  `Reckoned` is the arithmetic of `prvInsertTimerInActiveList` with every
  wrap: where it puts a timer, the time left agrees with its list, and where it calls the
  callback at once, no time is left. Their hypothesis `Slack` is that no period and no delay of a
  command, each with the lateness of the daemon, reaches a whole round; with
  `Period + Lag = TickMod` a time can no longer be told from the one a round before (TLC
  finds `WakesInTime` violated with a period of 5 in a round of 6 and a lateness of 1).
  `Headroom` is not needed for them.
* `RtosProofs`: `QueueIsFifo`, for queues of any length and any number of tasks.
  Every ring is sound (`SoundRing`: slots `rd + 1` to `rd + n`, modulo the length, hold the
  items, and `wr` is the slot after them), and a call that waits still
  carries what it was made with (`SoundCall`: its item, its end of the queue, and
  that only mutexes are locked), so that the copy made when it comes back
  is the one that was asked for. `BackAppends`, `FrontPrepends`, `ReceiveTakesFirst` and
  `OverwriteReplaces` are the arithmetic of the four copies. The hypothesis is
  `SelectsATask`: after the step that `rtos_disinherit` shows, `k.cur` may be the end marker
  of a list, and then nothing is known of the locals it would run with. From
  the systems the proof needs `ScenarioAssumption`: their queues are queues, items are
  sent to an end, only mutexes are locked, and delays and waits are numbers of ticks
  that a `TickType_t` holds.
  `NobodyOversleeps` is `NobodyOverslept`, and `TheDelayedAreInOrder` the order of the two
  delayed lists by wake time with `xNextTaskUnblockTime` not behind the first
  of them, for any number of tasks and any width of the tick. The invariant is `Punctual`:
  - `Sleepers(k)`: both lists are in order and disjoint (`Ord`), every wake time in the delayed
    list is at or after `next` and not before the tick, those in the overflow list are before
    it or at it (they come after the wrap), `next` is not before the tick, and at the last tick before the wrap
    nobody is left in the delayed list, or `vTaskSwitchDelayedLists` would swap sleepers
    into the wrong round;
  - `Suspension`: the scheduler is suspended exactly while the running task is between
    `vTaskSuspendAll` and `xTaskResumeAll`, so a tick is taken or pended as a whole;
  - `Waits`: what a task is about to wait for is a positive number of ticks, and the idle
    task does not sleep past `next`.
  The loops of the kernel (`xTaskIncrementTick`, `xTaskResumeAll`, `prvUnlockQueue`) are written with
  `Repeat`, a function recursive in the number of turns, and the lemmas `DueRuns`, `PendedRuns`,
  `TicksRun` and `WakesRun` say once that what every turn keeps the loop keeps. That a turn for each delayed task
  is enough to wake all that are due is `UnblockDueIsKept`. Besides `SelectsATask`
  the hypothesis is `~SleepsIntoWrap`: with it `TRUE`, a sleep may end at the last tick
  with somebody left in the list, and the invariant does break (section 5).
  `ListsAreConsistent` is `ListsConsistent`: every task is in exactly one of the state lists,
  a ready task in the list of its priority, and the bitmap of priorities and
  `xNextTaskUnblockTime` say what the lists say. The invariant `Orderly` adds to `Punctual`
  - `InPlace(k, InHand)`: `Lists` (every list holds a task once, a ready list only tasks of its
    priority), `Homes` (everybody has exactly one place, but for the tasks a helper has in hand, which
    have none), `Bits` (a priority has its bit exactly when its list is not empty) and `Fit`
    (the types of the rest: `cur` is a task, event lists are sequences of tasks other than the idle
    one). Within a step a task leaves one list before it enters the next, and a list may lie
    empty with its bit still set; `Tidy(s, H, X)` names these tasks (`H`) and priorities
    (`X`), so each helper of the kernel is proved once, with what it finds and what it leaves;
  - `SoundPlaces`: where a task is in its call is a place of the call it made (only a queue
    call is in the loop of the queue calls, only a mutex is locked, no wait of
    the idle task is aborted, and the idle task only runs, or is about to sleep);
  - `Inheriting`, `Owned`, `Counted`: a mutex whose holder is about to be raised is
    taken, a mutex is free or held by a task, each task counts the mutexes it
    holds (a cardinality), and the lock counts of a queue stay in their range.

  Its hypotheses are `~SleepsIntoWrap`, as above, and `HolderHasCompany`: when a wait for a mutex
  runs out and its holder gets a lower priority, the ready list it is taken from keeps a task. This is exactly
  what fails at `tasks.c:4299`, where the result of `uxListRemove` is compared before the
  priority is changed and the bit of the emptied list stays set, the run
  `rtos_disinherit`. `CompanyIsNeeded` shows that no weaker hypothesis will do: from a
  state where it does not hold, the step that gives the priority back, which
  is always possible there, violates `ListsConsistent`. The run `rtos`, in which
  `ListsConsistent` holds, therefore shows that the systems of that run meet
  the hypothesis. `ATaskIsSelected` derives `SelectsATask` from it, so the theorems on
  queues and sleepers hold under `HolderHasCompany` too.
  From the systems this proof needs that base priorities and the priorities set are below
  `configMAX_PRIORITIES`, that the idle task is not suspended and calls nothing but the
  sleep, that `Nobody` is no task, and finitely many mutexes (`ScenarioAssumption`,
  `NobodyAssumption`, `QueueAssumption`).

* `RtosPriorityProofs`: `HighestPriorityRuns` and `InheritsPriority`, for any number of tasks,
  priorities, queues and mutexes. The hypothesis on the system is `Plain`: a mutex has at most two
  users, a task uses at most one mutex, and nobody calls `vTaskPrioritySet` for a task that uses
  one. The scenario `Inversion` of the run is such a system, with a third task between the
  two priorities; so is every system without a mutex. The invariant `InFront` adds to `Punctual` and `Orderly`
  - `Led`: no ready task has a higher priority than the running one, unless a yield is
    pending. A task that blocks itself leaves the ready list several steps before it
    yields, so `Ranked` also says when the running task may be away: only while it
    goes on to its yield (`Leaving`, which `xTaskResumeAll` and the flag `block` decide);
  - `Listed` and the rest of `Ranked`: who is in the event list of a queue is not ready, is there once,
    and is in a call that waits for that queue, so that a wake-up compares
    priorities with the right task;
  - `Locking`: a priority that is not a task's own is that of another user of a mutex the
    task holds (`Lent`), a task that waits for a mutex has a holder that is not behind it
    (`Waited`), and who wants a mutex does not hold it (`Wants`), also
    between `xTaskPriorityInherit` and the place in the list, which are several steps.

  `Ranks` is what each helper of the kernel is shown to keep, so that a step of `Next` is a
  chain of helpers; a step that lowers a priority (`Unlock`, `Disinherit`) has to
  say who then comes first. With two users the waiter that gives up is the only one, and it
  is ready at the priority it had lent, so `FrontHasCompany` gets `HolderHasCompany`
  from `InFront`: in these systems the defect at `tasks.c:4299` cannot bite, and
  `PlainListsAreConsistent` is `ListsConsistent` without that hypothesis.

Only model-checked: all liveness properties, which need fairness, here out of the
prover's reach (`CallsEnd`, `EveryTimerServed`, `KeepsMoving`, `HeldKeyReported`, `IdleSleeps`,
`AllComesOut`, `CallsReturn` and `ServedForEver`), of `Rtos` the invariant
`NoLostWakeUp`, and `InheritsPriority` in the systems that are not `Plain`: mutexes of three
tasks (`Mutexes`) and two mutexes in one task (`Nested`).
`InheritsPriority` does not hold of every system: the kernel does not sort an event list
again when a priority in it is raised, so with a `vTaskPrioritySet` on a waiter
the foremost waiter need not be the first of the list.

## 5. Deviations from what the source says

Three runs show one each, with the quoted line in `PROJECT.json`:
`pair_overwrite`, `key_release`, `rtos_disinherit`. The models show more when a
bound that the runs keep is lifted:

* `custom_pair.c:252`: the sector is erased before its bonds are written back.
  A power loss in between loses the bonds not yet written; `BondStore` allows
  it (`LoseYoungest`) and nothing worse.
* `blt_soft_timer.c:147`: deleting the only timer arms a wake-up for the deleted
  timer (`timer[0]` is still there, `currentNum` is 0): one useless wake-up.
* `blt_soft_timer.c:197`: when a callback asks for the deletion of entry i, the entries
  behind it move forward and the loop goes on with i+1: an expired timer is left out of
  this pass and waits for the next one.
* `blt_soft_timer.c:199-207`: the result of a callback that deleted its own
  timer, as `feature_soft_timer/app.c:361` proposes, is applied to the timer
  that moved into its place.
* `B91m_module/app.c:166`: with power management, a suspend that is refused
  while a command comes in restarts the receive DMA: the tail of the command is
  executed as a command. `ExecutesWhatWasSent` is not promised for that build.
* `spp.c:437`: `tx_to_uart_cb` starts the DMA and sets `uart_send_flag` only after the
  pop. If TXDONE comes in between, because another interrupt held up the main
  loop for the time of a short message, the flag stays set for ever: the pin stays
  high (`app.c:198` says it is lowered) and no further message is sent. With
  `slowUart` left out of `KeepsMoving`, TLC shows it.
* `B91m_module/app.c:270`: a buffer whose first byte is 0 is neither accepted nor is the
  receive DMA started again; the protocol has no such command.
* `B91m_ble_sample/app.c:335`: the comment at `app.c:359` says that after 2.0 V the chip waits until
  2.2 V. When a key is held, `cpu_sleep_wakeup` does not sleep
  (`STATUS_GPIO_ERR_NO_ENTER_PM`), nobody looks at its result and the program goes on
  with an empty battery until the next check (`charge = "held"`). A low battery
  found while an update writes puts the chip to sleep with the flash unlocked; it is
  locked at the next start.
* `battery_check.c:188`: a sample with the sign bit set counts as enough.
* `app_ui.c:165`: three and more keys count as none: an empty report is sent
  and the chip may sleep.
* `tlkapi_debug.c:464`: `my_printf` fills its slot and advances the pointer with interrupts
  on. A message an interrupt logs in between goes to the same slot, one of the two is
  lost (a build in which both log; the run has builds with either).
* `B91m_ble_sample/app.c:236`: the mask that keeps the chip awake for a busy log is
  overwritten at once.
* `tlkapi_debug.c:248`: a slot counts as free when its sending begins, so with
  `Quota = 3` the message in flight may be overwritten; the header has 9 bytes
  and `fifo_format_len` says 8, so a message of full length also overwrites the
  length byte of the next slot when that one is in use. With `Quota = 4` the
  newest message replaces the oldest and comes out twice
  (`tlkapi_debug.h:165` promises a result that does not exist).
* `tlkapi_debug.c:453`: `my_printf` writes down the length `vsnprintf` would
  have needed (`PrintKind` with `"long"`).
* `queue.c:869`: `tasks.c:4199` says that a switch should occur when the last mutex is
  returned whether a task is waiting on it or not. When a task is waiting, the yield
  looks at that one alone, and a ready task between the inherited and the own
  priority of the giver waits for the next tick. `HighestPriorityRuns` and
  `CallsReturn` leave out mutexes of more than two tasks (`Contended`).
* `queue.c:289`: `xQueueReset` wakes one of the tasks that wait to send, however many
  places become free. With two places and two senders one keeps waiting at an empty
  queue; `Emptied` resets a queue of one place.
* `tasks.c:205`: the assertion of an empty delayed list at the wrap of the tick count
  is not met when a sleep without ticks ends exactly there with a task due then
  (`SleepsIntoWrap`). The assertion is empty in this port, and the tasks left in the list would wait a round.
* `include/task.h:3027`: a sleep should be confirmed by `eTaskConfirmSleepModeStatus`;
  the port (`portable/GCC/RISC-V/port.c:262`) does not call it, so an interrupt that
  readies a task after `prvIdleTask` has looked does not keep the chip from sleeping
  for the time the idle task expected; the task runs when the sleep ends.
* `timers.c:533`: the reload of a timer that is late is a command in the
  queue, so a stop sent before it is undone by it. When the queue is full
  the reload is lost, and the timer with it; `Room` keeps it from being full.
* `timers.c:866`: for the same reason the reload of a late periodic timer can be behind its
  deletion in the queue: the daemon frees the timer and then executes the reload on the
  freed memory. With the periodic timer in `Deletable`, `NotForgotten` fails.
* `timers.c:752`: the daemon empties the queue before it looks at the time, so endless
  commands keep timers from firing: `ServedForEver` asks that the daemon waits again
  and again. A one-shot timer that fires on its start keeps its status
  (`include/timers.h:415`).
* `heap_4.c:454`: the loop of `vPortGetHeapStats` looks for `pxEnd` by its next pointer and walks
  past it when nothing is free.

## 6. Not modelled

* The BLE stack, chip drivers, cryptography, start-up code and tooling: closed,
  generated or third-party; the models have the events and effects the
  application sees, marked external in the map.
* Of FreeRTOS: event groups, stream buffers and co-routines, which no program here uses;
  creation and deletion of tasks (the sample creates its tasks before it starts
  the scheduler and deletes none); `xTaskDelayUntil`; notification values other
  than counts; counting and recursive semaphores, queue sets; creation of timers and
  `vTimerSetReloadMode`; statistics.
* USB and its log channel, firmware checks, attribute tables, string helpers:
  no state of interest, or not built into the BLE applications.
* In modelled parts: the non-DMA path of the UART module and what its commands
  do inside of the stack; the two-button build, repeated keys, ghost keys and
  the fn and numlock maps of the keyboard; direct advertising
  of the sample; the function table of chips in
  `flash_prot.c` (a known chip is assumed).
* Granularity: interrupts are taken between the calls of `main_loop` in
  `SampleApp`, not inside of `blt_pm_proc`. If the closed library moves the link in its
  interrupt, the hazard at `app.c:262` stands.

## 7. Plan

1. `Led` (`blt_led.c`) and `IrSend` (`rc_ir.c`): pattern with priority and
   count, sending with timeout, release and PWM interrupt; one composed
   instance, because both are driven by keys and the main loop.
2. `Audio`: microphone and packet ring with their drop rules, against an
   abstract lossy queue.
3. `Keyboard`: repeated keys, and `feature_stuck_key` as an extension.
4. The non-DMA receive path as a variant of `UartModule`.
5. Event groups and stream buffers on top of `RtosTasks`; counting semaphores
   and queue sets in `RtosQueue`; `vTimerSetReloadMode` in `RtosTimers`.
6. Abstract specifications: a FIFO of messages for `DebugLog` (below the quota)
   and for the transmit side of `UartModule`; a set of periodic timers for
   `SoftTimer` and `RtosTimers`.
7. Proofs still to do: `NoLostWakeUp`, on top of `InFront`; `InheritsPriority` for mutexes of
   several tasks that are given back in the order they were taken.
