----------------------------- MODULE UartModule -----------------------------
(***************************************************************************)
(* The UART side of the BLE module of vendor/B91m_module: a host MCU sends *)
(* commands over a UART with DMA; the main loop executes them and queues   *)
(* responses and BLE events, which go out over the same UART.  spp.c runs  *)
(* in the main loop, uart0_receive_irq in the interrupt; they share the    *)
(* two rings (common/utility.c, my_fifo) and uart_send_flag.  Each place   *)
(* where the interrupt makes a difference is a step boundary of its own.   *)
(*                                                                         *)
(* The variables pend and owed are history: what the host has sent and the *)
(* module has not executed, what the module has accepted for sending and   *)
(* the host has not received.                                              *)
(***************************************************************************)
EXTENDS Integers, Sequences

CONSTANTS
  Cmd,          \* commands of the host; their first byte is not 0
  RestartCmd,   \* SPP_CMD_RESTART_MOD
  Ev,           \* a BLE event reported to the host
  Zero,         \* a buffer whose first byte is 0
  Torn,         \* a buffer with only the tail of a command
  None,         \* the UART sends nothing
  Builds        \* how the firmware may be built, and what the host does:
                \*   rxNum, txNum: entries of spp_rx_fifo and spp_tx_fifo
                \*   ptrMod: 256, the ring pointers are u8
                \*   pm: BLE_MODULE_PM_ENABLE
                \*   slowUart: sending outlasts the end of tx_to_uart_cb
                \*   ahead: commands the host sends ahead of their execution
                \*   cmd: the commands it sends

\* The DMA always owns the entry at wptr, so one entry less than rxNum can
\* be waiting while the next command comes in.
ASSUME UartAssumption ==
  /\ {Zero, Torn, Ev, None} \cap Cmd = {}
  /\ Zero # Torn /\ None \notin {Ev, Torn}
  /\ \A b \in Builds :
       /\ {b.rxNum, b.txNum, b.ptrMod} \subseteq Nat \ {0}
       /\ b.ptrMod % b.rxNum = 0 /\ b.ptrMod % b.txNum = 0
       /\ b.rxNum < b.ptrMod /\ b.txNum < b.ptrMod
       /\ {b.slowUart, b.pm} \subseteq BOOLEAN
       /\ b.ahead \in 1 .. b.rxNum - 1
       /\ RestartCmd \in b.cmd /\ b.cmd \subseteq Cmd

VARIABLES
  build,        \* the build that runs
  slot, rw, rr, \* spp_rx_fifo: entries, wptr, rptr
  dma,          \* the entry that the receive DMA writes to
  rx,           \* the receiver: "quiet", "half" a command, "done" (RXDONE)
  cur,          \* the command the host is sending
  torn,         \* was the DMA restarted in the middle of it?
  tslot, tw, tr,\* spp_tx_fifo
  tx,           \* T_txdata_buf while the UART sends it, or None
  flag,         \* uart_send_flag
  wakeMcu,      \* module_uart_data_flg, and with it the pin GPIO_WAKEUP_MCU
  restart,      \* spp_cmd_restart_flag
  pc,           \* where the main loop is
  mcu,          \* the pin GPIO_WAKEUP_MODULE, driven by the host
  mask,         \* does the suspend mask allow to sleep?
  wakeTick,     \* tick_wakeup is set
  asleep,       \* the chip is in suspend
  pend, owed    \* history

rxVars == <<build, slot, rw, rr, dma, rx, cur, torn>>
txVars == <<tslot, tw, tr, tx, flag>>
pmVars == <<mask, wakeTick, asleep>>
vars == <<rxVars, txVars, wakeMcu, restart, pc, mcu, pmVars, pend, owed>>

RxNum == build.rxNum
TxNum == build.txNum
PtrMod == build.ptrMod

Ptr == 0 .. PtrMod - 1
Message == Cmd \cup {Ev, Torn}   \* a response is named after its command

TypeOK ==
  /\ build \in Builds
  /\ slot \in [0 .. RxNum - 1 -> Cmd \cup {Zero, Torn}]
  /\ tslot \in [0 .. TxNum - 1 -> Message \cup {Zero}]
  /\ {rw, rr, tw, tr} \subseteq Ptr
  /\ dma \in 0 .. RxNum - 1
  /\ rx \in {"quiet", "half", "done"} /\ cur \in Cmd
  /\ tx \in Message \cup {None}
  /\ pc \in {"main", "exec", "pop", "sent", "popped", "pm"}
  /\ {torn, flag, wakeMcu, restart, mcu, mask, wakeTick, asleep} \subseteq BOOLEAN
  /\ pend \in Seq(Cmd) /\ Len(pend) <= build.ahead
  /\ owed \in Seq(Message) /\ Len(owed) <= TxNum + 1

Init ==
  /\ build \in Builds
  /\ slot = [k \in 0 .. RxNum - 1 |-> Zero] /\ rw = 0 /\ rr = 0
  /\ dma = 0 /\ rx = "quiet" /\ cur = RestartCmd /\ torn = FALSE
  /\ tslot = [k \in 0 .. TxNum - 1 |-> Zero] /\ tw = 0 /\ tr = 0
  /\ tx = None /\ flag = FALSE
  /\ wakeMcu = FALSE /\ restart = FALSE /\ pc = "main" /\ mcu = FALSE
  /\ mask = build.pm /\ wakeTick = FALSE /\ asleep = FALSE
  /\ pend = <<>> /\ owed = <<>>

-----------------------------------------------------------------------------
(* common/utility.c                                                        *)

Entry(p, num) == p % num
Step(p) == (p + 1) % PtrMod
Filled(w, r) == (w - r) % PtrMod

TxQueued == tw # tr
RxQueued == rw # rr

TxBusy == TxQueued \/ flag
ModuleBusy == mcu \/ TxBusy \/ RxQueued

-----------------------------------------------------------------------------
(* The host.  It holds GPIO_WAKEUP_MODULE high around its commands, and    *)
(* gives the module the time to wake up.                                   *)

HostRaise ==
  /\ ~mcu
  /\ mcu' = TRUE
  /\ UNCHANGED <<rxVars, txVars, wakeMcu, restart, pc, pmVars, pend, owed>>

HostLower ==
  /\ mcu /\ rx = "quiet"
  /\ mcu' = FALSE
  /\ UNCHANGED <<rxVars, txVars, wakeMcu, restart, pc, pmVars, pend, owed>>

HostStart ==
  /\ mcu /\ ~asleep /\ rx = "quiet"
  /\ Len(pend) < build.ahead
  /\ \E c \in build.cmd :
       /\ cur' = c
       /\ slot' = [slot EXCEPT ![dma] = c]
       /\ pend' = Append(pend, c)
  /\ rx' = "half"
  /\ torn' = FALSE
  /\ UNCHANGED <<build, rw, rr, dma, txVars, wakeMcu, restart, pc, mcu, pmVars, owed>>

HostEnd ==
  /\ rx = "half"
  /\ rx' = "done"
  /\ slot' = [slot EXCEPT ![dma] = IF torn THEN Torn ELSE cur]
  /\ UNCHANGED <<build, rw, rr, dma, cur, torn, txVars, wakeMcu, restart, pc, mcu,
                 pmVars, pend, owed>>

-----------------------------------------------------------------------------
(* uart0_receive_irq                                                       *)

\* the DMA stays on the entry that was just received
MutRxDoneIrq ==
  /\ rx = "done"
  /\ slot[Entry(rw, RxNum)] # Zero
  /\ rx' = "quiet"
  /\ rw' = Step(rw)
  /\ dma' = dma
  /\ UNCHANGED <<build, slot, rr, cur, torn, txVars, wakeMcu, restart, pc, mcu,
                 pmVars, pend, owed>>

\* RXDONE: the command is in the entry at wptr; the DMA goes on with the
\* next entry, whether or not it is free.
RxDoneIrq ==
  /\ rx = "done"
  /\ slot[Entry(rw, RxNum)] # Zero
  /\ rx' = "quiet"
  /\ rw' = Step(rw)
  /\ dma' = Entry(rw', RxNum)
  /\ UNCHANGED <<build, slot, rr, cur, torn, txVars, wakeMcu, restart, pc, mcu,
                 pmVars, pend, owed>>

\* uart_send_flag is not cleared
MutTxDoneIrq ==
  /\ tx # None
  /\ tx' = None
  /\ owed' = Tail(owed)
  /\ UNCHANGED <<rxVars, tslot, tw, tr, flag, wakeMcu, restart, pc, mcu,
                 pmVars, pend>>

\* TXDONE: the last byte is out.
TxDoneIrq ==
  /\ tx # None
  /\ build.slowUart => pc \notin {"sent", "popped"}
  /\ tx' = None
  /\ flag' = FALSE
  /\ owed' = Tail(owed)
  /\ UNCHANGED <<rxVars, tslot, tw, tr, wakeMcu, restart, pc, mcu, pmVars, pend>>

-----------------------------------------------------------------------------
(* The main loop: spp.c                                                    *)

Awake == ~asleep /\ pc = "main"

\* no test for a free entry
MutSend(m) ==
  /\ tslot' = [tslot EXCEPT ![Entry(tw, TxNum)] = m]
  /\ tw' = Step(tw)
  /\ owed' = Append(owed, m)
  /\ wakeMcu' = TRUE

\* spp_send_data: with a full ring the message is dropped
Send(m) ==
  IF Filled(tw, tr) < TxNum
  THEN /\ tslot' = [tslot EXCEPT ![Entry(tw, TxNum)] = m]
       /\ tw' = Step(tw)
       /\ owed' = Append(owed, m)
       /\ wakeMcu' = TRUE
  ELSE UNCHANGED <<tslot, tw, owed, wakeMcu>>

\* controller_event_handler and the data of the BLE link
BleEvent ==
  /\ Awake
  /\ Send(Ev)
  /\ UNCHANGED <<rxVars, tr, tx, flag, restart, pc, mcu, pmVars, pend>>

\* rx_from_uart_cb looks at the entry, ...
RxGet ==
  /\ Awake /\ RxQueued
  /\ slot[Entry(rr, RxNum)] # Zero
  /\ pc' = "exec"
  /\ UNCHANGED <<rxVars, txVars, wakeMcu, restart, mcu, pmVars, pend, owed>>

\* ... bls_uart_handler executes the command in the entry, in place, ...
RxExec ==
  /\ pc = "exec"
  /\ pc' = "pop"
  /\ LET c == slot[Entry(rr, RxNum)] IN
       /\ Send(c)
       /\ restart' = (restart \/ c = RestartCmd)
  /\ pend' = Tail(pend)
  /\ UNCHANGED <<rxVars, tr, tx, flag, mcu, pmVars>>

\* ... and the entry is given back.
RxPop ==
  /\ pc = "pop"
  /\ pc' = "main"
  /\ rr' = Step(rr)
  /\ UNCHANGED <<build, slot, rw, dma, rx, cur, torn, txVars, wakeMcu, restart, mcu,
                 pmVars, pend, owed>>

\* uart_send_flag is not waited for
MutTxStart ==
  /\ Awake /\ TxQueued
  /\ tx' = tslot[Entry(tr, TxNum)]
  /\ pc' = "sent"
  /\ UNCHANGED <<rxVars, tslot, tw, tr, flag, wakeMcu, restart, mcu, pmVars,
                 pend, owed>>

\* tx_to_uart_cb: the entry is copied out and given to the DMA, ...
TxStart ==
  /\ Awake /\ TxQueued /\ ~flag
  /\ tx' = tslot[Entry(tr, TxNum)]
  /\ pc' = "sent"
  /\ UNCHANGED <<rxVars, tslot, tw, tr, flag, wakeMcu, restart, mcu, pmVars,
                 pend, owed>>

\* ... then it is popped, ...
TxPop ==
  /\ pc = "sent"
  /\ pc' = "popped"
  /\ tr' = Step(tr)
  /\ UNCHANGED <<rxVars, tslot, tw, tx, flag, wakeMcu, restart, mcu, pmVars,
                 pend, owed>>

\* ... and then the flag is set which TXDONE clears.
TxFlag ==
  /\ pc = "popped"
  /\ pc' = "main"
  /\ flag' = TRUE
  /\ UNCHANGED <<rxVars, tslot, tw, tr, tx, wakeMcu, restart, mcu, pmVars,
                 pend, owed>>

\* spp_restart_proc, 500 ms after the command: the RAM is lost.  The host
\* starts over as well.
RestartMod ==
  /\ Awake /\ restart
  /\ slot' = [k \in 0 .. RxNum - 1 |-> Zero] /\ rw' = 0 /\ rr' = 0
  /\ dma' = 0 /\ rx' = "quiet" /\ cur' = RestartCmd /\ torn' = FALSE
  /\ tslot' = [k \in 0 .. TxNum - 1 |-> Zero] /\ tw' = 0 /\ tr' = 0
  /\ tx' = None /\ flag' = FALSE
  /\ wakeMcu' = FALSE /\ restart' = FALSE /\ pc' = "main" /\ mcu' = FALSE
  /\ mask' = build.pm /\ wakeTick' = FALSE /\ asleep' = FALSE
  /\ pend' = <<>> /\ owed' = <<>>
  /\ UNCHANGED build

-----------------------------------------------------------------------------
(* The main loop: power management of app.c                                *)

\* uart_send_flag is not looked at
MutPmMcuLine ==
  /\ Awake
  /\ pc' = IF build.pm THEN "pm" ELSE "main"
  /\ wakeMcu' = (wakeMcu /\ (TxQueued \/ RxQueued))
  /\ UNCHANGED <<rxVars, txVars, restart, mcu, pmVars, pend, owed>>

\* app_power_management, first part: release the host when all is done
PmMcuLine ==
  /\ Awake
  /\ pc' = IF build.pm THEN "pm" ELSE "main"
  /\ wakeMcu' = (wakeMcu /\ (TxBusy \/ RxQueued))
  /\ UNCHANGED <<rxVars, txVars, restart, mcu, pmVars, pend, owed>>

\* second part: allow the chip to sleep; 500 us after a wake-up forget it
PmMask ==
  /\ pc = "pm"
  /\ pc' = "main"
  /\ mask' = (mask \/ (~ModuleBusy /\ ~wakeTick))
  /\ wakeTick' \in {wakeTick, FALSE}
  /\ UNCHANGED <<rxVars, txVars, wakeMcu, restart, mcu, asleep, pend, owed>>

\* app_suspend_exit points the DMA at the entry at wptr again; a command
\* that is just coming in loses its beginning.
SuspendExit ==
  /\ dma' = Entry(rw, RxNum)
  /\ torn' = (torn \/ rx = "half")
  /\ mask' = FALSE
  /\ wakeTick' = TRUE
  /\ asleep' = FALSE
  /\ UNCHANGED <<build, slot, rw, rr, rx, cur, txVars, wakeMcu, restart, pc, mcu,
                 pend, owed>>

\* The stack wants to sleep and asks app_suspend_enter.
SuspendRefused == Awake /\ mask /\ ModuleBusy /\ SuspendExit

\* a message still in the UART does not count as busy
MutSuspend ==
  /\ Awake /\ mask /\ ~mcu /\ ~TxQueued /\ ~RxQueued
  /\ asleep' = TRUE
  /\ UNCHANGED <<rxVars, txVars, wakeMcu, restart, pc, mcu, mask, wakeTick,
                 pend, owed>>

Suspend ==
  /\ Awake /\ mask /\ ~ModuleBusy
  /\ asleep' = TRUE
  /\ UNCHANGED <<rxVars, txVars, wakeMcu, restart, pc, mcu, mask, wakeTick,
                 pend, owed>>

\* The pin or the next BLE event wakes the chip: BLT_EV_FLAG_SUSPEND_EXIT.
WakeUp == asleep /\ SuspendExit

-----------------------------------------------------------------------------
Host == HostRaise \/ HostLower \/ HostStart \/ HostEnd
Irq == RxDoneIrq \/ TxDoneIrq
Receive == RxGet \/ RxExec \/ RxPop
Transmit == TxStart \/ TxPop \/ TxFlag
Sleep == SuspendRefused \/ Suspend \/ WakeUp

Next ==
  \/ Host \/ Irq \/ Receive \/ Transmit \/ Sleep
  \/ BleEvent \/ PmMcuLine \/ PmMask \/ RestartMod

Spec == Init /\ [][Next]_vars

\* The stack calls both callbacks from its main loop again and again (even
\* if the events of the link keep it busy), the host ends a command it has
\* begun, and the UART sends what it was given.
Fairness ==
  /\ SF_vars(Receive) /\ SF_vars(Transmit) /\ SF_vars(PmMcuLine)
  /\ WF_vars(RxDoneIrq) /\ WF_vars(TxDoneIrq) /\ WF_vars(HostEnd)
  /\ WF_vars(PmMask) /\ WF_vars(WakeUp)

FairSpec == Spec /\ Fairness

-----------------------------------------------------------------------------
(* Properties.                                                             *)

\* bls_uart_handler works in place on the entry of the ring while the DMA
\* writes further commands: it executes each command of the host once, in
\* order and unharmed.  With power management a refused suspend restarts the
\* DMA in the middle of a command (app.c:166), so nothing is promised there.
ExecutesWhatWasSent ==
  [][~build.pm /\ RxExec => pend # <<>> /\ slot[Entry(rr, RxNum)] = Head(pend)]_vars

\* The host receives what spp_send_data accepted, once and in order: the
\* ring entry and the send buffer are not reused too early.
DeliversInOrder ==
  [][TxDoneIrq => owed # <<>> /\ tx = Head(owed)]_vars

\* A message is never sent to a host that may be asleep: the pin
\* GPIO_WAKEUP_MCU stays high from spp_send_data until the last byte is out.
HostAwakeForMessages == owed # <<>> => wakeMcu

\* The chip does not go to sleep with a command in the ring or in the
\* receiver, or a message in the ring or in the UART.
SleepsOnlyIdle == asleep => pend = <<>> /\ owed = <<>> /\ rx = "quiet"

\* Neither direction stalls: with messages accepted the UART sends again
\* and again, with commands received the handler runs again and again, and
\* GPIO_WAKEUP_MCU is lowered when the host and the link have become quiet
\* (app.c:200).  A UART faster than tx_to_uart_cb sets uart_send_flag for
\* ever (spp.c:437).
KeepsMoving ==
  build.slowUart =>
    /\ []<>(tx # None \/ owed = <<>>)
    /\ []<>(pc = "exec" \/ pend = <<>>)
    /\ <>[][~(HostStart \/ BleEvent)]_vars => <>[](~wakeMcu)
=============================================================================
