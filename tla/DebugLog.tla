------------------------------ MODULE DebugLog ------------------------------
(***************************************************************************)
(* The debug log, vendor/common/tlkapi_debug.c: main program and interrupts*)
(* put messages into the slots of print_fifo, tlkapi_debug_handler takes   *)
(* one in each round of the main loop and sends it, bit by bit on a pin    *)
(* (GSUART) or by DMA, whose interrupt takes the next one (UART).          *)
(* tlkapi_send_str_data runs with the interrupts off, my_printf does not.  *)
(*                                                                         *)
(* A message is its number; a slot holds the contents of one message and   *)
(* the length of one, not always the same.  The USB channel is left out.   *)
(***************************************************************************)
EXTENDS Integers, Sequences

CONSTANTS
  Num,        \* slots, a power of 2: TLKAPI_DEBUG_FIFO_NUM
  Wrap,       \* values of wptr and rptr: 2^8
  Channel,    \* of TLKAPI_DEBUG_CHANNEL: "UART", "GSUART"
  Builds,     \* who logs besides LogMain: sets of "printf" (the main
              \* program uses my_printf) and "irq" (interrupts log, too)
  SendKind,   \* the lengths of the messages for tlkapi_send_str_data:
              \* "full" takes all of the space
  PrintKind,  \* the lengths for my_printf: "long" has to be cut off
  Quota,      \* bound: messages that wait when another one is logged
  MaxLog      \* bound: messages logged

ASSUME FifoAssumption ==
  /\ Num \in Nat \ {0} /\ Wrap \in Nat \ {0} /\ Wrap % Num = 0
  /\ {Quota, MaxLog} \subseteq Nat
  /\ Channel \subseteq {"UART", "GSUART"}
  /\ Builds \subseteq SUBSET {"printf", "irq"}
  /\ SendKind \subseteq {"short", "full"}
  /\ PrintKind \subseteq {"short", "long"}

VARIABLES
  dbg_chn,    \* of tlkDbgCtl
  users,      \* the member of Builds
  wptr, rptr, \* of print_fifo
  slot,       \* the message and the length in every slot
  sending,    \* <<>>, or the slot and the length that are being sent
  main,       \* where the main program is
  print,      \* my_printf: its message, its slot, its length, the wptr it read
  count,      \* messages logged so far
  out         \* what came out, and whether it was whole

logVars == <<dbg_chn, users, wptr, rptr, slot, sending, main, print, count, out>>

Index(ptr) == ptr % Num
Pending == (wptr - rptr) % Wrap
Message == 0 .. MaxLog          \* 0: nothing, or a length that fits nothing
Slots == 0 .. Num - 1

built == <<dbg_chn, users>>

Uart == dbg_chn = "UART"

LogTyped ==
  /\ dbg_chn \in Channel /\ users \in Builds
  /\ {wptr, rptr} \subseteq 0 .. Wrap - 1
  /\ slot \in [Slots -> [id : Message, len : Message]]
  /\ sending = <<>> \/ (Len(sending) = 1 /\ sending[1] \in [at : Slots, len : Message])
  /\ main \in {"loop", "header", "load", "store"}
  /\ print \in [id : Message, at : Slots, len : Message, ptr : 0 .. Wrap - 1]
  /\ count \in Message
  /\ out \in Seq([id : Message, whole : BOOLEAN])

\* tlkapi_debug_init
LogInit ==
  /\ dbg_chn \in Channel /\ users \in Builds
  /\ wptr = 0 /\ rptr = 0
  /\ slot = [i \in Slots |-> [id |-> 0, len |-> 0]]
  /\ sending = <<>>
  /\ main = "loop"
  /\ print = [id |-> 0, at |-> 0, len |-> 0, ptr |-> 0]
  /\ count = 0
  /\ out = <<>>

\* the main program does nothing else while it moves a pin
MainFree == main = "loop" /\ (Uart \/ sending = <<>>)

MayLog == count < MaxLog /\ Pending <= Quota

-----------------------------------------------------------------------------
(* Logging.                                                                *)

\* A message in slot i.  The header has a byte more than fifo_format_len
\* says: a message that takes all of the space ends in the length of the
\* next slot.
Filled(i, id, kind) ==
  [j \in Slots |->
     CASE j = i -> [id |-> id, len |-> id]
       [] j = i + 1 /\ kind = "full" -> [slot[j] EXCEPT !.len = 0]
       [] OTHER -> slot[j]]

\* a message that had to be cut does not get its slot
MutSendStrData(kind) ==
  /\ slot' = Filled(Index(wptr), count + 1, kind)
  /\ wptr' = IF kind = "full" THEN wptr ELSE (wptr + 1) % Wrap
  /\ count' = count + 1

\* tlkapi_send_str_data
SendStrData(kind) ==
  /\ slot' = Filled(Index(wptr), count + 1, kind)
  /\ wptr' = (wptr + 1) % Wrap
  /\ count' = count + 1

LogMain ==
  /\ MainFree /\ MayLog
  /\ \E kind \in SendKind : SendStrData(kind)
  /\ UNCHANGED <<built, rptr, sending, main, print, out>>

\* The BLE stack logs in its interrupt, wherever the main program is.
LogIrq ==
  /\ "irq" \in users /\ MayLog
  /\ \E kind \in SendKind : SendStrData(kind)
  /\ UNCHANGED <<built, rptr, sending, main, print, out>>

\* my_printf, vsnprintf: the slot is taken for granted and filled; the
\* length is what vsnprintf would have liked to write
PrintfFormat ==
  /\ "printf" \in users /\ MainFree /\ MayLog
  /\ count' = count + 1
  /\ \E kind \in PrintKind :
       print' = [print EXCEPT !.id = count + 1, !.at = Index(wptr),
                              !.len = IF kind = "long" THEN 0 ELSE count + 1]
  /\ slot' = [slot EXCEPT ![Index(wptr)].id = count + 1]
  /\ main' = "header"
  /\ UNCHANGED <<built, wptr, rptr, sending, out>>

\* my_printf: the header
PrintfHeader ==
  /\ main = "header"
  /\ slot' = [slot EXCEPT ![print.at].len = print.len]
  /\ main' = "load"
  /\ UNCHANGED <<built, wptr, rptr, sending, print, count, out>>

\* my_printf: wptr++ reads ...
PrintfLoad ==
  /\ main = "load"
  /\ print' = [print EXCEPT !.ptr = wptr]
  /\ main' = "store"
  /\ UNCHANGED <<built, wptr, rptr, slot, sending, count, out>>

\* ... and writes
PrintfStore ==
  /\ main = "store"
  /\ wptr' = (print.ptr + 1) % Wrap
  /\ main' = "loop"
  /\ UNCHANGED <<built, rptr, slot, sending, print, count, out>>

-----------------------------------------------------------------------------
(* Sending.                                                                *)

\* the pointer is moved before the slot is taken
MutTake ==
  LET i == Index(rptr + 1) IN
    /\ sending' = <<[at |-> i, len |-> slot[i].len]>>
    /\ rptr' = (rptr + 1) % Wrap

\* The next message: its slot counts as free from now on.
Take ==
  LET i == Index(rptr) IN
    /\ sending' = <<[at |-> i, len |-> slot[i].len]>>
    /\ rptr' = (rptr + 1) % Wrap

\* what has been sent is taken from the slot as it is then
Sent ==
  out' = Append(out, [id |-> slot[sending[1].at].id,
                      whole |-> sending[1].len = slot[sending[1].at].id])

\* tlkapi_debug_handler: the start
Handler ==
  /\ MainFree /\ sending = <<>> /\ wptr # rptr
  /\ Take
  /\ UNCHANGED <<built, wptr, slot, main, print, count, out>>

\* tlkapi_debug_handler on GSUART: the last bit
HandlerEnd ==
  /\ ~Uart /\ sending # <<>>
  /\ Sent
  /\ sending' = <<>>
  /\ UNCHANGED <<built, wptr, rptr, slot, main, print, count>>

\* uart0_irq_handler
UartIrq ==
  /\ Uart /\ sending # <<>>
  /\ Sent
  /\ IF wptr # rptr THEN Take ELSE sending' = <<>> /\ UNCHANGED rptr
  /\ UNCHANGED <<built, wptr, slot, main, print, count>>

\* only the FIFO is looked at
MutIsBusy == wptr # rptr

\* tlkapi_debug_isBusy, asked by the main program
IsBusy == (Uart /\ sending # <<>>) \/ wptr # rptr

LogNext ==
  \/ LogMain \/ LogIrq
  \/ PrintfFormat \/ PrintfHeader \/ PrintfLoad \/ PrintfStore
  \/ Handler \/ HandlerEnd \/ UartIrq

LogSpec == LogInit /\ [][LogNext]_logVars

\* The main loop goes round for ever and the UART sends what it was given.
LogFairSpec ==
  /\ LogSpec
  /\ WF_logVars(Handler) /\ WF_logVars(HandlerEnd) /\ WF_logVars(UartIrq)
  /\ WF_logVars(PrintfHeader \/ PrintfLoad \/ PrintfStore)

-----------------------------------------------------------------------------
(* Properties.                                                             *)

\* What is logged comes out in that order, nothing twice and nothing left
\* out, every message whole, under its own length, while the pointers stay
\* bytes; tlkapi_debug.c:286: "here just send log to FIFO, can not output
\* immediately, wait for "tlkapi debug_handler" to output log".
OutputInOrder ==
  LogTyped /\ \A i \in DOMAIN out : out[i].id = i /\ out[i].whole

\* tlkapi_debug.c:257: "1: debug log busy, some log pending in FIFO, not all
\* finish; 0: debug log empty".
NotBusyIsOut == MainFree /\ ~IsBusy => Len(out) = count

\* Everything that was logged comes out in the end.
AllComesOut == <>[](Len(out) = count)
=============================================================================
