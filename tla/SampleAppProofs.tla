--------------------------- MODULE SampleAppProofs ---------------------------
(* The flash protection, the battery flag, and the two idle timers of the  *)
(* sample application, for every chip, every number of tries and every     *)
(* timeout that satisfies the assumptions.                                 *)
EXTENDS SampleApp, SequenceTheorems, TLAPS

(***************************************************************************)
(* The loops of flash_prot.c: every try but the last ones has failed, one  *)
(* after the other, and there are not enough of those to use up all tries. *)
(***************************************************************************)
Loops ==
  /\ FlashIdle <=> tries = 0
  /\ ~FlashIdle => Tries - tries <= fails

\* Where the main loop wants the flash protected, and where it writes.
Locking   == pc \in {"server", "start"} \/ (Running /\ ota # "writing")
Unlocking == pc = "clear" \/ (Running /\ ota = "writing")

(***************************************************************************)
(* A loop that is under way leads to the status that its place asks for,   *)
(* and nothing but an update that runs calls for a writable flash.         *)
(***************************************************************************)
Protection ==
  /\ FlashIdle /\ Locking => status = Wanted
  /\ FlashIdle /\ Unlocking => status = Unlocked
  /\ fpc \in {"unlock_first", "lock"} => Locking
  /\ fpc = "unlock" => Unlocking
  /\ ~FlashIdle => pc \in {"server", "clear", "start", "sdk"}
  /\ pc \in {"power", "init", "server", "clear", "start"} => ota = "none"

\* The flag says what the readings have said.
Charge == (lowBatt <=> charge # "enough") /\ WaitsForCharge

\* An update is an event of the user that is not older than the update.
UpdateAge ==
  /\ otaWorking <=> ota \in {"started", "writing"}
  /\ otaWorking => userAge <= otaAge

\* The link advertises: since advertise_begin_tick, or the end of the last
\* connection has still to be noticed.
TerminatePending == \E i \in 1 .. Len(events) : events[i] = "terminate"

AdvertisingAge ==
  link = "adv" => \/ TerminatePending
                  \/ advertised = AdvIdle
                  \/ advAge <= advertised

IInv == TypeOK /\ Loops /\ Protection /\ Charge /\ UpdateAge /\ AdvertisingAge

\* The types, by the kind of value.
Flags ==
  /\ ran \in BOOLEAN /\ advOn \in BOOLEAN /\ inConn \in BOOLEAN
  /\ termSent \in BOOLEAN /\ keyDown \in BOOLEAN /\ otaWorking \in BOOLEAN
  /\ newFw \in BOOLEAN /\ lowBatt \in BOOLEAN

Names ==
  /\ pc \in {"power", "init", "server", "clear", "start",
             "sdk", "batt", "ui", "pm", "deep"}
  /\ link \in {"adv", "conn", "idle"}
  /\ mask \in {"none", "suspend"}
  /\ ota \in {"none", "started", "writing", "done"}
  /\ charge \in {"enough", "empty", "held"}

Numbers ==
  /\ sendTerm \in 0 .. 2
  /\ advAge \in Age /\ userAge \in Age /\ advertised \in 0 .. AdvIdle
  /\ otaAge \in 0 .. OtaTimeout

EventsOK ==
  events \in Seq({"connect", "terminate"}) /\ Len(events) <= MaxPending

LEMMA TypeParts ==
  /\ TypeOK <=> FlashTypeOK /\ Flags /\ Names /\ Numbers /\ EventsOK
  /\ TypeOK' <=> (FlashTypeOK /\ Flags /\ Names /\ Numbers /\ EventsOK)'
  BY Zenon DEF TypeOK, Flags, Names, Numbers, EventsOK

LEMMA WantedType == Wanted \in Block /\ Wanted # Unlocked /\ Wanted \in Nat
  BY ChipAssumption, BlockAssumption

LEMMA TimeType ==
  /\ AdvIdle \in Nat /\ ConnIdle \in Nat /\ OtaTimeout \in Nat
  /\ Wrap \in Nat /\ MaxPending \in Nat
  /\ 0 < AdvIdle /\ AdvIdle < Wrap
  /\ OtaTimeout < ConnIdle /\ ConnIdle < Wrap
  BY TimeAssumption, PendingAssumption

LEMMA InitIInv == Init => IInv
<1> SUFFICES ASSUME Init PROVE IInv
  OBVIOUS
<1> USE TimeType, TriesAssumption DEF Init, FlashInit
<1>1. TypeOK
  <2>1. EventsOK
    BY EmptySeq DEF EventsOK
  <2>2. FlashTypeOK
    BY DEF FlashTypeOK
  <2>3. Numbers
    BY DEF Numbers, Age
  <2>4. Names
    BY DEF Names
  <2>5. Flags
    BY Zenon DEF Flags
  <2> QED BY <2>1, <2>2, <2>3, <2>4, <2>5, TypeParts
<1>2. Loops /\ Protection
  BY DEF Loops, Protection, Locking, Unlocking, Running, FlashIdle
<1>3. Charge /\ UpdateAge /\ AdvertisingAge
  BY DEF Charge, WaitsForCharge, UpdateAge, AdvertisingAge
<1> QED BY <1>1, <1>2, <1>3 DEF IInv

-----------------------------------------------------------------------------
(* The loops                                                               *)

\* A body of a loop: the status is as wanted and the loop is left, or one
\* try less remains.
LEMMA RetryStep ==
  ASSUME FlashTypeOK, Loops, NEW s \in Status, ~FlashIdle,
         NEW next \in {"idle", "lock"}, Write(s), Retry(s, next)
  PROVE  /\ FlashTypeOK' /\ Loops'
         /\ \/ fpc' = next /\ status' = s
            \/ fpc' = fpc
<1> USE TriesAssumption DEF FlashTypeOK, Loops, FlashIdle
<1>1. tries \in 1 .. Tries /\ Tries - tries <= fails
  OBVIOUS
<1>2. status' \in Status /\ fails' \in 0 .. MaxFail
  BY DEF Write
<1>3. CASE status' = s
  BY <1>1, <1>2, <1>3 DEF Retry, Enter
<1>4. CASE status' # s
  <2>1. fails' = fails + 1 /\ fails < MaxFail
    BY <1>4 DEF Write
  <2>2. tries # 1
    BY <1>1, <2>1
  <2> QED BY <1>1, <1>2, <1>4, <2>1, <2>2 DEF Retry
<1> QED BY <1>3, <1>4

LEMMA FlashStepped ==
  ASSUME FlashTypeOK, Loops, FlashStep
  PROVE  /\ FlashTypeOK' /\ Loops' /\ ~FlashIdle
         /\ \/ fpc \in {"unlock_first", "lock"} /\ fpc' = "lock"
            \/ fpc = "lock" /\ fpc' = "idle" /\ status' = Wanted
            \/ fpc = "unlock" /\ fpc' = "idle" /\ status' = Unlocked
            \/ fpc' = fpc
<1>1. Unlocked \in Status /\ Wanted \in Status
  BY WantedType DEF Status
<1>2. CASE UnlockFirst
  <2>1. fpc = "unlock_first" /\ ~FlashIdle
    BY <1>2 DEF UnlockFirst, FlashIdle
  <2> QED BY <1>1, <1>2, <2>1, RetryStep DEF UnlockFirst
<1>3. CASE LockTry
  <2>1. fpc = "lock" /\ ~FlashIdle
    BY <1>3 DEF LockTry, FlashIdle
  <2> QED BY <1>1, <1>3, <2>1, RetryStep DEF LockTry
<1>4. CASE UnlockTry
  <2>1. fpc = "unlock" /\ ~FlashIdle
    BY <1>4 DEF UnlockTry, FlashIdle
  <2> QED BY <1>1, <1>4, <2>1, RetryStep DEF UnlockTry
<1> QED BY <1>2, <1>3, <1>4 DEF FlashStep

LEMMA LockCalled ==
  ASSUME FlashTypeOK, Loops, FlashLock
  PROVE  /\ FlashTypeOK' /\ Loops' /\ FlashIdle
         /\ \/ fpc' = "idle" /\ status' = Wanted
            \/ fpc' \in {"lock", "unlock_first"}
  BY TriesAssumption
     DEF FlashTypeOK, Loops, FlashLock, LockFrom, Enter, FlashIdle

LEMMA UnlockCalled ==
  ASSUME FlashTypeOK, Loops, FlashUnlock
  PROVE  /\ FlashTypeOK' /\ Loops' /\ FlashIdle
         /\ \/ fpc' = "idle" /\ status' = Unlocked
            \/ fpc' = "unlock"
  BY TriesAssumption
     DEF FlashTypeOK, Loops, FlashUnlock, Enter, FlashIdle

LEMMA FlashUnchanged ==
  ASSUME FlashTypeOK, Loops, UNCHANGED flashVars
  PROVE  FlashTypeOK' /\ Loops'
  BY DEF FlashTypeOK, Loops, FlashIdle, flashVars

\* Power that is lost leaves the loops.
LEMMA FlashWasReset ==
  ASSUME FlashTypeOK, Loops, FlashReset
  PROVE  FlashTypeOK' /\ Loops'
  BY TriesAssumption DEF FlashTypeOK, Loops, FlashIdle, FlashReset

\* Every step treats the flash in one of these ways.
LEMMA FlashNext ==
  ASSUME FlashTypeOK, Loops, [Next]_vars
  PROVE  FlashTypeOK' /\ Loops'
<1>1. \/ FlashLock \/ FlashUnlock \/ FlashStep \/ FlashReset
      \/ UNCHANGED flashVars
  <2>1. CASE Battery
    BY <2>1 DEF Battery, CheckAtStart, CheckInLoop, CheckNotDue
  <2>2. CASE Boot
    BY <2>2 DEF Boot, InitProtect, OtaServer, OtaCleared, StartLoop
  <2>3. CASE Flash
    BY <2>3 DEF Flash
  <2>4. CASE Irq
    BY <2>4 DEF Irq, Connect, Disconnect
  <2>5. CASE Sdk
    BY <2>5 DEF Sdk, TaskConnect, TaskTerminate, EnterOta, OtaWriteBegin,
                OtaEnd, OtaReboot, SdkReturn
  <2>6. CASE Ui
    BY <2>6 DEF Ui, KeyChange, NoKeyChange
  <2>7. CASE BltPmProc \/ Tick \/ WakeUp
    BY <2>7 DEF BltPmProc, Tick, WakeUp
  <2>8. CASE PowerLoss
    BY <2>8 DEF PowerLoss
  <2>9. CASE UNCHANGED vars
    BY <2>9 DEF vars
  <2> QED BY <2>1, <2>2, <2>3, <2>4, <2>5, <2>6, <2>7, <2>8, <2>9 DEF Next
<1> QED BY <1>1, FlashStepped, LockCalled, UnlockCalled, FlashUnchanged,
           FlashWasReset

-----------------------------------------------------------------------------
(* Types                                                                   *)

LEMMA AgeStep ==
  ASSUME NEW age \in Age
  PROVE  (age + 1) % Wrap \in Age /\ (age + 1) % Wrap <= age + 1 /\ 0 \in Age
  BY TimeType DEF Age

\* The queue of events, when one is added or the first one is served.
LEMMA EventsAppend ==
  ASSUME EventsOK, Len(events) < MaxPending,
         NEW e \in {"connect", "terminate"}, events' = Append(events, e)
  PROVE  /\ EventsOK'
         /\ Len(events') = Len(events) + 1 /\ events'[Len(events')] = e
         /\ \A i \in 1 .. Len(events) : events'[i] = events[i]
  BY AppendProperties, LenProperties, TimeType DEF EventsOK

LEMMA EventsTail ==
  ASSUME EventsOK, events # <<>>, events' = Tail(events)
  PROVE  /\ EventsOK'
         /\ Len(events') = Len(events) - 1
         /\ \A i \in 2 .. Len(events) : events'[i - 1] = events[i]
         /\ Head(events) = events[1]
<1> USE TimeType DEF EventsOK
<1>1. /\ Tail(events) \in Seq({"connect", "terminate"})
      /\ Len(Tail(events)) = Len(events) - 1
      /\ \A i \in 1 .. Len(Tail(events)) : Tail(events)[i] = events[i + 1]
  BY HeadTailProperties
<1>2. Len(events) \in Nat
  BY LenProperties
<1> QED BY <1>1, <1>2

LEMMA EventsCleared ==
  ASSUME events' = <<>>
  PROVE  EventsOK'
  BY EmptySeq, TimeType DEF EventsOK

LEMMA EventsStep ==
  ASSUME EventsOK, [Next]_vars
  PROVE  EventsOK'
<1>1. CASE Irq
  BY <1>1, EventsAppend DEF Irq, Connect, Disconnect
<1>2. CASE TaskConnect \/ TaskTerminate
  BY <1>2, EventsTail DEF TaskConnect, TaskTerminate
<1>3. CASE OtaReboot \/ WakeUp \/ PowerLoss
  BY <1>3, EventsCleared DEF OtaReboot, WakeUp, PowerLoss, Restart
<1>4. CASE UNCHANGED events
  BY <1>4 DEF EventsOK
<1>5. CASE Battery \/ Boot \/ Flash
  BY <1>5, <1>4
     DEF Battery, CheckAtStart, CheckInLoop, CheckNotDue,
         Boot, InitProtect, OtaServer, OtaCleared, StartLoop, Flash, linkVars
<1>6. CASE EnterOta \/ OtaWriteBegin \/ OtaEnd \/ SdkReturn
  BY <1>6, <1>4 DEF EnterOta, OtaWriteBegin, OtaEnd, SdkReturn, linkVars
<1>7. CASE Ui \/ BltPmProc \/ Tick \/ UNCHANGED vars
  BY <1>7, <1>4 DEF Ui, KeyChange, NoKeyChange, BltPmProc, Tick, linkVars, vars
<1> QED BY <1>1, <1>2, <1>3, <1>5, <1>6, <1>7 DEF Next, Sdk

LEMMA NamesStep ==
  ASSUME Names, [Next]_vars
  PROVE  Names'
<1> USE DEF Names, linkVars, tickVars, otaVars, appVars, uiVars, battVars
<1>1. CASE Battery
  BY <1>1 DEF Battery, CheckAtStart, CheckInLoop, CheckNotDue,
              BatteryPowerCheck
<1>2. CASE Boot \/ Flash
  BY <1>2 DEF Boot, InitProtect, OtaServer, OtaCleared, StartLoop, Flash
<1>3. CASE Irq \/ TaskConnect \/ TaskTerminate
  BY <1>3 DEF Irq, Connect, Disconnect, TaskConnect, TaskTerminate
<1>4. CASE EnterOta \/ OtaWriteBegin \/ OtaEnd \/ SdkReturn
  BY <1>4 DEF EnterOta, OtaWriteBegin, OtaEnd, SdkReturn
<1>5. CASE Ui \/ BltPmProc \/ Tick
  BY <1>5 DEF Ui, KeyChange, NoKeyChange, BltPmProc, DeepSleep, Tick
<1>6. CASE OtaReboot \/ WakeUp \/ PowerLoss
  BY <1>6 DEF OtaReboot, WakeUp, PowerLoss, Restart
<1>7. CASE UNCHANGED vars
  BY <1>7 DEF vars
<1> QED BY <1>1, <1>2, <1>3, <1>4, <1>5, <1>6, <1>7 DEF Next, Sdk

LEMMA NumbersStep ==
  ASSUME Numbers, [Next]_vars
  PROVE  Numbers'
<1> USE TimeType DEF Numbers, linkVars, tickVars, otaVars, appVars, uiVars,
                     battVars
<1>0. 0 \in Age
  BY DEF Age
<1>1. CASE Battery
  BY <1>1 DEF Battery, CheckAtStart, CheckInLoop, CheckNotDue
<1>2. CASE Boot \/ Flash
  BY <1>0, <1>2
     DEF Boot, InitProtect, OtaServer, OtaCleared, StartLoop, Flash
<1>3. CASE Irq \/ TaskConnect \/ TaskTerminate
  BY <1>0, <1>3 DEF Irq, Connect, Disconnect, TaskConnect, TaskTerminate
<1>4. CASE EnterOta \/ OtaWriteBegin \/ OtaEnd \/ SdkReturn
  BY <1>0, <1>4 DEF EnterOta, OtaWriteBegin, OtaEnd, SdkReturn
<1>5. CASE Ui \/ BltPmProc
  BY <1>0, <1>5 DEF Ui, KeyChange, NoKeyChange, BltPmProc
<1>6. CASE Tick
  <2>1. advAge' \in Age /\ userAge' \in Age
    BY <1>6, AgeStep DEF Tick
  <2> QED BY <1>6, <2>1 DEF Tick
<1>7. CASE OtaReboot \/ WakeUp \/ PowerLoss
  BY <1>0, <1>7 DEF OtaReboot, WakeUp, PowerLoss, Restart
<1>8. CASE UNCHANGED vars
  BY <1>8 DEF vars
<1> QED BY <1>1, <1>2, <1>3, <1>4, <1>5, <1>6, <1>7, <1>8 DEF Next, Sdk

LEMMA FlagsStep ==
  ASSUME Flags, [Next]_vars
  PROVE  Flags'
<1> USE DEF Flags, linkVars, tickVars, otaVars, appVars, uiVars, battVars
<1>1. CASE Battery
  BY <1>1 DEF Battery, CheckAtStart, CheckInLoop, CheckNotDue,
              BatteryPowerCheck, Enough
<1>2. CASE Boot \/ Flash
  BY <1>2 DEF Boot, InitProtect, OtaServer, OtaCleared, StartLoop, Flash
<1>3. CASE Irq \/ TaskConnect \/ TaskTerminate
  BY <1>3 DEF Irq, Connect, Disconnect, TaskConnect, TaskTerminate
<1>4. CASE EnterOta \/ OtaWriteBegin \/ OtaEnd \/ SdkReturn
  BY <1>4 DEF EnterOta, OtaWriteBegin, OtaEnd, SdkReturn
<1>5. CASE Ui \/ BltPmProc \/ Tick
  BY <1>5 DEF Ui, KeyChange, NoKeyChange, BltPmProc, Tick
<1>6. CASE OtaReboot \/ WakeUp \/ PowerLoss
  BY <1>6 DEF OtaReboot, WakeUp, PowerLoss, Restart
<1>7. CASE UNCHANGED vars
  BY <1>7 DEF vars
<1> QED BY <1>1, <1>2, <1>3, <1>4, <1>5, <1>6, <1>7 DEF Next, Sdk

LEMMA TypeStep ==
  ASSUME TypeOK, Loops, [Next]_vars
  PROVE  TypeOK'
  BY TypeParts, FlashNext, FlagsStep, NamesStep, NumbersStep, EventsStep

-----------------------------------------------------------------------------
(* The protection of the flash                                             *)

LEMMA ProtectionStep ==
  ASSUME TypeOK, Loops, Protection, [Next]_vars
  PROVE  Protection'
<1>1. Names /\ FlashTypeOK
  BY TypeParts
<1> USE DEF Protection, Locking, Unlocking, Running, linkVars, tickVars,
            otaVars, appVars, uiVars, battVars
<1>2. CASE Battery
  BY <1>2 DEF Battery, CheckAtStart, CheckInLoop, CheckNotDue,
              BatteryPowerCheck, flashVars, FlashIdle
<1>3. CASE InitProtect
  BY <1>3, LockCalled, <1>1 DEF InitProtect, FlashIdle
<1>4. CASE OtaServer
  BY <1>4, UnlockCalled, <1>1 DEF OtaServer, FlashIdle, flashVars
<1>5. CASE OtaCleared
  BY <1>5, LockCalled, <1>1 DEF OtaCleared, FlashIdle
<1>6. CASE StartLoop
  BY <1>6 DEF StartLoop, FlashIdle, flashVars
<1>7. CASE Flash
  BY <1>7, FlashStepped, <1>1 DEF Flash, FlashIdle
<1>8. CASE Irq
  BY <1>8 DEF Irq, Connect, Disconnect, flashVars, FlashIdle
<1>9. CASE TaskConnect \/ TaskTerminate \/ EnterOta \/ SdkReturn
  BY <1>9 DEF TaskConnect, TaskTerminate, EnterOta, SdkReturn, flashVars,
              FlashIdle, Callback
<1>10. CASE OtaWriteBegin
  BY <1>10, UnlockCalled, <1>1 DEF OtaWriteBegin, FlashIdle, Callback
<1>11. CASE OtaEnd
  BY <1>11, LockCalled, <1>1 DEF OtaEnd, FlashIdle, Callback, flashVars
<1>12. CASE OtaReboot
  BY <1>12 DEF OtaReboot, Restart, FlashIdle, Callback, flashVars
<1>13. CASE Ui \/ BltPmProc \/ Tick
  BY <1>13 DEF Ui, KeyChange, NoKeyChange, BltPmProc, DeepSleep, Tick,
               FlashIdle, flashVars
<1>14. CASE WakeUp
  BY <1>14 DEF WakeUp, Restart, FlashIdle, flashVars
<1>15. CASE PowerLoss
  BY <1>15 DEF PowerLoss, Restart, FlashIdle, FlashReset
<1>16. CASE UNCHANGED vars
  BY <1>16 DEF vars, flashVars, FlashIdle
<1> QED BY <1>2, <1>3, <1>4, <1>5, <1>6, <1>7, <1>8, <1>9, <1>10, <1>11,
           <1>12, <1>13, <1>14, <1>15, <1>16 DEF Next, Sdk, Boot

-----------------------------------------------------------------------------
(* The battery flag                                                        *)

\* One check: the reading decides on the flag, on what the readings have
\* said, and on what comes next.
LEMMA BatteryStep ==
  ASSUME TypeOK, Charge, NEW next \in {"init", "ui"},
         BatteryPowerCheck(next)
  PROVE  Charge'
<1> PICK reading \in Reading, held \in BOOLEAN :
           /\ lowBatt' = ~Enough(reading)
           /\ IF Enough(reading) \/ held
                THEN pc' = next /\ UNCHANGED keyDown
                ELSE pc' = "deep" /\ keyDown' = FALSE
           /\ charge' = CASE reading = "high" -> "enough"
                           [] reading = "middle" /\ charge = "enough" -> "enough"
                           [] OTHER -> IF held THEN "held" ELSE "empty"
  BY DEF BatteryPowerCheck
<1>1. Enough(reading) <=> reading = "high" \/ (reading = "middle" /\ charge = "enough")
  BY DEF Enough, Charge
<1>2. charge' # "enough" <=> ~Enough(reading)
  BY <1>1
<1>3. charge' = "empty" => pc' = "deep"
  BY <1>1
<1> QED BY <1>2, <1>3 DEF Charge, WaitsForCharge

LEMMA ChargeStep ==
  ASSUME TypeOK, Charge, [Next]_vars
  PROVE  Charge'
<1> USE DEF linkVars, tickVars, otaVars, appVars, uiVars, battVars
<1>1. CASE CheckAtStart \/ CheckInLoop
  BY <1>1, BatteryStep DEF CheckAtStart, CheckInLoop
<1>2. CASE /\ UNCHANGED battVars
           /\ pc \notin {"power", "deep"} \/ pc' \in {"power", "deep"} \/ pc' = pc
  BY <1>2 DEF Charge, WaitsForCharge
<1>3. CASE CheckNotDue \/ Boot \/ Flash \/ Irq \/ Ui
  BY <1>2, <1>3
     DEF CheckNotDue, Boot, InitProtect, OtaServer, OtaCleared, StartLoop,
         Flash, Irq, Connect, Disconnect, Ui, KeyChange, NoKeyChange
<1>4. CASE Sdk
  BY <1>2, <1>4
     DEF Sdk, TaskConnect, TaskTerminate, EnterOta, OtaWriteBegin, OtaEnd,
         OtaReboot, SdkReturn, Restart, Callback
<1>5. CASE BltPmProc \/ Tick \/ WakeUp
  BY <1>2, <1>5 DEF BltPmProc, DeepSleep, Tick, WakeUp, Restart
<1>6. CASE PowerLoss
  BY <1>6 DEF PowerLoss, Charge, WaitsForCharge
<1>7. CASE UNCHANGED vars
  BY <1>2, <1>7 DEF vars
<1> QED BY <1>1, <1>3, <1>4, <1>5, <1>6, <1>7 DEF Next, Battery

-----------------------------------------------------------------------------
(* The age of an update and of advertising                                 *)

LEMMA UpdateAgeStep ==
  ASSUME TypeOK, UpdateAge, [Next]_vars
  PROVE  UpdateAge'
<1> USE DEF UpdateAge, linkVars, tickVars, otaVars, appVars, uiVars, battVars
<1>1. CASE UNCHANGED <<ota, otaWorking, otaAge>> /\ userAge' \in {0, userAge}
  BY <1>1, TypeParts DEF Numbers
<1>2. CASE Battery \/ Boot \/ Flash \/ Irq \/ Ui \/ BltPmProc
  BY <1>1, <1>2
     DEF Battery, CheckAtStart, CheckInLoop, CheckNotDue, Boot, InitProtect,
         OtaServer, OtaCleared, StartLoop, Flash, Irq, Connect, Disconnect,
         Ui, KeyChange, NoKeyChange, BltPmProc
<1>3. CASE TaskConnect \/ TaskTerminate \/ SdkReturn
  BY <1>1, <1>3 DEF TaskConnect, TaskTerminate, SdkReturn
<1>4. CASE EnterOta \/ OtaWriteBegin \/ OtaEnd
  BY <1>4 DEF EnterOta, OtaWriteBegin, OtaEnd
<1>5. CASE OtaReboot \/ WakeUp \/ PowerLoss
  BY <1>5 DEF OtaReboot, WakeUp, PowerLoss, Restart
<1>6. CASE Tick
  <2>1. userAge \in Age /\ otaAge \in Nat
    BY TypeParts, TimeType DEF Numbers
  <2>2. userAge' <= userAge + 1 /\ userAge' \in Nat /\ userAge \in Nat
    BY <1>6, <2>1, AgeStep DEF Tick, Age
  <2>3. UNCHANGED <<ota, otaWorking>>
    BY <1>6 DEF Tick
  <2>4. otaWorking => otaAge' = otaAge + 1
    BY <1>6 DEF Tick
  <2> QED BY <2>1, <2>2, <2>3, <2>4
<1>7. CASE UNCHANGED vars
  BY <1>1, <1>7 DEF vars
<1> QED BY <1>2, <1>3, <1>4, <1>5, <1>6, <1>7 DEF Next, Sdk

LEMMA AdvertisingAgeStep ==
  ASSUME TypeOK, AdvertisingAge, [Next]_vars
  PROVE  AdvertisingAge'
<1> USE DEF AdvertisingAge, TerminatePending, linkVars, tickVars, otaVars,
            appVars, uiVars, battVars
<1>0. /\ advAge \in Age /\ advAge \in Nat /\ advertised \in 0 .. AdvIdle
      /\ EventsOK /\ Len(events) \in Nat
  BY TypeParts, TimeType, LenProperties DEF Numbers, Age, EventsOK
<1>1. CASE UNCHANGED <<link, events, advertised, advAge>>
  BY <1>1
<1>2. CASE link' # "adv"
  BY <1>2
<1>3. CASE advAge' = 0 /\ advertised' = advertised
  BY <1>0, <1>3, TimeType
<1>4. CASE Battery \/ Boot \/ Flash \/ Ui \/ BltPmProc
  BY <1>1, <1>3, <1>4
     DEF Battery, CheckAtStart, CheckInLoop, CheckNotDue, Boot, InitProtect,
         OtaServer, OtaCleared, StartLoop, Flash, Ui, KeyChange, NoKeyChange,
         BltPmProc
<1>5. CASE Connect
  BY <1>2, <1>5 DEF Connect
<1>6. CASE Disconnect
  <2>1. /\ EventsOK' /\ Len(events') = Len(events) + 1
        /\ events'[Len(events')] = "terminate"
    BY <1>0, <1>6, EventsAppend DEF Disconnect
  <2> QED BY <1>0, <2>1
<1>7. CASE TaskConnect
  <2>1. /\ Len(events') = Len(events) - 1
        /\ \A i \in 2 .. Len(events) : events'[i - 1] = events[i]
        /\ events[1] = "connect"
    BY <1>0, <1>7, EventsTail DEF TaskConnect
  <2>2. ASSUME TerminatePending PROVE TerminatePending'
    <3>1. PICK i \in 1 .. Len(events) : events[i] = "terminate"
      BY <2>2
    <3>2. i \in 2 .. Len(events) /\ i - 1 \in 1 .. Len(events')
      BY <1>0, <2>1, <3>1
    <3> QED BY <2>1, <3>1, <3>2
  <2> QED BY <1>7, <2>2 DEF TaskConnect
<1>8. CASE TaskTerminate
  BY <1>3, <1>8 DEF TaskTerminate
<1>9. CASE EnterOta \/ OtaWriteBegin \/ OtaEnd \/ SdkReturn
  BY <1>1, <1>9 DEF EnterOta, OtaWriteBegin, OtaEnd, SdkReturn
<1>10. CASE OtaReboot \/ WakeUp \/ PowerLoss
  BY <1>2, <1>10 DEF OtaReboot, WakeUp, PowerLoss, Restart
<1>11. CASE Tick
  <2>1. advAge' <= advAge + 1 /\ advAge' \in Nat
    BY <1>0, <1>11, AgeStep DEF Tick, Age
  <2>2. UNCHANGED <<link, events>>
    BY <1>11 DEF Tick
  <2>3. link = "adv" => advertised' = IF advertised < AdvIdle
                                      THEN advertised + 1 ELSE advertised
    BY <1>11 DEF Tick
  <2> QED BY <1>0, <2>1, <2>2, <2>3, TimeType
<1>12. CASE UNCHANGED vars
  BY <1>1, <1>12 DEF vars
<1> QED BY <1>4, <1>5, <1>6, <1>7, <1>8, <1>9, <1>10, <1>11, <1>12
        DEF Next, Sdk, Irq

-----------------------------------------------------------------------------
(* The theorems                                                            *)

LEMMA StepIInv ==
  ASSUME IInv, [Next]_vars
  PROVE  IInv'
<1>1. FlashTypeOK
  BY TypeParts DEF IInv
<1> QED BY <1>1, TypeStep, FlashNext, ProtectionStep, ChargeStep, UpdateAgeStep,
           AdvertisingAgeStep DEF IInv

LEMMA Invariance == Spec => []IInv
  BY InitIInv, StepIInv, PTL DEF Spec

\* Outside of an update the flash is protected as the application chose,
\* inside of one and while the old firmware is erased it is writable, and
\* the sectors of the stack always are, whatever writes of the status
\* register failed and whenever the power was lost.
THEOREM FlashIsGuarded == Spec => []FlashGuarded
<1>1. IInv => FlashGuarded
  <2> SUFFICES ASSUME IInv PROVE FlashGuarded
    OBVIOUS
  <2>1. FlashProtected
    BY DEF IInv, Protection, Locking, FlashProtected
  <2>2. OtaMayWrite
    BY DEF IInv, Protection, Unlocking, OtaMayWrite
  <2>3. Unlocked <= Storage /\ Wanted <= Storage
    BY ChipAssumption, StorageAssumption DEF Unlocked
  <2>4. StorageWritable
    BY <2>3 DEF IInv, Protection, Locking, Unlocking, StorageWritable
  <2> QED BY <2>1, <2>2, <2>4 DEF IInv, FlashGuarded
<1> QED BY <1>1, Invariance, PTL

\* After the battery was found empty nothing runs before a reading that says
\* it is being charged, however often a key wakes the chip up.
THEOREM EmptyBatteryWaits == Spec => []WaitsForCharge
<1>1. IInv => WaitsForCharge
  BY DEF IInv, Charge
<1> QED BY <1>1, Invariance, PTL

\* The idle timeout of the connection spares an update, for all timeouts
\* with the update's below that of the connection.
THEOREM UpdateIsSpared == Spec => TerminateSparesOta
<1>1. ASSUME IInv, [Next]_vars, ~termSent, termSent'
      PROVE  ~otaWorking
  <2> USE DEF linkVars
  <2>1. CASE BltPmProc
    <3>1. userAge >= ConnIdle
      BY <1>1, <2>1 DEF BltPmProc, TerminatesIdle
    <3>2. userAge \in Nat /\ otaAge \in 0 .. OtaTimeout
      BY <1>1, TypeParts, TimeType DEF IInv, Numbers, Age
    <3> QED BY <1>1, <3>1, <3>2, TimeType DEF IInv, UpdateAge
  <2>2. CASE Battery \/ Boot \/ Flash \/ Irq
    BY <1>1, <2>2
       DEF Battery, CheckAtStart, CheckInLoop, CheckNotDue, Boot, InitProtect,
           OtaServer, OtaCleared, StartLoop, Flash, Irq, Connect, Disconnect
  <2>3. CASE Sdk
    BY <1>1, <2>3
       DEF Sdk, TaskConnect, TaskTerminate, EnterOta, OtaWriteBegin, OtaEnd,
           OtaReboot, SdkReturn, Restart
  <2>4. CASE Ui \/ Tick \/ WakeUp \/ PowerLoss \/ UNCHANGED vars
    BY <1>1, <2>4
       DEF Ui, KeyChange, NoKeyChange, Tick, WakeUp, PowerLoss, Restart, vars
  <2> QED BY <1>1, <2>1, <2>2, <2>3, <2>4 DEF Next
<1> QED BY <1>1, Invariance, PTL DEF Spec, TerminateSparesOta

\* Deep sleep from advertising comes after the full idle time, whatever the
\* interrupt of the stack does between the callbacks.
THEOREM SleepIsLate == Spec => AdvertisesBeforeSleep
<1>1. ASSUME IInv, [Next]_vars, pc = "pm", pc' = "deep", sendTerm = 0
      PROVE  advertised >= AdvIdle
  <2>1. BltPmProc
    <3>1. ~(Battery \/ Boot \/ Flash \/ Irq \/ UNCHANGED vars)
      BY <1>1
         DEF Battery, CheckAtStart, CheckInLoop, CheckNotDue, Boot, InitProtect,
             OtaServer, OtaCleared, StartLoop, Flash, Irq, Connect, Disconnect,
             vars
    <3>2. ~(Sdk \/ Ui \/ Tick \/ WakeUp \/ PowerLoss)
      BY <1>1
         DEF Sdk, TaskConnect, TaskTerminate, EnterOta, OtaWriteBegin, OtaEnd,
             OtaReboot, SdkReturn, Callback, Ui, KeyChange, NoKeyChange, Tick,
             WakeUp, PowerLoss, Restart
    <3> QED BY <1>1, <3>1, <3>2 DEF Next
  <2>2. SleepsAdvIdle
    BY <1>1, <2>1 DEF BltPmProc
  <2>3. ~TerminatePending
    BY <2>2 DEF SleepsAdvIdle, TerminatePending
  <2>4. advAge \in Nat /\ advertised \in Nat
    BY <1>1, TypeParts, TimeType DEF IInv, Numbers, Age
  <2> QED BY <1>1, <2>2, <2>3, <2>4, TimeType
          DEF IInv, AdvertisingAge, SleepsAdvIdle
<1> QED BY <1>1, Invariance, PTL DEF Spec, AdvertisesBeforeSleep
=============================================================================
