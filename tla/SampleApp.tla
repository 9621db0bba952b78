------------------------------ MODULE SampleApp ------------------------------
(***************************************************************************)
(* The sample application, vendor/B91m_ble_sample: power-up, main loop,    *)
(* callbacks of the BLE stack, idle timers, deep sleep, and the protection *)
(* of the flash around an update over the air.  The stack is a closed      *)
(* library: its interrupt moves the link and pends an event, and           *)
(* blt_sdk_main_loop calls the registered callbacks later.  Interrupts are *)
(* taken between the calls of the main loop, not inside blt_pm_proc.       *)
(*                                                                         *)
(* The build with the keyboard, PM_DEEPSLEEP_RETENTION_ENABLE and the      *)
(* battery check (without it every reading is as good as "high").  Suspend *)
(* and retention sleep lose nothing the model has.                         *)
(***************************************************************************)
EXTENDS FlashProt, Sequences

CONSTANTS
  AdvIdle,      \* ADV_IDLE_ENTER_DEEP_TIME, in ticks of the model
  ConnIdle,     \* CONN_IDLE_ENTER_DEEP_TIME
  OtaTimeout,   \* blc_ota_setOtaProcessTimeout
  Wrap,         \* the ticks after which the 32-bit system timer repeats
  MaxPending    \* events the stack keeps for the main loop

ASSUME TimeAssumption ==
  /\ {AdvIdle, ConnIdle, OtaTimeout, Wrap} \subseteq Nat
  /\ 0 < AdvIdle /\ AdvIdle < Wrap
  /\ OtaTimeout < ConnIdle /\ ConnIdle < Wrap
ASSUME PendingAssumption == MaxPending \in Nat

VARIABLES
  pc,         \* the call of main or main_loop that comes next, or "deep"
  ran,        \* main_loop ran since the last tick
  link,       \* blc_ll_getCurrentState
  advOn,      \* advertising is enabled
  events,     \* the controller events pended for the main loop
  inConn,     \* device_in_connection_state
  sendTerm,   \* sendTerminate_before_enterDeep
  termSent,   \* a terminate packet is in the TX buffer
  advAge,     \* system timer - advertise_begin_tick
  userAge,    \* system timer - latest_user_event_tick
  advertised, \* for how long the link has been advertising, up to AdvIdle
  keyDown,    \* scan_pin_need || key_not_released
  mask,       \* the suspend mask
  ota,        \* the stack's update: "none", "started", "writing", "done"
  otaWorking, \* ota_is_working
  otaAge,     \* how long the update has been going on
  newFw,      \* the old firmware is still to be cleared (in flash)
  lowBatt,    \* LOW_BATT_FLG, in a register that only a power cycle clears
  charge      \* history: what the readings since power-up say of the battery

linkVars == <<link, advOn, events, termSent, advertised>>
tickVars == <<advAge, userAge>>
otaVars == <<ota, otaWorking, otaAge, newFw>>
appVars == <<inConn, sendTerm>>
uiVars == <<keyDown, mask>>
battVars == <<lowBatt, charge>>
vars == <<flashVars, pc, ran, linkVars, tickVars, otaVars, appVars, uiVars,
          battVars>>

Age == 0 .. Wrap - 1

TypeOK ==
  /\ FlashTypeOK
  /\ pc \in {"power", "init", "server", "clear", "start",
             "sdk", "batt", "ui", "pm", "deep"}
  /\ ran \in BOOLEAN
  /\ link \in {"adv", "conn", "idle"} /\ advOn \in BOOLEAN
  /\ events \in Seq({"connect", "terminate"}) /\ Len(events) <= MaxPending
  /\ inConn \in BOOLEAN /\ sendTerm \in 0 .. 2 /\ termSent \in BOOLEAN
  /\ advAge \in Age /\ userAge \in Age /\ advertised \in 0 .. AdvIdle
  /\ keyDown \in BOOLEAN /\ mask \in {"none", "suspend"}
  /\ ota \in {"none", "started", "writing", "done"}
  /\ otaWorking \in BOOLEAN /\ otaAge \in 0 .. OtaTimeout /\ newFw \in BOOLEAN
  /\ lowBatt \in BOOLEAN /\ charge \in {"enough", "empty", "held"}

Init ==
  /\ FlashInit
  /\ pc = "power" /\ ran = FALSE
  /\ link = "idle" /\ advOn = FALSE /\ events = <<>> /\ termSent = FALSE
  /\ advertised = 0 /\ advAge = 0 /\ userAge = 0
  /\ inConn = FALSE /\ sendTerm = 0
  /\ ota = "none" /\ otaWorking = FALSE /\ otaAge = 0
  /\ keyDown = FALSE /\ mask = "none" /\ newFw = FALSE
  /\ lowBatt = FALSE /\ charge = "enough"

\* What power-up and deep sleep leave: the flash, and the user's finger.
Restart ==
  /\ pc' = "power" /\ ran' = FALSE
  /\ link' = "idle" /\ advOn' = FALSE /\ events' = <<>> /\ termSent' = FALSE
  /\ advertised' = 0 /\ advAge' = 0 /\ userAge' = 0
  /\ inConn' = FALSE /\ sendTerm' = 0
  /\ ota' = "none" /\ otaWorking' = FALSE /\ otaAge' = 0
  /\ mask' = "none"
  /\ UNCHANGED newFw

-----------------------------------------------------------------------------
(* The battery check, in user_init_normal and every 500 ms in main_loop.   *)

\* A reading below 2.0 V, from there to 2.2 V, or above.
Reading == {"low", "middle", "high"}

\* the flag is not looked at
MutEnough(reading) == reading # "low"

\* app_battery_power_check: after a low reading 200 mV more are asked for
Enough(reading) == reading = "high" \/ (reading = "middle" /\ ~lowBatt)

\* user_battery_power_check, before the call that comes at next.
\* cpu_sleep_wakeup returns at once when a key pulls a wake-up pad.
BatteryPowerCheck(next) ==
  \E reading \in Reading, held \in BOOLEAN :
    /\ lowBatt' = ~Enough(reading)
    /\ IF Enough(reading) \/ held
         THEN pc' = next /\ UNCHANGED keyDown
         ELSE pc' = "deep" /\ keyDown' = FALSE
    /\ charge' = CASE reading = "high" -> "enough"
                    [] reading = "middle" /\ charge = "enough" -> "enough"
                    [] OTHER -> IF held THEN "held" ELSE "empty"

CheckAtStart ==
  /\ pc = "power"
  /\ BatteryPowerCheck("init")
  /\ UNCHANGED <<flashVars, ran, linkVars, tickVars, otaVars, appVars, mask>>

CheckInLoop ==
  /\ pc = "batt"
  /\ BatteryPowerCheck("ui")
  /\ UNCHANGED <<flashVars, ran, linkVars, tickVars, otaVars, appVars, mask>>

\* The last check was less than 500 ms ago.
CheckNotDue ==
  /\ pc = "batt"
  /\ pc' = "ui"
  /\ UNCHANGED <<flashVars, ran, linkVars, tickVars, otaVars, appVars, uiVars,
                 battVars>>

-----------------------------------------------------------------------------
(* user_init_normal                                                        *)

\* app_flash_protection_operation(FLASH_OP_EVT_APP_INITIALIZATION)
InitProtect ==
  /\ pc = "init"
  /\ FlashLock
  /\ pc' = "server"
  /\ UNCHANGED <<ran, linkVars, tickVars, otaVars, appVars, uiVars, battVars>>

\* blc_ota_initOtaServer_module: after an update the stack erases the old
\* firmware, and asks for the protection to be lifted.
OtaServer ==
  /\ pc = "server" /\ FlashIdle
  /\ IF newFw
     THEN FlashUnlock /\ pc' = "clear"
     ELSE UNCHANGED flashVars /\ pc' = "start"
  /\ UNCHANGED <<ran, linkVars, tickVars, otaVars, appVars, uiVars, battVars>>

\* FLASH_OP_EVT_STACK_OTA_CLEAR_OLD_FW_END
OtaCleared ==
  /\ pc = "clear"
  /\ FlashLock
  /\ newFw' = FALSE
  /\ pc' = "start"
  /\ UNCHANGED <<ran, linkVars, tickVars, ota, otaWorking, otaAge, appVars,
                 uiVars, battVars>>

\* The rest of the initialisation, and irq_enable in main.
StartLoop ==
  /\ pc = "start" /\ FlashIdle
  /\ pc' = "sdk"
  /\ link' = "adv" /\ advOn' = TRUE
  /\ advAge' = 0
  /\ mask' = "suspend"
  /\ UNCHANGED <<flashVars, ran, events, termSent, advertised, userAge,
                 otaVars, appVars, keyDown, battVars>>

Running == pc \in {"sdk", "batt", "ui", "pm"}

-----------------------------------------------------------------------------
(* The interrupt of the stack.                                             *)

Connect ==
  /\ Running /\ link = "adv" /\ Len(events) < MaxPending
  /\ link' = "conn" /\ termSent' = FALSE
  /\ events' = Append(events, "connect")
  /\ UNCHANGED <<flashVars, pc, ran, advOn, advertised, tickVars, otaVars,
                 appVars, uiVars, battVars>>

\* The peer leaves, does not answer any more, or got the terminate packet.
Disconnect ==
  /\ Running /\ link = "conn" /\ Len(events) < MaxPending
  /\ link' = IF advOn THEN "adv" ELSE "idle"
  /\ termSent' = FALSE /\ advertised' = 0
  /\ events' = Append(events, "terminate")
  /\ UNCHANGED <<flashVars, pc, ran, advOn, tickVars, otaVars, appVars, uiVars,
                 battVars>>

-----------------------------------------------------------------------------
(* blt_sdk_main_loop and the callbacks it makes.                           *)

Callback == pc = "sdk" /\ FlashIdle

\* task_connect
TaskConnect ==
  /\ Callback /\ events # <<>> /\ Head(events) = "connect"
  /\ events' = Tail(events)
  /\ userAge' = 0
  /\ inConn' = TRUE
  /\ UNCHANGED <<flashVars, pc, ran, link, advOn, termSent, advertised,
                 advAge, otaVars, sendTerm, uiVars, battVars>>

\* a connection that ends after the packet was pushed is not noticed
MutTaskTerminate ==
  /\ Callback /\ events # <<>> /\ Head(events) = "terminate"
  /\ events' = Tail(events)
  /\ inConn' = FALSE
  /\ advAge' = 0
  /\ UNCHANGED <<flashVars, pc, ran, sendTerm, advOn, link, termSent,
                 advertised, userAge, otaVars, uiVars, battVars>>

\* task_terminate
TaskTerminate ==
  /\ Callback /\ events # <<>> /\ Head(events) = "terminate"
  /\ events' = Tail(events)
  /\ inConn' = FALSE
  /\ IF sendTerm = 1
     THEN /\ sendTerm' = 2
          /\ advOn' = FALSE
          /\ link' = IF link = "adv" THEN "idle" ELSE link
     ELSE UNCHANGED <<sendTerm, advOn, link>>
  /\ advAge' = 0
  /\ UNCHANGED <<flashVars, pc, ran, termSent, advertised, userAge, otaVars,
                 uiVars, battVars>>

\* a running update does not count as an event of the user
MutEnterOta ==
  /\ Callback /\ events = <<>> /\ inConn /\ ota = "none"
  /\ ota' = "started" /\ otaAge' = 0
  /\ otaWorking' = TRUE
  /\ UNCHANGED <<flashVars, pc, ran, linkVars, tickVars, newFw, appVars,
                 uiVars, battVars>>

\* app_enter_ota_mode
EnterOta ==
  /\ Callback /\ events = <<>> /\ inConn /\ ota = "none"
  /\ ota' = "started" /\ otaAge' = 0
  /\ otaWorking' = TRUE
  /\ userAge' = 0
  /\ UNCHANGED <<flashVars, pc, ran, linkVars, advAge, newFw, appVars, uiVars,
                 battVars>>

\* The first data: FLASH_OP_EVT_STACK_OTA_WRITE_NEW_FW_BEGIN
OtaWriteBegin ==
  /\ Callback /\ events = <<>> /\ inConn /\ ota = "started"
  /\ FlashUnlock
  /\ ota' = "writing"
  /\ UNCHANGED <<pc, ran, linkVars, tickVars, otaWorking, otaAge, newFw,
                 appVars, uiVars, battVars>>

\* app_ota_end_result and FLASH_OP_EVT_STACK_OTA_WRITE_NEW_FW_END: after the
\* last data, an error, a timeout or the end of the connection
OtaEnd ==
  /\ Callback /\ ota \in {"started", "writing"}
  /\ \E result \in {"success", "fail"} :
       /\ result = "success" => ota = "writing"
       /\ ota' = IF result = "success" THEN "done" ELSE "none"
       /\ newFw' = (newFw \/ result = "success")
  /\ IF ota = "writing" THEN FlashLock ELSE UNCHANGED flashVars
  /\ otaWorking' = FALSE /\ otaAge' = 0
  /\ UNCHANGED <<pc, ran, linkVars, tickVars, appVars, uiVars, battVars>>

\* The stack reboots into the new firmware.
OtaReboot ==
  /\ Callback /\ ota = "done"
  /\ Restart
  /\ UNCHANGED <<flashVars, keyDown, battVars>>

\* blt_sdk_main_loop returns: the events are served, and an update outlives
\* neither its connection nor its time.
SdkReturn ==
  /\ Callback /\ events = <<>>
  /\ ota # "none" => ota # "done" /\ inConn /\ otaAge < OtaTimeout
  /\ pc' = "batt"
  /\ UNCHANGED <<flashVars, ran, linkVars, tickVars, otaVars, appVars, uiVars,
                 battVars>>

-----------------------------------------------------------------------------
(* The rest of main_loop.                                                  *)

\* proc_keyboard with a change: key_change_proc takes the time of the event
KeyChange ==
  /\ pc = "ui"
  /\ pc' = "pm"
  /\ keyDown' \in BOOLEAN
  /\ userAge' = 0
  /\ UNCHANGED <<flashVars, ran, linkVars, advAge, otaVars, appVars, mask,
                 battVars>>

\* proc_keyboard without one
NoKeyChange ==
  /\ pc = "ui"
  /\ pc' = "pm"
  /\ UNCHANGED <<flashVars, ran, linkVars, tickVars, otaVars, appVars, uiVars,
                 battVars>>

\* cpu_sleep_wakeup(DEEPSLEEP_MODE, PM_WAKEUP_PAD, 0) does not sleep while a
\* key pulls a wake-up pad.
DeepSleep ==
  IF keyDown THEN pc' = "sdk" ELSE pc' = "deep"

\* no look at the events that are still to be served
MutAdvIdle ==
  /\ link = "adv" /\ sendTerm = 0
  /\ advAge >= AdvIdle

\* adv 60s, deepsleep
SleepsAdvIdle ==
  /\ events = <<>> /\ link = "adv" /\ sendTerm = 0
  /\ advAge >= AdvIdle

\* conn 60s no event: the connection is to be terminated
TerminatesIdle ==
  /\ events = <<>> /\ ~SleepsAdvIdle
  /\ inConn /\ userAge >= ConnIdle

\* blt_pm_proc
BltPmProc ==
  /\ pc = "pm"
  /\ ran' = TRUE
  /\ mask' = IF keyDown \/ otaWorking THEN "none" ELSE "suspend"
  /\ IF sendTerm = 2 \/ SleepsAdvIdle THEN DeepSleep ELSE pc' = "sdk"
  /\ IF pc' # "deep" /\ TerminatesIdle
     THEN sendTerm' = 1 /\ termSent' = (link = "conn")
     ELSE UNCHANGED <<sendTerm, termSent>>
  /\ UNCHANGED <<flashVars, link, advOn, events, advertised, tickVars, otaVars,
                 inConn, keyDown, battVars>>

-----------------------------------------------------------------------------
(* Time and the world.                                                     *)

\* The link makes main_loop run several times in every tick.  The stack ends
\* an update that takes too long.
Tick ==
  /\ Running /\ ran /\ ran' = FALSE
  /\ ota # "none" => otaAge < OtaTimeout
  /\ advAge' = (advAge + 1) % Wrap
  /\ userAge' = (userAge + 1) % Wrap
  /\ otaAge' = IF ota = "none" THEN 0 ELSE otaAge + 1
  /\ advertised' = IF link = "adv" /\ advertised < AdvIdle
                   THEN advertised + 1 ELSE advertised
  /\ UNCHANGED <<flashVars, pc, link, advOn, events, termSent, appVars, uiVars,
                 ota, otaWorking, newFw, battVars>>

\* A key wakes the chip up: it starts as from power-up.
WakeUp ==
  /\ pc = "deep"
  /\ Restart /\ keyDown' = TRUE
  /\ UNCHANGED <<flashVars, battVars>>

\* The battery is taken out and put back.
PowerLoss ==
  /\ FlashReset
  /\ Restart /\ keyDown' = FALSE
  /\ lowBatt' = FALSE /\ charge' = "enough"

Battery == CheckAtStart \/ CheckInLoop \/ CheckNotDue
Boot == InitProtect \/ OtaServer \/ OtaCleared \/ StartLoop
Irq == Connect \/ Disconnect
Sdk == TaskConnect \/ TaskTerminate \/ EnterOta \/ OtaWriteBegin \/ OtaEnd
       \/ OtaReboot \/ SdkReturn
Flash ==
  /\ FlashStep
  /\ UNCHANGED <<pc, ran, linkVars, tickVars, otaVars, appVars, uiVars,
                 battVars>>

Ui == KeyChange \/ NoKeyChange

Next == Battery \/ Boot \/ Flash \/ Irq \/ Sdk \/ Ui \/ BltPmProc \/ Tick
        \/ WakeUp \/ PowerLoss

Spec == Init /\ [][Next]_vars

\* The program runs on, time passes, and a terminate packet ends the
\* connection: the peer takes it or the supervision timeout comes.
FairSpec ==
  /\ Spec
  /\ WF_vars(Battery) /\ WF_vars(Boot) /\ WF_vars(Flash) /\ WF_vars(Sdk) /\ WF_vars(Ui)
  /\ WF_vars(BltPmProc) /\ WF_vars(Tick) /\ WF_vars(termSent /\ Disconnect)

-----------------------------------------------------------------------------
(* Properties.                                                             *)

\* Outside of an update, from the end of the initialisation on, the flash is
\* protected as app_flash_protection_operation chose, whatever was cut off
\* by a power loss, a failed write or the end of a connection.
FlashProtected ==
  Running /\ FlashIdle /\ ota # "writing" => status = Wanted

\* Whenever the stack writes or erases firmware the protection is lifted:
\* writes would be dropped by the chip without a word.
OtaMayWrite ==
  FlashIdle /\ (pc = "clear" \/ (Running /\ ota = "writing")) => status = Unlocked

\* The protected block never reaches the sectors where the stack stores bonds:
\* smp and custom_pair would write there without noticing.
StorageWritable == Running /\ FlashIdle => status <= Storage

\* The three together: protected when it should be, writable when it must be.
FlashGuarded == TypeOK /\ FlashProtected /\ OtaMayWrite /\ StorageWritable

\* The idle timeout of the connection never cuts off an update: nothing
\* but its start refreshes latest_user_event_tick.
TerminateSparesOta == [][~termSent /\ termSent' => ~otaWorking]_vars

\* The chip goes to deep sleep from advertising only after the full idle
\* time of advertising, not on the age of an advertise_begin_tick that
\* task_terminate has still to renew.
AdvertisesBeforeSleep ==
  [][pc = "pm" /\ pc' = "deep" /\ sendTerm = 0 => advertised >= AdvIdle]_vars

\* Once the battery was found empty the program runs on only after a reading
\* that says it is being charged: not on the voltage that an empty battery
\* recovers to in deep sleep, whatever wakes the chip up and however often.
\* Only a key that is held during the check keeps the chip from sleeping.
WaitsForCharge == pc \notin {"power", "deep"} => charge # "empty"

Activity == Connect \/ EnterOta \/ KeyChange \/ WakeUp \/ PowerLoss

\* Left alone the device ends in deep sleep, connected or not, and whether
\* or not a connection ends by itself while it is being terminated.
IdleSleeps ==
  (<>[][~Activity]_vars) /\ (<>[](~keyDown)) => <>[](pc = "deep")
=============================================================================
