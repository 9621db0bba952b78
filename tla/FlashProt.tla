------------------------------ MODULE FlashProt ------------------------------
(***************************************************************************)
(* The write protection of the flash, vendor/common/flash_prot.c.  The chip*)
(* keeps one protected block, from address 0 up, in its status register,   *)
(* which survives power loss; flash_lock and flash_unlock rewrite it, read *)
(* it back and try again.  Nothing is written twice at the same time: both *)
(* functions run to their end in the main loop.  SampleApp decides when    *)
(* they are called.                                                        *)
(***************************************************************************)
EXTENDS Integers

CONSTANTS
  Block,      \* the blocks the chip can protect, by their size in KByte
  Capacity,   \* its capacity in KByte
  BootAddr,   \* blc_ota_getCurrentUsedMultipleBootAddress in KByte
  Storage,    \* the first KByte of the sectors for bonds, calibration, MAC
  Tries,      \* writes of the status register before giving up: 3
  MaxFail     \* writes that fail one after the other

Unlocked == 0  \* flash_unlock_status

\* app_flash_protection_operation: room for the old and the new firmware
AppLockBlock == 2 * BootAddr

\* flash_change_app_lock_block_to_flash_lock_block: 1 MByte would be all of
\* a small chip
ChangeLockBlock(block) ==
  IF block = Capacity THEN block - 64 ELSE block

\* flash_lockBlock_cmd
Wanted == ChangeLockBlock(AppLockBlock)

ASSUME ChipAssumption ==
  /\ Block \subseteq Nat \ {Unlocked} /\ BootAddr \in Nat \ {0}
  /\ {Capacity, Storage} \subseteq Nat
  /\ AppLockBlock <= Capacity
ASSUME BlockAssumption == Wanted \in Block
\* vendor/common/blt_common.h: 0xF4000 or more on a chip of 1 MByte, where
\* at most 960 KByte are protected, behind 1 MByte on the larger ones
ASSUME StorageAssumption == Wanted <= Storage
ASSUME TriesAssumption == Tries \in Nat /\ MaxFail \in Nat /\ MaxFail < Tries

VARIABLES
  status,     \* the lock status in the chip
  fpc,        \* "idle" or the loop flash_lock or flash_unlock is in
  tries,      \* tries left in this loop
  fails       \* the last writes that failed

flashVars == <<status, fpc, tries, fails>>

Status == Block \cup {Unlocked}

FlashTypeOK ==
  /\ status \in Status
  /\ fpc \in {"idle", "unlock_first", "lock", "unlock"}
  /\ tries \in 0 .. Tries
  /\ fails \in 0 .. MaxFail

FlashInit == status \in Status /\ fpc = "idle" /\ tries = 0 /\ fails = 0

FlashIdle == fpc = "idle"

\* A loop is entered with all its tries.
Enter(loop) == fpc' = loop /\ tries' = IF loop = "idle" THEN 0 ELSE Tries

\* Where flash_lock starts.
LockFrom(s) ==
  CASE s = Wanted -> "idle"
    [] s = Unlocked -> "lock"
    [] OTHER -> "unlock_first"

\* The call of flash_lock(flash_lockBlock_cmd).
FlashLock ==
  /\ FlashIdle
  /\ Enter(LockFrom(status))
  /\ UNCHANGED <<status, fails>>

\* The call of flash_unlock.
FlashUnlock ==
  /\ FlashIdle
  /\ Enter(IF status = Unlocked THEN "idle" ELSE "unlock")
  /\ UNCHANGED <<status, fails>>

\* flash_write_status: a write that fails leaves any status behind
Write(s) ==
  \/ status' = s /\ fails' = 0
  \/ fails < MaxFail /\ status' \in Status \ {s} /\ fails' = fails + 1

\* the count is off by one
MutRetry(s, next) ==
  IF status' = s \/ tries <= 2
  THEN Enter(next)
  ELSE fpc' = fpc /\ tries' = tries - 1

\* The end of a loop's body: done, one more try, or given up.
Retry(s, next) ==
  IF status' = s \/ tries = 1
  THEN Enter(next)
  ELSE fpc' = fpc /\ tries' = tries - 1

\* flash_lock over another block: the first loop
UnlockFirst ==
  /\ fpc = "unlock_first"
  /\ Write(Unlocked)
  /\ Retry(Unlocked, "lock")

\* flash_lock: the second loop
LockTry ==
  /\ fpc = "lock"
  /\ Write(Wanted)
  /\ Retry(Wanted, "idle")

\* flash_unlock: its loop
UnlockTry ==
  /\ fpc = "unlock"
  /\ Write(Unlocked)
  /\ Retry(Unlocked, "idle")

FlashStep == UnlockFirst \/ LockTry \/ UnlockTry

\* Power is lost: the chip keeps its status, a write that was under way
\* leaves any.
FlashReset ==
  /\ status' \in (IF FlashIdle THEN {status} ELSE Status)
  /\ fpc' = "idle" /\ tries' = 0 /\ fails' = 0
=============================================================================
