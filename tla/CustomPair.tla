----------------------------- MODULE CustomPair -----------------------------
(***************************************************************************)
(* The bonding table of vendor/common/custom_pair.c: a RAM table of the    *)
(* bonded devices, oldest first, kept in step with a log of 8-byte records *)
(* in one flash sector.  A record is appended to the log, invalidated by   *)
(* writing 0x00 over its mark, and reclaimed only by the sector erase that *)
(* boot performs when the log has passed the middle of the sector.         *)
(*                                                                         *)
(* One action stands for at most one flash operation, so that PowerLoss    *)
(* may fall between any two of them.  A flash operation itself is atomic.  *)
(* Byte offsets into the sector are counted in records (offset / 8).       *)
(***************************************************************************)
EXTENDS Integers, Sequences, FiniteSets, SequencesExt

CONSTANTS Device,    \* peer identities: address type and address
          MaxBonds,  \* USER_PAIR_SLAVE_MAX_NUM
          NSlots,    \* FLASH_CUSTOM_PAIRING_MAX_SIZE / 8
          AddCap,    \* bound on cfgIdx: failed adds increment it for ever
          Blank,     \* a record whose mark reads 0xFF
          Erased,    \* a record whose mark reads ADR_ERASE_MARK
          NoDevice   \* no add is in progress

ASSUME MaxBondsAssumption == MaxBonds \in Nat \ {0}
ASSUME NSlotsAssumption == NSlots \in Nat /\ 2 * MaxBonds <= NSlots
ASSUME AddCapAssumption == AddCap \in Nat
ASSUME MarksAssumption ==
  /\ Blank \notin Device
  /\ Erased \notin Device
  /\ Blank # Erased
  /\ NoDevice \notin Device

Slots == 0 .. NSlots - 1

VARIABLES
  flash,   \* the sector: Blank, Erased, or the device of a record marked 0x5A
  tbl,     \* user_tbl_slaveMac: bond_flash_idx and bond_device, curNum long
  cfgIdx,  \* user_bond_slave_flash_cfg_idx: the newest record, -1 if none
  pc,      \* which call is running, and how far it has come
  i,       \* loop index of delete_all and of the rewrite in flash_clean
  adr      \* argument of the add that is in progress

vars == <<flash, tbl, cfgIdx, pc, i, adr>>

Entry == [slot : Slots, dev : Device]

PCs == {"off", "scan", "clean", "rewrite", "idle", "replace", "unpair"}

TypeOK ==
  /\ flash \in [Slots -> Device \cup {Blank, Erased}]
  /\ tbl \in Seq(Entry)
  /\ Len(tbl) <= MaxBonds
  /\ cfgIdx \in -1 .. NSlots + AddCap
  /\ pc \in PCs
  /\ i \in 1 .. MaxBonds + 1
  /\ adr \in Device \cup {NoDevice}

Init ==
  /\ flash = [s \in Slots |-> Blank]
  /\ tbl = <<>>
  /\ cfgIdx = 0
  /\ pc = "off"
  /\ i = 1
  /\ adr = NoDevice

-----------------------------------------------------------------------------
(* Boot: the scan of the sector and, past its middle, the clean.           *)

PowerOn ==
  /\ pc = "off"
  /\ pc' = "scan"
  /\ cfgIdx' = 0
  /\ UNCHANGED <<flash, tbl, i, adr>>

\* Power fails: everything but the flash is lost.
PowerLoss ==
  /\ pc # "off"
  /\ pc' = "off"
  /\ tbl' = <<>>
  /\ cfgIdx' = 0
  /\ i' = 1
  /\ adr' = NoDevice
  /\ UNCHANGED flash

\* The loop of user_master_host_pairing_flash_init has not met its end.
Scanning == pc = "scan" /\ cfgIdx < NSlots /\ flash[cfgIdx] # Blank

ScanErased ==
  /\ Scanning
  /\ flash[cfgIdx] = Erased
  /\ cfgIdx' = cfgIdx + 1
  /\ UNCHANGED <<flash, tbl, pc, i, adr>>

\* "slave mac in flash more than max, we think it's code bug": the scan
\* disables interrupts and stays where it is, in while(1), for ever.
Halted == Scanning /\ flash[cfgIdx] \in Device /\ Len(tbl) >= MaxBonds

ScanBonded ==
  /\ Scanning
  /\ flash[cfgIdx] \in Device
  /\ ~Halted
  /\ tbl' = Append(tbl, [slot |-> cfgIdx, dev |-> flash[cfgIdx]])
  /\ cfgIdx' = cfgIdx + 1
  /\ UNCHANGED <<flash, pc, i, adr>>

\* flash_clean returns at once while the log is in the first half.
NeedsClean(idx) == 2 * idx >= NSlots

ScanEnd ==
  /\ pc = "scan"
  /\ ~Scanning
  /\ cfgIdx' = cfgIdx - 1
  /\ pc' = IF NeedsClean(cfgIdx - 1) THEN "clean" ELSE "idle"
  /\ UNCHANGED <<flash, tbl, i, adr>>

MutCleanErase ==
  /\ pc = "clean"
  /\ cfgIdx' = -1
  /\ pc' = "rewrite"
  /\ i' = 1
  /\ UNCHANGED <<flash, tbl, adr>>

CleanErase ==
  /\ pc = "clean"
  /\ flash' = [s \in Slots |-> Blank]
  /\ cfgIdx' = -1
  /\ pc' = "rewrite"
  /\ i' = 1
  /\ UNCHANGED <<tbl, adr>>

\* bond_flash_idx is not updated
MutCleanRewriteIdx ==
  /\ pc = "rewrite"
  /\ i <= Len(tbl)
  /\ cfgIdx' = cfgIdx + 1
  /\ flash' = [flash EXCEPT ![cfgIdx + 1] = tbl[i].dev]
  /\ i' = i + 1
  /\ UNCHANGED <<tbl, pc, adr>>

\* youngest first
MutCleanRewriteOrder ==
  /\ pc = "rewrite"
  /\ i <= Len(tbl)
  /\ cfgIdx' = cfgIdx + 1
  /\ flash' = [flash EXCEPT ![cfgIdx + 1] = tbl[Len(tbl) + 1 - i].dev]
  /\ tbl' = [tbl EXCEPT ![i].slot = cfgIdx + 1]
  /\ i' = i + 1
  /\ UNCHANGED <<pc, adr>>

CleanRewrite ==
  /\ pc = "rewrite"
  /\ i <= Len(tbl)
  /\ cfgIdx' = cfgIdx + 1
  /\ flash' = [flash EXCEPT ![cfgIdx + 1] = tbl[i].dev]
  /\ tbl' = [tbl EXCEPT ![i].slot = cfgIdx + 1]
  /\ i' = i + 1
  /\ UNCHANGED <<pc, adr>>

CleanEnd ==
  /\ pc = "rewrite"
  /\ i > Len(tbl)
  /\ pc' = "idle"
  /\ i' = 1
  /\ UNCHANGED <<flash, tbl, cfgIdx, adr>>

-----------------------------------------------------------------------------
(* The calls an application makes once the table is loaded.                *)

\* user_tbl_slave_mac_search answers k: entry k is the first that matches.
FoundAt(k, d) == tbl[k].dev = d /\ \A m \in 1 .. k - 1 : tbl[m].dev # d

\* the erase mark is not written
MutDeleteByIndex(k) ==
  /\ tbl' = RemoveAt(tbl, k)
  /\ UNCHANGED flash

\* user_tbl_slave_mac_delete_by_index
DeleteByIndex(k) ==
  /\ flash' = [flash EXCEPT ![tbl[k].slot] = Erased]
  /\ tbl' = RemoveAt(tbl, k)

\* The second half of user_tbl_slave_mac_add: take the next record, if any.
Store(d) ==
  /\ cfgIdx' = cfgIdx + 1
  /\ \/ /\ cfgIdx + 1 >= NSlots
        /\ UNCHANGED <<flash, tbl>>
     \/ /\ cfgIdx + 1 < NSlots
        /\ flash' = [flash EXCEPT ![cfgIdx + 1] = d]
        /\ tbl' = Append(tbl, [slot |-> cfgIdx + 1, dev |-> d])

CanAdd == pc = "idle" /\ cfgIdx < NSlots + AddCap

\* one entry too many
MutAdd(d) ==
  /\ CanAdd
  /\ Len(tbl) <= MaxBonds
  /\ Store(d)
  /\ UNCHANGED <<pc, i, adr>>

Add(d) ==
  /\ CanAdd
  /\ Len(tbl) < MaxBonds
  /\ Store(d)
  /\ UNCHANGED <<pc, i, adr>>

\* The table is full: the oldest bond goes first, in a write of its own.
AddEvict(d) ==
  /\ CanAdd
  /\ Len(tbl) >= MaxBonds
  /\ DeleteByIndex(1)
  /\ pc' = "replace"
  /\ adr' = d
  /\ UNCHANGED <<cfgIdx, i>>

AddReplace ==
  /\ pc = "replace"
  /\ Store(adr)
  /\ pc' = "idle"
  /\ adr' = NoDevice
  /\ UNCHANGED i

DeleteByAdr(d) ==
  /\ pc = "idle"
  /\ \E k \in DOMAIN tbl : FoundAt(k, d) /\ DeleteByIndex(k)
  /\ UNCHANGED <<cfgIdx, pc, i, adr>>

\* user_tbl_salve_mac_unpair_proc, which is user_tbl_slave_mac_delete_all
Unpair ==
  /\ pc = "idle"
  /\ pc' = "unpair"
  /\ i' = 1
  /\ UNCHANGED <<flash, tbl, cfgIdx, adr>>

MutUnpairErase ==
  /\ pc = "unpair"
  /\ i <= Len(tbl)
  /\ flash' = [flash EXCEPT ![tbl[i].slot] = Erased]
  /\ UNCHANGED <<tbl, cfgIdx, pc, i, adr>>

UnpairErase ==
  /\ pc = "unpair"
  /\ i <= Len(tbl)
  /\ flash' = [flash EXCEPT ![tbl[i].slot] = Erased]
  /\ i' = i + 1
  /\ UNCHANGED <<tbl, cfgIdx, pc, adr>>

UnpairEnd ==
  /\ pc = "unpair"
  /\ i > Len(tbl)
  /\ tbl' = <<>>
  /\ pc' = "idle"
  /\ i' = 1
  /\ UNCHANGED <<flash, cfgIdx, adr>>

-----------------------------------------------------------------------------
Boot == ScanErased \/ ScanBonded \/ ScanEnd
        \/ CleanErase \/ CleanRewrite \/ CleanEnd

Finish == AddReplace \/ UnpairErase \/ UnpairEnd

Next ==
  \/ PowerOn
  \/ PowerLoss
  \/ Boot
  \/ Finish
  \/ Unpair
  \/ \E d \in Device : Add(d) \/ AddEvict(d) \/ DeleteByAdr(d)

Spec == Init /\ [][Next]_vars

\* The processor runs: a call that has begun goes on to its end.
FairSpec == Spec /\ WF_vars(PowerOn) /\ WF_vars(Boot \/ Finish)

-----------------------------------------------------------------------------
(* Properties.                                                             *)

LiveSlots == {s \in Slots : flash[s] \in Device}

\* A scan stops at the first blank record, so no record may follow one.
LogIsDense ==
  \A s, t \in Slots : s < t /\ flash[s] = Blank => flash[t] = Blank

\* Boot never meets more bonded records than the table holds, whatever
\* sequence of adds, deletions and power failures came before: the
\* "while(1)" that flash_init keeps for a "code bug" is never reached.
NeverHalts == ~Halted

\* Whenever no call is running, a reboot would find exactly the present
\* table: every bonded record is in the table and conversely, in the order
\* of the log, with no blank record before any of them.
RescanFindsTable ==
  pc = "idle" =>
    /\ LogIsDense
    /\ LiveSlots = {tbl[k].slot : k \in DOMAIN tbl}
    /\ \A k \in DOMAIN tbl : flash[tbl[k].slot] = tbl[k].dev
    /\ \A k, m \in DOMAIN tbl : k < m => tbl[k].slot < tbl[m].slot

\* flash_write_page can only clear bits: a device is never written over a
\* record that was used since the last sector erase, and an invalidated
\* record only comes back by that erase.
ProgramsOnlyBlank ==
  [][\A s \in Slots : flash'[s] # flash[s] =>
        \/ flash[s] = Blank /\ flash'[s] \in Device
        \/ flash[s] \in Device /\ flash'[s] = Erased
        \/ pc = "clean" /\ flash'[s] = Blank]_vars

\* A boot, an add or an unpair that has begun ends with the table loaded,
\* unless power fails: the loops over the log and the table terminate.
CallsEnd == pc \notin {"idle", "off"} ~> pc \in {"idle", "off"}

\* The live record that k live records reach up to.
LiveSlot(k) ==
  CHOOSE s \in LiveSlots : Cardinality({r \in LiveSlots : r <= s}) = k

\* The devices of the live records, in the order of the log.
LiveDevices == [k \in 1 .. Cardinality(LiveSlots) |-> flash[LiveSlot(k)]]

\* The bonds the store holds: during a clean they are those in RAM.
Bonds == IF pc = "rewrite" THEN [k \in DOMAIN tbl |-> tbl[k].dev]
         ELSE LiveDevices

Store_ == INSTANCE BondStore WITH bonds <- Bonds

\* The log and the table together implement the abstract bond list, across
\* power failures.
ImplementsBondStore == Store_!Spec

-----------------------------------------------------------------------------
(* Statements of the source that the code does not keep.                   *)

\* custom_pair.c:40,111: a full table overwrites the oldest bond, that is,
\* an add that evicted a bond ends with the table full again.
OverwriteKeepsTableFull ==
  [][pc = "replace" /\ pc' = "idle" => Len(tbl') = MaxBonds]_vars
=============================================================================
