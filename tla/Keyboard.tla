------------------------------ MODULE Keyboard ------------------------------
(***************************************************************************)
(* The key matrix: application/keyboard/keyboard.c scans and debounces it, *)
(* vendor/B91m_ble_sample/app_ui.c turns its changes into reports to the   *)
(* BLE host.  A scan runs at most every 8 ms, from the main loop or from   *)
(* the early wake-up event, and takes a fraction of a millisecond: keys    *)
(* change (and bounce) between scans, not during one.                      *)
(*                                                                         *)
(* The ring matrix_buff is filled and emptied by the same call and left    *)
(* out; the GATT notifications reach the host.                             *)
(***************************************************************************)
EXTENDS Integers, FiniteSets

CONSTANTS
  Key,          \* the keys of the matrix, at most KB_RETURN_KEY_MAX
  RowOf,        \* the scan pin of a key
  Consumer,     \* the keys from CR_VOL_UP on: consumer report; the others
                \* go into the keyboard report
  NoKey,        \* an empty report
  ReleaseCnt,   \* release_cnt in kb_key_pressed: 6
  MaxPressed    \* keys a user holds down at once

ASSUME KeyboardAssumption ==
  /\ Consumer \subseteq Key
  /\ NoKey \notin Key
  /\ MaxPressed \in Nat

\* Debouncing takes two scans, so the scan must go on for two more after
\* the last key was seen.
ASSUME ReleaseAssumption == ReleaseCnt \in Nat /\ ReleaseCnt >= 3

VARIABLES
  pressed,     \* the keys that are down
  relCnt,      \* release_cnt
  retLast,     \* ret_last of kb_key_pressed
  need,        \* scan_pin_need: the scan pins the last call asked for
  pre,         \* mtrx_pre: the raw matrix of the last scan
  last,        \* mtrx_last: the debounced matrix
  notReleased, \* key_not_released
  keyType,     \* key_type
  kbReport,    \* the key in the last keyboard report the host got
  coReport     \* the key in the last consumer report the host got

scanVars == <<relCnt, retLast, need, pre, last>>
uiVars == <<notReleased, keyType, kbReport, coReport>>
vars == <<pressed, scanVars, uiVars>>

Rows(K) == {RowOf[k] : k \in K}

TypeOK ==
  /\ pressed \subseteq Key /\ pre \subseteq Key /\ last \subseteq Key
  /\ relCnt \in 0 .. ReleaseCnt - 1
  /\ retLast \subseteq Rows(Key) /\ need \subseteq Rows(Key)
  /\ notReleased \in BOOLEAN
  /\ keyType \in {"none", "consumer", "keyboard"}
  /\ kbReport \in (Key \ Consumer) \cup {NoKey}
  /\ coReport \in Consumer \cup {NoKey}

Init ==
  /\ pressed = {} /\ pre = {} /\ last = {}
  /\ relCnt = 0
  /\ retLast = {} /\ need = {}
  /\ notReleased = FALSE /\ keyType = "none"
  /\ kbReport = NoKey /\ coReport = NoKey

-----------------------------------------------------------------------------
\* The user presses or releases a key, or a contact bounces.
Touch ==
  /\ \E k \in Key : pressed' \in {pressed \cup {k}, pressed \ {k}} \ {pressed}
  /\ Cardinality(pressed') <= MaxPressed
  /\ UNCHANGED <<scanVars, uiVars>>

-----------------------------------------------------------------------------
(* keyboard.c                                                              *)

\* a key that is down never goes up
MutDebounce(l, p, t) == l \cup (p \cap t)

\* key_debounce_filter: a key changes when two scans agree on it
Debounce(l, p, t) == ((p \cap t) \ l) \cup (l \cap (p \cup t))

\* no more calls after the last key was seen
MutKeyPressed ==
  LET ret == Rows(pressed) IN
    /\ retLast' = IF ret # {} THEN ret ELSE retLast
    /\ relCnt' = 0
    /\ need' = ret

\* the calls are not counted
MutKeyPressedForever ==
  LET ret == Rows(pressed)
      cnt == IF ret # {} THEN ReleaseCnt ELSE relCnt
  IN
    /\ retLast' = IF ret # {} THEN ret ELSE retLast
    /\ relCnt' = cnt
    /\ need' = IF cnt > 0 THEN retLast' ELSE ret

\* kb_key_pressed: which scan pins need a look.  After the last key was
\* seen its pins are looked at for some more calls.
KeyPressed ==
  LET ret == Rows(pressed)
      cnt == IF ret # {} THEN ReleaseCnt ELSE relCnt
  IN
    /\ retLast' = IF ret # {} THEN ret ELSE retLast
    /\ relCnt' = IF cnt > 0 THEN cnt - 1 ELSE 0
    /\ need' = IF cnt > 0 THEN retLast' ELSE ret

\* kb_scan_row for all drive pins
Matrix(rows) == {k \in pressed : RowOf[k] \in rows}

\* kb_scan_key_value: scan, debounce and remember.  The caller reads the
\* matrix buffer at once, so that it never holds more than one entry.
ScanKeyValue ==
  /\ last' = Debounce(last, pre, Matrix(need'))
  /\ pre' = Matrix(need')

\* kb_scan_key
ScanKey ==
  /\ KeyPressed
  /\ IF need' = {} THEN UNCHANGED <<pre, last>> ELSE ScanKeyValue

-----------------------------------------------------------------------------
(* app_ui.c                                                                *)

\* One key is down: it is reported.
Single(k) ==
  IF k \in Consumer
  THEN /\ keyType' = "consumer"
       /\ coReport' = k
       /\ UNCHANGED kbReport
  ELSE /\ keyType' = "keyboard"
       /\ kbReport' = k
       /\ UNCHANGED coReport

\* The branch for "no key": the report of the last single key is emptied.
Release ==
  /\ coReport' = IF keyType = "consumer" THEN NoKey ELSE coReport
  /\ kbReport' = IF keyType = "keyboard" THEN NoKey ELSE kbReport
  /\ UNCHANGED keyType

\* key_change_proc for the keys K; two keys are not reported, and every
\* number but 1 and 2 is taken for a release
KeyChange(K) ==
  /\ notReleased' = (Cardinality(K) \in {1, 2})
  /\ \/ Cardinality(K) = 2 /\ UNCHANGED <<keyType, kbReport, coReport>>
     \/ \E k \in Key : K = {k} /\ Single(k)
     \/ Cardinality(K) \notin {1, 2} /\ Release

ProcKeyboard ==
  /\ ScanKey
  /\ IF last' # last THEN KeyChange(last') ELSE UNCHANGED uiVars
  /\ UNCHANGED pressed

Next == Touch \/ ProcKeyboard

Spec == Init /\ [][Next]_vars

\* The main loop calls proc_keyboard for ever; while the chip sleeps a key
\* wakes it up.
FairSpec == Spec /\ WF_vars(ProcKeyboard)

-----------------------------------------------------------------------------
(* Properties.                                                             *)

\* Scanning stops only with the matrix released, not with a key still
\* counted as down: the chip may sleep then, and no later scan would come
\* to notice the release.
StopsReleased == need = {} => last = {} /\ pre = {}

\* Whenever no key is left the host has seen the release of every key that
\* was reported; app_ui.c:186 calls the last report "release".
ReleaseReachesHost == last = {} => kbReport = NoKey /\ coReport = NoKey

\* A key that is held down alone is reported to the host, whatever was
\* pressed or bounced before.
HeldKeyReported ==
  \A k \in Key : <>[](pressed = {k}) => <>[](k \in {kbReport, coReport})
=============================================================================
