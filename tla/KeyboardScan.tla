---------------------------- MODULE KeyboardScan ----------------------------
(***************************************************************************)
(* The scanning of the keypad (keyboard/keyboard-scan.c) and the thread that *)
(* passes on what has changed (keyboard/keyboard-thread.c): short presses,   *)
(* long ones and their repetition, for keys pressed alone or together.  The  *)
(* byte behind G_keys, which the loop reads too, is taken to be no key down. *)
(* A byte of the keymap is the set of its bits.                             *)
(***************************************************************************)
EXTENDS Naturals

CONSTANTS
  KEYS_NO,
  Touched,            \* the keys that somebody presses
  THRESHOLD1, THRESHOLD2, THRESHOLD3,
  KEY_DELAY_NORMAL, KEY_DELAY_FAST, KEY_DELAY_FASTER,
  CounterLimit        \* 2^16

ASSUME KeyboardAssumption ==
  /\ KEYS_NO \in 1 .. 8 /\ Touched \subseteq 0 .. KEYS_NO - 1
  /\ {THRESHOLD1, THRESHOLD2, THRESHOLD3, CounterLimit} \subseteq Nat
  /\ {KEY_DELAY_NORMAL, KEY_DELAY_FAST, KEY_DELAY_FASTER} \subseteq Nat \ {0}
  /\ 1 < THRESHOLD1 /\ THRESHOLD1 < THRESHOLD2 /\ THRESHOLD2 < THRESHOLD3
  /\ THRESHOLD3 < CounterLimit

VARIABLES
  keysDown,              \* what the keypad holds
  G_key_interval_ctr,
  prev_keyboard_state,
  dispatched,            \* the last event, no bit when the last scan gave none
  (* History, not in the program, of the press that has begun last: *)
  press                  \* its key, whether it was alone, and what came of it

scanVars == <<keysDown, G_key_interval_ctr, prev_keyboard_state, dispatched, press>>

(* The sum of a byte and 1: the bits turn over up to the first that was 0.    *)
PlusOne(byte) ==
  {n \in 0 .. 7 : n \in byte <=> \E lower \in 0 .. n - 1 : lower \notin byte}

ShortCode(key) == {key}
(* keymap |= 1 << i; keymap |= 128; keymap += 1.                             *)
WithLong(keymap, key) == PlusOne(keymap \cup {key, 7})
LongCode(key) == WithLong({}, key)

NoPress == [key |-> 0, alone |-> FALSE, held |-> 0, short |-> 0, long |-> 0, ended |-> TRUE]
Pressed(key) ==
  [key |-> key, alone |-> TRUE, held |-> 0, short |-> 0, long |-> 0, ended |-> FALSE]

ScanInit ==
  /\ keysDown = {} /\ prev_keyboard_state = {} /\ dispatched = {}
  /\ G_key_interval_ctr = [key \in 0 .. KEYS_NO - 1 |-> 0]
  /\ press = NoPress

(* What counters a key that is held is reported at.                          *)
LongDue(count) ==
  \/ count = THRESHOLD1
  \/ count > THRESHOLD1 /\ count < THRESHOLD2 /\ count % KEY_DELAY_NORMAL = 0
  \/ count >= THRESHOLD2 /\ count < THRESHOLD3 /\ count % KEY_DELAY_FAST = 0
  \/ count >= THRESHOLD3 /\ count % KEY_DELAY_FASTER = 0

Counted(key) == IF key \in keysDown THEN (G_key_interval_ctr[key] + 1) % CounterLimit ELSE 0

(* Wrong: a key is short as long as it has not passed the threshold.         *)
ShortToTheThreshold(key) == G_key_interval_ctr[key] > 0 /\ G_key_interval_ctr[key] <= THRESHOLD1
ShortDue(key) == G_key_interval_ctr[key] > 0 /\ G_key_interval_ctr[key] < THRESHOLD1

WithKey(keymap, key) ==
  IF key \in keysDown
  THEN IF LongDue(Counted(key)) THEN WithLong(keymap, key) ELSE keymap
  ELSE IF ShortDue(key) THEN keymap \cup ShortCode(key) ELSE keymap

(* The keymap after each key, in their order.                               *)
KeyMapUpTo ==
  LET keymap[n \in 0 .. KEYS_NO] == IF n = 0 THEN {} ELSE WithKey(keymap[n - 1], n - 1)
  IN keymap

KeyMap == KeyMapUpTo[KEYS_NO]

(* The press that somebody looks at, after a scan that passed on an event.   *)
Followed(event) ==
  LET busy == {key \in 0 .. KEYS_NO - 1 : key \in keysDown \/ G_key_interval_ctr[key] > 0}
      begun == keysDown \ {key \in keysDown : G_key_interval_ctr[key] > 0}
      now == IF press.ended /\ begun # {}
             THEN Pressed(CHOOSE key \in begun : TRUE)
             ELSE press
  IN IF now.ended THEN now
     ELSE [now EXCEPT !.alone = now.alone /\ busy = {now.key},
                      !.held = IF now.key \in keysDown /\ @ < CounterLimit THEN @ + 1 ELSE @,
                      !.short = IF event = ShortCode(now.key) /\ @ < 2 THEN @ + 1 ELSE @,
                      !.long = IF event = LongCode(now.key) THEN 1 ELSE @,
                      !.ended = now.key \notin keysDown]

(* PL_keyboard_scan, and the thread that called it.                          *)
Scan ==
  /\ G_key_interval_ctr' = [key \in 0 .. KEYS_NO - 1 |-> Counted(key)]
  /\ prev_keyboard_state' = KeyMap
  /\ dispatched' = IF KeyMap # prev_keyboard_state THEN KeyMap ELSE {}
  /\ press' = Followed(dispatched')
  /\ UNCHANGED keysDown

KeysMove ==
  /\ keysDown' \in SUBSET Touched
  /\ UNCHANGED <<G_key_interval_ctr, prev_keyboard_state, dispatched, press>>

ScanNext == Scan \/ KeysMove
ScanSpec == ScanInit /\ [][ScanNext]_scanVars

(* A key pressed alone, unless for so long that its counter has come round,  *)
(* is told once as a short press or else as a long one, never as both and    *)
(* never as another key.                                                    *)
PressIsTold ==
  press.alone /\ press.held < CounterLimit =>
    /\ dispatched # {} /\ ~press.ended => dispatched = LongCode(press.key)
    /\ press.ended => IF press.held < THRESHOLD1 THEN press.short = 1 /\ press.long = 0
                                                  ELSE press.short = 0 /\ press.long = 1
=============================================================================
