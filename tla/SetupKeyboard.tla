--------------------------- MODULE SetupKeyboard ---------------------------
(***************************************************************************)
(* The keyboard thread where it meets the setup thread (keyboard/keyboard-    *)
(* thread.c): into setup, the keys passed on in it, and out again.  What the  *)
(* keys do in normal mode is KeyboardThread's; here they only draw.          *)
(***************************************************************************)
EXTENDS SetupThread

VARIABLES
  keyboardPc,
  G_dmlr_save    \* what the lower row showed before setup

keyboardVars == <<keyboardPc, G_dmlr_save>>

KeyboardTypeOK ==
  /\ keyboardPc \in {"scan", "enter", "entering", "leave", "restore", "arrow", "draw"}
  /\ G_dmlr_save \in {"clock", "setup"}

KeyboardInit == keyboardPc = "scan" /\ G_dmlr_save = "clock"

-----------------------------------------------------------------------------
(* In setup every key goes to the pipe; the setup key, besides, ends setup.  *)
(* Nobody presses a key before the menu is there, or has come back after a    *)
(* long press that left an item: it takes the thread 50 ms at most, or the    *)
(* drawing of two rows.                                                     *)
MenuAnswers ==
  /\ setupPc \in {"reading", "executing"}
  /\ \A i \in DOMAIN G_setup_key_input : G_setup_key_input[i] \notin LeavingKeys

KeyToMenu ==
  /\ keyboardPc = "scan" /\ G_global_mode = "setup"
  /\ MenuAnswers
  /\ Len(G_setup_key_input) < MaxKeys
  /\ \E key \in SetupKeys :
       /\ G_setup_key_input' = Append(G_setup_key_input, key)
       /\ keyboardPc' = IF key = "SETUP" THEN "leave" ELSE "scan"
  /\ UNCHANGED <<scheduleVars, displayVars, setupVars, G_dmlr_save>>

(* Wrong: the key is passed on in normal mode, too.                         *)
EntersPassingOn ==
  /\ keyboardPc = "scan" /\ G_global_mode = "normal"
  /\ Len(G_setup_key_input) < MaxKeys
  /\ G_setup_key_input' = Append(G_setup_key_input, "SETUP")
  /\ G_dmlr_save' = G_display_mode_lower_row
  /\ G_display_mode_lower_row' = "setup"
  /\ keyboardPc' = "enter"
  /\ UNCHANGED <<scheduleVars, G_global_mode, G_display_lock, setupVars>>

(* Into setup: the rows are taken from the clock, the scrolls are told to    *)
(* end, and after 95 ms the display is cleared and the mode is set.          *)
KeyEntersSetup ==
  /\ keyboardPc = "scan" /\ G_global_mode = "normal"
  /\ G_dmlr_save' = G_display_mode_lower_row
  /\ G_display_mode_lower_row' = "setup"
  /\ keyboardPc' = "enter"
  /\ UNCHANGED <<scheduleVars, G_global_mode, G_display_lock, G_setup_key_input, setupVars>>

KeyClearsDisplay ==
  /\ keyboardPc = "enter" /\ G_display_lock = "nobody"
  /\ keyboardPc' = "entering"
  /\ UNCHANGED <<scheduleVars, displayVars, G_setup_key_input, setupVars, G_dmlr_save>>

KeySetsSetupMode ==
  /\ keyboardPc = "entering"
  /\ G_global_mode' = "setup"
  /\ keyboardPc' = "scan"
  /\ UNCHANGED <<scheduleVars, G_display_mode_lower_row, G_display_lock, G_setup_key_input,
                 setupVars, G_dmlr_save>>

(* Out of setup: the key is in the pipe already.                            *)
KeySetsNormalMode ==
  /\ keyboardPc = "leave"
  /\ G_global_mode' = "normal"
  /\ keyboardPc' = "restore"
  /\ UNCHANGED <<scheduleVars, G_display_mode_lower_row, G_display_lock, G_setup_key_input,
                 setupVars, G_dmlr_save>>

(* 5 ms later the rows are the clock's again.  The signs for a playing       *)
(* stream and for the sleep timer are drawn if there is reason to.           *)
KeyRestoresRows ==
  /\ keyboardPc = "restore"
  /\ G_display_mode_lower_row' = G_dmlr_save
  /\ keyboardPc' \in IF G_player_mode = "stream" THEN {"arrow"} ELSE {"draw", "scan"}
  /\ UNCHANGED <<scheduleVars, G_global_mode, G_display_lock, G_setup_key_input,
                 setupVars, G_dmlr_save>>

KeyDrawsArrow ==
  /\ keyboardPc = "arrow" /\ G_display_lock = "nobody"
  /\ keyboardPc' \in {"draw", "scan"}
  /\ UNCHANGED <<scheduleVars, displayVars, G_setup_key_input, setupVars, G_dmlr_save>>

(* Any other key in normal mode: its handler draws.                         *)
KeyElse ==
  /\ keyboardPc = "scan" /\ G_global_mode = "normal"
  /\ keyboardPc' = "draw"
  /\ UNCHANGED <<scheduleVars, displayVars, G_setup_key_input, setupVars, G_dmlr_save>>

KeyDraws ==
  /\ keyboardPc = "draw" /\ G_display_lock = "nobody"
  /\ keyboardPc' = "scan"
  /\ UNCHANGED <<scheduleVars, displayVars, G_setup_key_input, setupVars, G_dmlr_save>>

UserPresses == KeyToMenu \/ KeyEntersSetup \/ KeyElse
KeyHandled == KeyClearsDisplay \/ KeySetsSetupMode \/ KeySetsNormalMode
              \/ KeyRestoresRows \/ KeyDrawsArrow \/ KeyDraws
=============================================================================
