------------------------------- MODULE LowerRow -------------------------------
(***************************************************************************)
(* The indicators in the lower row of the display: WiFi (wifi/wifi_signal.c), *)
(* Bluetooth (system/indicators.c), speech (tts/tts-indicator-thread.c), the  *)
(* bell of the clock (clock/plclock.c), the sleep timer (the clock and        *)
(* keyboard/keyboard-thread.c), the buffer and the arrow of the player        *)
(* (player/player-thread.c).  Each has a column and a thread, which draws     *)
(* under the lock of the display; an open item of the setup menu holds that   *)
(* lock and takes the row.  The columns do not meet, so each behaviour looks   *)
(* at one of them.                                                          *)
(***************************************************************************)
EXTENDS Integers

CONSTANT Columns   \* those that are looked at

Indicators == {"wifi", "bluetooth", "speech", "bell", "sleep", "buffer", "arrow"}
ASSUME RowAssumption == Columns \subseteq Indicators

VARIABLES
  column,        \* the one that is looked at
  cell,          \* what it shows: "on", "blank", "menu", or the "B" or "Q" of the buffer
  indicated,     \* what it is to tell of
  rowPc, seen,   \* of the thread that draws it
  rowKeysPc,     \* of the keyboard thread
  rowMode,       \* G_global_mode
  lowerRow,      \* G_display_mode_lower_row
  menuPc,        \* of the setup thread: "open" has the lock
  setupKey,      \* the pipe has the key that leaves setup
  (* History, not in the program: *)
  outdated      \* what was drawn last was told before what is so now

rowVars == <<column, cell, indicated, rowPc, seen, rowKeysPc, rowMode, lowerRow, menuPc,
             setupKey, outdated>>

Values == [c \in Indicators |->
  CASE c = "speech" -> {"no", "preparing", "yes"}
    [] c = "bell"   -> {"stop", "no", "yes"}
    [] c = "buffer" -> {"no", "low", "middle", "high"}
    [] OTHER        -> {"no", "yes"}]

(* my_spi_WEH001602_init clears the display and defines the characters.      *)
RowInit ==
  /\ column \in Columns /\ cell = "blank" /\ indicated = (IF column = "bell" THEN "stop" ELSE "no")
  /\ rowPc = "look" /\ seen = "blank" /\ rowKeysPc = "idle"
  /\ rowMode = "normal" /\ lowerRow = "clock" /\ menuPc = "away" /\ setupKey = FALSE
  /\ outdated = FALSE

(* Something is written to the column, when the lock is free.                *)
Unlocked == menuPc # "open"
Shows(what) == Unlocked /\ cell' = what

KeysElsewhere == UNCHANGED <<rowKeysPc, rowMode, lowerRow, menuPc, setupKey>>
DrawerStays   == UNCHANGED <<rowPc, seen>>

-----------------------------------------------------------------------------
(* What is told of changes by itself; the sleep timer does not.  Commands may *)
(* stop and start the player, or start and stop it, before it has looked.    *)
ChangedTwice ==
  \/ rowPc = "play" /\ indicated = "no"
  \/ rowPc = "look" /\ indicated = "yes" /\ (cell = "on" \/ rowKeysPc = "draw on")

RowDemand ==
  /\ column # "sleep" /\ indicated' \in Values[column] \ {indicated}
  /\ outdated' = (outdated \/ (column = "arrow" /\ ChangedTwice))
  /\ UNCHANGED <<column, cell>> /\ DrawerStays /\ KeysElsewhere

-----------------------------------------------------------------------------
(* The threads: each looks, and later draws what it has seen.                *)
LookFor(c, what, next) ==
  /\ column = c /\ rowPc = "look" /\ rowPc' = next /\ seen' = what
  /\ UNCHANGED <<column, cell, indicated, outdated>> /\ KeysElsewhere

Drawn ==
  /\ rowPc = "draw" /\ rowPc' = "look" /\ Shows(seen)
  /\ UNCHANGED <<column, indicated, seen, outdated>> /\ KeysElsewhere

(* The character is defined first, and the mode of the radio looked at after; *)
(* that it is gone is drawn in setup as well.                               *)
(* Wrong: there is nothing to draw while nothing is played.                  *)
WifiOnlyWhilePlaying == LookFor("wifi", "on", "define") /\ indicated = "yes"
WifiLooks ==
  \/ LookFor("wifi", "on", "define") /\ indicated = "yes"
  \/ LookFor("wifi", "blank", "draw") /\ indicated = "no"

WifiDefines ==
  /\ rowPc = "define" /\ Unlocked /\ rowPc' = "test"
  /\ UNCHANGED <<column, cell, indicated, seen, outdated>> /\ KeysElsewhere

WifiTests ==
  /\ rowPc = "test" /\ rowPc' = IF rowMode = "normal" THEN "draw" ELSE "look"
  /\ UNCHANGED <<column, cell, indicated, seen, outdated>> /\ KeysElsewhere

(* The loudspeaker is drawn first, and then whether there is a source, over   *)
(* it; both are looked at with the lock.                                    *)
BluetoothLooks == rowMode = "normal" /\ LookFor("bluetooth", seen, "bt")

BluetoothDraws ==
  /\ rowPc = "bt" /\ rowPc' = "look" /\ Shows(IF indicated = "yes" THEN "on" ELSE "blank")
  /\ UNCHANGED <<column, indicated, seen, outdated>> /\ KeysElsewhere

(* It blinks while the speech is prepared, in setup as well.                 *)
SpeechLooks ==
  LookFor("speech", CASE indicated = "yes"       -> "on"
                      [] indicated = "preparing" -> IF seen = "on" THEN "blank" ELSE "on"
                      [] indicated = "no"        -> "blank", "draw")

BellLooks ==
  /\ rowMode # "setup"
  /\ \/ lowerRow = "clock" /\ indicated # "stop" /\ LookFor("bell", IF indicated = "yes" THEN "on" ELSE "blank", "draw")
     \/ indicated = "stop" /\ LookFor("bell", "blank", "draw")

(* The play loop, and its end; between the bounds nothing is drawn.           *)
BufferLooks ==
  /\ rowMode = "normal"
  /\ LookFor("buffer", CASE indicated = "low"  -> "B"
                         [] indicated = "high" -> "Q"
                         [] OTHER              -> "blank", "draw")

(* The arrow is drawn when a start is seen, in setup as well.                *)
ArrowLooks == indicated = "yes" /\ LookFor("arrow", "on", "start")

ArrowDrawn ==
  /\ rowPc = "start" /\ rowPc' = "play" /\ Shows("on") /\ outdated' = FALSE
  /\ UNCHANGED <<column, indicated, seen>> /\ KeysElsewhere

(* No stream, or no device: the arrow goes before the mode does.              *)
StartFails ==
  /\ rowPc = "play" /\ rowPc' = "failed" /\ Shows("blank")
  /\ UNCHANGED <<column, indicated, seen, outdated>> /\ KeysElsewhere

StartGivenUp ==
  /\ rowPc = "failed" /\ rowPc' = "look" /\ indicated' = "no"
  /\ UNCHANGED <<column, cell, seen, outdated>> /\ KeysElsewhere

(* Stopped, or a stream that breaks: in setup nothing is cleared.             *)
StreamEnds ==
  /\ column = "arrow" /\ rowPc = "play" /\ seen' = "blank"
  /\ rowPc' = IF rowMode = "normal" THEN "draw" ELSE "look"
  /\ UNCHANGED <<column, cell, indicated, outdated>> /\ KeysElsewhere

(* The sleep timer of the clock, not in setup; and the Bluetooth sink, chosen *)
(* in the menu, which stops the timer and leaves its indicator.              *)
SleepEnds ==
  /\ column = "sleep" /\ indicated = "yes" /\ rowMode # "setup" /\ rowPc = "look"
  /\ indicated' = "no" /\ rowPc' = "draw" /\ seen' = "blank"
  /\ UNCHANGED <<column, cell, outdated>> /\ KeysElsewhere

SinkStopsTimer ==
  /\ column = "sleep" /\ indicated = "yes" /\ rowMode = "setup"
  /\ indicated' = "no"
  /\ UNCHANGED <<column, cell, outdated>> /\ DrawerStays /\ KeysElsewhere

RowDrawer ==
  \/ Drawn \/ WifiLooks \/ WifiDefines \/ WifiTests \/ BluetoothLooks \/ BluetoothDraws
  \/ SpeechLooks \/ BellLooks \/ BufferLooks \/ ArrowLooks \/ ArrowDrawn \/ StartGivenUp
  \/ StreamEnds /\ indicated = "no"
RowChance == SleepEnds \/ SinkStopsTimer \/ StartFails \/ StreamEnds

-----------------------------------------------------------------------------
(* The keyboard thread: to setup and back.                                  *)
RowKey(from, to) ==
  /\ rowKeysPc = from /\ rowKeysPc' = to /\ UNCHANGED column /\ DrawerStays

KeyEnters ==
  /\ rowMode = "normal" /\ RowKey("idle", "clear") /\ lowerRow' = "setup"
  /\ UNCHANGED <<cell, indicated, rowMode, menuPc, setupKey, outdated>>

KeyClears ==
  /\ RowKey("clear", "enter") /\ Shows("blank")
  /\ UNCHANGED <<indicated, rowMode, lowerRow, menuPc, setupKey, outdated>>

KeyHasEntered ==
  /\ RowKey("enter", "idle") /\ rowMode' = "setup"
  /\ UNCHANGED <<cell, indicated, lowerRow, menuPc, setupKey, outdated>>

(* Nobody leaves setup before it can be seen.                                *)
KeyLeaves ==
  /\ rowMode = "setup" /\ menuPc = "open" /\ RowKey("idle", "restore")
  /\ rowMode' = "normal" /\ setupKey' = TRUE
  /\ UNCHANGED <<cell, indicated, lowerRow, menuPc, outdated>>

KeyRestores ==
  /\ RowKey("restore", IF column \in {"arrow", "sleep"} /\ indicated = "yes" THEN "draw on" ELSE "idle")
  /\ lowerRow' = "clock"
  /\ UNCHANGED <<cell, indicated, rowMode, menuPc, setupKey, outdated>>

(* The long press of the key that starts and stops the sleep timer.           *)
KeySleeps ==
  /\ column = "sleep" /\ rowMode = "normal"
  /\ \/ indicated = "yes" /\ RowKey("idle", "draw off") /\ indicated' = "no"
     \/ indicated = "no" /\ RowKey("idle", "draw on") /\ indicated' = "yes"
  /\ UNCHANGED <<cell, rowMode, lowerRow, menuPc, setupKey, outdated>>

(* Drawn late: the timer has been stopped or the clock is still to draw that  *)
(* it has fired, or the player has stopped or is about to: it clears the      *)
(* arrow of a stream that failed in setup, shows the error for a second with  *)
(* the lock, and is stopped only then.                                      *)
KeyDraws ==
  /\ \/ RowKey("draw on", "idle") /\ Shows("on")
     \/ RowKey("draw off", "idle") /\ Shows("blank")
  /\ outdated' = (rowKeysPc = "draw on" /\ (indicated = "no" \/ rowPc \in {"draw", "failed"}))
  /\ UNCHANGED <<indicated, rowMode, lowerRow, menuPc, setupKey>>

RowKeys == KeyClears \/ KeyHasEntered \/ KeyRestores \/ KeyDraws
RowUser == KeyEnters \/ KeyLeaves \/ KeySleeps

-----------------------------------------------------------------------------
(* The setup thread: an item is as wide as its text, the row is cleared when   *)
(* it closes.                                                               *)
MenuStep(from, to) ==
  /\ menuPc = from /\ menuPc' = to
  /\ UNCHANGED <<column, indicated, rowKeysPc, rowMode, lowerRow, outdated>> /\ DrawerStays

MenuLooks == rowMode = "setup" /\ MenuStep("away", "wait") /\ UNCHANGED <<cell, setupKey>>
MenuOpens == MenuStep("wait", "open") /\ cell' \in {"menu", cell} /\ UNCHANGED setupKey
MenuCloses ==
  /\ rowMode = "setup" \/ setupKey
  /\ MenuStep("open", "away") /\ cell' = "blank" /\ setupKey' = FALSE
RowMenu == MenuLooks \/ MenuOpens \/ MenuCloses

RowNext == RowDemand \/ RowDrawer \/ RowChance \/ RowKeys \/ RowUser \/ RowMenu
RowSpec == /\ RowInit /\ [][RowNext]_rowVars
           /\ WF_rowVars(RowDrawer) /\ WF_rowVars(RowKeys) /\ WF_rowVars(RowMenu)

-----------------------------------------------------------------------------
(* Out of setup each indicator comes to show what is so and stays, however    *)
(* often the menu has taken the row, or the thread has looked before and      *)
(* drawn after; but for the arrow and the sleep timer, drawn once, when the   *)
(* keyboard thread and another draw what they saw in the other order.        *)
RowSettled ==
  /\ rowMode = "normal" /\ menuPc = "away" /\ ~outdated
  /\ column = "arrow" /\ indicated = "yes" => rowPc = "play"

Told ==
  CASE indicated = "yes"  -> "on"
    [] indicated = "low"  -> "B"
    [] indicated = "high" -> "Q"
    [] OTHER              -> "blank"

IndicatorsComeBack ==
  <>[]RowSettled /\ <>[][UNCHANGED indicated]_rowVars =>
    <>[](indicated # "preparing" => cell = Told)
=============================================================================
