----------------------------- MODULE MenuSystem -----------------------------
(***************************************************************************)
(* The clock, the keyboard and the setup thread around the lock of the        *)
(* display, while the minutes of a few days pass.                            *)
(***************************************************************************)
EXTENDS SetupKeyboard

CONSTANT OneCore  \* TRUE: the program has one processor core to itself

ASSUME CoreAssumption == OneCore \in BOOLEAN

vars == <<scheduleVars, displayVars, G_setup_key_input, setupVars, keyboardVars>>

Init == ScheduleInit /\ SetupInit /\ KeyboardInit

TypeOK == ScheduleTypeOK /\ SetupTypeOK /\ KeyboardTypeOK

-----------------------------------------------------------------------------
(* main() runs the three under SCHED_RR with the priorities 90, 87 and 80:   *)
(* on one core, a thread that neither sleeps nor waits for the lock goes       *)
(* before the ones below it.                                                *)
ClockReady == clockPc # "sleep" /\ ~ClockWaits
KeyboardReady == \/ keyboardPc \in {"leave", "entering"}
                 \/ keyboardPc \in {"arrow", "draw"} /\ G_display_lock = "nobody"

(* The threads that start and stop the device are below the clock, too.      *)
KeyboardMayRun == OneCore => ~ClockReady
OthersMayRun   == OneCore => ~ClockReady
SetupMayRun    == OneCore => ~ClockReady /\ ~KeyboardReady

(* A minute is much longer than what a thread does between two waits.       *)
AtRest == ~ClockReady /\ ~KeyboardReady
          /\ \/ setupPc \in {"outside", "executing"}
             \/ setupPc = "reading" /\ G_setup_key_input = <<>>

Clock    == ClockStep /\ UNCHANGED <<G_setup_key_input, setupVars, keyboardVars>>
Setup    == SetupMayRun /\ SetupStep /\ UNCHANGED keyboardVars
Keyboard == KeyboardMayRun /\ (UserPresses \/ KeyHandled)
World    == /\ (AtRest /\ MinutePasses) \/ (OthersMayRun /\ OthersChangeMode)
            /\ UNCHANGED <<G_setup_key_input, setupVars, keyboardVars>>

Next == Clock \/ Setup \/ Keyboard \/ World

Spec == Init /\ [][Next]_vars

-----------------------------------------------------------------------------
(* No alarm goes off twice for the same minute, unless it, or the clock, is    *)
(* being set in that minute (clock/plclock.c:156-160).                       *)
RingsOncePerMinute == \A i \in AlarmIds : rang[i] <= 1 \/ touched[i]

(* An alarm goes off only for the minute it is set to, on one of its days,    *)
(* and only if it is on, unless it is being set in that minute.  The minute   *)
(* is the one the pass began in (clock/plclock.c:73, 153-156).               *)
RingsAsSet ==
  [][clockPc = "ring" /\ clockPc' # "ring" =>
       \/ touched[clockAlarm]
       \/ G_alarms[clockAlarm].active /\ Matches(G_alarms[clockAlarm], G_tm)]_vars

(* No minute passes for which an alarm was set, on, and not yet done that     *)
(* day, without its going off: unless it was being set, or the display was   *)
(* locked by a command of the menu, or it is the first of January and the    *)
(* alarm has not gone off since it was set.  An alarm set to a later time on  *)
(* the same day goes off again (setup/setup.c:494).                         *)
DueAlarmRings ==
  [][(now # now' /\ MinutePasses) => \A i \in AlarmIds :
       (/\ G_alarms[i].active /\ Matches(G_alarms[i], now)
        /\ rangOn[i] # now.day /\ (YearDays[now.day] = 0 => rangOn[i] # 0)
        /\ ~touched[i])
       => ClockWaits /\ setupPc = "executing"]_vars

(* Nobody waits for a user who looks at the menu: the clock and the keyboard *)
(* wait for the display only while an item is being left, or a command of the *)
(* menu is carried out (keyboard/keyboard-thread.c:20-71, 416-421).          *)
KeyboardWaits == keyboardPc \in {"enter", "arrow", "draw"} /\ G_display_lock = "setup"

NobodyWaitsForTheUser ==
  ClockWaits \/ KeyboardWaits =>
    \/ setupPc \in {"executing", "storeHour", "storeFlag", "closing"}
    \/ "SETUP" \in {G_setup_key_input[k] : k \in DOMAIN G_setup_key_input}

(* When setup begins, no key of an earlier visit is waiting to be taken for   *)
(* one of this.                                                             *)
MenuStartsClean ==
  [][setupPc = "outside" /\ setupPc' = "between" => G_setup_key_input = <<>>]_vars
=============================================================================
