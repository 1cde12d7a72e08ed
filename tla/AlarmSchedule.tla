--------------------------- MODULE AlarmSchedule ---------------------------
(***************************************************************************)
(* The alarms of the device and the thread that sets them off (clock/        *)
(* plclock.c): which alarm is due when, and what holds the thread up.  Its   *)
(* pass also draws the time, for which it needs the lock of the display; the  *)
(* setup thread keeps that lock while an item of the menu is open.           *)
(***************************************************************************)
EXTENDS Naturals, Sequences

CONSTANTS
  Hours, Minutes,  \* how many of each there are (24, 60)
  YearDays,        \* the days that pass, each by its number in the year, from 0
  WeekLength,      \* days in a week (7)
  FirstAlarms      \* the alarms the configuration may hold: a set of sequences

ASSUME ScheduleAssumption ==
  /\ Hours \in Nat \ {0} /\ Minutes \in Nat \ {0} /\ WeekLength \in Nat \ {0}
  /\ YearDays \in Seq(Nat) /\ YearDays # <<>>

AlarmType == [hour : 0 .. Hours - 1, minute : 0 .. Minutes - 1,
              days : SUBSET (0 .. WeekLength - 1), type : 0 .. 128, active : BOOLEAN,
              triggered_today : {0} \cup {YearDays[d] : d \in DOMAIN YearDays}]

(* None is marked: new_alarm gives every alarm of the configuration a 0.     *)
ASSUME AlarmAssumption ==
  /\ FirstAlarms \subseteq Seq(AlarmType)
  /\ \A alarms \in FirstAlarms : \A i \in DOMAIN alarms : alarms[i].triggered_today = 0

VARIABLES
  now,            \* [day, hour, minute]; day is a place in YearDays
  G_tm,           \* the time of the clock thread's latest look
  G_alarms,
  G_player_mode,
  G_global_mode,
  G_display_mode_lower_row,
  G_display_lock, \* who holds it: "setup", or nobody for longer than a step
  clockPc,
  clockAlarm,     \* the alarm the pass has come to
  (* History: *)
  rang,           \* per alarm: times it went off for this minute (0, 1, 2 or more)
  rangOn,         \* per alarm: the last day it went off since it was set, 0 if none
  touched,        \* per alarm: set, or the clock set, in this minute
  looked          \* a pass that saw this minute has come to its end

scheduleVars == <<now, G_tm, G_alarms, G_player_mode, clockPc, clockAlarm,
                  rang, rangOn, touched, looked>>
displayVars == <<G_global_mode, G_display_mode_lower_row, G_display_lock>>
historyVars == <<rang, rangOn, touched, looked>>

Times == [day : 1 .. Len(YearDays), hour : 0 .. Hours - 1, minute : 0 .. Minutes - 1]
AlarmIds == DOMAIN G_alarms

ScheduleTypeOK ==
  /\ now \in Times /\ G_tm \in Times
  /\ G_alarms \in Seq(AlarmType)
  /\ G_player_mode \in {"stop", "stream", "alarm"}
  /\ G_global_mode \in {"normal", "setup"}
  /\ G_display_mode_lower_row \in {"clock", "setup"}
  /\ G_display_lock \in {"nobody", "setup"}
  /\ clockPc \in {"sleep", "draw", "test", "ring", "indicate"}
  /\ clockAlarm \in Nat
  /\ rang \in [AlarmIds -> 0 .. 2]
  /\ rangOn \in [AlarmIds -> 0 .. Len(YearDays)]
  /\ touched \in [AlarmIds -> BOOLEAN]
  /\ looked \in BOOLEAN

ScheduleInit ==
  /\ now = [day |-> 1, hour |-> 0, minute |-> 0]
  /\ G_tm = now
  /\ G_alarms \in FirstAlarms
  /\ G_player_mode = "stop"
  /\ G_global_mode = "normal"
  /\ G_display_mode_lower_row = "clock"
  /\ G_display_lock = "nobody"
  /\ clockPc = "sleep" /\ clockAlarm = 1
  /\ rang = [i \in AlarmIds |-> 0]
  /\ rangOn = [i \in AlarmIds |-> 0]
  /\ touched = [i \in AlarmIds |-> FALSE]
  /\ looked = FALSE

-----------------------------------------------------------------------------
(* The clock thread.                                                        *)
Matches(alarm, tm) ==
  /\ alarm.hour = tm.hour
  /\ alarm.minute = tm.minute
  /\ tm.day % WeekLength \in alarm.days

(* Wrong: the alarm's state is not looked at.                               *)
DueWhetherOnOrNot(alarm, tm) ==
  Matches(alarm, tm) /\ alarm.triggered_today # YearDays[tm.day]

Due(alarm, tm) ==
  /\ alarm.active
  /\ Matches(alarm, tm)
  /\ alarm.triggered_today # YearDays[tm.day]

ClockLooks ==
  /\ clockPc = "sleep"
  /\ G_tm' = now
  /\ clockAlarm' = 1
  /\ clockPc' = IF G_display_mode_lower_row = "clock" /\ G_global_mode # "setup"
                  THEN "draw" ELSE "test"
  /\ UNCHANGED <<now, G_alarms, G_player_mode, historyVars, displayVars>>

ClockDraws ==
  /\ clockPc = "draw" /\ G_display_lock = "nobody"
  /\ clockPc' = "test"
  /\ UNCHANGED <<now, G_tm, G_alarms, G_player_mode, clockAlarm, historyVars, displayVars>>

ClockTests ==
  /\ clockPc = "test" /\ clockAlarm \in AlarmIds
  /\ IF Due(G_alarms[clockAlarm], G_tm)
       THEN clockPc' = "ring" /\ UNCHANGED clockAlarm
       ELSE clockAlarm' = clockAlarm + 1 /\ UNCHANGED clockPc
  /\ UNCHANGED <<now, G_tm, G_alarms, G_player_mode, historyVars, displayVars>>

(* The configuration may hold types the program does not know.              *)
ModeFor(alarm) ==
  CASE alarm.type \in {0, 1} -> "stream"
    [] alarm.type = 2 -> "alarm"
    [] OTHER -> "stop"

(* Wrong: the alarm is not marked as done.                                  *)
RingsUnmarked ==
  /\ clockPc = "ring"
  /\ G_player_mode' = IF G_player_mode = "stop" THEN ModeFor(G_alarms[clockAlarm])
                                               ELSE G_player_mode
  /\ rang' = [rang EXCEPT ![clockAlarm] = IF G_tm = now /\ @ < 2 THEN @ + 1 ELSE @]
  /\ rangOn' = [rangOn EXCEPT ![clockAlarm] = G_tm.day]
  /\ clockPc' = "test" /\ clockAlarm' = clockAlarm + 1
  /\ UNCHANGED <<now, G_tm, G_alarms, touched, looked, displayVars>>

(* The alarm is for today whatever the device is doing, even if the device   *)
(* is playing and nothing is to be set off.                                 *)
ClockRings ==
  /\ clockPc = "ring"
  /\ G_alarms' = [G_alarms EXCEPT ![clockAlarm].triggered_today = YearDays[G_tm.day]]
  /\ G_player_mode' = IF G_player_mode = "stop" THEN ModeFor(G_alarms[clockAlarm])
                                               ELSE G_player_mode
  /\ rang' = [rang EXCEPT ![clockAlarm] = IF G_tm = now /\ @ < 2 THEN @ + 1 ELSE @]
  /\ rangOn' = [rangOn EXCEPT ![clockAlarm] = G_tm.day]
  /\ clockPc' = "test" /\ clockAlarm' = clockAlarm + 1
  /\ UNCHANGED <<now, G_tm, touched, looked, displayVars>>

(* Wrong: the bell is drawn during setup too.                               *)
IndicatesInSetup ==
  /\ clockPc = "test" /\ clockAlarm \notin AlarmIds
  /\ clockPc' = "indicate"
  /\ UNCHANGED <<now, G_tm, G_alarms, G_player_mode, clockAlarm, historyVars, displayVars>>

(* After the last alarm: the bell, drawn or cleared.  A stopped device       *)
(* clears it whatever the row shows.                                        *)
ClockEndsTests ==
  /\ clockPc = "test" /\ clockAlarm \notin AlarmIds
  /\ IF /\ G_global_mode # "setup"
        /\ G_player_mode = "stop" \/ G_display_mode_lower_row = "clock"
       THEN clockPc' = "indicate" /\ UNCHANGED looked
       ELSE clockPc' = "sleep" /\ looked' = (looked \/ G_tm = now)
  /\ UNCHANGED <<now, G_tm, G_alarms, G_player_mode, clockAlarm, rang, rangOn, touched,
                 displayVars>>

ClockIndicates ==
  /\ clockPc = "indicate" /\ G_display_lock = "nobody"
  /\ clockPc' = "sleep"
  /\ looked' = (looked \/ G_tm = now)
  /\ UNCHANGED <<now, G_tm, G_alarms, G_player_mode, clockAlarm, rang, rangOn, touched,
                 displayVars>>

ClockWaits == clockPc \in {"draw", "indicate"} /\ G_display_lock = "setup"

ClockStep == ClockLooks \/ ClockDraws \/ ClockTests \/ ClockRings \/ ClockEndsTests \/ ClockIndicates

-----------------------------------------------------------------------------
(* The next minute.  It does not come before the thread, which looks about   *)
(* once a second, has seen this one, unless the display is kept from it.     *)
NextMinute(t) ==
  IF t.minute < Minutes - 1 THEN [t EXCEPT !.minute = @ + 1]
  ELSE IF t.hour < Hours - 1 THEN [t EXCEPT !.minute = 0, !.hour = @ + 1]
  ELSE [day |-> t.day + 1, hour |-> 0, minute |-> 0]

MinutePasses ==
  /\ \/ clockPc = "sleep" /\ looked
     \/ ClockWaits
  /\ NextMinute(now) \in Times
  /\ now' = NextMinute(now)
  /\ rang' = [i \in AlarmIds |-> 0]
  /\ touched' = [i \in AlarmIds |-> FALSE]
  /\ looked' = FALSE
  /\ UNCHANGED <<G_tm, G_alarms, G_player_mode, clockPc, clockAlarm, rangOn, displayVars>>

(* The other threads start and stop the device (IrisSystem).                *)
OthersChangeMode ==
  /\ G_player_mode' \in {"stop", "stream"} \ {G_player_mode}
  /\ UNCHANGED <<now, G_tm, G_alarms, clockPc, clockAlarm, historyVars, displayVars>>
=============================================================================
