---------------------------- MODULE SetupThread ----------------------------
(***************************************************************************)
(* PL_setup_thread and PL_get_setup_menu_item (setup/setup.c): the menu is    *)
(* read from a pipe the keyboard writes to; an open item holds the lock of    *)
(* the display until it is left.  Numbers, days and yes/no values are edited  *)
(* in place, times in locals and stored when the item is left.  Of the values *)
(* only the alarms and the system time are kept here; editing any other, a    *)
(* text for one, only draws.                                                *)
(***************************************************************************)
EXTENDS AlarmSchedule

(* The items of the setup menu and what a key does to the value of each.     *)

(* The keys, as PL_keyboard_scan reports them; the ones a menu does not      *)
(* know (a release, the snooze keys) only make it draw itself again.         *)
SetupKeys == {"SETUP", "VOL_UP", "VOL_UP_LONG", "VOL_DOWN", "VOL_DOWN_LONG",
              "TUNING_UP", "TUNING_DOWN", "TUNING_UP_LONG", "TUNING_DOWN_LONG"}
LeavingKeys  == {"SETUP", "TUNING_UP_LONG", "TUNING_DOWN_LONG"}
RaisingKeys  == {"VOL_UP", "VOL_UP_LONG"}
LoweringKeys == {"VOL_DOWN", "VOL_DOWN_LONG"}

-----------------------------------------------------------------------------
new_menu_item(title, var, type, min, max) ==
  [title |-> title, var |-> var, type |-> type, min |-> min, max |-> max]

Exec(title)      == <<new_menu_item(title, "none", "exec", 0, 0)>>
Bool(title, var) == <<new_menu_item(title, var, "bool", 0, 0)>>
Text(title, var, max) == <<new_menu_item(title, var, "string", 0, max)>>
Number(title, var, min, max) == <<new_menu_item(title, var, "uint", min, max)>>

AlarmItems(time, days, type, active) ==
  <<new_menu_item(time, "alarm", "alarm_time", 0, 0),
    new_menu_item(days, "days", "weekdays", 0, 0),
    new_menu_item(type, "type", "uint", 0, 2),
    new_menu_item(active, "active", "bool", 0, 0)>>

(* init_setup_menu: the ring, written from its first item.                  *)
FullMenu(basic_menu, bt_spk, bt_sink) ==
     <<new_menu_item("SYS time", "none", "curr_time", 0, 0)>>
  \o AlarmItems("ALM1 time", "ALM1 days", "ALM1 type", "ALM1 active")
  \o AlarmItems("ALM2 time", "ALM2 days", "ALM2 type", "ALM2 active")
  \o Number("Sleep timer", "sleep_timer_time", 0, 720)
  \o Number("Snooze timer", "snooze_timer_time", 10, 600)
  \o Number("Tell time", "tell_time_when_on", 0, 2)
  \o Number("HW vol", "HW_volume_L", 0, 128)
  \o Number("HW vol Sub", "HW_volume_S", 0, 128)
  \o Number("HW master vol", "HW_mastervol", 0, 128)
  \o Number("Tell time", "tell_time_when_on", 0, 2)
  \o Number("Matrix dim", "matrix_brightness", 1, 8)
  \o Number("FFT col", "FFT_base_color", 0, 64)
  \o Number("FFT marker col", "FFT_marker_color", 0, 64)
  \o (IF basic_menu THEN <<>> ELSE
           Text("WiFi SSID", "wireless_ssid", 15) \o Text("WiFi password", "wireless_password", 15)
        \o Text("WiFi driver", "wireless_driver", 15)
        \o Number("WiFi type", "wireless_type", 0, 2)
        \o Text("IP address", "ip_address", 15) \o Text("IP netmask", "ip_netmask", 15)
        \o Text("IP gateway", "ip_gateway", 15) \o Text("Timezone", "timezone", 15)
        \o Bool("Use NTP", "use_ntp") \o Text("NTP server", "ntp_server", 15)
        \o Bool("BT speaker", "bt_spk") \o Text("BT pair with", "bt_pair_with", 0)
        \o Bool("BT pair now", "G_bt_pair_now")
        \o (IF bt_spk THEN <<>> ELSE Bool("BT sink", "bt_sink"))
        \o Bool("SSH access", "ssh_access") \o Bool("WWW access", "www_access")
        \o Bool("Autoplay", "autoplay"))
  \o Exec("Save config?") \o Exec("Restart WiFi?")
  \o (IF bt_spk THEN Exec("Conn BT spkr?") \o Exec("Find BT spkr?") ELSE <<>>)
  \o (IF ~bt_spk /\ bt_sink THEN Text("BT src", "bt_source", 0) \o Exec("Conn BT src?") ELSE <<>>)
  \o Exec("Reboot?") \o Exec("Factory init?")

(* Wrong: the ring is not closed.                                           *)
NextUnwrapped(menu, i) == i + 1

(* The last item is followed by the first, and the first preceded by it.    *)
NextItem(menu, i) == IF i = Len(menu) THEN 1 ELSE i + 1

PrevItem(menu, i) == IF i = 1 THEN Len(menu) ELSE i - 1

-----------------------------------------------------------------------------
(* A number goes round between its limits; one outside them comes back as    *)
(* far as single steps lead it.                                             *)
Stepped(v, min, max, key) ==
  CASE key \in RaisingKeys  /\ v < max -> v + 1
    [] key \in RaisingKeys  /\ v = max -> min
    [] key \in LoweringKeys /\ v > min -> v - 1
    [] key \in LoweringKeys /\ v = min -> max
    [] OTHER -> v

(* A yes or a no, and a day of the week, are not changed by long presses.   *)
Toggled(v, key) == IF key \in {"VOL_UP", "VOL_DOWN"} THEN ~v ELSE v

DayToggled(days, d, key) ==
  IF key \notin {"VOL_UP", "VOL_DOWN"} THEN days
  ELSE IF d \in days THEN days \ {d} ELSE days \cup {d}

(* The cursor goes round among n places, numbered from 0.                   *)
CursorMoved(c, n, key) ==
  CASE key = "TUNING_UP"   -> IF c = n - 1 THEN 0 ELSE c + 1
    [] key = "TUNING_DOWN" -> IF c = 0 THEN n - 1 ELSE c - 1
    [] OTHER -> c

-----------------------------------------------------------------------------
(* The thread.                                                              *)

CONSTANTS
  Shown,           \* titles of the items a run keeps
  MaxKeys          \* bound: keys waiting in the pipe

ASSUME SetupAssumption ==
  /\ MaxKeys \in Nat \ {0}
  /\ \A alarms \in FirstAlarms : Len(alarms) >= 2

VARIABLES
  G_setup_key_input,  \* the keys in the pipe
  setupPc,
  next_item,          \* a place in the menu
  edit,               \* the locals of the open item: the time edited, the time
                      \* it was, the cursor
  key_pressed         \* the key that left the item

setupVars == <<setupPc, next_item, edit, key_pressed>>

Menu == LET ShownItem(item) == item.title \in Shown
        IN  SelectSeq(FullMenu(FALSE, FALSE, FALSE), ShownItem)

Item == Menu[next_item]
OfAlarm == IF Item.title \in {"ALM2 time", "ALM2 days", "ALM2 type", "ALM2 active"} THEN 2 ELSE 1

NoEdit == [hour |-> 0, minute |-> 0, cursor |-> 0,
           saved |-> [day |-> 1, hour |-> 0, minute |-> 0]]
TimeEntered == [edit.saved EXCEPT !.hour = edit.hour, !.minute = edit.minute]

SetupTypeOK ==
  /\ G_setup_key_input \in Seq(SetupKeys)
  /\ setupPc \in {"outside", "between", "locking", "reading", "executing",
                  "storeHour", "storeFlag", "closing"}
  /\ next_item \in 1 .. Len(Menu)
  /\ TimeEntered \in Times /\ edit.saved \in Times
  /\ edit.cursor \in 0 .. WeekLength - 1 \cup {0, 1}
  /\ key_pressed \in LeavingKeys \cup {"none"}

SetupInit ==
  /\ G_setup_key_input = <<>>
  /\ setupPc = "outside"
  /\ next_item = 1
  /\ edit = NoEdit
  /\ key_pressed = "none"

-----------------------------------------------------------------------------
SetupNoticesMode ==
  /\ setupPc = "outside" /\ G_global_mode = "setup"
  /\ setupPc' = "between" /\ next_item' = 1
  /\ UNCHANGED <<scheduleVars, displayVars, G_setup_key_input, edit, key_pressed>>

SetupGoesOn ==
  /\ setupPc = "between"
  /\ setupPc' = IF G_global_mode = "setup" THEN "locking" ELSE "outside"
  /\ UNCHANGED <<scheduleVars, displayVars, G_setup_key_input, next_item, edit, key_pressed>>

(* The item begins with the minute of the time under the cursor.            *)
SetupOpens ==
  /\ setupPc = "locking" /\ G_display_lock = "nobody"
  /\ G_display_lock' = "setup"
  /\ setupPc' = "reading"
  /\ edit' = CASE Item.type = "curr_time" ->
                    [hour |-> G_tm.hour, minute |-> G_tm.minute, cursor |-> 1, saved |-> G_tm]
               [] Item.type = "alarm_time" ->
                    [NoEdit EXCEPT !.hour = G_alarms[OfAlarm].hour,
                                   !.minute = G_alarms[OfAlarm].minute, !.cursor = 1]
               [] OTHER -> NoEdit
  /\ UNCHANGED <<scheduleVars, G_global_mode, G_display_mode_lower_row,
                 G_setup_key_input, next_item, key_pressed>>

ReadsKey(key) ==
  /\ setupPc = "reading" /\ G_setup_key_input # <<>>
  /\ key = Head(G_setup_key_input)
  /\ G_setup_key_input' = Tail(G_setup_key_input)

(* Volume keys change the field under the cursor, tuning keys move it.  The  *)
(* three fields of the date, edited alike, are left alone here.              *)
TimeEdited(e, key) ==
  LET moved == [e EXCEPT !.cursor = CursorMoved(@, 2, key)]
  IN  IF e.cursor = 0 THEN [moved EXCEPT !.hour = Stepped(@, 0, Hours - 1, key)]
                      ELSE [moved EXCEPT !.minute = Stepped(@, 0, Minutes - 1, key)]

SetupEditsTime ==
  \E key \in SetupKeys \ LeavingKeys :
    /\ ReadsKey(key)
    /\ Item.type \in {"curr_time", "alarm_time"}
    /\ edit' = TimeEdited(edit, key)
    /\ UNCHANGED <<scheduleVars, displayVars, setupPc, next_item, key_pressed>>

(* In place: whoever reads the alarm sees every step of the editing.        *)
SetAlarm(i, alarm) ==
  /\ G_alarms' = [G_alarms EXCEPT ![i] = alarm]
  /\ touched' = [touched EXCEPT ![i] = TRUE]
  /\ UNCHANGED <<now, G_tm, G_player_mode, clockPc, clockAlarm, rang, rangOn, looked>>

ValueEdited(alarm, item, cursor, key) ==
  CASE item.var = "days"   -> [alarm EXCEPT !.days = DayToggled(@, cursor, key)]
    [] item.var = "type"   -> [alarm EXCEPT !.type = Stepped(@, item.min, item.max, key)]
    [] item.var = "active" -> [alarm EXCEPT !.active = Toggled(@, key)]
    [] OTHER -> alarm

SetupEditsInPlace ==
  \E key \in SetupKeys \ LeavingKeys :
    /\ ReadsKey(key)
    /\ Item.type \in {"weekdays", "uint", "bool", "string"}
    /\ edit' = IF Item.type = "weekdays"
                 THEN [edit EXCEPT !.cursor = CursorMoved(@, WeekLength, key)] ELSE edit
    /\ LET edited == ValueEdited(G_alarms[OfAlarm], Item, edit'.cursor, key)
       IN  IF edited # G_alarms[OfAlarm] THEN SetAlarm(OfAlarm, edited)
                                         ELSE UNCHANGED scheduleVars
    /\ UNCHANGED <<displayVars, setupPc, next_item, key_pressed>>

(* A script or the saving of the configuration, display locked meanwhile.   *)
SetupExecutes ==
  \E key \in SetupKeys \ LeavingKeys :
    /\ ReadsKey(key)
    /\ Item.type = "exec"
    /\ setupPc' = IF key = "VOL_UP" THEN "executing" ELSE setupPc
    /\ UNCHANGED <<scheduleVars, displayVars, next_item, edit, key_pressed>>

SetupExecuted ==
  /\ setupPc = "executing"
  /\ setupPc' = "reading"
  /\ UNCHANGED <<scheduleVars, displayVars, G_setup_key_input, next_item, edit, key_pressed>>

-----------------------------------------------------------------------------
(* The item is left.  An edited time is stored: minute, hour, and the mark    *)
(* that the alarm has not gone off today, one after the other.  A time edited *)
(* back to what it was is not stored.                                       *)
TimeChanged ==
  /\ Item.type = "alarm_time"
  /\ \/ edit.minute # G_alarms[OfAlarm].minute
     \/ edit.hour # G_alarms[OfAlarm].hour

SetupLeaves ==
  \E key \in LeavingKeys :
    /\ ReadsKey(key)
    /\ key_pressed' = key
    /\ Item.type # "curr_time"
    /\ IF TimeChanged
         THEN /\ SetAlarm(OfAlarm, [G_alarms[OfAlarm] EXCEPT !.minute = edit.minute])
              /\ setupPc' = "storeHour"
         ELSE /\ setupPc' = "closing"
              /\ UNCHANGED scheduleVars
    /\ UNCHANGED <<displayVars, next_item, edit>>

SetupStoresHour ==
  /\ setupPc = "storeHour"
  /\ SetAlarm(OfAlarm, [G_alarms[OfAlarm] EXCEPT !.hour = edit.hour])
  /\ setupPc' = "storeFlag"
  /\ UNCHANGED <<displayVars, G_setup_key_input, next_item, edit, key_pressed>>

(* Wrong: the alarm that has gone off today stays done.                     *)
StoresNoFlag ==
  /\ setupPc = "storeFlag"
  /\ rangOn' = [rangOn EXCEPT ![OfAlarm] = 0]
  /\ setupPc' = "closing"
  /\ UNCHANGED <<now, G_tm, G_alarms, G_player_mode, clockPc, clockAlarm, rang, touched, looked,
                 displayVars, G_setup_key_input, next_item, edit, key_pressed>>

SetupStoresFlag ==
  /\ setupPc = "storeFlag"
  /\ G_alarms' = [G_alarms EXCEPT ![OfAlarm].triggered_today = 0]
  /\ rangOn' = [rangOn EXCEPT ![OfAlarm] = 0]
  /\ setupPc' = "closing"
  /\ UNCHANGED <<now, G_tm, G_player_mode, clockPc, clockAlarm, rang, touched, looked,
                 displayVars, G_setup_key_input, next_item, edit, key_pressed>>

(* The clock of the system is set, if the time was edited.  What was edited  *)
(* is the time of the clock thread's last look before the item was opened.    *)
SetupLeavesClock ==
  \E key \in LeavingKeys :
    /\ ReadsKey(key)
    /\ key_pressed' = key
    /\ Item.type = "curr_time"
    /\ setupPc' = "closing"
    /\ IF TimeEntered # edit.saved
         THEN /\ now' = TimeEntered
              /\ rang' = [i \in AlarmIds |-> 0]
              /\ touched' = [i \in AlarmIds |-> TRUE]
              /\ looked' = FALSE
              /\ UNCHANGED <<G_tm, G_alarms, G_player_mode, clockPc, clockAlarm, rangOn>>
         ELSE UNCHANGED scheduleVars
    /\ UNCHANGED <<displayVars, next_item, edit>>

SetupCloses ==
  /\ setupPc = "closing"
  /\ G_display_lock' = "nobody"
  /\ setupPc' = "between"
  /\ next_item' = CASE key_pressed = "TUNING_UP_LONG"   -> NextItem(Menu, next_item)
                    [] key_pressed = "TUNING_DOWN_LONG" -> PrevItem(Menu, next_item)
                    [] OTHER -> next_item
  /\ edit' = NoEdit /\ key_pressed' = "none"
  /\ UNCHANGED <<scheduleVars, G_global_mode, G_display_mode_lower_row,
                 G_setup_key_input>>

SetupStep ==
  \/ SetupNoticesMode \/ SetupGoesOn \/ SetupOpens
  \/ SetupEditsTime \/ SetupEditsInPlace \/ SetupExecutes \/ SetupExecuted
  \/ SetupLeaves \/ SetupStoresHour \/ SetupStoresFlag \/ SetupLeavesClock \/ SetupCloses
=============================================================================
