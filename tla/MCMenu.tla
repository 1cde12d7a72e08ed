------------------------------- MODULE MCMenu -------------------------------
(* A year of a few short days, and two alarms, for the runs of the menu.    *)
EXTENDS MenuSystem

MCYearDays == <<364, 0>>
MCAlarm(minute, type, active) ==
  [hour |-> 0, minute |-> minute, days |-> {0, 1}, type |-> type, active |-> active,
   triggered_today |-> 0]
MCFirstAlarms == {<<MCAlarm(1, 0, TRUE), MCAlarm(1, 2, FALSE)>>}
=============================================================================
