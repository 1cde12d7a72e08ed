---------------------------- MODULE ClockThread ----------------------------
(***************************************************************************)
(* What PL_clock_thread (clock/plclock.c) does to the rest of the device in  *)
(* one pass of its loop: tells the hour, counts the sleep timer, and sets    *)
(* off the alarms that are due.  Each part reads the globals afresh, so each *)
(* is an action; which alarms are due at what time is AlarmSchedule's.       *)
(***************************************************************************)
EXTENDS IrisGlobals

CONSTANTS
  TellTime,    \* G_config.tell_time_when_on: "silent", "when_on" or "always"
  AlarmTypes   \* the kinds of alarm that are set: subset of {"stream", "rss", "sound"}

ASSUME ClockAssumption ==
  /\ TellTime \in {"silent", "when_on", "always"}
  /\ AlarmTypes \subseteq {"stream", "rss", "sound"}

VARIABLE
  (* History: *)
  timerTicks   \* ticks of a sleep timer that is on since the user last touched it

ClockTypeOK == timerTicks \in 0 .. SleepLimit

ClockInit == timerTicks = 0

ClockTellsHour ==
  /\ \/ TellTime = "when_on" /\ G_player_mode = PLAYER_STREAM
     \/ TellTime = "always"
  /\ G_TTS_state = TTS_STOPPED
  /\ SendTts(TTS_SAY_CURRENT_TIME)
  /\ UNCHANGED <<bassVars, modeVars, G_wakeup, wake, G_stream_index, G_global_mode,
                 G_snooze_state, sleepVars, G_TTS_state, timerTicks>>

(* Wrong: no tick is counted during setup.                                  *)
CountsOutsideSetup ==
  LET counted == IF G_sleep_timer_active /\ G_global_mode = "normal"
                   THEN G_sleep_timer_counter + 1 ELSE G_sleep_timer_counter
  IN  /\ IF counted = SleepLimit /\ G_global_mode # "setup"
           THEN /\ G_player_mode' = PLAYER_STOP
                /\ G_sleep_timer_active' = FALSE
                /\ G_sleep_timer_counter' = 0
                /\ wake' = "no"
           ELSE /\ G_sleep_timer_counter' = counted
                /\ UNCHANGED <<G_player_mode, G_sleep_timer_active, wake>>
      /\ UNCHANGED <<bassVars, askedBy, G_wakeup, G_stream_index, G_global_mode,
                     G_snooze_state, ttsVars, timerTicks>>

(* The timer fires when the count equals the limit, not when it is past it. *)
(* Counts past the limit are all the same here.                            *)
ClockCountsSleep ==
  LET counted == IF G_sleep_timer_active /\ G_sleep_timer_counter <= SleepLimit
                   THEN G_sleep_timer_counter + 1 ELSE G_sleep_timer_counter
  IN  /\ IF counted = SleepLimit /\ G_global_mode # "setup"
           THEN /\ G_player_mode' = PLAYER_STOP
                /\ G_sleep_timer_active' = FALSE
                /\ G_sleep_timer_counter' = 0
                /\ wake' = "no"
           ELSE /\ G_sleep_timer_counter' = counted
                /\ UNCHANGED <<G_player_mode, G_sleep_timer_active, wake>>
      /\ timerTicks' = IF G_sleep_timer_active /\ timerTicks < SleepLimit
                         THEN timerTicks + 1 ELSE timerTicks
      /\ UNCHANGED <<bassVars, askedBy, G_wakeup, G_stream_index, G_global_mode,
                     G_snooze_state, ttsVars>>

(* An alarm is due.  G_wakeup is set whatever the device is doing.          *)
ClockAlarm(type) ==
  /\ type \in AlarmTypes
  /\ G_wakeup' = 1
  /\ askedBy' = "alarm"
  /\ IF G_player_mode = PLAYER_STOP
       THEN /\ G_player_mode' = IF type = "sound" THEN ALARM_ACTIVE ELSE PLAYER_STREAM
            /\ wake' = "due"
            /\ IF type = "rss" /\ G_TTS_state = TTS_STOPPED
                 THEN SendTts(TTS_READ_RSS_NOW)
                 ELSE UNCHANGED G_TTS_thread_input
       ELSE UNCHANGED <<G_player_mode, wake, G_TTS_thread_input>>
  /\ UNCHANGED <<bassVars, G_stream_index, G_global_mode, G_snooze_state, sleepVars,
                 G_TTS_state, timerTicks>>

ClockStep == ClockTellsHour \/ ClockCountsSleep \/ \E type \in AlarmTypes : ClockAlarm(type)
=============================================================================
